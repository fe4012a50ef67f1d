CONSTANTS
  Versions = {v1, v2, u1}
  Undated = {u1}
  Workers = {w1, w2}
  MaxSpend = 2
  FaultModes = {TRUE, FALSE}
SPECIFICATION FairSpec
INVARIANTS
  TypeOK
  SpendIsNeeded
PROPERTIES
  ScoresEachOnce
  OpportunityAppears
