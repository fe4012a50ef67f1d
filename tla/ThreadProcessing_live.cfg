CONSTANTS
  Queries = {q1, q2}
  Candidates = {t1, t2}
  Strangers = {}
  Workers = {w1}
  Contents = {c1}
  Faults = {}
SPECIFICATION FairSpec
INVARIANTS
  CandidatesAreAccountedFor
  SomeoneWillTell
PROPERTIES
  CandidatesAreFetched
  StageIsAnnounced
CHECK_DEADLOCK FALSE
