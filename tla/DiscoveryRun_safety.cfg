CONSTANTS
  Planned = {q1, q2}
  Unplanned = {}
  Overlong = {}
  Workers = {w1, w2}
  Contents = {c1}
  Statuses <- ThreeClasses
  Faulty = TRUE
SYMMETRY Symmetry
SPECIFICATION Spec
INVARIANTS
  TypeOK
  OneObservationPerQuery
  ClosedOnTheRows
  OpenMeansUnanswered
  AuditIsTheHistory
  EvidenceBacked
  WireFollowsCommits
PROPERTIES
  KeepsLedger
