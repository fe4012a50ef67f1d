CONSTANTS
  q1 = q1
  q2 = q2
  q3 = q3
  Attempts = {a1, a2}
  Queries = {q1, q2, q3}
  Prefixes <- Colliding
  Contents = {c1, c2}
  Crashes = TRUE
SYMMETRY Symmetry
SPECIFICATION Spec
INVARIANTS
  TypeOK
  OwnEvidence
  LostOnlyToOverlap
  NothingLeftBehind
CHECK_DEADLOCK FALSE
