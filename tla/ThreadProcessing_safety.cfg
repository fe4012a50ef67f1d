CONSTANTS
  Queries = {q1}
  Candidates = {t1, t2}
  Strangers = {s1}
  Workers = {w1, w2}
  Contents = {c1}
  Faults = {"crash", "lease", "pool", "refusal", "timeout", "reaper"}
SYMMETRY Symmetry
SPECIFICATION Spec
INVARIANTS
  TypeOK
  AnnouncedIsComplete
PROPERTIES
  KeepsTheStage
CHECK_DEADLOCK FALSE
