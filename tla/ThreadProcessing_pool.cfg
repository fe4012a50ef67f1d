CONSTANTS
  Queries = {q1}
  Candidates = {t1}
  Strangers = {}
  Workers = {w1}
  Contents = {c1}
  Faults = {"pool"}
SPECIFICATION Spec
INVARIANT CandidatesAreAccountedFor
CHECK_DEADLOCK FALSE
