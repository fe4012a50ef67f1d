CONSTANTS
  q1 = q1
  q2 = q2
  q3 = q3
  Attempts = {a1, a2}
  Queries = {q1, q2}
  Prefixes <- Distinct
  Contents = {c1}
  Crashes = FALSE
SPECIFICATION Spec
INVARIANT RetainedIsBundled
CHECK_DEADLOCK FALSE
