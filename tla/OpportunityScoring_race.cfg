CONSTANTS
  Versions = {v1, v2}
  Undated = {}
  Workers = {w1, w2}
  MaxSpend = 2
  FaultModes = {FALSE}
SPECIFICATION Spec
INVARIANT AlreadyDoneIsAnalysed
