CONSTANTS
  Planned = {q1, q2}
  Unplanned = {u1}
  Overlong = {o1}
  Workers = {w1, w2}
  Contents = {c1}
  Statuses = {"success", "failed"}
  Faulty = FALSE
SPECIFICATION Spec
INVARIANTS
  SoleAttempt
PROPERTIES
  RunningEnds
  AcceptedIsAnswered
  CompletionIsAnnounced
