SPECIFICATION Spec
CONSTANTS
  u = u
  v = v
  c = c
  Users = {u, v}
  Customs = {}
  None = None
  OneAtATime = TRUE
  RepeatLimit = 2
  MaxCalls = 2
  MaxEvents = 5
  MaxRetries = 1
INVARIANTS ContinueIsPossible
CHECK_DEADLOCK FALSE
