SPECIFICATION FairSpec
CONSTANTS
  u = u
  v = v
  c = c
  Users = {u, v}
  Customs = {}
  None = None
  OneAtATime = TRUE
  RepeatLimit = 2
  MaxCalls = 2
  MaxEvents = 3
  MaxRetries = 1
PROPERTIES BudgetEndsRun
CHECK_DEADLOCK FALSE
