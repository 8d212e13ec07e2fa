SPECIFICATION FairSpec
CONSTANTS
  u = u
  v = v
  c = c
  Users = {u, v}
  Customs = {c}
  None = None
  OneAtATime = TRUE
  RepeatLimit = 2
  MaxCalls = 2
  MaxEvents = 4
  MaxRetries = 1
INVARIANTS TypeOK TranscriptIsValid InOnePlace DisplayIsTrue OneQueuedPerTurn OverflowRetriedOnce RequestHasInput AbortHolds
PROPERTIES RunSettles QueuedIsDelivered
CHECK_DEADLOCK FALSE
