SPECIFICATION FairSpec
CONSTANTS
  a = a
  b = b
  c = c
  p = p
  q = q
  k = k
  NoKey = NoKey
  Handles = {a}
  Paths = {p, q}
  Overlaps <- Nested
  Owned <- SharedOwned
  Isolated = {a}
  Recovered = {}
  Foreground = {a}
  General = {a}
  Verifying = {a}
  Keys = {}
  KeyOf <- NoKeys
  Limit = 1
  MaxBuilds = 1
  MaxAttempts = 2
  MaxRestarts = 1
  EagerInput = FALSE
  ConcurrentResume = FALSE
PROPERTIES SlotsDrain ForegroundReturns CleanupEnds
CHECK_DEADLOCK FALSE
