SPECIFICATION Spec
CONSTANTS
  a = a
  b = b
  c = c
  p = p
  q = q
  k = k
  NoKey = NoKey
  Handles = {a}
  Paths = {p, q}
  Overlaps <- Nested
  Owned <- NoOwned
  Isolated = {}
  Recovered = {}
  Foreground = {}
  General = {}
  Verifying = {}
  Keys = {}
  KeyOf <- NoKeys
  Limit = 1
  MaxBuilds = 1
  MaxAttempts = 1
  MaxRestarts = 0
  EagerInput = TRUE
  ConcurrentResume = FALSE
INVARIANTS ActiveLaunchHoldsSlot
CHECK_DEADLOCK FALSE
