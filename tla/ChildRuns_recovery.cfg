SPECIFICATION Spec
CONSTANTS
  a = a
  b = b
  c = c
  p = p
  q = q
  k = k
  NoKey = NoKey
  Handles = {a}
  Paths = {p, q}
  Overlaps <- Nested
  Owned <- NoOwned
  Isolated = {a}
  Recovered = {a}
  Foreground = {}
  General = {}
  Verifying = {}
  Keys = {}
  KeyOf <- NoKeys
  Limit = 1
  MaxBuilds = 1
  MaxAttempts = 2
  MaxRestarts = 2
  EagerInput = FALSE
  ConcurrentResume = TRUE
INVARIANTS GoneMeansGone
PROPERTIES DirtyTreeKept
CHECK_DEADLOCK FALSE
