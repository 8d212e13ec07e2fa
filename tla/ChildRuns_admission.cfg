SPECIFICATION Spec
CONSTANTS
  a = a
  b = b
  c = c
  p = p
  q = q
  k = k
  NoKey = NoKey
  Handles = {a, b, c}
  Paths = {p, q}
  Overlaps <- Nested
  Owned <- SharedOwned
  Isolated = {}
  Recovered = {}
  Foreground = {}
  General = {}
  Verifying = {}
  Keys = {}
  KeyOf <- NoKeys
  Limit = 1
  MaxBuilds = 1
  MaxAttempts = 1
  MaxRestarts = 0
  EagerInput = FALSE
  ConcurrentResume = FALSE
INVARIANTS SlotsWithinLimit ClaimsDisjoint NoSlotLeaked UnsettledRunKeepsHolds WritersDisjoint
CHECK_DEADLOCK FALSE
