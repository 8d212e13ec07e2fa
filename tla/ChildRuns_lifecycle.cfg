SPECIFICATION Spec
CONSTANTS
  a = a
  b = b
  c = c
  p = p
  q = q
  k = k
  NoKey = NoKey
  Handles = {a}
  Paths = {p, q}
  Overlaps <- Nested
  Owned <- NoOwned
  Isolated = {}
  Recovered = {}
  Foreground = {a}
  General = {a}
  Verifying = {a}
  Keys = {k}
  KeyOf <- KeyedA
  Limit = 1
  MaxBuilds = 1
  MaxAttempts = 3
  MaxRestarts = 2
  EagerInput = TRUE
  ConcurrentResume = FALSE
INVARIANTS TypeOK RunningRecordIsLive OnlyLastAttemptOpen SuccessIsVerified
PROPERTIES ClosedIsFinal EndedAttemptsAreFinal KeysSurvive
CHECK_DEADLOCK FALSE
