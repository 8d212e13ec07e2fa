SPECIFICATION Spec
SYMMETRY Interchangeable
CONSTANTS
  a = a
  b = b
  x = x
  y = y
  lin = lin
  mac = mac
  d1 = d1
  d2 = d2
  None = None
  Procs = {a, b}
  Foreign = {}
  Cmds = {x, y}
  Hosts = {lin, mac}
  Linux = {lin}
  Pids = {d1, d2}
  MaxBoots = 1
INVARIANTS TypeOK LiveCommandIsRunning CheckStillHolds
PROPERTIES RecoveryMissesNone Promise
CHECK_DEADLOCK FALSE
