SPECIFICATION Spec
SYMMETRY Interchangeable
CONSTANTS
  a = a
  b = b
  x = x
  y = y
  lin = lin
  mac = mac
  d1 = d1
  d2 = d2
  None = None
  Procs = {a, b}
  Foreign = {}
  Cmds = {x}
  Hosts = {lin}
  Linux = {lin}
  Pids = {d1, d2}
  MaxBoots = 0
INVARIANT NoCommandOutlives
CHECK_DEADLOCK FALSE
