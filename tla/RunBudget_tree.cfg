SPECIFICATION Spec
CONSTANTS
  root = root
  kid = kid
  NoLimit = NoLimit
  Agents = {root, kid}
  SessionScoped = {kid}
  Own <- TwoThree
  Shared <- SharedAll
  MaxDrift = 1
  MaxClock = 3
  MaxUse = 4
INVARIANTS TypeOK AggregateCeiling RunCeiling AggregateIsExact
CHECK_DEADLOCK FALSE
