SPECIFICATION Spec
CONSTANTS
  Kinds = {"user", "asst", "compaction", "label", "omit"}
  MaxIds = 4
  MaxOthers = 2
  MaxFiles = 3
  MaxFaults = 1
  MaxMoves = 1
INVARIANTS TypeOK
PROPERTIES Promise SavedIsNeverLost ExtractionKeepsContext
CHECK_DEADLOCK FALSE
