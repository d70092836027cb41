SPECIFICATION Spec
CONSTANTS
  Path <- Paths
  Lists <- Few
  Chunk = {"t", "bin"}
  Binary = "bin"
  Disks <- AllDisks
  MaxData = 2
  MaxLinks = 6
  MaxSteps = 2
  NoPath = NoPath
INVARIANT TypeOK
PROPERTY MovesWhole
PROPERTY OnlyOperands
PROPERTY SuccessMeansDone
VIEW View
CHECK_DEADLOCK FALSE
