SPECIFICATION Spec
CONSTANTS
  Path <- Paths
  Lists <- Few
  Chunk = {"t", "bin"}
  Binary = "bin"
  Disks <- AllDisks
  MaxData = 2
  MaxLinks = 6
  MaxSteps = 2
  NoPath = NoPath
PROPERTY SourcesSurvive
VIEW View
CHECK_DEADLOCK FALSE
