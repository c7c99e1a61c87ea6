CONSTANTS
  Batch <- MCBenchmark
  Paths <- MCPaths
  ResetPaths <- MCResetPaths
  Ids <- MCIds
  MaxLimit = 3

SPECIFICATION Spec
PROPERTY
  RunHasTrajectory
