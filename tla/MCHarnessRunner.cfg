CONSTANTS
  Batch <- MCBatch
  Paths <- MCPaths
  ResetPaths <- MCResetPaths
  Ids <- MCIds
  MaxLimit = 3

SPECIFICATION Spec
INVARIANTS
  HookNeverDangles
  ResultsAccount
  PassedIsRecorded
  NoArtifactLeaks
PROPERTIES
  NoPassOnStaleArtifact
