SPECIFICATION Spec
CONSTANTS
  DirectPointers = 2
  Files <- MCFiles
  FileLen <- MCFileLen
  Total = 5
  FastWindow = 2
  FullWindow = 4
  MaxObject = 4
  MaxPieces = 4
  Radius = 3
  EmpiricalGaps <- MCEmpiricalGaps
  TextGrowth = 1
  Scenarios <- MCScenarios
  PassCounts = {0, 2}
  Options <- MCOptions
INVARIANT TypeOK
INVARIANT LiveFilesAreRecovered
INVARIANT ConfirmedBlocksAreFree
INVARIANT TiersKeepApart
INVARIANT IntactFilesAreCarved
INVARIANT ErasedIsGone
CHECK_DEADLOCK FALSE
