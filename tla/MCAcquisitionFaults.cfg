CONSTANTS
  TotalBlocks = 5
  Damaged = {3}
  Flaky = {1}
  Physical = Physical
  Profiles <- MCProfiles
  Config <- MCConfig
  Default <- MCDefault
  CountRange = 100
  Faults = {"crash", "io", "db", "rot"}
  MaxRuns = 3
  None = None
  Hole = Hole
  Mark = Mark
  Rot = Rot
SPECIFICATION FairSpec
INVARIANT TypeOK
INVARIANT LossBound
INVARIANT CompletedImageFaithful
INVARIANT CompletedRowMatchesFile
PROPERTY CheckpointMonotone
PROPERTY EngineReturns
CHECK_DEADLOCK FALSE
