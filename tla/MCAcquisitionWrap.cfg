CONSTANTS
  TotalBlocks = 5
  Damaged = {3}
  Flaky = {1}
  Physical = Physical
  Profiles <- MCProfiles
  Config <- MCConfig
  Default <- MCDefault
  CountRange = 4
  Faults = {}
  MaxRuns = 1
  None = None
  Hole = Hole
  Mark = Mark
  Rot = Rot
SPECIFICATION FairSpec
PROPERTY EngineReturns
CHECK_DEADLOCK FALSE
