CONSTANTS
  TotalBlocks = 5
  Damaged = {3}
  Flaky = {1}
  Physical = Physical
  Profiles <- MCProfiles
  Config <- MCConfig
  Default <- MCDefault
  CountRange = 100
  Faults = {"crash"}
  MaxRuns = 2
  None = None
  Hole = Hole
  Mark = Mark
  Rot = Rot
SPECIFICATION Spec
INVARIANT CheckpointDescribesImage
CHECK_DEADLOCK FALSE
