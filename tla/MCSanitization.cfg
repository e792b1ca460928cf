CONSTANTS
  Total = 5
  Chunk = 2
  Window = 2
  MinSample = 2
  MaxSample = 3
  Samples = {0, 7}
  Bad = {3}
  Flaky = {2}
  Targets <- MCTargets
  MaxPasses = 3
  Faults = {"write", "command", "firmware", "disconnect"}
SPECIFICATION FairSpec
INVARIANT TypeOK
INVARIANT OverwriteIsComplete
INVARIANT ResidueIsFound
INVARIANT SampleBoundsResidue
INVARIANT AdviceForetellsCertificate
PROPERTY RunEnds
CHECK_DEADLOCK FALSE
