\* Call chains, branches and copied stacks, with tables that become dirty at any time.
SPECIFICATION Spec
CONSTANTS
  Samples <- MCSamples
  ContextMax = 90
  HV = 91
  KERNEL = 92
  USER = 93
  Kernel = {80, 81, 82, 83}
  Veneers = {5}
  MaxAddress = 89
  MaxFrames = 4
  FileData <- MCFileData
  Cfi <- MCCfi
INVARIANT GuessesAreFrames
INVARIANT FramesFollowSample
 
