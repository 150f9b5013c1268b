\* Locations that were cached for what a mapping overwrote.
SPECIFICATION TableSpec
CONSTANTS
  AddrMax = 7
  Mmaps <- StaleMmaps
  ModuleSize <- StaleModuleSize
  Samples <- StaleSamples
  Unloadable = {}
INVARIANT FramesAreFresh
