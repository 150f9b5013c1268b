\* The module of a file in the same place.
SPECIFICATION TableSpec
CONSTANTS
  AddrMax = 7
  Mmaps <- MCMmaps
  ModuleSize <- MCModuleSize
  Samples <- MCSamples
  Unloadable = {"b"}
INVARIANT ReturnsModuleOfMapping
