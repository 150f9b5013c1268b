\* Lookups of samples between mappings.
SPECIFICATION TableSpec
CONSTANTS
  AddrMax = 7
  Mmaps <- MCMmaps
  ModuleSize <- MCModuleSize
  Samples <- MCSamples
  Unloadable = {"b"}
INVARIANT ModulesAreMapped
INVARIANT FramesAreInOrder
 
PROPERTY AnalysisEnds
