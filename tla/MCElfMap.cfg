\* The ELF map implements an address space.
SPECIFICATION Spec
CONSTANTS
  AddrMax = 9
  Mmaps <- MCMmaps
  ModuleSize <- MCModuleSize
INVARIANT TypeOK
INVARIANT MappingsDisjoint
INVARIANT EarlyReturnOverwritesNothing
INVARIANT FindsMapping
PROPERTY ImplementsAddressSpace
