\* A class that is defined outside of the one that declares it.
SPECIFICATION Spec
CONSTANTS
  Worlds <- NestedWorlds
  MaxSamples = 2
INVARIANT CachedNamesAreFull
CHECK_DEADLOCK FALSE
