\* One recording for each place that a name can come from.
SPECIFICATION Spec
CONSTANTS
  Worlds <- MCWorlds
  MaxSamples = 3
INVARIANT FrameTypeOK
INVARIANT EveryIdIsDefined
 
 
 
 
CHECK_DEADLOCK FALSE
