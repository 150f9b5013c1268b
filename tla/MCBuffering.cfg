\* Attributes, options and the choice between the ways of buffering.
SPECIFICATION Spec
CONSTANTS
  Recordings <- MCFewOnly
  Inputs <- MCAll
  Attributes <- MCAttributes
  EventDescs <- MCDescs
  FileAttributes <- MCFile
  PipeAttributes <- MCAttributes
  Pids = {0, 1, 2}
  KernelPid = 0
  Payloads = {0, 1, 2, 7}
  DefaultId = 0
  TaskEventSize = 2
  TargetOptions = {0, 1, 3, 20, 32}
  MaxOptions = {0, 1, 3, 8, 32}
  MaxRounds = 2
  UIntMax = 63
  InitialTarget = 8
  InitialLast = 4
  InitialMax = 32
  KiloByte = 2

INVARIANT MaxRespected
INVARIANT TracePointsBufferDynamically
