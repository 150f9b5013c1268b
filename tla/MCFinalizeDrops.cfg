\* Samples that finalize() drops.
SPECIFICATION Spec
CONSTANTS
  Recordings <- MCOrderOnly
  Inputs <- MCPipe
  Attributes <- MCAttributes
  EventDescs <- MCNoDescs
  FileAttributes <- MCNoFile
  PipeAttributes <- MCNone
  Pids = {0, 1, 2}
  KernelPid = 0
  Payloads = {0, 1, 2, 7}
  DefaultId = 0
  TaskEventSize = 2
  TargetOptions = {0}
  MaxOptions = {8}
  MaxRounds = 2
  UIntMax = 63
  InitialTarget = 8
  InitialLast = 4
  InitialMax = 32
  KiloByte = 2
INVARIANT FinalizeAnalyzesAllSamples
