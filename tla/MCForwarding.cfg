\* What is forwarded, in which order, and what the samples see.
SPECIFICATION Spec
CONSTANTS
  Recordings <- MCRecordings
  Inputs <- MCPipe
  Attributes <- MCAttributes
  EventDescs <- MCNoDescs
  FileAttributes <- MCNoFile
  PipeAttributes <- MCNone
  Pids = {0, 1, 2}
  KernelPid = 0
  Payloads = {0, 1, 2, 7}
  DefaultId = 0
  TaskEventSize = 2
  TargetOptions = {0, 3}
  MaxOptions = {8}
  MaxRounds = 1
  UIntMax = 63
  InitialTarget = 8
  InitialLast = 4
  InitialMax = 32
  KiloByte = 2
INVARIANT TypeOK
INVARIANT SamplesInOrder
INVARIANT NothingLostOrRepeated
INVARIANT EqualTimesKeepArrivalOrder
INVARIANT SizeAccounting
INVARIANT AnalysisMatchesTimeline
INVARIANT FinalFlushIsComplete
PROPERTY NothingEarlierLeftBehind
PROPERTY ForkSnapshot
PROPERTY NoSmallerAfterViolation
PROPERTY FlushTerminates
