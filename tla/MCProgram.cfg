\* A program that may stop: a stream that nobody sends or closes, or the end.
SPECIFICATION Spec
CONSTANTS
  Inputs <- MCInputs
  HeadLen = 2
  PipeHeader = 2
  FileHeader = 4
  BufferChunk = 5
  Piece = 4
  MaxTries = 3
CHECK_DEADLOCK FALSE
INVARIANT RecordsInOrder
INVARIANT NothingHeldBack
 
PROPERTY ProgramEnds
PROPERTY ConnectsOrGivesUp
