\* Buffers of 2 to 7 bytes, and inputs that fit in them or do not.
SPECIFICATION Spec
CONSTANTS
  MinBufferSize = 2
  MaxBufferSize = 7
  Sizes = {0, 1, 2, 5, 7, 11, 17}
  Lengths = {1, 3, 5, 9}
INVARIANT StdinTypeOK
INVARIANT ShortOnlyAtEnd
PROPERTY ImplementsByteStream
PROPERTY ClosesOrIsFull
CHECK_DEADLOCK FALSE
