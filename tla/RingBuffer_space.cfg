\* The comment of RingBuffer.c:520 on the space a writer has found; violated.
CONSTANTS
  Writer = {w1, w2}
  Size = 4
  PageSize = 2
  Length = {3}
  Messages = 2
  FlushEvery = 2
SPECIFICATION Spec
INVARIANT EnoughSpace
