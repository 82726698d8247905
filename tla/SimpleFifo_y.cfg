\* The prompt of simple_fifo_copy.c:66 for a writer that finds a FIFO; violated.
CONSTANTS
  Receiver = {r1}
  Sender = {w1, w2}
  Bytes = 1
  Capacity = 1
  MaxLost = 0
SPECIFICATION SimpleFairSpec
PROPERTY YGetsIn
CHECK_DEADLOCK FALSE
