\* The logger: one high and one low thread, messages that need a retry now and
\* then.  The filter: three reports, a class driver with room for two.
CONSTANTS
  high = high
  low = low
  Writer <- MCWriter
  CallLevel <- MCCallLevel
  WorkLevel = 1
  Size = 4
  PageSize = 2
  Length = {1, 3}
  Messages = 2
  Source <- MCSource
  MaxY = 3
  Room = 2
SPECIFICATION MCSpec
INVARIANTS Inv MouseInv UpsideDown
PROPERTY LevelLostOnlyByRetry
