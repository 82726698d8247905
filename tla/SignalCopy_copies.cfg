\* A lost wakeup: the parent never sees a count of 8; violated.
CONSTANTS
  Bits = 2
  File <- MCFile
  Prompt = TRUE
  MaxDeaths = 0
SPECIFICATION SignalSpec
INVARIANT CopiesFile
CHECK_DEADLOCK FALSE
