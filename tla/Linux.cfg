\* signal.c: answers within the 10 seconds of alarm, one process killed at most.
\* serv.c: three children, pipes of two slots, four pieces, two processes lost.
\* smart_fifo_copy.c: two pairs, naps of any length, one kill.
\* simple_fifo_copy.c: two pairs, a FIFO of one byte, one kill.
CONSTANTS
  Bits = 2
  File <- MCFile
  Prompt = TRUE
  MaxDeaths = 1
  n = 3
  Unit = 1
  PipeSize = 2
  Source <- MCSource
  MaxKills = 2
  Reader = {r1, r2}
  Writer = {w1, w2}
  Nobody = Nobody
  Pieces = 2
  OwnPipeSize = 1
  MaxKilled = 1
  Receiver = {r1, r2}
  Sender = {w1, w2}
  Bytes = 2
  Capacity = 1
  MaxLost = 1
SPECIFICATION MCSpec
INVARIANTS SignalInv ProxyInv SmartInv OutputsAreRight UndisturbedPairCopies StandingNameHasWriter
PROPERTIES SentAlone SignalEnds ProxyEnds NapsAreEnough
