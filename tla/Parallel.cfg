\* Five ranks take turns over a semaphore, in a system where it may exist already,
\* and seven children over a queue, when a fork may fail; four ranks pass a message;
\* five sort as many numbers, when four were asked for; three threads solve for the
\* seven inner points of a grid.  The lock of the ring buffer: two threads that read,
\* one of which also writes, and another writer.
CONSTANTS
  m_rank = 5
  n = 7
  last_rank = 3
  size = 5
  Asked = 4
  Values = {1, 2}
  R = 3
  Threads = {0, 1, 2}
  P = 7
  K = 2
  Exp <- MCExp
  Eps = 4
  Edges = {0, 1, 3}
  Junk = {1, 5}
  ReadLocker = {r1, r2}
  WriteLocker = {r1, w1}
SPECIFICATION MCSpec
INVARIANTS IInv MsgIInv SortInv LockInv
PROPERTIES ImplementsTurns MsgTakesTurns SemEnds MsgEnds MpiTakesTurns SortEnds SweepSolves
  ImplementsRWLock WaitersServed
