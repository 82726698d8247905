\* Two pages of 2 cells and messages of 3: they wrap, fill the buffer exactly,
\* are flushed in parts, and have to wait for space.
CONSTANTS
  Writer = {w1, w2}
  Size = 4
  PageSize = 2
  Length = {3}
  Messages = 2
  FlushEvery = 2
SPECIFICATION FairSpec
INVARIANTS IInv CopyStaysInside LogIsRight
PROPERTIES OverwriteOnlyFromFalseState WritersFinishOrFalseEmpty DestructReturns
