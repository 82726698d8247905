--------------------------- MODULE RingBufferProofs ---------------------------
(***************************************************************************)
(* Proofs about the ring buffer, for any finite set of writers, any page,  *)
(* any order and any lengths.                                              *)
(***************************************************************************)
EXTENDS RingBuffer, FiniteSetTheorems, TLAPS

(* What the proofs use of the constants. *)
LEMMA Sizes ==
  /\ PageSize \in Nat \ {0} /\ Size \in Nat \ {0}
  /\ IsFiniteSet(Writer) /\ Length \subseteq 1..Size
  /\ Messages \in Nat /\ FlushEvery \in Nat \ {0}
  BY SizeAssumption, WriterAssumption

USE Sizes

(* The free space never exceeds the buffer, and the gap up to the read pointer
   when the write pointer is below it. *)
LEMMA FreeSpace ==
  ASSUME TypeOK
  PROVE  /\ sizeFreeSpaceInRingBuf \in 0..Size
         /\ read_p > write_p => sizeFreeSpaceInRingBuf = read_p - write_p
  BY DEF TypeOK, BufferTypes, sizeFreeSpaceInRingBuf, Cell

(* The busy space, likewise. *)
LEMMA BusySpace ==
  ASSUME TypeOK
  PROVE  /\ sizeBusySpaceInRingBuf \in 0..Size
         /\ write_p > read_p => sizeBusySpaceInRingBuf <= write_p - read_p
  BY DEF TypeOK, BufferTypes, sizeBusySpaceInRingBuf, Cell

(* The places of a message that fits are cells. *)
LEMMA PlaceInside ==
  ASSUME NEW r \in Cell, NEW w \in Cell, NEW len \in 0..Size, r > w => len <= r - w,
         NEW b \in 0..len - 1
  PROVE  Place(r, w, b) \in Cell
  BY DEF Place, Cell

LEMMA PlacesInside ==
  ASSUME NEW r \in Cell, NEW w \in Cell, NEW len \in 0..Size, r > w => len <= r - w
  PROVE  Places(r, w, len) \subseteq Cell
  BY PlaceInside DEF Places

(* The cells a flush takes are cells of the buffer. *)
LEMMA TakenInside ==
  ASSUME TypeOK, fw > fr => num <= fw - fr, NEW b \in 1..num
  PROVE  Taken[b] \in Cell
  BY DEF TypeOK, FlusherTypes, Taken, Cell

(* A pointer advanced modulo the size is a cell. *)
LEMMA ModCell ==
  ASSUME NEW x \in Nat
  PROVE  x % Size \in Cell
  BY DEF Cell

LEMMA InitInv == Init => IInv
  <1> SUFFICES ASSUME Init PROVE IInv
    OBVIOUS
  <1>1. Copying = {}
    BY DEF Init, Copying
  <1>b. 0 \in Cell /\ 0 \in 0..Messages /\ 0 \in 0..Size
    BY DEF Cell
  <1>2. BufferTypes
    BY <1>b DEF Init, BufferTypes
  <1>c. WriterTypes
    BY <1>b DEF Init, WriterTypes
  <1>d. FlusherTypes
    BY <1>b DEF Init, FlusherTypes, Event
  <1>e. buf \in [Cell -> Content]
    BY DEF Init, Content
  <1>f. <<>> \in Seq(Content) /\ <<>> \in Seq(Byte) /\ {} \in SUBSET Cell
    OBVIOUS
  <1>a. DataTypes
    BY <1>e, <1>f DEF Init, DataTypes
  <1>3. LocalsFit /\ FlushLockMirrorsWriters
    BY <1>1, FS_EmptySet DEF Init, LocalsFit, FlushLockMirrorsWriters
  <1> QED
    BY <1>2, <1>3, <1>a, <1>c, <1>d DEF IInv, TypeOK

(* A step of a writer that keeps its place in or out of the copy keeps the set
   of copying writers; Reserve adds one, Leave removes one. *)
LEMMA CountCopying ==
  ASSUME TypeOK
  PROVE  /\ IsFiniteSet(Copying)
         /\ Cardinality(Copying) \in Nat
         /\ Cardinality(Copying) = 0 <=> Copying = {}
         /\ \A w : w \notin Copying => Cardinality(Copying \union {w}) = Cardinality(Copying) + 1
         /\ \A w \in Copying : Cardinality(Copying \ {w}) = Cardinality(Copying) - 1
  <1>1. IsFiniteSet(Copying)
    BY FS_Subset DEF Copying
  <1> QED
    BY <1>1, FS_CardinalityType, FS_EmptySet, FS_AddElement, FS_RemoveElement

(* Steps that touch neither the pointers nor the bytes. *)
Quiet(w) == CallWrite(w) \/ Finish(w) \/ AskFlush(w) \/ Wake(w)

FlushLook == StartTimer \/ (\E e \in Event : FlushWake(e)) \/ LookEmpty \/ WaitFlushLock

LEMMA QuietInv ==
  ASSUME IInv, NEW w \in Writer, Quiet(w)
  PROVE  IInv'
  <1> USE DEF IInv, TypeOK
  <1>1. BufferTypes'
    BY DEF BufferTypes, Quiet, CallWrite, Finish, AskFlush, Wake, rb
  <1>2. WriterTypes'
    BY DEF WriterTypes, Quiet, CallWrite, Finish, AskFlush, Wake
  <1>3. FlusherTypes'
    BY DEF FlusherTypes, Quiet, CallWrite, Finish, AskFlush, Wake, flusher
  <1>4. DataTypes'
    BY DEF DataTypes, Quiet, CallWrite, Finish, AskFlush, Wake, flusher, ghosts
  <1>5. LocalsFit'
    BY DEF LocalsFit, Copying, WriterTypes, Quiet, CallWrite, Finish, AskFlush, Wake, flusher
  <1>6. Copying' = Copying
    BY DEF Copying, WriterTypes, Quiet, CallWrite, Finish, AskFlush, Wake
  <1>7. FlushLockMirrorsWriters'
    BY <1>6 DEF FlushLockMirrorsWriters, Quiet, CallWrite, Finish, AskFlush, Wake, rb
  <1> QED
    BY <1>1, <1>2, <1>3, <1>4, <1>5, <1>7

LEMMA ReserveInv ==
  ASSUME IInv, NEW w \in Writer, Reserve(w)
  PROVE  IInv'
  <1> USE DEF IInv, TypeOK
  <1>1. /\ n[w] \in 0..Size /\ n[w] \in Length /\ i[w] < Messages /\ w \notin Copying
        /\ read_p > write_p => n[w] <= read_p - write_p
    BY FreeSpace DEF Reserve, LocalsFit, WriterTypes, Copying, BufferTypes, Cell
  <1>2. write_p' \in Cell
    <2>1. write_p + n[w] \in Nat
      BY <1>1 DEF BufferTypes, Cell
    <2> QED
      BY <2>1, ModCell DEF Reserve
  <1>3. BufferTypes'
    <2>1. state' \in {"EMPTY", "PART_FILL", "FULL"} /\ dwWriters' \in Nat /\ hFlushLock' = FALSE
      BY DEF BufferTypes, Reserve
    <2>2. UNCHANGED <<read_p, hExit, hFlushEvents, mpc>>
      BY DEF Reserve
    <2> QED
      BY <1>2, <2>1, <2>2 DEF BufferTypes
  <1>4. WriterTypes'
    BY DEF WriterTypes, Reserve, BufferTypes
  <1>5. FlusherTypes'
    BY DEF FlusherTypes, Reserve, flusher
  <1>6. DataTypes'
    <2>1. [b \in 1..n[w] |-> <<w, i[w], b - 1>>] \in Seq(Byte)
      <3>1. \A b \in 1..n[w] : <<w, i[w], b - 1>> \in Byte
        BY <1>1 DEF Byte, WriterTypes
      <3>2. n[w] \in Nat
        BY <1>1
      <3> HIDE DEF Byte
      <3> QED
        BY <3>1, <3>2
    <2>2. hist' \in Seq(Byte)
      BY <2>1 DEF Reserve, DataTypes
    <2>3. owed' \in SUBSET Cell
      BY <1>1, PlacesInside DEF Reserve, DataTypes, BufferTypes
    <2> QED
      BY <2>2, <2>3 DEF DataTypes, Reserve, flusher
  <1>7. LocalsFit'
    <2>1. \A t \in Writer : pc'[t] \in {"enter", "sleep", "copy"} =>
             i'[t] < Messages /\ n'[t] \in Length
      BY <1>1 DEF LocalsFit, Reserve, WriterTypes
    <2>2. \A t \in Copying' :
             k'[t] <= n'[t] /\ (wr'[t] > ww'[t] => n'[t] <= wr'[t] - ww'[t])
      BY <1>1 DEF LocalsFit, Reserve, WriterTypes, Copying
    <2> QED
      BY <2>1, <2>2 DEF LocalsFit, Reserve, flusher, WriterTypes
  <1>8. FlushLockMirrorsWriters'
    <2>1. Copying' = Copying \union {w}
      BY DEF Copying, Reserve, WriterTypes
    <2> QED
      BY <1>1, <2>1, CountCopying DEF FlushLockMirrorsWriters, Reserve
  <1> QED
    BY <1>3, <1>4, <1>5, <1>6, <1>7, <1>8

LEMMA CopyByteInv ==
  ASSUME IInv, NEW w \in Writer, CopyByte(w)
  PROVE  IInv'
  <1> USE DEF IInv, TypeOK
  <1>1. BufferTypes' /\ WriterTypes' /\ FlusherTypes'
    BY DEF BufferTypes, WriterTypes, FlusherTypes, CopyByte, rb, flusher
  <1>2. DataTypes'
    <2>1. <<w, i[w], k[w]>> \in Content
      BY DEF Content, Byte, WriterTypes
    <2> QED
      BY <2>1 DEF DataTypes, CopyByte, flusher, ghosts
  <1>3. LocalsFit'
    BY DEF LocalsFit, CopyByte, Copying, WriterTypes, flusher
  <1>4. FlushLockMirrorsWriters'
    BY DEF FlushLockMirrorsWriters, CopyByte, Copying, rb
  <1> QED
    BY <1>1, <1>2, <1>3, <1>4

LEMMA LeaveInv ==
  ASSUME IInv, NEW w \in Writer, Leave(w)
  PROVE  IInv'
  <1> USE DEF IInv, TypeOK
  <1>1. w \in Copying /\ i[w] < Messages
    BY DEF Leave, Copying, LocalsFit
  <1>2. Copying' = Copying \ {w}
    BY DEF Copying, Leave, WriterTypes
  <1>3. /\ dwWriters' = Cardinality(Copying')
        /\ dwWriters' \in Nat
        /\ dwWriters' = 0 <=> Copying' = {}
    <2>1. dwWriters' = Cardinality(Copying')
      BY <1>1, <1>2, CountCopying DEF FlushLockMirrorsWriters, Leave
    <2>2. IsFiniteSet(Copying')
      BY <1>2, CountCopying, FS_RemoveElement
    <2> QED
      BY <2>1, <2>2, FS_CardinalityType, FS_EmptySet
  <1>4. BufferTypes'
    BY <1>3 DEF BufferTypes, Leave
  <1>5. WriterTypes' /\ FlusherTypes'
    BY <1>1 DEF WriterTypes, FlusherTypes, Leave, flusher
  <1>6. DataTypes'
    BY DEF DataTypes, Leave, flusher, ghosts
  <1>7. LocalsFit'
    BY DEF LocalsFit, Leave, Copying, WriterTypes, flusher
  <1>8. FlushLockMirrorsWriters'
    <2>1. ~hFlushLock
      BY <1>1 DEF FlushLockMirrorsWriters
    <2> QED
      BY <1>3, <2>1 DEF FlushLockMirrorsWriters, Leave
  <1> QED
    BY <1>4, <1>5, <1>6, <1>7, <1>8

(* The steps of the flush thread, of its timer and of main leave the writers
   alone. *)
LEMMA OthersKeepWriters ==
  ASSUME IInv, FlushStep \/ TimerFires \/ Destruct
  PROVE  WriterTypes' /\ FlushLockMirrorsWriters' /\ UNCHANGED writers
  <1>1. UNCHANGED <<writers, hFlushLock, dwWriters>>
    BY DEF FlushStep, StartTimer, FlushWake, LookEmpty, LookFilled, WaitFlushLock,
      TakeBytes, UpdateRead, WriteLog, TimerFires, Destruct, rb
  <1> QED
    BY <1>1 DEF IInv, TypeOK, WriterTypes, FlushLockMirrorsWriters, Copying, writers

LEMMA FlushLookInv ==
  ASSUME IInv, FlushLook \/ TimerFires \/ Destruct
  PROVE  IInv'
  <1> USE DEF IInv, TypeOK
  <1>1. WriterTypes' /\ FlushLockMirrorsWriters' /\ UNCHANGED writers
    BY OthersKeepWriters DEF FlushLook, FlushStep
  <1>2. BufferTypes'
    BY DEF BufferTypes, FlushLook, StartTimer, FlushWake, LookEmpty, WaitFlushLock,
      TimerFires, Destruct, rb
  <1>3. FlusherTypes'
    BY DEF FlusherTypes, FlushLook, StartTimer, FlushWake, LookEmpty, WaitFlushLock,
      TimerFires, Destruct, flusher
  <1>4. DataTypes'
    <2>1. <<>> \in Seq(Content)
      OBVIOUS
    <2> QED
      BY <2>1 DEF DataTypes, FlushLook, StartTimer, FlushWake, LookEmpty, WaitFlushLock,
        TimerFires, Destruct, flusher, ghosts
  <1>5. LocalsFit'
    BY <1>1 DEF LocalsFit, FlushLook, StartTimer, FlushWake, LookEmpty, WaitFlushLock,
      TimerFires, Destruct, Copying, writers, flusher
  <1> QED
    BY <1>1, <1>2, <1>3, <1>4, <1>5

LEMMA LookFilledInv ==
  ASSUME IInv, LookFilled
  PROVE  IInv'
  <1> USE DEF IInv, TypeOK
  <1>1. WriterTypes' /\ FlushLockMirrorsWriters' /\ UNCHANGED writers
    BY OthersKeepWriters DEF FlushStep
  <1>2. num' \in 0..Size /\ (fw' > fr' => num' <= fw' - fr')
    <2>1. /\ sizeBusySpaceInRingBuf \in Nat /\ sizeBusySpaceInRingBuf <= Size
          /\ write_p > read_p => sizeBusySpaceInRingBuf <= write_p - read_p
          /\ read_p \in Nat /\ write_p \in Nat
      BY BusySpace DEF BufferTypes, Cell
    <2>2. num' \in Nat /\ num' <= sizeBusySpaceInRingBuf
      BY <2>1 DEF LookFilled, Least
    <2> QED
      BY <2>1, <2>2 DEF LookFilled
  <1>3. BufferTypes' /\ FlusherTypes' /\ DataTypes'
    BY <1>2 DEF BufferTypes, FlusherTypes, DataTypes, LookFilled, rb, ghosts
  <1>4. LocalsFit'
    BY <1>1, <1>2 DEF LocalsFit, LookFilled, Copying, writers
  <1> QED
    BY <1>1, <1>3, <1>4

LEMMA TakeBytesInv ==
  ASSUME IInv, TakeBytes
  PROVE  IInv'
  <1> USE DEF IInv, TypeOK
  <1>1. WriterTypes' /\ FlushLockMirrorsWriters' /\ UNCHANGED writers
    BY OthersKeepWriters DEF FlushStep
  <1>2. dest' \in Seq(Content)
    <2>1. \A b \in 1..num : Taken[b] \in Cell
      BY TakenInside DEF LocalsFit, TakeBytes
    <2>2. num \in Nat /\ buf \in [Cell -> Content]
      BY DEF FlusherTypes, DataTypes
    <2> QED
      BY <2>1, <2>2 DEF TakeBytes
  <1>3. BufferTypes' /\ FlusherTypes' /\ DataTypes'
    BY <1>2 DEF BufferTypes, FlusherTypes, DataTypes, TakeBytes, rb, ghosts
  <1>4. LocalsFit'
    BY <1>1 DEF LocalsFit, TakeBytes, Copying, writers
  <1> QED
    BY <1>1, <1>3, <1>4

LEMMA UpdateReadInv ==
  ASSUME IInv, UpdateRead
  PROVE  IInv'
  <1> USE DEF IInv, TypeOK
  <1>1. WriterTypes' /\ FlushLockMirrorsWriters' /\ UNCHANGED writers
    BY OthersKeepWriters DEF FlushStep
  <1>2. read_p' \in Cell
    BY ModCell DEF UpdateRead, NextRead, FlusherTypes, Cell
  <1>3. BufferTypes' /\ FlusherTypes' /\ DataTypes'
    BY <1>2 DEF BufferTypes, FlusherTypes, DataTypes, UpdateRead
  <1>4. LocalsFit'
    BY <1>1 DEF LocalsFit, UpdateRead, Copying, writers
  <1> QED
    BY <1>1, <1>3, <1>4

LEMMA WriteLogInv ==
  ASSUME IInv, WriteLog
  PROVE  IInv'
  <1> USE DEF IInv, TypeOK
  <1>1. WriterTypes' /\ FlushLockMirrorsWriters' /\ UNCHANGED writers
    BY OthersKeepWriters DEF FlushStep
  <1>2. file' \in Seq(Content) /\ dest' \in Seq(Content)
    BY DEF WriteLog, DataTypes
  <1>3. BufferTypes' /\ FlusherTypes' /\ DataTypes'
    BY <1>2 DEF BufferTypes, FlusherTypes, DataTypes, WriteLog, rb, ghosts
  <1>4. LocalsFit'
    BY <1>1 DEF LocalsFit, WriteLog, Copying, writers
  <1> QED
    BY <1>1, <1>3, <1>4

(* destructRingBuf resets the counter when no writer is left. *)
LEMMA FreeInv ==
  ASSUME IInv, Free
  PROVE  IInv'
  <1> USE DEF IInv, TypeOK
  <1>1. Copying = {} /\ Copying' = {}
    BY DEF Free, LocalsFit, Copying, writers
  <1>2. BufferTypes'
    <2>1. 0 \in Cell
      BY DEF Cell
    <2>2. /\ read_p' = 0 /\ write_p' = 0 /\ state' = "EMPTY" /\ dwWriters' = 0
          /\ hExit' = FALSE /\ mpc' = "freed" /\ UNCHANGED <<hFlushLock, hFlushEvents>>
      BY DEF Free
    <2> QED
      BY <2>1, <2>2 DEF BufferTypes
  <1>3. WriterTypes' /\ FlusherTypes' /\ DataTypes'
    BY DEF Free, WriterTypes, FlusherTypes, DataTypes, writers, flusher, ghosts
  <1>4. LocalsFit'
    BY DEF Free, LocalsFit, Copying, writers, flusher
  <1>5. FlushLockMirrorsWriters'
    BY <1>1, FS_EmptySet DEF Free, FlushLockMirrorsWriters
  <1> QED
    BY <1>2, <1>3, <1>4, <1>5

LEMMA StutterInv ==
  ASSUME IInv, UNCHANGED vars
  PROVE  IInv'
  BY DEF vars, rb, writers, flusher, ghosts, IInv, TypeOK, BufferTypes, WriterTypes,
    FlusherTypes, DataTypes, LocalsFit, FlushLockMirrorsWriters, Copying

LEMMA NextInv == IInv /\ [Next]_vars => IInv'
  <1> SUFFICES ASSUME IInv, [Next]_vars PROVE IInv'
    OBVIOUS
  <1>1. ASSUME NEW w \in Writer, WriterStep(w) PROVE IInv'
    BY <1>1, QuietInv, ReserveInv, CopyByteInv, LeaveInv DEF WriterStep, Quiet
  <1>2. CASE FlushStep
    BY <1>2, FlushLookInv, LookFilledInv, TakeBytesInv, UpdateReadInv, WriteLogInv
    DEF FlushStep, FlushLook
  <1>3. CASE TimerFires \/ Destruct
    BY <1>3, FlushLookInv
  <1>4. CASE Free
    BY <1>4, FreeInv
  <1>5. CASE UNCHANGED vars
    BY <1>5, StutterInv
  <1> QED
    BY <1>1, <1>2, <1>3, <1>4, <1>5 DEF Next, Terminated

(* The fields of the buffer, the locals of the threads and the event hFlushLock
   agree with the writers that are copying, whatever the state says. *)
THEOREM InvariantHolds == Spec => []IInv
  BY InitInv, NextInv, PTL DEF Spec

(* hFlushLock and dwWriters tell the flush thread exactly whether a writer is
   copying, for any number of writers. *)
THEOREM FlushLockIsRight == Spec => []FlushLockMirrorsWriters
  <1>1. IInv => FlushLockMirrorsWriters
    BY DEF IInv
  <1> QED
    BY <1>1, InvariantHolds, PTL

(* No copy of writeInRingBuf leaves the buffer, for any lengths and any order
   of the steps, the false states included. *)
THEOREM CopiesStayInside == Spec => []CopyStaysInside
  <1>1. IInv => CopyStaysInside
    <2> SUFFICES ASSUME IInv, NEW w \in Copying PROVE Region(w) \subseteq Cell
      BY DEF CopyStaysInside
    <2>1. /\ wr[w] \in Cell /\ ww[w] \in Cell /\ n[w] \in 0..Size
          /\ wr[w] > ww[w] => n[w] <= wr[w] - ww[w]
      BY DEF IInv, TypeOK, WriterTypes, LocalsFit, Copying
    <2> QED
      BY <2>1, PlacesInside DEF Region
  <1> QED
    BY <1>1, InvariantHolds, PTL
-----------------------------------------------------------------------------
(* The log.  A place is a number counted from 0 as the bytes are granted, place *)
(* p is in cell Wrap(p), and byte p of the log is hist[p + 1].                  *)

Wrap(p) == p % Size

LEMMA Quotient ==
  ASSUME NEW x \in Nat
  PROVE  /\ x = Size * (x \div Size) + (x % Size)
         /\ x \div Size \in Nat /\ x % Size \in 0..Size - 1
  OBVIOUS

LEMMA TimesIsMonotone ==
  ASSUME NEW a \in Nat, NEW b \in Nat, a < b
  PROVE  Size * a + Size <= Size * b
  <1>1. PICK c \in Nat : b = a + 1 + c
    BY b - a - 1 \in Nat
  <1>2. Size * b = Size * a + Size + Size * c
    BY <1>1
  <1>3. Size * c \in Nat /\ Size * a \in Nat
    OBVIOUS
  <1> QED
    BY <1>2, <1>3

LEMMA RemainderIsUnique ==
  ASSUME NEW q1 \in Nat, NEW q2 \in Nat, NEW r1 \in 0..Size - 1, NEW r2 \in 0..Size - 1,
         Size * q1 + r1 = Size * q2 + r2
  PROVE  r1 = r2
  <1>1. Size * q1 \in Nat /\ Size * q2 \in Nat
    OBVIOUS
  <1>2. CASE q1 < q2
    BY <1>1, <1>2, TimesIsMonotone
  <1>3. CASE q2 < q1
    BY <1>1, <1>3, TimesIsMonotone
  <1>4. CASE q1 = q2
    BY <1>1, <1>4
  <1> QED
    BY <1>2, <1>3, <1>4

LEMMA WrapIsCell ==
  ASSUME NEW x \in Nat
  PROVE  Wrap(x) \in 0..Size - 1
  BY DEF Wrap

(* A step of at most Size from a cell wraps once or not at all. *)
LEMMA WrapStep ==
  ASSUME NEW x \in Nat, NEW d \in 0..Size
  PROVE  Wrap(x + d) = IF Wrap(x) + d < Size THEN Wrap(x) + d ELSE Wrap(x) + d - Size
  <1> DEFINE q == x \div Size
             r == x % Size
             y == x + d
             q2 == y \div Size
             r2 == y % Size
  <1>0. y \in Nat
    OBVIOUS
  <1>1. x = Size * q + r /\ q \in Nat /\ r \in 0..Size - 1
    BY Quotient
  <1>2. y = Size * q2 + r2 /\ q2 \in Nat /\ r2 \in 0..Size - 1
    BY <1>0, Quotient
  <1>3. Wrap(x) = r /\ Wrap(x + d) = r2
    BY DEF Wrap
  <1> HIDE DEF q, r, y, q2, r2
  <1>4. y = Size * q + r + d
    BY <1>1 DEF y
  <1>5. CASE r + d < Size
    <2>1. Size * q + (r + d) = Size * q2 + r2
      BY <1>1, <1>2, <1>4
    <2>2. r + d \in 0..Size - 1
      BY <1>1, <1>5
    <2> QED
      BY <2>1, <2>2, <1>1, <1>2, <1>3, <1>5, RemainderIsUnique
  <1>6. CASE ~(r + d < Size)
    <2>1. Size * (q + 1) = Size * q + Size
      BY <1>1
    <2>2. Size * (q + 1) + (r + d - Size) = Size * q2 + r2
      BY <1>1, <1>2, <1>4, <2>1
    <2>3. r + d - Size \in 0..Size - 1
      BY <1>1, <1>6
    <2>4. q + 1 \in Nat
      BY <1>1
    <2>5. r + d - Size = r2
      BY <2>2, <2>3, <2>4, <1>2, RemainderIsUnique
    <2> QED
      BY <2>5, <1>3, <1>6
  <1> QED
    BY <1>5, <1>6

(* Fewer than Size places are in as many cells. *)
LEMMA WrapIsInjective ==
  ASSUME NEW x \in Nat, NEW y \in Nat, x < y, y < x + Size
  PROVE  Wrap(x) # Wrap(y)
  <1>1. y - x \in 0..Size /\ x + (y - x) = y
    OBVIOUS
  <1>2. Wrap(y) = IF Wrap(x) + (y - x) < Size THEN Wrap(x) + (y - x)
                  ELSE Wrap(x) + (y - x) - Size
    BY <1>1, WrapStep
  <1>3. Wrap(x) \in 0..Size - 1
    BY WrapIsCell
  <1> QED
    BY <1>2, <1>3

LEMMA WrapOfCell ==
  ASSUME NEW c \in Cell
  PROVE  Wrap(c) = c
  BY DEF Wrap, Cell

(* A pointer that is moved on as the code does it. *)
LEMMA PointerMoves ==
  ASSUME NEW x \in Nat, NEW d \in 0..Size
  PROVE  (Wrap(x) + d) % Size = Wrap(x + d)
  <1>1. Wrap(x) \in Cell /\ Wrap(x) \in Nat
    BY WrapIsCell DEF Cell
  <1>2. Wrap(Wrap(x) + d) = IF Wrap(Wrap(x)) + d < Size THEN Wrap(Wrap(x)) + d
                            ELSE Wrap(Wrap(x)) + d - Size
    BY <1>1, WrapStep
  <1>3. Wrap(Wrap(x)) = Wrap(x)
    BY <1>1, WrapOfCell
  <1>4. Wrap(Wrap(x) + d) = Wrap(x + d)
    BY <1>2, <1>3, WrapStep
  <1> QED
    BY <1>4 DEF Wrap

(* What a writer and the flush thread compute from their pointers are cells in
   the order of the places. *)
LEMMA PlaceWraps ==
  ASSUME NEW r \in Cell, NEW p \in Nat, NEW len \in 0..Size,
         r > Wrap(p) => len <= r - Wrap(p), NEW b \in 0..len - 1
  PROVE  Place(r, Wrap(p), b) = Wrap(p + b)
  <1>1. b \in 0..Size /\ Wrap(p) \in 0..Size - 1 /\ r \in 0..Size - 1
    BY WrapIsCell DEF Cell
  <1>2. Wrap(p + b) = IF Wrap(p) + b < Size THEN Wrap(p) + b ELSE Wrap(p) + b - Size
    BY <1>1, WrapStep
  <1> QED
    BY <1>1, <1>2 DEF Place

LEMMA TakenWraps ==
  ASSUME NEW p \in Nat, fr = Wrap(p), num \in 0..Size, fw \in Cell,
         fw > fr => num <= fw - fr, NEW b \in 1..num
  PROVE  Taken[b] = Wrap(p + b - 1)
  <1>1. b - 1 \in 0..Size /\ Wrap(p) \in 0..Size - 1 /\ fw \in 0..Size - 1
    BY WrapIsCell DEF Cell
  <1>2. Wrap(p + (b - 1)) = IF Wrap(p) + (b - 1) < Size THEN Wrap(p) + (b - 1)
                            ELSE Wrap(p) + (b - 1) - Size
    BY <1>1, WrapStep
  <1>3. p + (b - 1) = p + b - 1
    OBVIOUS
  <1> QED
    BY <1>1, <1>2, <1>3 DEF Taken

-----------------------------------------------------------------------------
(* Flushed and Granted bound the places whose bytes are still owed to the file. *)
Flushed == Len(file) + (IF fpc = "write" THEN Len(dest) ELSE 0)
Granted == Len(hist)
Owed == Flushed .. Granted - 1

(* The flush thread works from a snapshot of the pointers; the places it is   *)
(* about to copy are the first InHand ones of the owed.                       *)
Flushing == fpc \in {"flushwait", "take", "update"}
InHand == IF fpc \in {"take", "update"} THEN num ELSE 0

(* As long as no byte was overwritten, the pointers are the ends of the owed   *)
(* places, of which there are never more than cells, and the state tells how   *)
(* many there are, but for an EMPTY stored over something.                     *)
PlacesKnown ==
  /\ Granted <= Flushed + Size /\ Flushed <= Granted
  /\ mpc # "freed" => read_p = Wrap(Flushed) /\ write_p = Wrap(Granted)
  /\ owed = {Wrap(p) : p \in Owed}
  /\ state = "PART_FILL" => Flushed < Granted /\ Granted < Flushed + Size
  /\ state = "FULL" => Granted = Flushed + Size
  /\ mpc # "freed" /\ state = "EMPTY" /\ emptied = "nothing" => Granted = Flushed

SnapshotKnown ==
  Flushing =>
    /\ fr = Wrap(Flushed)
    /\ \E h \in Nat : Flushed + num <= h /\ h <= Granted /\ fw = Wrap(h)
    /\ num = 0 => fw = fr
    /\ ~stale => fw = Wrap(Granted)

(* The message of a copying writer is at place b, behind those that the flush  *)
(* thread copies: it was granted after hFlushLock was last seen up.            *)
MessageAt(w, b) ==
  /\ Flushed + InHand <= b /\ b + n[w] <= Granted
  /\ ww[w] = Wrap(b)
  /\ \A x \in 0..n[w] - 1 : hist[b + x + 1] = <<w, i[w], x>>

Missing(base, p) == \E w \in Copying : base[w] + k[w] <= p /\ p < base[w] + n[w]

BytesInPlace(base) ==
  /\ \A w \in Copying : MessageAt(w, base[w])
  /\ \A p \in Owed : ~Missing(base, p) => buf[Wrap(p)] = hist[p + 1]

FileKnown ==
  /\ Len(file) + Len(dest) <= Granted
  /\ \A j \in 1..Len(file) : file[j] = hist[j]
  /\ \A j \in 1..Len(dest) : dest[j] = hist[Len(file) + j]

(* What holds also after a byte was overwritten. *)
FlusherKnown ==
  /\ fpc \in {"start", "wait", "look", "flushwait", "take", "exited"} => dest = <<>>
  /\ fpc = "update" => Len(dest) = num
  /\ hExit \/ mpc = "freed" => fpc = "exited"

LogAt(base) == PlacesKnown /\ SnapshotKnown /\ BytesInPlace(base) /\ FileKnown

Base == [Writer -> 0..Granted]

LogIInv == IInv /\ FlusherKnown /\ (~lost => \E base \in Base : LogAt(base))

-----------------------------------------------------------------------------
LEMMA LogTypes ==
  ASSUME IInv, FlusherKnown
  PROVE  /\ Len(file) \in Nat /\ Len(dest) \in Nat /\ Granted \in Nat /\ Flushed \in Nat
         /\ num \in 0..Size /\ InHand \in 0..Size
         /\ \A w \in Writer : n[w] \in 0..Size /\ k[w] \in 0..Size
         /\ fr \in Cell /\ fw \in Cell /\ (Flushing /\ fw > fr => num <= fw - fr)
         /\ read_p \in Cell /\ write_p \in Cell
  BY DEF IInv, TypeOK, BufferTypes, DataTypes, WriterTypes, FlusherTypes, LocalsFit, Flushed, Granted,
    InHand, Flushing

LEMMA LogInit == Init => LogIInv
  <1> SUFFICES ASSUME Init PROVE LogIInv
    OBVIOUS
  <1>1. IInv
    BY InitInv
  <1>2. Flushed = 0 /\ Granted = 0 /\ Owed = {} /\ Copying = {} /\ Wrap(0) = 0
    BY WrapOfCell DEF Init, Flushed, Granted, Owed, Copying, Cell
  <1>3. FlusherKnown
    BY DEF Init, FlusherKnown
  <1>4. PlacesKnown /\ SnapshotKnown /\ FileKnown
    BY <1>2 DEF Init, PlacesKnown, SnapshotKnown, FileKnown, Flushing
  <1>5. BytesInPlace([w \in Writer |-> 0]) /\ [w \in Writer |-> 0] \in Base
    BY <1>2 DEF BytesInPlace, Base
  <1> QED
    BY <1>1, <1>3, <1>4, <1>5 DEF LogIInv, LogAt

(* A byte overwritten stays overwritten. *)
LEMMA LostStays ==
  ASSUME Next \/ UNCHANGED vars, ~lost'
  PROVE  ~lost \/ lost \notin BOOLEAN
  BY DEF Next, WriterStep, FlushStep, CallWrite, Finish, Reserve, AskFlush, Wake, CopyByte, Leave,
    StartTimer, FlushWake, LookEmpty, LookFilled, WaitFlushLock, TakeBytes, UpdateRead, WriteLog,
    TimerFires, Destruct, Free, Terminated, vars, ghosts

(* A step that moves no byte and no place keeps the log. *)
LEMMA LogUnmoved ==
  ASSUME NEW base \in Base, LogAt(base), IInv, FlusherKnown,
         UNCHANGED <<read_p, write_p, state, buf, file, dest, fr, fw, num, ghosts>>,
         Flushed' = Flushed, mpc = "freed" => mpc' = "freed", Flushing' => Flushing,
         InHand' = InHand, Copying' = Copying,
         \A w \in Copying : n'[w] = n[w] /\ i'[w] = i[w] /\ ww'[w] = ww[w] /\ k'[w] = k[w]
  PROVE  LogAt(base)' /\ base \in Base'
  <1>1. Granted' = Granted /\ Owed' = Owed
    BY DEF ghosts, Granted, Owed
  <1>2. PlacesKnown'
    BY <1>1 DEF LogAt, PlacesKnown, ghosts
  <1>3. SnapshotKnown'
    BY <1>1 DEF LogAt, SnapshotKnown, ghosts
  <1>4. FileKnown'
    BY <1>1 DEF LogAt, FileKnown, ghosts
  <1>5. BytesInPlace(base)'
    BY <1>1 DEF LogAt, BytesInPlace, MessageAt, Missing, ghosts
  <1> QED
    BY <1>1, <1>2, <1>3, <1>4, <1>5 DEF LogAt, Base

LEMMA LogQuiet ==
  ASSUME NEW base \in Base, LogAt(base), IInv, FlusherKnown, NEW w \in Writer, Quiet(w)
  PROVE  LogAt(base)' /\ base \in Base'
  <1>1. Copying' = Copying /\ w \notin Copying
    BY DEF Copying, Quiet, CallWrite, Finish, AskFlush, Wake, IInv, TypeOK, WriterTypes
  <1>2. \A t \in Copying : n'[t] = n[t] /\ i'[t] = i[t] /\ ww'[t] = ww[t] /\ k'[t] = k[t]
    BY <1>1 DEF Copying, Quiet, CallWrite, Finish, AskFlush, Wake, IInv, TypeOK, WriterTypes
  <1>3. UNCHANGED <<rb, buf, file, mpc, flusher, ghosts>>
    BY DEF Quiet, CallWrite, Finish, AskFlush, Wake
  <1>4. Flushed' = Flushed /\ InHand' = InHand /\ Flushing' = Flushing
    BY <1>3 DEF Flushed, InHand, Flushing, flusher
  <1> QED
    BY <1>1, <1>2, <1>3, <1>4, LogUnmoved DEF rb, flusher

LEMMA LogFlushLook ==
  ASSUME NEW base \in Base, LogAt(base), IInv, FlusherKnown,
         StartTimer \/ (\E e \in Event : FlushWake(e)) \/ LookEmpty \/ TimerFires \/ Destruct
           \/ UNCHANGED vars
  PROVE  LogAt(base)' /\ base \in Base'
  <1> USE DEF StartTimer, FlushWake, LookEmpty, TimerFires, Destruct, vars
  <1>1. UNCHANGED <<rb, buf, file, writers, ghosts>>
    OBVIOUS
  <1>2. Copying' = Copying
    BY <1>1 DEF Copying, writers
  <1>3. /\ UNCHANGED <<dest, fr, fw>> /\ (mpc = "freed" => mpc' = "freed")
        /\ Flushing' = Flushing /\ InHand' = InHand
    BY DEF flusher, FlusherKnown, Flushing, InHand
  <1>4. Flushed' = Flushed
    BY <1>1, <1>3 DEF Flushed, flusher, FlusherKnown
  <1>5. LookEmpty \/ num' = num
    BY DEF flusher
  <1>6. CASE LookEmpty
    <2>1. ~Flushing' /\ SnapshotKnown'
      BY <1>6 DEF Flushing, SnapshotKnown
    <2> QED
      BY <1>1, <1>2, <1>3, <1>4, <2>1
      DEF LogAt, PlacesKnown, FileKnown, BytesInPlace, MessageAt, Missing, Granted, Owed, rb,
        writers, ghosts, Base
  <1> QED
    BY <1>1, <1>2, <1>3, <1>4, <1>5, <1>6, LogUnmoved DEF rb, writers

(* The last byte is copied, and nothing of the message is missing. *)
LEMMA LogLeave ==
  ASSUME NEW base \in Base, LogAt(base), IInv, FlusherKnown, NEW w \in Writer, Leave(w)
  PROVE  LogAt(base)' /\ base \in Base'
  <1>1. UNCHANGED <<read_p, write_p, state, buf, flusher, mpc, file, ghosts>>
    BY DEF Leave
  <1>2. Flushed' = Flushed /\ Granted' = Granted /\ Owed' = Owed /\ InHand' = InHand
    BY <1>1 DEF Flushed, Granted, Owed, InHand, flusher, ghosts
  <1>3. PlacesKnown' /\ SnapshotKnown' /\ FileKnown'
    BY <1>1, <1>2 DEF LogAt, PlacesKnown, SnapshotKnown, FileKnown, Flushing, flusher, ghosts
  <1>4. Copying' = Copying \ {w}
    BY DEF Leave, Copying, IInv, TypeOK, WriterTypes
  <1>5. \A t \in Copying' : n'[t] = n[t] /\ i'[t] = i[t] /\ ww'[t] = ww[t] /\ k'[t] = k[t]
    BY <1>4 DEF Leave, Copying, IInv, TypeOK, WriterTypes
  <1>6. \A t \in Copying' : MessageAt(t, base[t])'
    BY <1>1, <1>2, <1>4, <1>5 DEF LogAt, BytesInPlace, MessageAt, ghosts
  <1>7. \A p \in Owed : Missing(base, p) => Missing(base, p)'
    <2> SUFFICES ASSUME NEW p \in Owed, NEW t \in Copying, base[t] + k[t] <= p, p < base[t] + n[t]
                 PROVE Missing(base, p)'
      BY DEF Missing
    <2>1. base[t] \in Nat /\ p \in Int /\ n[t] \in 0..Size /\ k[t] \in 0..Size
      BY LogTypes DEF Base, Owed, Copying
    <2>2. t # w
      BY <2>1 DEF Leave
    <2> QED
      BY <1>4, <1>5, <2>2 DEF Missing
  <1>8. BytesInPlace(base)'
    BY <1>1, <1>2, <1>6, <1>7 DEF LogAt, BytesInPlace, ghosts
  <1> QED
    BY <1>2, <1>3, <1>8 DEF LogAt, Base

(* A byte goes to its place and to no other owed one. *)
LEMMA LogCopyByte ==
  ASSUME NEW base \in Base, LogAt(base), IInv, FlusherKnown, NEW w \in Writer, CopyByte(w)
  PROVE  LogAt(base)' /\ base \in Base'
  <1> DEFINE q == base[w] + k[w]
  <1>1. UNCHANGED <<rb, flusher, mpc, file, ghosts, pc, i, n, wr, ww>>
    BY DEF CopyByte
  <1>2. Flushed' = Flushed /\ Granted' = Granted /\ Owed' = Owed /\ InHand' = InHand
    BY <1>1 DEF Flushed, Granted, Owed, InHand, flusher, ghosts
  <1>3. PlacesKnown' /\ SnapshotKnown' /\ FileKnown'
    BY <1>1, <1>2 DEF LogAt, PlacesKnown, SnapshotKnown, FileKnown, Flushing, flusher, ghosts, rb
  <1>4. w \in Copying /\ Copying' = Copying
    BY <1>1 DEF CopyByte, Copying
  <1>5. \A t \in Copying' : MessageAt(t, base[t])'
    BY <1>1, <1>2, <1>4 DEF LogAt, BytesInPlace, MessageAt, ghosts
  <1>6. /\ base[w] \in Nat /\ n[w] \in 0..Size /\ k[w] \in 0..Size /\ k[w] < n[w]
        /\ Flushed \in Nat /\ Granted \in Nat /\ InHand \in 0..Size
    BY LogTypes DEF Base, CopyByte
  <1>7. /\ Flushed + InHand <= base[w] /\ base[w] + n[w] <= Granted /\ ww[w] = Wrap(base[w])
        /\ hist[base[w] + k[w] + 1] = <<w, i[w], k[w]>>
    BY <1>4, <1>6 DEF LogAt, BytesInPlace, MessageAt
  <1>8. q \in Owed /\ hist[q + 1] = <<w, i[w], k[w]>>
    BY <1>6, <1>7 DEF Owed
  <1>9. Place(wr[w], ww[w], k[w]) = Wrap(q)
    <2>1. wr[w] \in Cell /\ (wr[w] > Wrap(base[w]) => n[w] <= wr[w] - Wrap(base[w]))
      BY <1>4, <1>7 DEF IInv, TypeOK, WriterTypes, LocalsFit
    <2>2. k[w] \in 0..n[w] - 1
      BY <1>6
    <2> QED
      BY <2>1, <2>2, <1>6, <1>7, PlaceWraps
  <1>10. Wrap(q) \in Cell
    BY <1>6, WrapIsCell DEF Cell
  <1>11. buf' = [buf EXCEPT ![Wrap(q)] = hist[q + 1]] /\ buf \in [Cell -> Content]
    BY <1>8, <1>9 DEF CopyByte, IInv, TypeOK, DataTypes
  <1>12. ASSUME NEW p \in Owed, ~Missing(base, p)'
         PROVE  buf'[Wrap(p)] = hist'[p + 1]
    <2>0. p \in Nat /\ Wrap(p) \in Cell /\ hist' = hist
      BY <1>1, <1>6, WrapIsCell DEF Owed, Cell, ghosts
    <2>1. CASE p = q
      BY <1>10, <1>11, <2>0, <2>1
    <2>2. CASE p # q
      <3>1. Wrap(p) # Wrap(q)
        <4>1. q \in Nat /\ Granted <= Flushed + Size
          BY <1>6 DEF LogAt, PlacesKnown
        <4>2. p < q + Size /\ q < p + Size
          BY <4>1, <1>6, <1>8 DEF Owed
        <4> QED
          BY <2>0, <2>2, <4>1, <4>2, WrapIsInjective
      <3>2. ~Missing(base, p)
        <4> SUFFICES ASSUME NEW t \in Copying, base[t] + k[t] <= p, p < base[t] + n[t]
                     PROVE FALSE
          BY DEF Missing
        <4>1. base[t] \in Nat /\ k[t] \in 0..Size
          BY LogTypes DEF Base, Copying
        <4>2. base[t] + k'[t] <= p
          BY <4>1, <2>0, <2>2, <1>6 DEF CopyByte, IInv, TypeOK, WriterTypes
        <4> QED
          BY <4>2, <1>1, <1>4, <1>12 DEF Missing
      <3> QED
        BY <1>11, <2>0, <3>1, <3>2 DEF LogAt, BytesInPlace
    <2> QED
      BY <2>1, <2>2
  <1>13. BytesInPlace(base)'
    BY <1>2, <1>5, <1>12 DEF BytesInPlace
  <1> QED
    BY <1>2, <1>3, <1>13 DEF LogAt, Base

(* The section that grants places: the new ones follow the granted, and if none
   of their cells is owed, all that is owed still fits the buffer. *)
(* Reserving appends the new message's bytes to the history. *)
LEMMA Joined ==
  ASSUME NEW S, NEW s \in Seq(S), NEW t \in Seq(S)
  PROVE  /\ s \o t \in Seq(S) /\ Len(s \o t) = Len(s) + Len(t)
         /\ \A p \in 1..Len(s) : (s \o t)[p] = s[p]
         /\ \A x \in 0..Len(t) - 1 : (s \o t)[Len(s) + x + 1] = t[x + 1]
  OBVIOUS

LEMMA LogReserve ==
  ASSUME NEW base \in Base, LogAt(base), IInv, FlusherKnown, NEW w \in Writer, Reserve(w), ~lost'
  PROVE  \E b \in Base' : LogAt(b)'
  <1>0. PICK nb : nb = [base EXCEPT ![w] = Granted]
    OBVIOUS
  <1>1. /\ UNCHANGED <<read_p, buf, flusher, mpc, file, i, n>>
        /\ ~lost /\ owed \intersect Places(read_p, write_p, n[w]) = {}
    BY DEF Reserve, IInv, TypeOK, DataTypes
  <1>2. /\ n[w] \in 1..Size /\ w \notin Copying /\ i[w] \in 0..Messages
        /\ Flushed \in Nat /\ Granted \in Nat /\ InHand \in 0..Size
        /\ Flushed <= Granted /\ Granted <= Flushed + Size
        /\ read_p \in Cell /\ write_p \in Cell
    BY LogTypes DEF Reserve, Copying, IInv, TypeOK, WriterTypes, LocalsFit, LogAt, PlacesKnown
  <1>3. mpc # "freed" /\ read_p = Wrap(Flushed) /\ write_p = Wrap(Granted)
    BY DEF Reserve, IInv, LocalsFit, LogAt, PlacesKnown
  <1>4. read_p > write_p => n[w] <= read_p - write_p
    BY FreeSpace, <1>2 DEF Reserve, IInv, Cell
  <1>5. \A b \in 0..n[w] - 1 : Place(read_p, write_p, b) = Wrap(Granted + b)
    BY <1>2, <1>3, <1>4, PlaceWraps
  <1>6. /\ Flushed' = Flushed /\ Granted' = Granted + n[w] /\ InHand' = InHand
        /\ Len(hist) = Granted /\ hist \in Seq(Byte)
        /\ \A p \in 1..Granted : hist'[p] = hist[p]
        /\ \A x \in 0..n[w] - 1 : hist'[Granted + x + 1] = <<w, i[w], x>>
    <2> DEFINE new == [b \in 1..n[w] |-> <<w, i[w], b - 1>>]
    <2>1. hist \in Seq(Byte) /\ new \in Seq(Byte) /\ Len(new) = n[w] /\ hist' = hist \o new
      <3>1. \A b \in 1..n[w] : <<w, i[w], b - 1>> \in Byte
        BY <1>2 DEF Byte
      <3>2. n[w] \in Nat
        BY <1>2
      <3>3. hist \in Seq(Byte) /\ hist' = hist \o new
        BY DEF Reserve, IInv, TypeOK, DataTypes
      <3>4. new \in Seq(Byte) /\ Len(new) = n[w]
        <4> HIDE DEF Byte
        <4> QED
          BY <3>1, <3>2
      <3> QED
        BY <3>3, <3>4
    <2> HIDE DEF new
    <2>2. Len(hist') = Len(hist) + n[w] /\ \A p \in 1..Len(hist) : hist'[p] = hist[p]
      <3> HIDE DEF Byte
      <3> QED
        BY <2>1, Joined
    <2>3. \A x \in 0..n[w] - 1 : hist'[Granted + x + 1] = new[x + 1]
      <3> HIDE DEF Byte
      <3> QED
        BY <2>1, Joined DEF Granted
    <2> USE DEF new
    <2>4. \A x \in 0..n[w] - 1 : new[x + 1] = <<w, i[w], x>>
      BY <1>2
    <2> HIDE DEF new
    <2> QED
      BY <2>1, <2>2, <2>3, <2>4, <1>1 DEF Granted, Flushed, InHand, flusher
  <1>7. Granted' <= Flushed' + Size
    <2> SUFFICES ASSUME Granted + n[w] > Flushed + Size PROVE FALSE
      BY <1>2, <1>6
    <2>1. Flushed \in Owed /\ Wrap(Flushed) \in owed
      BY <1>2 DEF Owed, LogAt, PlacesKnown
    <2> DEFINE b == Flushed + Size - Granted
    <2>2. b \in 0..n[w] - 1 /\ Granted + b = Flushed + Size
      BY <1>2
    <2>3. Wrap(Flushed + Size) = Wrap(Flushed)
      <3>1. Size \in 0..Size /\ Wrap(Flushed) \in 0..Size - 1
        BY <1>2, WrapIsCell
      <3>2. Wrap(Flushed + Size) = IF Wrap(Flushed) + Size < Size THEN Wrap(Flushed) + Size
                                   ELSE Wrap(Flushed) + Size - Size
        BY <3>1, <1>2, WrapStep
      <3> QED
        BY <3>1, <3>2
    <2>4. Wrap(Flushed) \in Places(read_p, write_p, n[w])
      BY <1>5, <2>2, <2>3 DEF Places
    <2> QED
      BY <1>1, <2>1, <2>4
  <1>8. write_p' = Wrap(Granted')
    <2>1. write_p' = (Wrap(Granted) + n[w]) % Size
      BY <1>3 DEF Reserve
    <2>2. n[w] \in 0..Size
      BY <1>2
    <2> QED
      BY <1>2, <1>6, <2>1, <2>2, PointerMoves
  <1>9. owed' = {Wrap(p) : p \in Owed'}
    <2>1. Places(read_p, write_p, n[w]) = {Wrap(Granted + b) : b \in 0..n[w] - 1}
      BY <1>5 DEF Places
    <2>2. Owed' = Owed \union {Granted + b : b \in 0..n[w] - 1}
      <3>1. ASSUME NEW p \in Owed' PROVE p \in Owed \union {Granted + b : b \in 0..n[w] - 1}
        <4>1. CASE p >= Granted
          <5>1. p - Granted \in 0..n[w] - 1 /\ p = Granted + (p - Granted)
            BY <3>1, <4>1, <1>2, <1>6 DEF Owed
          <5> QED
            BY <5>1
        <4> QED
          BY <3>1, <4>1, <1>2, <1>6 DEF Owed
      <3> QED
        BY <3>1, <1>2, <1>6 DEF Owed
    <2>3. owed' = owed \union Places(read_p, write_p, n[w]) /\ owed = {Wrap(p) : p \in Owed}
      BY DEF Reserve, LogAt, PlacesKnown
    <2> QED
      BY <2>1, <2>2, <2>3
  <1>10. PlacesKnown'
    <2>1. state' = "PART_FILL" => write_p' # read_p
      BY DEF Reserve
    <2>2. Granted' = Flushed' + Size => Wrap(Granted') = Wrap(Flushed')
      <3>1. Size \in 0..Size /\ Wrap(Flushed) \in 0..Size - 1
        BY <1>2, WrapIsCell
      <3>2. Wrap(Flushed + Size) = IF Wrap(Flushed) + Size < Size THEN Wrap(Flushed) + Size
                                   ELSE Wrap(Flushed) + Size - Size
        BY <3>1, <1>2, WrapStep
      <3> QED
        BY <3>1, <3>2, <1>6
    <2>3. read_p' = Wrap(Flushed') /\ Flushed' \in Nat /\ Granted' \in Nat /\ Flushed' < Granted'
      BY <1>1, <1>2, <1>3, <1>6
    <2>4. Granted + n[w] <= Flushed + Size
      BY <1>2, <1>6, <1>7
    <2>5. state' = "PART_FILL" => Granted + n[w] # Flushed + Size
      BY <1>1, <1>2, <1>6, <1>8, <2>1, <2>2, <2>3
    <2>6. Granted + n[w] \in Nat /\ Flushed + Size \in Nat
      BY <1>2
    <2>7. state' = "PART_FILL" => Granted + n[w] < Flushed + Size
      BY <2>4, <2>5, <2>6
    <2>8. Flushed < Granted + n[w]
      BY <1>2
    <2>9. state' = "FULL" => Granted + n[w] = Flushed + Size
      <3>1. Wrap(Granted + n[w]) # Wrap(Flushed) \/ ~(Granted + n[w] < Flushed + Size)
        BY <1>2, <2>6, <2>8, WrapIsInjective
      <3>2. state' = "FULL" => Wrap(Granted + n[w]) = Wrap(Flushed)
        BY <1>3, <1>6, <1>8 DEF Reserve
      <3> QED
        BY <2>4, <2>6, <3>1, <3>2
    <2>10. state' # "EMPTY"
      BY DEF Reserve
    <2> QED
      BY <1>2, <1>6, <1>8, <1>9, <2>3, <2>4, <2>7, <2>8, <2>9, <2>10 DEF PlacesKnown
  <1>11. SnapshotKnown'
    <2> SUFFICES ASSUME Flushing PROVE SnapshotKnown'
      BY <1>1 DEF SnapshotKnown, Flushing, flusher
    <2>1. PICK h \in Nat : Flushed + num <= h /\ h <= Granted /\ fw = Wrap(h)
      BY DEF LogAt, SnapshotKnown
    <2>2. h <= Granted'
      BY <2>1, <1>2, <1>6
    <2>3. stale'
      BY DEF Reserve
    <2> QED
      BY <1>1, <1>6, <2>1, <2>2, <2>3 DEF LogAt, SnapshotKnown, flusher
  <1>12. FileKnown'
    <2>1. Len(file) \in Nat /\ Len(dest) \in Nat
      BY LogTypes
    <2>2. /\ Len(file) + Len(dest) <= Granted
          /\ \A j \in 1..Len(file) : j \in 1..Granted /\ file[j] = hist[j]
          /\ \A j \in 1..Len(dest) : Len(file) + j \in 1..Granted /\ dest[j] = hist[Len(file) + j]
      BY <1>2, <2>1 DEF LogAt, FileKnown
    <2>3. Len(file) + Len(dest) <= Granted'
      BY <1>2, <1>6, <2>1, <2>2
    <2> QED
      BY <1>1, <1>6, <2>2, <2>3 DEF FileKnown, flusher
  <1>13. Copying' = Copying \union {w}
    BY DEF Reserve, Copying, IInv, TypeOK, WriterTypes
  <1>14. nb \in Base' /\ nb[w] = Granted /\ \A t \in Copying : nb[t] = base[t]
    BY <1>0, <1>2, <1>6 DEF Base, Copying
  <1>15. MessageAt(w, nb[w])'
    <2>1. Flushed + InHand <= Granted
      BY <1>2, LogTypes DEF LogAt, SnapshotKnown, InHand, Flushing
    <2>2. ww'[w] = Wrap(Granted)
      BY <1>3 DEF Reserve, IInv, TypeOK, WriterTypes
    <2>3. /\ Flushed' + InHand' <= Granted /\ Granted + n[w] <= Granted'
          /\ \A x \in 0..n[w] - 1 : hist'[Granted + x + 1] = <<w, i[w], x>>
      BY <1>6, <2>1, <1>2
    <2>4. nb'[w] = Granted /\ nb[w] = Granted /\ n' = n /\ i' = i
      BY <1>1, <1>14
    <2> QED
      BY <2>2, <2>3, <2>4 DEF MessageAt
  <1>16. ASSUME NEW t \in Copying PROVE MessageAt(t, nb[t])'
    <2>1. /\ base[t] \in Nat /\ n[t] \in 0..Size
          /\ Flushed + InHand <= base[t] /\ base[t] + n[t] <= Granted /\ ww[t] = Wrap(base[t])
          /\ \A x \in 0..n[t] - 1 : hist[base[t] + x + 1] = <<t, i[t], x>>
      <3>1. t \in Writer /\ MessageAt(t, base[t])
        BY DEF Copying, LogAt, BytesInPlace
      <3>2. base[t] \in 0..Granted /\ n[t] \in 0..Size
        BY <3>1, LogTypes DEF Base
      <3> QED
        BY <3>1, <3>2, <1>2 DEF MessageAt
    <2>2. ww'[t] = ww[t] /\ nb[t] = base[t]
      BY <1>2, <1>14 DEF Reserve
    <2>3. \A x \in 0..n[t] - 1 : base[t] + x + 1 \in 1..Granted
      BY <1>2, <2>1
    <2>4. base[t] + n[t] <= Granted'
      BY <1>2, <1>6, <2>1
    <2> QED
      BY <1>1, <1>6, <2>1, <2>2, <2>3, <2>4 DEF MessageAt
  <1>17. ASSUME NEW p \in Owed', ~Missing(nb, p)'
         PROVE  buf'[Wrap(p)] = hist'[p + 1]
    <2>1. k'[w] = 0 /\ \A t \in Copying : k'[t] = k[t]
      BY <1>2 DEF Reserve, IInv, TypeOK, WriterTypes
    <2>2. ~(Granted <= p /\ p < Granted + n[w])
      <3>1. Granted \in Nat /\ n'[w] = n[w] /\ w \in Copying' /\ Granted + k'[w] = Granted
        BY <1>1, <1>2, <1>13, <2>1
      <3> QED
        BY <1>14, <1>17, <3>1 DEF Missing
    <2>3. p \in Owed
      BY <2>2, <1>2, <1>6 DEF Owed
    <2>4. ~Missing(base, p)
      BY <1>1, <1>13, <1>14, <1>17, <2>1 DEF Missing, Copying
    <2>5. p + 1 \in 1..Granted
      BY <2>3, <1>2 DEF Owed
    <2> QED
      BY <1>1, <1>6, <2>3, <2>4, <2>5 DEF LogAt, BytesInPlace
  <1>18. BytesInPlace(nb)'
    BY <1>13, <1>15, <1>16, <1>17 DEF BytesInPlace
  <1> QED
    BY <1>10, <1>11, <1>12, <1>14, <1>18 DEF LogAt

(* What the flush thread sees filled is no more than what is owed, and it sees
   nothing only if its two pointers are equal. *)
LEMMA BusyIsOwed ==
  ASSUME NEW base \in Base, LogAt(base), IInv, FlusherKnown, mpc # "freed", state # "EMPTY"
  PROVE  /\ sizeBusySpaceInRingBuf \in Nat /\ sizeBusySpaceInRingBuf <= Granted - Flushed
         /\ sizeBusySpaceInRingBuf = 0 => write_p = read_p
  <1>1. /\ Flushed \in Nat /\ Granted \in Nat /\ Flushed <= Granted /\ Granted <= Flushed + Size
        /\ read_p = Wrap(Flushed) /\ write_p = Wrap(Granted)
        /\ state = "PART_FILL" => Flushed < Granted /\ Granted < Flushed + Size
        /\ state = "FULL" => Granted = Flushed + Size
        /\ state \in {"PART_FILL", "FULL"}
    BY LogTypes DEF LogAt, PlacesKnown, IInv, TypeOK, BufferTypes
  <1>2. PICK d \in 0..Size : Granted = Flushed + d
    BY <1>1, Granted - Flushed \in 0..Size
  <1>3. Wrap(Flushed + d) = IF Wrap(Flushed) + d < Size THEN Wrap(Flushed) + d
                            ELSE Wrap(Flushed) + d - Size
    BY <1>1, WrapStep
  <1>4. read_p \in 0..Size - 1 /\ write_p = IF read_p + d < Size THEN read_p + d
                                            ELSE read_p + d - Size
    BY <1>1, <1>2, <1>3, WrapIsCell
  <1>5. /\ state = "PART_FILL" => 0 < d /\ d < Size
        /\ state = "FULL" => d = Size
    BY <1>1, <1>2
  <1>6. Granted - Flushed = d
    BY <1>1, <1>2
  <1> QED
    BY <1>1, <1>4, <1>5, <1>6 DEF sizeBusySpaceInRingBuf

LEMMA LogLookFilled ==
  ASSUME NEW base \in Base, LogAt(base), IInv, FlusherKnown, LookFilled
  PROVE  LogAt(base)' /\ base \in Base'
  <1>1. /\ UNCHANGED <<rb, buf, file, dest, mpc, writers, hist, owed, lost, emptied>>
        /\ fr' = read_p /\ fw' = write_p /\ fpc = "look" /\ fpc' = "flushwait"
        /\ mpc # "freed" /\ state # "EMPTY"
    BY DEF LookFilled, FlusherKnown
  <1>2. /\ Flushed' = Flushed /\ Granted' = Granted /\ Owed' = Owed
        /\ InHand' = 0 /\ InHand = 0 /\ Flushing'
    BY <1>1 DEF Flushed, Granted, Owed, InHand, Flushing
  <1>3. Copying' = Copying
    BY <1>1 DEF Copying, writers
  <1>4. PlacesKnown' /\ FileKnown' /\ BytesInPlace(base)'
    BY <1>1, <1>2, <1>3 DEF LogAt, PlacesKnown, FileKnown, BytesInPlace, MessageAt, Missing,
      rb, writers
  <1>5. num' \in Nat /\ num' <= Granted - Flushed /\ (num' = 0 => write_p = read_p)
    <2>1. /\ sizeBusySpaceInRingBuf \in Nat /\ sizeBusySpaceInRingBuf <= Granted - Flushed
          /\ sizeBusySpaceInRingBuf = 0 => write_p = read_p
      BY <1>1, BusyIsOwed
    <2>2. num' = Least(PageSize, sizeBusySpaceInRingBuf)
      BY DEF LookFilled
    <2>3. Flushed \in Nat /\ Granted \in Nat
      BY LogTypes
    <2> QED
      BY <2>1, <2>2, <2>3 DEF Least
  <1>6. SnapshotKnown'
    <2>1. Granted \in Nat /\ Flushed + num' <= Granted
      BY <1>5, LogTypes
    <2>2. read_p = Wrap(Flushed) /\ write_p = Wrap(Granted)
      BY <1>1 DEF LogAt, PlacesKnown
    <2> QED
      BY <1>1, <1>2, <1>5, <2>1, <2>2 DEF SnapshotKnown
  <1> QED
    BY <1>2, <1>4, <1>6 DEF LogAt, Base

(* The wait ends only when no writer is copying: the places the flush thread is
   going to copy are then all filled. *)
LEMMA LogWaitFlushLock ==
  ASSUME NEW base \in Base, LogAt(base), IInv, FlusherKnown, WaitFlushLock
  PROVE  LogAt(base)' /\ base \in Base'
  <1>1. UNCHANGED <<rb, buf, file, dest, fr, fw, num, mpc, writers, ghosts>>
    BY DEF WaitFlushLock
  <1>2. Flushed' = Flushed /\ Granted' = Granted /\ Owed' = Owed /\ Flushing
    BY <1>1 DEF WaitFlushLock, Flushed, Granted, Owed, Flushing, ghosts
  <1>3. Copying = {} /\ Copying' = {}
    BY <1>1 DEF WaitFlushLock, IInv, FlushLockMirrorsWriters, Copying, writers
  <1>4. PlacesKnown' /\ FileKnown' /\ SnapshotKnown' /\ BytesInPlace(base)'
    BY <1>1, <1>2, <1>3 DEF LogAt, PlacesKnown, FileKnown, SnapshotKnown, BytesInPlace, Missing,
      rb, ghosts
  <1> QED
    BY <1>2, <1>4 DEF LogAt, Base

(* What the flush thread copies is the next num bytes of the log: none of them
   is still missing. *)
LEMMA LogTakeBytes ==
  ASSUME NEW base \in Base, LogAt(base), IInv, FlusherKnown, TakeBytes
  PROVE  LogAt(base)' /\ base \in Base' /\ FlusherKnown'
  <1>1. /\ UNCHANGED <<rb, buf, file, fr, fw, num, mpc, hExit, writers, ghosts>>
        /\ fpc = "take" /\ fpc' = "update" /\ dest = <<>>
        /\ dest' = [b \in 1..num |-> buf[Taken[b]]]
    BY DEF TakeBytes, FlusherKnown
  <1>2. /\ Flushed' = Flushed /\ Granted' = Granted /\ Owed' = Owed /\ Flushing
        /\ InHand' = num /\ InHand = num /\ Flushed = Len(file)
        /\ num \in Nat /\ Flushed \in Nat /\ Granted \in Nat
    BY <1>1, LogTypes DEF Flushed, Granted, Owed, InHand, Flushing, ghosts
  <1>3. Copying' = Copying
    BY <1>1 DEF Copying, writers
  <1>4. PlacesKnown' /\ SnapshotKnown' /\ BytesInPlace(base)'
    BY <1>1, <1>2, <1>3 DEF LogAt, PlacesKnown, SnapshotKnown, BytesInPlace, MessageAt, Missing,
      rb, writers, ghosts
  <1>5. fr = Wrap(Flushed) /\ Flushed + num <= Granted
    BY <1>2 DEF LogAt, SnapshotKnown
  <1>6. Len(dest') = num
    BY <1>1, <1>2
  <1>7. ASSUME NEW b \in 1..num PROVE dest'[b] = hist[Flushed + b]
    <2>1. Taken[b] = Wrap(Flushed + b - 1)
      BY <1>2, <1>5, LogTypes, TakenWraps
    <2>2. Flushed + b - 1 \in Owed /\ Flushed + b - 1 + 1 = Flushed + b
      BY <1>2, <1>5 DEF Owed
    <2>3. ~Missing(base, Flushed + b - 1)
      <3> SUFFICES ASSUME NEW w \in Copying, base[w] + k[w] <= Flushed + b - 1 PROVE FALSE
        BY DEF Missing
      <3>1. base[w] \in Nat /\ k[w] \in Nat
        BY LogTypes DEF Base, Copying
      <3>2. Flushed + num <= base[w]
        BY <1>2 DEF LogAt, BytesInPlace, MessageAt
      <3> QED
        BY <1>2, <3>1, <3>2
    <2>4. buf[Wrap(Flushed + b - 1)] = hist[Flushed + b]
      BY <2>2, <2>3 DEF LogAt, BytesInPlace
    <2> QED
      BY <1>1, <2>1, <2>4
  <1>8. FileKnown'
    BY <1>1, <1>2, <1>5, <1>6, <1>7 DEF LogAt, FileKnown, ghosts
  <1>9. FlusherKnown'
    BY <1>1, <1>6 DEF FlusherKnown
  <1> QED
    BY <1>2, <1>4, <1>8, <1>9 DEF LogAt, Base

(* The places just copied are no longer owed. *)
LEMMA LogUpdateRead ==
  ASSUME NEW base \in Base, LogAt(base), IInv, FlusherKnown, UpdateRead
  PROVE  LogAt(base)' /\ base \in Base'
  <1>1. /\ UNCHANGED <<write_p, buf, file, dest, num, mpc, writers, hist>>
        /\ fpc = "update" /\ fpc' = "write" /\ Len(dest) = num /\ mpc # "freed"
        /\ read_p' = NextRead /\ state' = IF fw = NextRead THEN "EMPTY" ELSE "PART_FILL"
    BY DEF UpdateRead, FlusherKnown
  <1>2. /\ Flushed' = Flushed + num /\ Granted' = Granted /\ Flushing
        /\ InHand' = 0 /\ InHand = num
        /\ num \in 0..Size /\ Flushed \in Nat /\ Granted \in Nat
    BY <1>1, LogTypes DEF Flushed, Granted, InHand, Flushing
  <1>3. Copying' = Copying
    BY <1>1 DEF Copying, writers
  <1>4. /\ fr = Wrap(Flushed) /\ (num = 0 => fw = fr) /\ (~stale => fw = Wrap(Granted))
        /\ Flushed <= Granted /\ Granted <= Flushed + Size
        /\ write_p = Wrap(Granted) /\ owed = {Wrap(p) : p \in Owed}
    BY <1>1, <1>2 DEF LogAt, SnapshotKnown, PlacesKnown
  <1>5. PICK h \in Nat : Flushed + num <= h /\ h <= Granted /\ fw = Wrap(h)
    BY <1>2 DEF LogAt, SnapshotKnown
  <1>6. NextRead = Wrap(Flushed + num)
    BY <1>2, <1>4, PointerMoves DEF NextRead
  <1>7. fw # NextRead => Flushed + num < Granted /\ Granted < Flushed + num + Size
    <2>1. fw # NextRead => h # Flushed + num
      BY <1>5, <1>6
    <2>2. num = 0 => fw = NextRead
      BY <1>2, <1>4, <1>6
    <2> QED
      BY <1>2, <1>4, <1>5, <2>1, <2>2
  <1>8. owed' = {Wrap(p) : p \in Owed'}
    <2>1. \A b \in 1..num : Taken[b] = Wrap(Flushed + b - 1)
      BY <1>2, <1>4, LogTypes, TakenWraps
    <2>2. owed' = owed \ {Taken[b] : b \in 1..num}
      BY DEF UpdateRead
    <2>3. Owed' = Flushed + num .. Granted - 1 /\ Owed = Flushed .. Granted - 1
      BY <1>2 DEF Owed
    <2>4. ASSUME NEW p \in Flushed .. Granted - 1, p < Flushed + num
          PROVE  Wrap(p) \in {Taken[b] : b \in 1..num}
      <3>1. p - Flushed + 1 \in 1..num /\ Flushed + (p - Flushed + 1) - 1 = p
        BY <1>2, <2>4
      <3> QED
        BY <2>1, <3>1
    <2>5. ASSUME NEW p \in Flushed + num .. Granted - 1, NEW b \in 1..num
          PROVE  Wrap(p) # Taken[b]
      <3>1. Flushed + b - 1 \in Nat /\ p \in Nat /\ Flushed + b - 1 < p /\ p < Flushed + b - 1 + Size
        BY <1>2, <1>4
      <3> QED
        BY <2>1, <3>1, WrapIsInjective
    <2>6. ASSUME NEW c \in owed' PROVE c \in {Wrap(p) : p \in Owed'}
      <3>1. PICK p \in Flushed .. Granted - 1 : c = Wrap(p)
        BY <1>4, <2>2, <2>3, <2>6
      <3>2. p \in Flushed + num .. Granted - 1
        BY <1>2, <2>2, <2>4, <2>6, <3>1
      <3> QED
        BY <2>3, <3>1, <3>2
    <2>7. ASSUME NEW p \in Owed' PROVE Wrap(p) \in owed'
      <3>1. p \in Flushed + num .. Granted - 1 /\ p \in Owed
        BY <1>2, <2>3
      <3> QED
        BY <1>4, <2>2, <2>5, <3>1
    <2> QED
      BY <2>6, <2>7
  <1>12. fw = NextRead /\ emptied' = "nothing" => Granted = Flushed + num
    <2> SUFFICES ASSUME fw = NextRead, emptied' = "nothing", Granted # Flushed + num
                 PROVE  FALSE
      OBVIOUS
    <2>1. fr # fw /\ ~stale
      BY DEF UpdateRead
    <2>2. num # 0 /\ Wrap(Granted) = Wrap(Flushed + num)
      BY <1>4, <1>6, <2>1
    <2>3. /\ Flushed + num \in Nat /\ Flushed + num < Granted
          /\ Granted < Flushed + num + Size
      BY <1>2, <1>4, <1>5, <2>2
    <2> QED
      BY <1>2, <2>2, <2>3, WrapIsInjective
  <1>9. PlacesKnown'
    <2>1. Granted <= Flushed + num + Size /\ Flushed + num <= Granted
      BY <1>2, <1>4, <1>5
    <2> QED
      BY <1>1, <1>2, <1>4, <1>6, <1>7, <1>8, <1>12, <2>1 DEF PlacesKnown
  <1>10. SnapshotKnown' /\ FileKnown'
    BY <1>1, <1>2 DEF LogAt, SnapshotKnown, FileKnown, Flushing
  <1>11. BytesInPlace(base)'
    <2>1. \A w \in Copying : MessageAt(w, base[w])'
      <3>1. \A w \in Copying : MessageAt(w, base[w])
        BY DEF LogAt, BytesInPlace
      <3>2. Flushed' + InHand' = Flushed + InHand
        BY <1>2
      <3> QED
        BY <1>1, <1>2, <3>1, <3>2 DEF MessageAt, writers
    <2>2. \A p \in Owed' : p \in Owed /\ (Missing(base, p)' <=> Missing(base, p))
      BY <1>1, <1>2, <1>3 DEF Owed, Missing, writers
    <2> QED
      BY <1>1, <1>3, <2>1, <2>2 DEF LogAt, BytesInPlace
  <1> QED
    BY <1>2, <1>9, <1>10, <1>11 DEF LogAt, Base

LEMMA LogWriteLog ==
  ASSUME NEW base \in Base, LogAt(base), IInv, FlusherKnown, WriteLog
  PROVE  LogAt(base)' /\ base \in Base'
  <1>1. /\ UNCHANGED <<rb, buf, fr, fw, num, mpc, writers, ghosts>>
        /\ fpc = "write" /\ fpc' \in {"wait", "exited"}
        /\ file' = file \o dest /\ dest' = <<>>
    BY DEF WriteLog
  <1>2. file \in Seq(Content) /\ dest \in Seq(Content)
    BY DEF IInv, TypeOK, DataTypes
  <1>3. /\ Len(file') = Len(file) + Len(dest) /\ Len(dest') = 0
        /\ \A j \in 1..Len(file) : file'[j] = file[j]
        /\ \A j \in 1..Len(dest) : file'[Len(file) + j] = dest[j]
    BY <1>1, <1>2
  <1>4. /\ Flushed' = Flushed /\ Granted' = Granted /\ Owed' = Owed
        /\ InHand' = InHand /\ ~Flushing'
    <2>1. Len(file) \in Nat /\ Len(dest) \in Nat
      BY <1>2
    <2>2. Flushed' = Len(file')
      BY <1>1 DEF Flushed
    <2>3. Flushed = Len(file) + Len(dest)
      BY <1>1 DEF Flushed
    <2> QED
      BY <1>1, <1>3, <2>2, <2>3 DEF Granted, Owed, InHand, Flushing, ghosts
  <1>5. Copying' = Copying
    BY <1>1 DEF Copying, writers
  <1>6. PlacesKnown' /\ SnapshotKnown' /\ BytesInPlace(base)'
    BY <1>1, <1>4, <1>5 DEF LogAt, PlacesKnown, SnapshotKnown, BytesInPlace, MessageAt, Missing,
      rb, writers, ghosts
  <1>7. FileKnown'
    <2>1. Len(file) \in Nat /\ Len(dest) \in Nat
      BY <1>2
    <2>2. ASSUME NEW j \in 1..Len(file') PROVE file'[j] = hist[j]
      <3>1. CASE j \in 1..Len(file)
        BY <1>3, <3>1 DEF LogAt, FileKnown
      <3>2. CASE j \notin 1..Len(file)
        <4>1. PICK x \in 1..Len(dest) : j = Len(file) + x
          <5>1. j - Len(file) \in 1..Len(dest) /\ j = Len(file) + (j - Len(file))
            BY <1>3, <2>1, <3>2
          <5> QED
            BY <5>1
        <4> QED
          BY <1>3, <4>1 DEF LogAt, FileKnown
      <3> QED
        BY <3>1, <3>2
    <2> QED
      BY <1>1, <1>3, <1>4, <2>1, <2>2 DEF LogAt, FileKnown, ghosts
  <1> QED
    BY <1>4, <1>6, <1>7 DEF LogAt, Base

LEMMA LogFree ==
  ASSUME NEW base \in Base, LogAt(base), IInv, FlusherKnown, Free
  PROVE  LogAt(base)' /\ base \in Base'
  <1>1. /\ UNCHANGED <<buf, file, writers, flusher, ghosts>>
        /\ mpc' = "freed" /\ state' = "EMPTY"
    BY DEF Free
  <1>2. /\ Flushed' = Flushed /\ Granted' = Granted /\ Owed' = Owed /\ InHand' = InHand
        /\ Flushing' = Flushing
    BY <1>1 DEF Flushed, Granted, Owed, InHand, Flushing, flusher, ghosts
  <1>3. Copying' = Copying
    BY <1>1 DEF Copying, writers
  <1> QED
    BY <1>1, <1>2, <1>3 DEF LogAt, PlacesKnown, FileKnown, SnapshotKnown, BytesInPlace, MessageAt,
      Missing, flusher, writers, ghosts, Base

-----------------------------------------------------------------------------
LEMMA FlusherKnownNext ==
  ASSUME IInv, FlusherKnown, [Next]_vars
  PROVE  FlusherKnown'
  <1>1. ASSUME NEW w \in Writer, WriterStep(w) PROVE FlusherKnown'
    <2>1. UNCHANGED <<flusher, hExit, mpc>>
      BY <1>1 DEF WriterStep, CallWrite, Finish, Reserve, AskFlush, Wake, CopyByte, Leave
    <2> QED
      BY <2>1 DEF FlusherKnown, flusher
  <1>2. CASE TakeBytes
    <2>1. Len(dest') = num
      BY <1>2, LogTypes DEF TakeBytes
    <2> QED
      BY <1>2, <2>1 DEF TakeBytes, FlusherKnown
  <1>3. CASE StartTimer \/ (\E e \in Event : FlushWake(e)) \/ LookEmpty \/ LookFilled
             \/ WaitFlushLock \/ UpdateRead
    BY <1>3 DEF StartTimer, FlushWake, LookEmpty, LookFilled, WaitFlushLock, UpdateRead, FlusherKnown
  <1>5. CASE WriteLog
    <2>1. ~hExit /\ mpc # "freed" /\ dest' = <<>> /\ mpc' = mpc
      BY <1>5 DEF WriteLog, FlusherKnown
    <2>2. /\ fpc' \in {"wait", "exited"}
          /\ hExit' => fpc' = "exited"
      BY <1>5, <2>1 DEF WriteLog
    <2> QED
      BY <2>1, <2>2 DEF FlusherKnown
  <1>4. CASE TimerFires \/ Destruct \/ Free \/ UNCHANGED vars
    BY <1>4 DEF TimerFires, Destruct, Free, vars, flusher, FlusherKnown
  <1> QED
    BY <1>1, <1>2, <1>3, <1>4, <1>5 DEF Next, Terminated, FlushStep

LEMMA LogNext == LogIInv /\ [Next]_vars => LogIInv'
  <1> SUFFICES ASSUME LogIInv, [Next]_vars PROVE LogIInv'
    OBVIOUS
  <1>1. IInv /\ FlusherKnown /\ IInv' /\ FlusherKnown'
    BY NextInv, FlusherKnownNext DEF LogIInv
  <1> SUFFICES ASSUME ~lost' PROVE \E base \in Base' : LogAt(base)'
    BY <1>1 DEF LogIInv
  <1>2. ~lost
    BY <1>1, LostStays DEF IInv, TypeOK, DataTypes
  <1>3. PICK base \in Base : LogAt(base)
    BY <1>2 DEF LogIInv
  <1>4. ASSUME NEW w \in Writer, WriterStep(w) PROVE \E b \in Base' : LogAt(b)'
    BY <1>1, <1>3, <1>4, LogQuiet, LogReserve, LogCopyByte, LogLeave DEF WriterStep, Quiet
  <1>5. CASE FlushStep
    BY <1>1, <1>3, <1>5, LogFlushLook, LogLookFilled, LogWaitFlushLock, LogTakeBytes,
      LogUpdateRead, LogWriteLog DEF FlushStep
  <1>6. CASE TimerFires \/ Destruct \/ UNCHANGED vars
    BY <1>1, <1>3, <1>6, LogFlushLook
  <1>7. CASE Free
    BY <1>1, <1>3, <1>7, LogFree
  <1> QED
    BY <1>4, <1>5, <1>6, <1>7 DEF Next, Terminated

(* The places of every writer and every byte of the file are known at any time
   at which no byte has been overwritten before it was flushed. *)
THEOREM LogInvariantHolds == Spec => []LogIInv
  BY LogInit, LogNext, PTL DEF Spec

(* The flush thread never copies a cell that a writer is filling. *)
LEMMA NothingTorn == LogIInv => NoTornRead
  <1> SUFFICES ASSUME LogIInv, ~lost, fpc \in {"take", "update"}, NEW w \in Copying,
                      NEW x \in 0..n[w] - 1, NEW b \in 1..num,
                      Place(wr[w], ww[w], x) = Taken[b]
               PROVE  FALSE
    BY DEF NoTornRead, Region, Places
  <1>1. PICK base \in Base : LogAt(base)
    BY DEF LogIInv
  <1>2. /\ InHand = num /\ Flushing /\ num \in 0..Size /\ Flushed \in Nat /\ Granted \in Nat
        /\ base[w] \in Nat /\ n[w] \in 0..Size /\ wr[w] \in Cell
        /\ (wr[w] > ww[w] => n[w] <= wr[w] - ww[w])
    BY LogTypes DEF LogIInv, InHand, Flushing, Base, Copying, IInv, TypeOK, WriterTypes, LocalsFit
  <1>3. /\ fr = Wrap(Flushed) /\ Granted <= Flushed + Size
        /\ Flushed + num <= base[w] /\ base[w] + n[w] <= Granted /\ ww[w] = Wrap(base[w])
    BY <1>1, <1>2 DEF LogAt, PlacesKnown, SnapshotKnown, BytesInPlace, MessageAt
  <1>4. Place(wr[w], ww[w], x) = Wrap(base[w] + x)
    BY <1>2, <1>3, PlaceWraps
  <1>5. Taken[b] = Wrap(Flushed + b - 1)
    BY <1>2, <1>3, LogTypes, TakenWraps DEF LogIInv
  <1>6. /\ Flushed + b - 1 \in Nat /\ base[w] + x \in Nat
        /\ Flushed + b - 1 < base[w] + x /\ base[w] + x < Flushed + b - 1 + Size
    BY <1>2, <1>3
  <1> QED
    BY <1>4, <1>5, <1>6, WrapIsInjective

LEMMA LogInOrder == LogIInv => LogIsPrefix
  <1> SUFFICES ASSUME LogIInv, ~lost PROVE IsPrefixOf(file \o dest, hist)
    BY DEF LogIsPrefix
  <1>1. FileKnown
    BY DEF LogIInv, LogAt
  <1>2. file \in Seq(Content) /\ dest \in Seq(Content) /\ Granted \in Nat
    BY LogTypes DEF LogIInv, IInv, TypeOK, DataTypes
  <1>3. Len(file) \in Nat /\ Len(dest) \in Nat /\ Len(file \o dest) = Len(file) + Len(dest)
    BY <1>2
  <1>4. ASSUME NEW j \in 1..Len(file \o dest) PROVE (file \o dest)[j] = hist[j]
    <2>1. CASE j \in 1..Len(file)
      BY <1>1, <1>2, <2>1 DEF FileKnown
    <2>2. CASE j \notin 1..Len(file)
      <3>1. PICK x \in 1..Len(dest) : j = Len(file) + x
        <4>1. j - Len(file) \in 1..Len(dest) /\ j = Len(file) + (j - Len(file))
          BY <1>3, <2>2
        <4> QED
          BY <4>1
      <3> QED
        BY <1>1, <1>2, <1>3, <3>1 DEF FileKnown
    <2> QED
      BY <2>1, <2>2
  <1> QED
    BY <1>1, <1>3, <1>4 DEF IsPrefixOf, FileKnown, Granted

(* As long as no byte has been overwritten before it was flushed, the flush
   thread reads no cell that a writer is filling, and the file with what is on
   its way there is a prefix of the messages in the order of their sections of
   vGetPlaceInRingBuf: for any number of writers, any size and any lengths. *)
THEOREM LogHolds == Spec => []LogIsRight
  <1>1. LogIInv => LogIsRight
    BY NothingTorn, LogInOrder DEF LogIsRight
  <1> QED
    BY <1>1, LogInvariantHolds, PTL

(* The only step that overwrites a byte not yet flushed is the section of
   vGetPlaceInRingBuf, and the state it finds then is FULL, or an EMPTY that
   was stored over a place granted since the flush thread had looked, or an
   EMPTY that was stored over a buffer it had seen FULL and taken 0 bytes of:
   while it is PART_FILL, or an EMPTY stored otherwise, the free space it
   computes is truly free. *)
THEOREM OverwriteNeedsFalseState == Spec => OverwriteOnlyFromFalseState
  <1> DEFINE Lies == state = "FULL" \/ (state = "EMPTY" /\ emptied # "nothing")
  <1>1. LogIInv /\ [Next]_vars => (lost' # lost => owed # {} /\ Lies)
    <2> SUFFICES ASSUME LogIInv, [Next]_vars, lost' # lost
                 PROVE  owed # {} /\ Lies
      OBVIOUS
    <2>1. PICK w \in Writer : Reserve(w)
      BY DEF Next, WriterStep, FlushStep, CallWrite, Finish, AskFlush, Wake, CopyByte, Leave,
        StartTimer, FlushWake, LookEmpty, LookFilled, WaitFlushLock, TakeBytes, UpdateRead,
        WriteLog, TimerFires, Destruct, Free, Terminated, vars, ghosts
    <2>2. ~lost /\ owed \intersect Places(read_p, write_p, n[w]) # {}
      BY <2>1 DEF Reserve, LogIInv, IInv, TypeOK, DataTypes
    <2>3. owed # {}
      BY <2>2
    <2>5. ASSUME state = "EMPTY", emptied = "nothing" PROVE FALSE
      <3>1. PICK base \in Base : LogAt(base)
        BY <2>2 DEF LogIInv
      <3>2. IInv /\ FlusherKnown /\ mpc # "freed"
        BY <2>1 DEF LogIInv, IInv, LocalsFit, Reserve
      <3>3. Granted = Flushed /\ Flushed \in Nat /\ owed = {Wrap(p) : p \in Owed}
        BY <2>5, <3>1, <3>2, LogTypes DEF LogAt, PlacesKnown
      <3>4. Owed = {}
        BY <3>3 DEF Owed
      <3> QED
        BY <2>3, <3>3, <3>4
    <2>4. ASSUME state = "PART_FILL" PROVE FALSE
      <3>1. PICK base \in Base : LogAt(base)
        BY <2>2 DEF LogIInv
      <3>2. IInv /\ FlusherKnown /\ mpc # "freed"
        BY <2>1 DEF LogIInv, IInv, LocalsFit, Reserve
      <3>3. /\ n[w] \in 0..Size /\ n[w] <= sizeFreeSpaceInRingBuf
            /\ read_p > write_p => n[w] <= read_p - write_p
            /\ read_p \in Cell /\ write_p \in Cell
        <4>1. n[w] \in 0..Size /\ read_p \in Cell /\ write_p \in Cell
          BY <3>2, LogTypes
        <4>2. sizeFreeSpaceInRingBuf >= n[w] /\ sizeFreeSpaceInRingBuf \in 0..Size
          BY <2>1, <3>2, FreeSpace DEF Reserve, IInv
        <4> QED
          BY <3>2, <4>1, <4>2, FreeSpace DEF IInv
      <3>4. /\ read_p = Wrap(Flushed) /\ write_p = Wrap(Granted)
            /\ Flushed < Granted /\ Granted < Flushed + Size
            /\ owed = {Wrap(p) : p \in Owed} /\ Flushed \in Nat /\ Granted \in Nat
        BY <2>4, <3>1, <3>2, LogTypes DEF LogAt, PlacesKnown
      <3>5. Granted + n[w] <= Flushed + Size
        <4>1. PICK d \in 0..Size : Granted = Flushed + d
          BY <3>4, Granted - Flushed \in 0..Size
        <4>2. Wrap(Flushed + d) = IF Wrap(Flushed) + d < Size THEN Wrap(Flushed) + d
                                  ELSE Wrap(Flushed) + d - Size
          BY <3>4, WrapStep
        <4>3. 0 < d /\ d < Size /\ read_p \in 0..Size - 1
              /\ write_p = IF read_p + d < Size THEN read_p + d ELSE read_p + d - Size
          BY <3>4, <4>1, <4>2, WrapIsCell
        <4>4. sizeFreeSpaceInRingBuf = Size - d
          BY <2>4, <4>3 DEF sizeFreeSpaceInRingBuf
        <4> QED
          BY <3>3, <3>4, <4>1, <4>4
      <3>6. PICK x \in 0..n[w] - 1, p \in Owed : Place(read_p, write_p, x) = Wrap(p)
        BY <2>2, <3>4 DEF Places
      <3>7. Place(read_p, write_p, x) = Wrap(Granted + x)
        BY <3>3, <3>4, PlaceWraps
      <3>8. p \in Nat /\ Granted + x \in Nat /\ p < Granted + x /\ Granted + x < p + Size
        BY <3>3, <3>4, <3>5 DEF Owed
      <3> QED
        BY <3>6, <3>7, <3>8, WrapIsInjective
    <2>6. state \in {"EMPTY", "PART_FILL", "FULL"}
      BY DEF LogIInv, IInv, TypeOK, BufferTypes
    <2> QED
      BY <2>3, <2>4, <2>5, <2>6
  <1> QED
    BY <1>1, LogInvariantHolds, PTL DEF Spec, OverwriteOnlyFromFalseState
=============================================================================
