------------------------------ MODULE RingBuffer ------------------------------
(***************************************************************************)
(* WindowsOS/RingBuffer: threads that append messages to a shared ring     *)
(* buffer and one flush thread that moves the buffer to a log file.        *)
(*                                                                         *)
(* Everything the code does between a lock and its unlock is one step      *)
(* here: RingBufLock shows that such sections never overlap.  What the     *)
(* code does outside the lock, copying bytes in and out, waiting for       *)
(* events, is in steps of its own.  A byte is the tuple <<thread, message, *)
(* index>>, so that a log tells which bytes it holds.                      *)
(***************************************************************************)
EXTENDS Integers, Sequences, FiniteSets

CONSTANTS
  Writer,       \* the threads of main.c
  Size,         \* rb->size = PAGESIZE << order
  PageSize,     \* PAGESIZE, the most one flush takes
  Length,       \* the lengths n a writer may pass
  Messages,     \* messages per writer (101 in main.c)
  FlushEvery    \* a writer asks for a flush before every FlushEvery-th (10)

ASSUME SizeAssumption ==
  /\ PageSize \in Nat \ {0} /\ Size \in Nat \ {0}
  /\ \E order \in 0..Size : Size = PageSize * 2^order
ASSUME WriterAssumption ==
  /\ IsFiniteSet(Writer)
  /\ Length \subseteq 1..Size          \* the assert of writeInRingBuf
  /\ Messages \in Nat /\ FlushEvery \in Nat \ {0}

Cell == 0..Size - 1
Event == {"FLUSH_FUNC", "FLUSH_TIMER", "FLUSH_EXIT"}
Byte == Writer \X (0..Messages) \X (0..Size)
NoByte == <<>>                         \* what malloc left in a cell

VARIABLES
  read_p, write_p, state, dwWriters,   \* the fields of the RingBuf
  buf,                                 \* rb->buf
  hFlushLock,                          \* event: no writer is copying
  hFlushEvents, hExit,                 \* events
  pc, i, n, wr, ww, k,                 \* per writer: place, message number,
                                       \* length, local read_p and write_p,
                                       \* bytes copied so far
  fpc, dwEvent, fr, fw, num, dest,     \* the flush thread and its locals
  mpc,                                 \* the main thread
  file,                                \* the bytes in the log file
  hist, owed, lost,                    \* history: bytes in the order their
                                       \* places were granted; cells granted
                                       \* and not flushed; was one overwritten
  stale, emptied                       \* history: was a place granted since the
                                       \* flush thread looked; what the last
                                       \* EMPTY was stored over

rb == <<read_p, write_p, state, dwWriters>>
writers == <<pc, i, n, wr, ww, k>>
flusher == <<fpc, dwEvent, fr, fw, num, dest>>
ghosts == <<hist, owed, lost, stale, emptied>>
vars == <<rb, buf, hFlushLock, hFlushEvents, hExit, writers, flusher, mpc, file, ghosts>>

-----------------------------------------------------------------------------
(* Mutant: the busy space is taken for the free one. *)
sizeFreeSwapped ==
  IF read_p > write_p THEN read_p - write_p
  ELSE IF state = "EMPTY" THEN Size
  ELSE write_p - read_p

sizeFreeSpaceInRingBuf ==
  IF read_p > write_p THEN read_p - write_p
  ELSE IF state = "EMPTY" THEN Size
  ELSE Size - (write_p - read_p)

sizeBusySpaceInRingBuf ==
  IF read_p > write_p THEN Size - (read_p - write_p)
  ELSE IF state = "FULL" THEN 0
  ELSE write_p - read_p

Least(a, b) == IF a <= b THEN a ELSE b

(* Mutant: the wrap is forgotten. *)
PlaceFlat(r, w, b) == w + b

(* The cell that byte b of a message goes to, from the read and write pointers
   the writer saw: what does not fit before the end of the buffer goes to its
   start, if the write pointer was not below the read pointer. *)
Place(r, w, b) == IF w >= r /\ b >= Size - w THEN b - (Size - w) ELSE w + b

Places(r, w, len) == {Place(r, w, b) : b \in 0..len - 1}

Region(t) == Places(wr[t], ww[t], n[t])

(* The cells the flush thread copies, in order, and the read pointer after. *)
Taken == [b \in 1..num |->
            IF fw > fr \/ fr + b - 1 < Size THEN fr + b - 1 ELSE fr + b - 1 - Size]

(* Mutant: the wrap is forgotten. *)
NextReadFlat == fr + num

NextRead == (fr + num) % Size

-----------------------------------------------------------------------------
Init ==
  /\ read_p = 0 /\ write_p = 0 /\ state = "EMPTY" /\ dwWriters = 0
  /\ buf = [c \in Cell |-> NoByte]
  /\ hFlushLock = TRUE
  /\ hFlushEvents = [e \in Event |-> FALSE]
  /\ hExit = FALSE
  /\ pc = [w \in Writer |-> "loop"]
  /\ i = [w \in Writer |-> 0]
  /\ n = [w \in Writer |-> 0]
  /\ wr = [w \in Writer |-> 0]
  /\ ww = [w \in Writer |-> 0]
  /\ k = [w \in Writer |-> 0]
  /\ fpc = "start" /\ dwEvent = "FLUSH_FUNC"
  /\ fr = 0 /\ fw = 0 /\ num = 0 /\ dest = <<>>
  /\ mpc = "join"
  /\ file = <<>>
  /\ hist = <<>> /\ owed = {} /\ lost = FALSE
  /\ stale = FALSE /\ emptied = "nothing"

(* writeThreadFunction: the loop head, the periodic flushRingBuf and the call
   of writeInRingBuf. *)
CallWrite(w) ==
  /\ pc[w] = "loop" /\ i[w] < Messages
  /\ \E len \in Length : n' = [n EXCEPT ![w] = len]
  /\ hFlushEvents' = [hFlushEvents EXCEPT !["FLUSH_FUNC"] = @ \/ i[w] % FlushEvery = 0]
  /\ pc' = [pc EXCEPT ![w] = "enter"]
  /\ UNCHANGED <<rb, buf, hFlushLock, hExit, i, wr, ww, k, flusher, mpc, file, ghosts>>

Finish(w) ==
  /\ pc[w] = "loop" /\ i[w] = Messages
  /\ pc' = [pc EXCEPT ![w] = "done"]
  /\ UNCHANGED <<rb, buf, hFlushLock, hFlushEvents, hExit, i, n, wr, ww, k, flusher,
                 mpc, file, ghosts>>

(* The section that finds enough space: it takes the place, forbids flushing
   and moves the write pointer (vGetPlaceInRingBuf). *)
Reserve(w) ==
  /\ pc[w] = "enter"
  /\ sizeFreeSpaceInRingBuf >= n[w]
  /\ wr' = [wr EXCEPT ![w] = read_p]
  /\ ww' = [ww EXCEPT ![w] = write_p]
  /\ k' = [k EXCEPT ![w] = 0]
  /\ dwWriters' = dwWriters + 1
  /\ hFlushLock' = FALSE
  /\ write_p' = (write_p + n[w]) % Size
  /\ state' = IF write_p' = read_p THEN "FULL" ELSE "PART_FILL"
  /\ pc' = [pc EXCEPT ![w] = "copy"]
  /\ hist' = hist \o [b \in 1..n[w] |-> <<w, i[w], b - 1>>]
  /\ owed' = owed \union Places(read_p, write_p, n[w])
  /\ lost' = (lost \/ owed \intersect Places(read_p, write_p, n[w]) # {})
  /\ stale' = TRUE
  /\ UNCHANGED <<read_p, buf, hFlushEvents, hExit, i, n, flusher, mpc, file, emptied>>

(* The section that does not: it asks for a flush, and the writer sleeps. *)
AskFlush(w) ==
  /\ pc[w] = "enter"
  /\ sizeFreeSpaceInRingBuf < n[w]
  /\ hFlushEvents' = [hFlushEvents EXCEPT !["FLUSH_FUNC"] = TRUE]
  /\ pc' = [pc EXCEPT ![w] = "sleep"]
  /\ UNCHANGED <<rb, buf, hFlushLock, hExit, i, n, wr, ww, k, flusher, mpc, file, ghosts>>

Wake(w) ==
  /\ pc[w] = "sleep"
  /\ pc' = [pc EXCEPT ![w] = "enter"]
  /\ UNCHANGED <<rb, buf, hFlushLock, hFlushEvents, hExit, i, n, wr, ww, k, flusher,
                 mpc, file, ghosts>>

(* The copy, outside the lock and byte by byte. *)
CopyByte(w) ==
  /\ pc[w] = "copy" /\ k[w] < n[w]
  /\ buf' = [buf EXCEPT ![Place(wr[w], ww[w], k[w])] = <<w, i[w], k[w]>>]
  /\ k' = [k EXCEPT ![w] = @ + 1]
  /\ UNCHANGED <<rb, hFlushLock, hFlushEvents, hExit, pc, i, n, wr, ww, flusher,
                 mpc, file, ghosts>>

(* Mutant: the last writer that leaves does not allow flushing. *)

LeaveOneOff(w) ==
  /\ pc[w] = "copy" /\ k[w] = n[w]
  /\ dwWriters' = dwWriters - 1
  /\ hFlushLock' = (hFlushLock \/ dwWriters' = 1)
  /\ i' = [i EXCEPT ![w] = @ + 1]
  /\ pc' = [pc EXCEPT ![w] = "loop"]
  /\ UNCHANGED <<read_p, write_p, state, buf, hFlushEvents, hExit, n, wr, ww, k,
                 flusher, mpc, file, ghosts>>

(* The last section: the last writer out allows flushing again. *)
Leave(w) ==
  /\ pc[w] = "copy" /\ k[w] = n[w]
  /\ dwWriters' = dwWriters - 1
  /\ hFlushLock' = (hFlushLock \/ dwWriters' = 0)
  /\ i' = [i EXCEPT ![w] = @ + 1]
  /\ pc' = [pc EXCEPT ![w] = "loop"]
  /\ UNCHANGED <<read_p, write_p, state, buf, hFlushEvents, hExit, n, wr, ww, k,
                 flusher, mpc, file, ghosts>>

-----------------------------------------------------------------------------
(* FlushThreadFunction creates the periodic timer, and the timer fires. *)
StartTimer ==
  /\ fpc = "start"
  /\ fpc' = "wait"
  /\ UNCHANGED <<rb, buf, hFlushLock, hFlushEvents, hExit, writers, dwEvent, fr, fw,
                 num, dest, mpc, file, ghosts>>

TimerFires ==
  /\ fpc \notin {"start", "exited"}
  /\ ~hFlushEvents["FLUSH_TIMER"]
  /\ hFlushEvents' = [hFlushEvents EXCEPT !["FLUSH_TIMER"] = TRUE]
  /\ UNCHANGED <<rb, buf, hFlushLock, hExit, writers, flusher, mpc, file, ghosts>>

(* WaitForMultipleObjects takes the first of the signalled events. *)
FlushWake(e) ==
  /\ fpc = "wait" /\ hFlushEvents[e]
  /\ e = "FLUSH_TIMER" => ~hFlushEvents["FLUSH_FUNC"]
  /\ e = "FLUSH_EXIT" => ~hFlushEvents["FLUSH_FUNC"] /\ ~hFlushEvents["FLUSH_TIMER"]
  /\ hFlushEvents' = [hFlushEvents EXCEPT ![e] = FALSE]
  /\ dwEvent' = e
  /\ fpc' = "look"
  /\ UNCHANGED <<rb, buf, hFlushLock, hExit, writers, fr, fw, num, dest, mpc, file, ghosts>>

(* iTakeFromRingBuf: the read-locked look at the buffer. *)
LookEmpty ==
  /\ fpc = "look" /\ state = "EMPTY"
  /\ num' = 0 /\ dest' = <<>>
  /\ fpc' = "write"
  /\ UNCHANGED <<rb, buf, hFlushLock, hFlushEvents, hExit, writers, dwEvent, fr, fw,
                 mpc, file, ghosts>>

LookFilled ==
  /\ fpc = "look" /\ state # "EMPTY"
  /\ fr' = read_p /\ fw' = write_p
  /\ num' = Least(PageSize, sizeBusySpaceInRingBuf)
  /\ stale' = FALSE
  /\ fpc' = "flushwait"
  /\ UNCHANGED <<rb, buf, hFlushLock, hFlushEvents, hExit, writers, dwEvent, dest,
                 mpc, file, hist, owed, lost, emptied>>

(* Mutant: the flush thread does not wait for the writers. *)
WaitFlushLockNot ==
  /\ fpc = "flushwait"
  /\ fpc' = "take"
  /\ UNCHANGED <<rb, buf, hFlushLock, hFlushEvents, hExit, writers, dwEvent, fr, fw,
                 num, dest, mpc, file, ghosts>>

(* The wait for hFlushLock, a manual-reset event: it stays signalled. *)
WaitFlushLock ==
  /\ fpc = "flushwait" /\ hFlushLock
  /\ fpc' = "take"
  /\ UNCHANGED <<rb, buf, hFlushLock, hFlushEvents, hExit, writers, dwEvent, fr, fw,
                 num, dest, mpc, file, ghosts>>

TakeBytes ==
  /\ fpc = "take"
  /\ dest' = [b \in 1..num |-> buf[Taken[b]]]
  /\ fpc' = "update"
  /\ UNCHANGED <<rb, buf, hFlushLock, hFlushEvents, hExit, writers, dwEvent, fr, fw,
                 num, mpc, file, ghosts>>

(* The write-locked update of the buffer, from the pointers seen before.  What
   an EMPTY is stored over: a buffer that was FULL when it was looked at, of
   which 0 bytes were taken; one in which a place was granted since; nothing. *)
UpdateRead ==
  /\ fpc = "update"
  /\ read_p' = NextRead
  /\ state' = IF fw = NextRead THEN "EMPTY" ELSE "PART_FILL"
  /\ owed' = owed \ {Taken[b] : b \in 1..num}
  /\ emptied' = IF fw # NextRead THEN emptied
                ELSE IF fr = fw THEN "full" ELSE IF stale THEN "granted" ELSE "nothing"
  /\ fpc' = "write"
  /\ UNCHANGED <<write_p, dwWriters, buf, hFlushLock, hFlushEvents, hExit, writers,
                 dwEvent, fr, fw, num, dest, mpc, file, hist, lost, stale>>

(* Mutant: the thread flushes on FLUSH_EXIT and goes on waiting. *)
WriteLogStays ==
  /\ fpc = "write"
  /\ file' = file \o dest
  /\ dest' = <<>>
  /\ fpc' = "wait"
  /\ UNCHANGED <<rb, buf, hFlushLock, hFlushEvents, hExit, writers, dwEvent, fr, fw, num,
                 mpc, ghosts>>

(* WriteFile, and the end of the thread on FLUSH_EXIT. *)
WriteLog ==
  /\ fpc = "write"
  /\ file' = file \o dest
  /\ dest' = <<>>
  /\ fpc' = IF dwEvent = "FLUSH_EXIT" THEN "exited" ELSE "wait"
  /\ hExit' = (hExit \/ dwEvent = "FLUSH_EXIT")
  /\ UNCHANGED <<rb, buf, hFlushLock, hFlushEvents, writers, dwEvent, fr, fw, num,
                 mpc, ghosts>>

-----------------------------------------------------------------------------
(* main joins the writers and calls destructRingBuf. *)
Destruct ==
  /\ mpc = "join" /\ \A w \in Writer : pc[w] = "done"
  /\ hFlushEvents' = [hFlushEvents EXCEPT !["FLUSH_EXIT"] = TRUE]
  /\ mpc' = "exitwait"
  /\ UNCHANGED <<rb, buf, hFlushLock, hExit, writers, flusher, file, ghosts>>

Free ==
  /\ mpc = "exitwait" /\ hExit
  /\ hExit' = FALSE
  /\ read_p' = 0 /\ write_p' = 0 /\ state' = "EMPTY" /\ dwWriters' = 0
  /\ mpc' = "freed"
  /\ UNCHANGED <<buf, hFlushLock, hFlushEvents, writers, flusher, file, ghosts>>

Terminated == mpc = "freed" /\ UNCHANGED vars

WriterStep(w) ==
  \/ CallWrite(w) \/ Finish(w) \/ Reserve(w) \/ AskFlush(w) \/ Wake(w)
  \/ CopyByte(w) \/ Leave(w)

FlushStep ==
  \/ StartTimer \/ (\E e \in Event : FlushWake(e)) \/ LookEmpty \/ LookFilled
  \/ WaitFlushLock \/ TakeBytes \/ UpdateRead \/ WriteLog

Next ==
  \/ \E w \in Writer : WriterStep(w)
  \/ FlushStep \/ TimerFires
  \/ Destruct \/ Free \/ Terminated

Spec == Init /\ [][Next]_vars

(* Threads that can run do, the timer keeps firing, and a wait that finds only
   FLUSH_EXIT signalled again and again is satisfied by it. *)
Fairness ==
  /\ \A w \in Writer : WF_vars(WriterStep(w))
  /\ WF_vars(FlushStep) /\ WF_vars(TimerFires)
  /\ SF_vars(FlushWake("FLUSH_EXIT"))
  /\ WF_vars(Destruct) /\ WF_vars(Free)

FairSpec == Spec /\ Fairness
-----------------------------------------------------------------------------
(* Types of the buffer's fields, of the threads' variables and of the log. *)
Content == Byte \union {NoByte}

BufferTypes ==
  /\ read_p \in Cell /\ write_p \in Cell
  /\ state \in {"EMPTY", "PART_FILL", "FULL"}
  /\ dwWriters \in Nat
  /\ hFlushLock \in BOOLEAN /\ hExit \in BOOLEAN
  /\ hFlushEvents \in [Event -> BOOLEAN]
  /\ mpc \in {"join", "exitwait", "freed"}

WriterTypes ==
  /\ pc \in [Writer -> {"loop", "enter", "sleep", "copy", "done"}]
  /\ i \in [Writer -> 0..Messages] /\ n \in [Writer -> 0..Size]
  /\ wr \in [Writer -> Cell] /\ ww \in [Writer -> Cell] /\ k \in [Writer -> 0..Size]

FlusherTypes ==
  /\ fpc \in {"start", "wait", "look", "flushwait", "take", "update", "write", "exited"}
  /\ dwEvent \in Event
  /\ fr \in Cell /\ fw \in Cell /\ num \in 0..Size

DataTypes ==
  /\ buf \in [Cell -> Content]
  /\ dest \in Seq(Content) /\ file \in Seq(Content)
  /\ hist \in Seq(Byte) /\ owed \in SUBSET Cell /\ lost \in BOOLEAN
  /\ stale \in BOOLEAN /\ emptied \in {"nothing", "granted", "full"}

TypeOK == BufferTypes /\ WriterTypes /\ FlusherTypes /\ DataTypes

Copying == {w \in Writer : pc[w] = "copy"}

(* hFlushLock is down exactly while some writer is between its two sections,
   and dwWriters counts those writers: no reset or set of the event is lost
   between the writers, and the flush thread is never locked out for good. *)
FlushLockMirrorsWriters ==
  /\ dwWriters = Cardinality(Copying)
  /\ hFlushLock <=> Copying = {}

(* A copy stays inside buf: the branch of writeInRingBuf that does not wrap is
   taken only when the message fits before the end. *)
CopyStaysInside == \A w \in Copying : Region(w) \subseteq Cell

(* What the locals of the threads keep of the buffer they saw: a message that
   is being copied fits where its writer saw room, and a flush takes no more
   than it saw filled.  The places of both are then cells of buf. *)
LocalsFit ==
  /\ \A w \in Writer : pc[w] \in {"enter", "sleep", "copy"} =>
        i[w] < Messages /\ n[w] \in Length
  /\ \A w \in Copying : k[w] <= n[w] /\ (wr[w] > ww[w] => n[w] <= wr[w] - ww[w])
  /\ fpc \in {"flushwait", "take", "update"} /\ fw > fr => num <= fw - fr
  /\ mpc # "join" => \A w \in Writer : pc[w] = "done"

IInv == TypeOK /\ LocalsFit /\ FlushLockMirrorsWriters

(* "If we write we can't flush": as long as no unread byte was overwritten, the
   cells the flush thread is about to copy are none of those a writer is
   filling, although writers may start after hFlushLock was passed. *)
NoTornRead ==
  ~lost /\ fpc \in {"take", "update"} =>
    \A w \in Copying : Region(w) \intersect {Taken[b] : b \in 1..num} = {}

(* As long as no unread byte was overwritten, the file with the bytes on their
   way to it is a prefix of the messages in the order of their reservation:
   nothing skipped, torn, repeated or reordered. *)
IsPrefixOf(s, t) == Len(s) <= Len(t) /\ \A j \in 1..Len(s) : s[j] = t[j]

LogIsPrefix == ~lost => IsPrefixOf(file \o dest, hist)

(* The log is right: what is in the file, and what is being taken for it. *)
LogIsRight == NoTornRead /\ LogIsPrefix

(* A byte overwritten before it was flushed is always the consequence of a
   state that lies, in one of three ways: a FULL buffer, which
   sizeFreeSpaceInRingBuf takes for a free one; an EMPTY stored over a place
   granted since the flush thread looked; an EMPTY stored over a buffer it saw
   FULL, of which sizeBusySpaceInRingBuf made it take 0 bytes.  An EMPTY stored
   otherwise, and a PART_FILL, can be trusted. *)
OverwriteOnlyFromFalseState ==
  [][lost' # lost =>
       owed # {} /\ (state = "FULL" \/ (state = "EMPTY" /\ emptied # "nothing"))]_vars

(* Every writer gets all its messages into the buffer, or else the buffer ends
   up for good in an EMPTY whose pointers differ, stored from an old write
   pointer: that the flush thread finds nothing to take there is the only way
   the loop of writeInRingBuf can last for ever. *)
WritersFinishOrFalseEmpty ==
  \/ \A w \in Writer : <>(pc[w] = "done")
  \/ <>[](state = "EMPTY" /\ read_p # write_p)

(* Once the writers are done destructRingBuf returns, if the flush thread is
   not so slow that the timer has fired again whenever it comes back to wait:
   FLUSH_EXIT is the last event it looks at. *)
TimerLeavesRoom == []<>(fpc = "exited" \/ (fpc = "wait" /\ ~hFlushEvents["FLUSH_TIMER"]))

DestructReturns ==
  TimerLeavesRoom => ((\A w \in Writer : pc[w] = "done") ~> mpc = "freed")

(* RingBuffer.c:520, "Now we have enough space": a writer that leaves the loop
   is never given cells that hold bytes not yet flushed. *)
EnoughSpace == ~lost
=============================================================================
