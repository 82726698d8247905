-------------------------------- MODULE KLog --------------------------------
(***************************************************************************)
(* WindowsOS/kLogger: the ring buffer of RingBuffer.tla inside a driver.   *)
(* The algorithm on the pointers is the same; what is new is the interrupt *)
(* request level.  A thread may wait for an event or call a Zw function    *)
(* only at PASSIVE_LEVEL, so every function lowers the level and raises it *)
(* again, and has to remember the level to raise it to.                    *)
(*                                                                         *)
(* Bytes are left out (RingBuffer.tla has them).  A write-locked section   *)
(* is one step, taken together with the end of the wait that opens it; the *)
(* flush thread's read-locked one is two, as its end is a wait again.      *)
(***************************************************************************)
EXTENDS Integers, FiniteSets

CONSTANTS
  Writer,         \* threads that call writeInKLog
  WorkLevel,      \* the level constructKLog was called at: kl->irql
  CallLevel,      \* the level each writer raises itself to before it writes
  Size, PageSize, Length, Messages

PASSIVE == 0
Level == PASSIVE..2                        \* up to HIGH_LEVEL

ASSUME WriterAssumption == IsFiniteSet(Writer) /\ "flush" \notin Writer /\ "main" \notin Writer
ASSUME LevelAssumption == WorkLevel \in Level /\ CallLevel \in [Writer -> Level]
ASSUME SizeAssumption ==
  /\ PageSize \in Nat \ {0} /\ Size \in Nat \ {0}
  /\ Length \subseteq 1..Size /\ Messages \in Nat

Event == {"FLUSH_FUNC", "FLUSH_TIMER", "FLUSH_EXIT"}

VARIABLES
  read_p, write_p, state, lWriters,        \* fields of the KLog
  kFlushLock, pvFlushEvents, kExit,        \* events
  level,                                   \* the IRQL of each thread
  irql,                                    \* local irql of writeInKLog
  saved,                                   \* local irql of the lock functions
  pc, i, n,                                \* per writer, as in RingBuffer
  entry, retried,                          \* history: the level of the call,
                                           \* whether it had to sleep
  fpc, event, fr, fw, num, bufEmpty,       \* flush thread
  mpc                                      \* DriverEntry after the threads start

buffer == <<read_p, write_p, state, lWriters>>
writers == <<irql, saved, pc, i, n, entry, retried>>
flusher == <<fpc, event, fr, fw, num, bufEmpty>>
vars == <<buffer, kFlushLock, pvFlushEvents, kExit, level, writers, flusher, mpc>>

Thread == Writer \union {"flush", "main"}
Locker == Writer \union {"flush"}

(* The flush thread holds the read lock until the wait that ends it succeeds;
   nobody gets the write lock in between. *)
ReadLocked == fpc \in {"looking", "unlockwait"}

sizeFreeSpaceInKLog ==
  IF read_p > write_p THEN read_p - write_p
  ELSE IF state = "EMPTY" THEN Size
  ELSE Size - (write_p - read_p)

sizeBusySpaceInKLog ==
  IF read_p > write_p THEN Size - (read_p - write_p)
  ELSE IF state = "FULL" THEN 0
  ELSE write_p - read_p

Init ==
  /\ read_p = 0 /\ write_p = 0 /\ state = "EMPTY" /\ lWriters = 0
  /\ kFlushLock = TRUE /\ kExit = FALSE
  /\ pvFlushEvents = [e \in Event |-> FALSE]
  /\ level = [t \in Thread |-> IF t \in Writer THEN CallLevel[t]
                               ELSE IF t = "main" THEN WorkLevel ELSE PASSIVE]
  /\ irql = [w \in Writer |-> PASSIVE]
  /\ saved = [t \in Locker |-> PASSIVE]
  /\ pc = [w \in Writer |-> "loop"]
  /\ i = [w \in Writer |-> 0]
  /\ n = [w \in Writer |-> 0]
  /\ entry = [w \in Writer |-> PASSIVE]
  /\ retried = [w \in Writer |-> FALSE]
  /\ fpc = "start" /\ event = "FLUSH_FUNC" /\ fr = 0 /\ fw = 0 /\ num = 0
  /\ bufEmpty = FALSE
  /\ mpc = "join"

-----------------------------------------------------------------------------
(* A lock function saves the level and waits at PASSIVE_LEVEL. *)
WaitForLock(t) ==
  /\ saved' = [saved EXCEPT ![t] = level[t]]
  /\ level' = [level EXCEPT ![t] = PASSIVE]

(* After the wait it raises the level again, and vWriteKLogUnLock ends at the
   level at which it was called. *)
BackToLevel(t, l) == level' = [level EXCEPT ![t] = l]

(* writeInKLog saves the level, then takes the lock. *)
CallWrite(w) ==
  /\ pc[w] = "loop" /\ i[w] < Messages
  /\ \E len \in Length : n' = [n EXCEPT ![w] = len]
  /\ irql' = [irql EXCEPT ![w] = level[w]]
  /\ WaitForLock(w)
  /\ entry' = [entry EXCEPT ![w] = level[w]]
  /\ retried' = [retried EXCEPT ![w] = FALSE]
  /\ pc' = [pc EXCEPT ![w] = "lockwait"]
  /\ UNCHANGED <<buffer, kFlushLock, pvFlushEvents, kExit, i, flusher, mpc>>

(* With enough space: the lock raises to saved, the reset of kFlushLock lowers
   and raises to irql.  KeRaiseIrql(irql, &irql) leaves PASSIVE in irql. *)
Reserve(w) ==
  /\ pc[w] = "lockwait" /\ ~ReadLocked
  /\ sizeFreeSpaceInKLog >= n[w]
  /\ lWriters' = lWriters + 1
  /\ kFlushLock' = FALSE
  /\ write_p' = (write_p + n[w]) % Size
  /\ state' = IF write_p' = read_p THEN "FULL" ELSE "PART_FILL"
  /\ BackToLevel(w, irql[w])
  /\ irql' = [irql EXCEPT ![w] = PASSIVE]
  /\ pc' = [pc EXCEPT ![w] = "copy"]
  /\ UNCHANGED <<read_p, pvFlushEvents, kExit, saved, i, n, entry, retried, flusher, mpc>>

(* Without: flushKLog raises to kl->irql whatever the level was, the unlock
   keeps that level, and the writer stalls at PASSIVE_LEVEL having saved it. *)
AskFlush(w) ==
  /\ pc[w] = "lockwait" /\ ~ReadLocked
  /\ sizeFreeSpaceInKLog < n[w]
  /\ pvFlushEvents' = [pvFlushEvents EXCEPT !["FLUSH_FUNC"] = TRUE]
  /\ irql' = [irql EXCEPT ![w] = WorkLevel]
  /\ level' = [level EXCEPT ![w] = PASSIVE]
  /\ retried' = [retried EXCEPT ![w] = TRUE]
  /\ pc' = [pc EXCEPT ![w] = "stall"]
  /\ UNCHANGED <<buffer, kFlushLock, kExit, saved, i, n, entry, flusher, mpc>>

(* After the stall KeRaiseIrql(irql, &irql) restores the level and clears
   irql; vWriteKLogLock saves the level once more. *)
Retry(w) ==
  /\ pc[w] = "stall"
  /\ saved' = [saved EXCEPT ![w] = irql[w]]
  /\ irql' = [irql EXCEPT ![w] = PASSIVE]
  /\ pc' = [pc EXCEPT ![w] = "lockwait"]
  /\ UNCHANGED <<buffer, kFlushLock, pvFlushEvents, kExit, level, i, n, entry, retried,
                 flusher, mpc>>

(* Mutant: the level is not lowered before the wait. *)
CopiedHigh(w) ==
  /\ pc[w] = "copy"
  /\ saved' = [saved EXCEPT ![w] = level[w]]
  /\ pc' = [pc EXCEPT ![w] = "leavewait"]
  /\ UNCHANGED <<buffer, kFlushLock, pvFlushEvents, kExit, level, irql, i, n, entry,
                 retried, flusher, mpc>>

Copied(w) ==
  /\ pc[w] = "copy"
  /\ WaitForLock(w)
  /\ pc' = [pc EXCEPT ![w] = "leavewait"]
  /\ UNCHANGED <<buffer, kFlushLock, pvFlushEvents, kExit, irql, i, n, entry, retried,
                 flusher, mpc>>

(* Mutant: the level is not raised again. *)
LeaveLow(w) ==
  /\ pc[w] = "leavewait" /\ ~ReadLocked
  /\ lWriters' = lWriters - 1
  /\ kFlushLock' = (kFlushLock \/ lWriters' = 0)
  /\ i' = [i EXCEPT ![w] = @ + 1]
  /\ pc' = [pc EXCEPT ![w] = IF i[w] + 1 = Messages THEN "done" ELSE "loop"]
  /\ UNCHANGED <<read_p, write_p, state, pvFlushEvents, kExit, level, irql, saved, n,
                 entry, retried, flusher, mpc>>

Leave(w) ==
  /\ pc[w] = "leavewait" /\ ~ReadLocked
  /\ lWriters' = lWriters - 1
  /\ kFlushLock' = (kFlushLock \/ lWriters' = 0)
  /\ BackToLevel(w, saved[w])
  /\ i' = [i EXCEPT ![w] = @ + 1]
  /\ pc' = [pc EXCEPT ![w] = IF i[w] + 1 = Messages THEN "done" ELSE "loop"]
  /\ UNCHANGED <<read_p, write_p, state, pvFlushEvents, kExit, irql, saved, n,
                 entry, retried, flusher, mpc>>

-----------------------------------------------------------------------------
(* FlushThreadFunction: the thread starts at PASSIVE_LEVEL, sets the timer and
   raises to the work level; the head of the loop lowers again. *)
StartTimer ==
  /\ fpc = "start"
  /\ fpc' = "wait"
  /\ UNCHANGED <<buffer, kFlushLock, pvFlushEvents, kExit, level, writers, event,
                 fr, fw, num, bufEmpty, mpc>>

TimerFires ==
  /\ fpc \notin {"start", "exited"}
  /\ ~pvFlushEvents["FLUSH_TIMER"]
  /\ pvFlushEvents' = [pvFlushEvents EXCEPT !["FLUSH_TIMER"] = TRUE]
  /\ UNCHANGED <<buffer, kFlushLock, kExit, level, writers, flusher, mpc>>

(* The wait is over, the level is raised, and iTakeFromKLog is called. *)
FlushWake(e) ==
  /\ fpc = "wait" /\ pvFlushEvents[e]
  /\ e = "FLUSH_TIMER" => ~pvFlushEvents["FLUSH_FUNC"]
  /\ e = "FLUSH_EXIT" => ~pvFlushEvents["FLUSH_FUNC"] /\ ~pvFlushEvents["FLUSH_TIMER"]
  /\ pvFlushEvents' = [pvFlushEvents EXCEPT ![e] = FALSE]
  /\ event' = e
  /\ fpc' = "called"
  /\ level' = [level EXCEPT !["flush"] = WorkLevel]
  /\ UNCHANGED <<buffer, kFlushLock, kExit, writers, fr, fw, num, bufEmpty, mpc>>

(* What is the same in every step of the flush thread that takes a lock. *)
FlushAsks(from, to) ==
  /\ fpc = from /\ fpc' = to
  /\ WaitForLock("flush")
  /\ UNCHANGED <<buffer, kFlushLock, pvFlushEvents, kExit, irql, pc, i, n, entry, retried,
                 event, fr, fw, num, bufEmpty, mpc>>

ReadLock == FlushAsks("called", "readwait")

(* vReadKLogLock has the lock and raises; the fields are read. *)
Look ==
  /\ fpc = "readwait"
  /\ BackToLevel("flush", saved["flush"])
  /\ bufEmpty' = (state = "EMPTY")
  /\ fr' = read_p /\ fw' = write_p
  /\ num' = IF sizeBusySpaceInKLog < PageSize THEN sizeBusySpaceInKLog ELSE PageSize
  /\ fpc' = "looking"
  /\ UNCHANGED <<buffer, kFlushLock, pvFlushEvents, kExit, writers, event, mpc>>

ReadUnLock == FlushAsks("looking", "unlockwait")

ReadUnLocked ==
  /\ fpc = "unlockwait"
  /\ BackToLevel("flush", saved["flush"])
  /\ fpc' = IF bufEmpty THEN "taken" ELSE "looked"
  /\ UNCHANGED <<buffer, kFlushLock, pvFlushEvents, kExit, writers, event, fr, fw, num,
                 bufEmpty, mpc>>

(* The level is lowered for kFlushLock and for ZwWriteFile. *)
Lower ==
  /\ fpc \in {"looked", "taken"}
  /\ fpc' = IF fpc = "looked" THEN "flushwait" ELSE "write"
  /\ level' = [level EXCEPT !["flush"] = PASSIVE]
  /\ UNCHANGED <<buffer, kFlushLock, pvFlushEvents, kExit, writers, event, fr, fw, num,
                 bufEmpty, mpc>>

Take ==
  /\ fpc = "flushwait" /\ kFlushLock
  /\ level' = [level EXCEPT !["flush"] = WorkLevel]
  /\ fpc' = "copying"
  /\ UNCHANGED <<buffer, kFlushLock, pvFlushEvents, kExit, writers, event, fr, fw,
                 num, bufEmpty, mpc>>

WriteLock == FlushAsks("copying", "writewait")

UpdateRead ==
  /\ fpc = "writewait"
  /\ read_p' = (fr + num) % Size
  /\ state' = IF fw = (fr + num) % Size THEN "EMPTY" ELSE "PART_FILL"
  /\ BackToLevel("flush", saved["flush"])
  /\ fpc' = "taken"
  /\ UNCHANGED <<write_p, lWriters, kFlushLock, pvFlushEvents, kExit, writers, event,
                 fr, fw, num, bufEmpty, mpc>>

(* ZwWriteFile; the level is PASSIVE when the thread waits or ends next. *)
WriteLog ==
  /\ fpc = "write"
  /\ fpc' = IF event = "FLUSH_EXIT" THEN "exited" ELSE "wait"
  /\ kExit' = (kExit \/ event = "FLUSH_EXIT")
  /\ UNCHANGED <<buffer, kFlushLock, pvFlushEvents, level, writers, event, fr, fw,
                 num, bufEmpty, mpc>>

-----------------------------------------------------------------------------

(* DriverEntry lowers the level, waits for the writers, calls destructKLog. *)
Destruct ==
  /\ mpc = "join" /\ \A w \in Writer : pc[w] = "done"
  /\ pvFlushEvents' = [pvFlushEvents EXCEPT !["FLUSH_EXIT"] = TRUE]
  /\ level' = [level EXCEPT !["main"] = PASSIVE]
  /\ mpc' = "exitwait"
  /\ UNCHANGED <<buffer, kFlushLock, kExit, writers, flusher>>

(* The fields are cleared and the structure is freed. *)
Free ==
  /\ mpc = "exitwait" /\ kExit
  /\ kExit' = FALSE
  /\ read_p' = 0 /\ write_p' = 0 /\ state' = "EMPTY" /\ lWriters' = 0
  /\ mpc' = "raise"
  /\ UNCHANGED <<kFlushLock, pvFlushEvents, level, writers, flusher>>

(* KeRaiseIrql(kl->irql, &irql) reads the level from what was freed: it may be
   any by now. *)
RaiseFromFreed ==
  /\ mpc = "raise"
  /\ \E l \in Level : level' = [level EXCEPT !["main"] = l]
  /\ mpc' = "freed"
  /\ UNCHANGED <<buffer, kFlushLock, pvFlushEvents, kExit, writers, flusher>>

Terminated == mpc = "freed" /\ UNCHANGED vars

Next ==
  \/ \E w \in Writer : CallWrite(w) \/ Reserve(w) \/ AskFlush(w) \/ Retry(w)
                       \/ Copied(w) \/ Leave(w)
  \/ StartTimer \/ TimerFires \/ (\E e \in Event : FlushWake(e))
  \/ ReadLock \/ Look \/ ReadUnLock \/ ReadUnLocked \/ Lower \/ Take
  \/ WriteLock \/ UpdateRead \/ WriteLog
  \/ Destruct \/ Free \/ RaiseFromFreed \/ Terminated

Spec == Init /\ [][Next]_vars
-----------------------------------------------------------------------------
(* Types of the fields, the levels and the positions. *)
TypeOK ==
  /\ read_p \in 0..Size - 1 /\ write_p \in 0..Size - 1
  /\ state \in {"EMPTY", "PART_FILL", "FULL"} /\ lWriters \in Nat
  /\ level \in [Thread -> Level]
  /\ irql \in [Writer -> Level] /\ saved \in [Locker -> Level]
  /\ pc \in [Writer -> {"loop", "lockwait", "copy", "stall", "leavewait", "done"}]
  /\ num \in 0..PageSize

(* The kernel's rule: whoever waits, stalls or calls a Zw function is at
   PASSIVE_LEVEL, whatever level the callers of the logger and the flush thread
   run at in between. *)
WaitsAtPassive ==
  /\ \A w \in Writer : pc[w] \in {"lockwait", "stall", "leavewait"} => level[w] = PASSIVE
  /\ fpc \in {"start", "wait", "readwait", "unlockwait", "flushwait", "writewait",
              "write", "exited"} => level["flush"] = PASSIVE
  /\ mpc = "exitwait" => level["main"] = PASSIVE

(* The level a writer copies at and returns with is the one it called with, or
   else the call had to sleep and the level is PASSIVE: saving the
   level into the variable KeRaiseIrql overwrites is the only leak. *)
LevelLostOnlyByRetry ==
  [][\A w \in Writer :
       pc'[w] # pc[w] /\ pc'[w] \in {"copy", "loop", "done"} =>
         level'[w] = IF retried[w] THEN PASSIVE ELSE entry[w]]_vars

(* lWriters counts the writers between their two locked sections, and the
   notification event kFlushLock, which two functions set and reset, is up when
   there is none: the flush thread waits for nobody else. *)
Inside == {w \in Writer : pc[w] \in {"copy", "leavewait"}}

FlushLockMirrorsWriters ==
  /\ lWriters = Cardinality(Inside)
  /\ kFlushLock <=> Inside = {}

(* Once destructKLog has freed the structure, no other thread uses it any more.
   destructKLog does: RaiseFromFreed reads kl->irql. *)
OthersHaveLeft ==
  mpc \in {"raise", "freed"} => fpc = "exited" /\ \A w \in Writer : pc[w] = "done"

(* The four together: the state that every step of the logger keeps. *)
Inv == TypeOK /\ WaitsAtPassive /\ FlushLockMirrorsWriters /\ OthersHaveLeft
=============================================================================
