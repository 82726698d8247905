----------------------------- MODULE RingBufLock -----------------------------
(***************************************************************************)
(* The reader/writer lock of WindowsOS/RingBuffer/RingBuffer.c, built from *)
(* two auto-reset events and a counter.  One action per call of the Win32  *)
(* event functions; the increment and decrement of dwReaders are a load    *)
(* and a store, as the compiler emits them, so that the model shows the    *)
(* lock protects its own counter.                                          *)
(*                                                                         *)
(* kLogger.c has the same four functions with KeWaitForSingleObject,       *)
(* KeWaitForMultipleObjects, KeSetEvent and KeResetEvent.                  *)
(***************************************************************************)
EXTENDS Integers, FiniteSets

CONSTANTS
  ReadLocker,       \* threads that call vReadRingBufLock
  WriteLocker       \* threads that call vWriteRingBufLock; may meet ReadLocker

Thread == ReadLocker \union WriteLocker

ASSUME ThreadFinite == IsFiniteSet(Thread)

VARIABLES
  hReadLock,    \* event: nobody reads or writes
  hWriteLock,   \* event: the lock's own state is not being used
  dwReaders,    \* rb->dwReaders
  reg,          \* the value each thread loaded from dwReaders
  lpc           \* where each thread is

eventVars == <<hReadLock, hWriteLock, dwReaders, reg, lpc>>

EventInit ==
  /\ hReadLock = TRUE
  /\ hWriteLock = TRUE
  /\ dwReaders = 0
  /\ reg = [t \in Thread |-> 0]
  /\ lpc = [t \in Thread |-> "idle"]

LockGoto(t, from, to) ==
  /\ lpc[t] = from
  /\ lpc' = [lpc EXCEPT ![t] = to]

(* A thread enters one of the two lock functions. *)
CallReadLock(t) ==
  /\ t \in ReadLocker
  /\ LockGoto(t, "idle", "rl_wait")
  /\ UNCHANGED <<hReadLock, hWriteLock, dwReaders, reg>>

CallWriteLock(t) ==
  /\ t \in WriteLocker
  /\ LockGoto(t, "idle", "wl_wait")
  /\ UNCHANGED <<hReadLock, hWriteLock, dwReaders, reg>>

(* vReadRingBufLock *)
ReadLockWait(t) ==
  /\ hWriteLock
  /\ LockGoto(t, "rl_wait", "rl_reset")
  /\ hWriteLock' = FALSE
  /\ UNCHANGED <<hReadLock, dwReaders, reg>>

(* Mutant: the reset of hReadLock is forgotten. *)
ReadLockResetForgotten(t) ==
  /\ LockGoto(t, "rl_reset", "rl_load")
  /\ UNCHANGED <<hReadLock, hWriteLock, dwReaders, reg>>

ReadLockReset(t) ==
  /\ LockGoto(t, "rl_reset", "rl_load")
  /\ hReadLock' = FALSE
  /\ UNCHANGED <<hWriteLock, dwReaders, reg>>

ReadLockLoad(t) ==
  /\ LockGoto(t, "rl_load", "rl_store")
  /\ reg' = [reg EXCEPT ![t] = dwReaders]
  /\ UNCHANGED <<hReadLock, hWriteLock, dwReaders>>

ReadLockStore(t) ==
  /\ LockGoto(t, "rl_store", "rl_set")
  /\ dwReaders' = reg[t] + 1
  /\ UNCHANGED <<hReadLock, hWriteLock, reg>>

ReadLockSet(t) ==
  /\ LockGoto(t, "rl_set", "reading")
  /\ hWriteLock' = TRUE
  /\ UNCHANGED <<hReadLock, dwReaders, reg>>

(* vReadRingBufUnLock *)
CallReadUnLock(t) ==
  /\ LockGoto(t, "reading", "ru_wait")
  /\ UNCHANGED <<hReadLock, hWriteLock, dwReaders, reg>>

ReadUnLockWait(t) ==
  /\ hWriteLock
  /\ LockGoto(t, "ru_wait", "ru_load")
  /\ hWriteLock' = FALSE
  /\ UNCHANGED <<hReadLock, dwReaders, reg>>

ReadUnLockLoad(t) ==
  /\ LockGoto(t, "ru_load", "ru_store")
  /\ reg' = [reg EXCEPT ![t] = dwReaders]
  /\ UNCHANGED <<hReadLock, hWriteLock, dwReaders>>

ReadUnLockStore(t) ==
  /\ LockGoto(t, "ru_store", "ru_free")
  /\ dwReaders' = reg[t] - 1
  /\ UNCHANGED <<hReadLock, hWriteLock, reg>>

(* Mutants: every reader that leaves frees the writers; the test is one off. *)
ReadUnLockFreeAlways(t) ==
  /\ LockGoto(t, "ru_free", "ru_set")
  /\ hReadLock' = TRUE
  /\ UNCHANGED <<hWriteLock, dwReaders, reg>>

ReadUnLockFreeOneOff(t) ==
  /\ LockGoto(t, "ru_free", "ru_set")
  /\ hReadLock' = (hReadLock \/ dwReaders = 1)
  /\ UNCHANGED <<hWriteLock, dwReaders, reg>>

ReadUnLockFree(t) ==
  /\ LockGoto(t, "ru_free", "ru_set")
  /\ hReadLock' = (hReadLock \/ dwReaders = 0)
  /\ UNCHANGED <<hWriteLock, dwReaders, reg>>

ReadUnLockSet(t) ==
  /\ LockGoto(t, "ru_set", "idle")
  /\ hWriteLock' = TRUE
  /\ UNCHANGED <<hReadLock, dwReaders, reg>>

(* vWriteRingBufLock: WaitForMultipleObjects with bWaitAll takes both
   events in one step or none. *)
WriteLockWait(t) ==
  /\ hReadLock /\ hWriteLock
  /\ LockGoto(t, "wl_wait", "writing")
  /\ hReadLock' = FALSE
  /\ hWriteLock' = FALSE
  /\ UNCHANGED <<dwReaders, reg>>

(* vWriteRingBufUnLock *)
WriteUnLockRead(t) ==
  /\ LockGoto(t, "writing", "wu_set")
  /\ hReadLock' = TRUE
  /\ UNCHANGED <<hWriteLock, dwReaders, reg>>

WriteUnLockWrite(t) ==
  /\ LockGoto(t, "wu_set", "idle")
  /\ hWriteLock' = TRUE
  /\ UNCHANGED <<hReadLock, dwReaders, reg>>

(* The steps a thread takes once it is in a lock function; the three waits
   are kept apart because they need a stronger fairness. *)
Wait(t) == ReadLockWait(t) \/ ReadUnLockWait(t) \/ WriteLockWait(t)

Work(t) ==
  \/ ReadLockReset(t) \/ ReadLockLoad(t) \/ ReadLockStore(t) \/ ReadLockSet(t)
  \/ CallReadUnLock(t)
  \/ ReadUnLockLoad(t) \/ ReadUnLockStore(t) \/ ReadUnLockFree(t) \/ ReadUnLockSet(t)
  \/ WriteUnLockRead(t) \/ WriteUnLockWrite(t)

EventNext == \E t \in Thread : CallReadLock(t) \/ CallWriteLock(t) \/ Wait(t) \/ Work(t)

EventSpec == EventInit /\ [][EventNext]_eventVars

(* A running thread goes on, and a thread whose event is signalled again and
   again is eventually the one the dispatcher releases. *)
EventFairness ==
  /\ \A t \in Thread : WF_eventVars(Work(t))
  /\ \A t \in ReadLocker : SF_eventVars(ReadLockWait(t)) /\ SF_eventVars(ReadUnLockWait(t))
  /\ \A t \in WriteLocker : SF_eventVars(WriteLockWait(t))

EventFairSpec == EventSpec /\ EventFairness

-----------------------------------------------------------------------------
LockLocation == {"idle", "rl_wait", "rl_reset", "rl_load", "rl_store", "rl_set",
                 "reading", "ru_wait", "ru_load", "ru_store", "ru_free", "ru_set",
                 "wl_wait", "writing", "wu_set"}

(* Types of the lock's fields and of the threads' positions. *)
EventTypeOK ==
  /\ hReadLock \in BOOLEAN
  /\ hWriteLock \in BOOLEAN
  /\ dwReaders \in Nat
  /\ reg \in [Thread -> Nat]
  /\ lpc \in [Thread -> LockLocation]

At(L) == {t \in Thread : lpc[t] \in L}

(* While a thread writes (vWriteRingBufLock has returned), no other thread
   reads or writes: what every critical section of RingBuffer.c rests on. *)
WriterAlone ==
  \A t \in At({"writing"}) : At({"reading", "writing"}) = {t}

(* dwReaders counts the threads whose increment has happened and whose
   decrement has not: no update of the counter is ever lost, although it is
   a load and a store. *)
Counted == {"rl_set", "reading", "ru_wait", "ru_load", "ru_store"}

ReadersCounted == dwReaders = Cardinality(At(Counted))

(* The invariant the two rest on.  hWriteLock is a mutex whose holder is at
   one of the locations Holding; hReadLock is down exactly while a thread
   counts itself in, is counted, counts itself out, or writes. *)
Holding == {"rl_reset", "rl_load", "rl_store", "rl_set", "ru_load", "ru_store",
            "ru_free", "ru_set", "writing", "wu_set"}

OneHolder ==
  /\ \A s, t \in At(Holding) : s = t
  /\ hWriteLock <=> At(Holding) = {}

Down == Counted \union {"rl_load", "rl_store", "ru_free", "writing"}

ReadLockDown == hReadLock <=> At(Down) = {}

NoReaderBesideWriter == At({"writing"}) = {} \/ At(Counted) = {}

LoadedFresh == \A t \in At({"rl_store", "ru_store"}) : reg[t] = dwReaders

LockInv ==
  /\ EventTypeOK /\ OneHolder /\ ReadLockDown
  /\ NoReaderBesideWriter /\ LoadedFresh /\ ReadersCounted

(* The lock is the abstract readers/writer lock. *)
AbstractLock == INSTANCE RWLock WITH reading <- At({"reading"}), writing <- At({"writing"})

ImplementsRWLock == AbstractLock!LockSpec

(* A reader that wants to leave always can: vReadRingBufUnLock, which waits for
   hWriteLock again, returns.  A writer is served if again and again nobody is
   inside: with the one reader the program has, its flush thread, that is so;
   readers that overlap for ever are the only way a writer can starve. *)
Gap == At({"idle", "rl_wait", "wl_wait"}) = Thread

Leaving == {"ru_wait", "ru_load", "ru_store", "ru_free", "ru_set"}

WaitersServed ==
  /\ \A t \in ReadLocker : []<>(lpc[t] \notin Leaving)
  /\ []<>Gap => \A t \in WriteLocker : []<>(lpc[t] # "wl_wait")
=============================================================================
