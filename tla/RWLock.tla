------------------------------- MODULE RWLock -------------------------------
(***************************************************************************)
(* What the two lock pairs of WindowsOS/RingBuffer/RingBuffer.c promise,   *)
(* vReadRingBufLock/vReadRingBufUnLock and                                 *)
(* vWriteRingBufLock/vWriteRingBufUnLock: any number of readers together,  *)
(* or one writer alone.                                                    *)
(***************************************************************************)
EXTENDS FiniteSets

CONSTANT Thread     \* the threads that use the ring buffer

VARIABLES
  reading,          \* threads between vReadRingBufLock and vReadRingBufUnLock
  writing           \* threads between vWriteRingBufLock and vWriteRingBufUnLock

lockVars == <<reading, writing>>

LockInit == reading = {} /\ writing = {}

AcquireRead(t) ==
  /\ t \notin reading /\ writing = {}
  /\ reading' = reading \union {t}
  /\ UNCHANGED writing

ReleaseRead(t) ==
  /\ t \in reading
  /\ reading' = reading \ {t}
  /\ UNCHANGED writing

AcquireWrite(t) ==
  /\ reading = {} /\ writing = {}
  /\ writing' = {t}
  /\ UNCHANGED reading

ReleaseWrite(t) ==
  /\ t \in writing
  /\ writing' = writing \ {t}
  /\ UNCHANGED reading

LockNext == \E t \in Thread : \/ AcquireRead(t)  \/ ReleaseRead(t)
                              \/ AcquireWrite(t) \/ ReleaseWrite(t)

LockSpec == LockInit /\ [][LockNext]_lockVars
=============================================================================
