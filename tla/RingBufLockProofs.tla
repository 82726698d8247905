-------------------------- MODULE RingBufLockProofs --------------------------
(***************************************************************************)
(* Proofs about the reader/writer lock of RingBuffer.c, for any finite set *)
(* of threads.                                                             *)
(***************************************************************************)
EXTENDS RingBufLock, FiniteSetTheorems, TLAPS

(* What a move of one thread does to the set of threads at some locations. *)
LEMMA Moved ==
  ASSUME EventTypeOK, NEW t \in Thread, NEW from, NEW to, NEW L, LockGoto(t, from, to)
  PROVE  /\ to \in L    => At(L)' = At(L) \union {t}
         /\ to \notin L => At(L)' = At(L) \ {t}
         /\ t \in At(L) <=> from \in L
  BY DEF EventTypeOK, LockGoto, At

(* Sets of threads are finite, so their cardinality moves by one with one
   thread. *)
LEMMA CountMoved ==
  ASSUME EventTypeOK, NEW t \in Thread, NEW from, NEW to, NEW L, LockGoto(t, from, to)
  PROVE  /\ Cardinality(At(L)) \in Nat
         /\ from \in L <=> to \in L =>
              Cardinality(At(L)') = Cardinality(At(L))
         /\ from \notin L /\ to \in L =>
              Cardinality(At(L)') = Cardinality(At(L)) + 1
         /\ from \in L /\ to \notin L =>
              Cardinality(At(L)') = Cardinality(At(L)) - 1
  <1>1. IsFiniteSet(At(L))
    BY ThreadFinite, FS_Subset DEF At
  <1>2. Cardinality(At(L)) \in Nat
    BY <1>1, FS_CardinalityType
  <1>3. /\ Cardinality(At(L) \union {t}) =
             IF t \in At(L) THEN Cardinality(At(L)) ELSE Cardinality(At(L)) + 1
        /\ Cardinality(At(L) \ {t}) =
             IF t \in At(L) THEN Cardinality(At(L)) - 1 ELSE Cardinality(At(L))
    BY <1>1, FS_AddElement, FS_RemoveElement
  <1>4. /\ to \in L    => At(L)' = At(L) \union {t}
        /\ to \notin L => At(L)' = At(L) \ {t}
        /\ t \in At(L) <=> from \in L
    BY Moved
  <1>5. (from \in L <=> to \in L) => At(L)' = At(L)
    BY <1>4
  <1> QED
    BY <1>2, <1>3, <1>4, <1>5

LEMMA InitInv == EventInit => LockInv
  <1> SUFFICES ASSUME EventInit PROVE LockInv
    OBVIOUS
  <1>1. \A L : "idle" \notin L => At(L) = {}
    BY DEF EventInit, At
  <1>2. EventTypeOK
    BY DEF EventInit, EventTypeOK, LockLocation
  <1>3. OneHolder /\ ReadLockDown /\ NoReaderBesideWriter /\ LoadedFresh
    BY <1>1 DEF EventInit, OneHolder, ReadLockDown, NoReaderBesideWriter, LoadedFresh, Holding, Down, Counted
  <1>4. ReadersCounted
    BY <1>1, FS_EmptySet DEF EventInit, ReadersCounted, Counted
  <1> QED
    BY <1>2, <1>3, <1>4 DEF LockInv
-----------------------------------------------------------------------------
(* The three ways a step treats hWriteLock: it takes it, it keeps things as
   they are, it gives it back.  Each keeps the lock with at most one thread. *)
LEMMA TakesMutex ==
  ASSUME EventTypeOK, OneHolder, NEW t \in Thread, NEW from, NEW to, LockGoto(t, from, to),
         to \in Holding, hWriteLock, hWriteLock' = FALSE
  PROVE  OneHolder'
  <1>1. At(Holding)' = At(Holding) \union {t}
    BY Moved
  <1> QED
    BY <1>1 DEF OneHolder

LEMMA KeepsMutex ==
  ASSUME EventTypeOK, OneHolder, NEW t \in Thread, NEW from, NEW to, LockGoto(t, from, to),
         from \in Holding <=> to \in Holding, UNCHANGED hWriteLock
  PROVE  OneHolder'
  <1>1. At(Holding)' = At(Holding)
    <2>1. /\ to \in Holding    => At(Holding)' = At(Holding) \union {t}
          /\ to \notin Holding => At(Holding)' = At(Holding) \ {t}
          /\ t \in At(Holding) <=> from \in Holding
      BY Moved
    <2> QED
      BY <2>1
  <1> QED
    BY <1>1 DEF OneHolder

LEMMA GivesMutex ==
  ASSUME EventTypeOK, OneHolder, NEW t \in Thread, NEW from, NEW to, LockGoto(t, from, to),
         from \in Holding, to \notin Holding, hWriteLock' = TRUE
  PROVE  OneHolder'
  <1>1. /\ At(Holding)' = At(Holding) \ {t}
        /\ t \in At(Holding)
    BY Moved
  <1>2. At(Holding)' = {}
    BY <1>1 DEF OneHolder
  <1> QED
    BY <1>2 DEF OneHolder

(* A step that leaves hReadLock alone and moves between two locations on the
   same side of Down keeps ReadLockDown. *)
LEMMA KeepsReadLock ==
  ASSUME EventTypeOK, ReadLockDown, NEW t \in Thread, NEW from, NEW to, LockGoto(t, from, to),
         from \in Down <=> to \in Down, UNCHANGED hReadLock
  PROVE  ReadLockDown'
  <1>1. /\ to \in Down    => At(Down)' = At(Down) \union {t}
        /\ to \notin Down => At(Down)' = At(Down) \ {t}
        /\ t \in At(Down) <=> from \in Down
    BY Moved
  <1>2. At(Down)' = At(Down)
    BY <1>1
  <1> QED
    BY <1>2 DEF ReadLockDown

(* A step that brings a thread into Down lowers hReadLock. *)
LEMMA LowersReadLock ==
  ASSUME EventTypeOK, NEW t \in Thread, NEW from, NEW to, LockGoto(t, from, to),
         to \in Down, hReadLock' = FALSE
  PROVE  ReadLockDown'
  <1>1. At(Down)' = At(Down) \union {t}
    BY Moved
  <1> QED
    BY <1>1 DEF ReadLockDown

(* A step that changes neither the counter nor a register, and enters no
   location where a loaded value is pending, keeps the loaded values fresh
   and the readers counted if it stays on its side of Counted. *)
LEMMA KeepsCount ==
  ASSUME EventTypeOK, ReadersCounted, LoadedFresh, NEW t \in Thread, NEW from, NEW to,
         LockGoto(t, from, to), from \in Counted <=> to \in Counted,
         to \notin {"rl_store", "ru_store"}, UNCHANGED <<dwReaders, reg>>
  PROVE  ReadersCounted' /\ LoadedFresh'
  <1>1. ReadersCounted'
    BY CountMoved DEF ReadersCounted
  <1>2. LoadedFresh'
    BY DEF LoadedFresh, At, LockGoto, EventTypeOK
  <1> QED
    BY <1>1, <1>2

(* The store of an increment or a decrement: the holder's loaded value is the
   counter, so the counter moves by exactly one with the counted threads. *)
LEMMA StoresCount ==
  ASSUME EventTypeOK, OneHolder, ReadersCounted, LoadedFresh, NEW t \in Thread,
         \/ ReadLockStore(t)
         \/ ReadUnLockStore(t)
  PROVE  ReadersCounted' /\ LoadedFresh' /\ dwReaders' \in Nat
  <1>1. lpc[t] \in {"rl_store", "ru_store"} /\ reg[t] = dwReaders
    BY DEF ReadLockStore, ReadUnLockStore, LockGoto, LoadedFresh, At
  <1>2. ReadersCounted' /\ dwReaders' \in Nat
    <2>1. CASE ReadLockStore(t)
      <3>1. LockGoto(t, "rl_store", "rl_set") /\ dwReaders' = dwReaders + 1
        BY <2>1, <1>1 DEF ReadLockStore
      <3>a. "rl_store" \notin Counted /\ "rl_set" \in Counted
        BY DEF Counted
      <3>2. Cardinality(At(Counted)') = Cardinality(At(Counted)) + 1
        BY <3>1, <3>a, CountMoved
      <3> QED
        BY <3>1, <3>2 DEF ReadersCounted, EventTypeOK
    <2>2. CASE ReadUnLockStore(t)
      <3>1. LockGoto(t, "ru_store", "ru_free") /\ dwReaders' = dwReaders - 1
        BY <2>2, <1>1 DEF ReadUnLockStore
      <3>a. "ru_store" \in Counted /\ "ru_free" \notin Counted
        BY DEF Counted
      <3>2. /\ Cardinality(At(Counted)') = Cardinality(At(Counted)) - 1
            /\ Cardinality(At(Counted)) \in Nat
        BY <3>1, <3>a, CountMoved
      <3>3. Cardinality(At(Counted)') \in Nat
        <4>1. IsFiniteSet(At(Counted)')
          BY ThreadFinite, FS_Subset DEF At
        <4> QED
          BY <4>1, FS_CardinalityType
      <3> QED
        BY <3>1, <3>2, <3>3 DEF ReadersCounted
    <2> QED
      BY <2>1, <2>2
  <1>3. LoadedFresh'
    <2> SUFFICES ASSUME NEW s \in At({"rl_store", "ru_store"})' PROVE FALSE
      BY DEF LoadedFresh
    <2>1. s # t /\ lpc[s] \in {"rl_store", "ru_store"} /\ s \in Thread
      BY DEF ReadLockStore, ReadUnLockStore, LockGoto, At, EventTypeOK
    <2>2. s \in At(Holding) /\ t \in At(Holding)
      BY <1>1, <2>1 DEF At, Holding
    <2> QED
      BY <2>1, <2>2 DEF OneHolder
  <1> QED
    BY <1>2, <1>3

-----------------------------------------------------------------------------
(* The load of the counter: nothing but the register changes. *)
LEMMA LoadsCount ==
  ASSUME EventTypeOK, ReadersCounted, LoadedFresh, NEW t \in Thread,
         ReadLockLoad(t) \/ ReadUnLockLoad(t)
  PROVE  ReadersCounted' /\ LoadedFresh'
  <1>1. At(Counted)' = At(Counted) /\ UNCHANGED dwReaders
    BY DEF ReadLockLoad, ReadUnLockLoad, LockGoto, At, Counted, EventTypeOK
  <1>2. ReadersCounted'
    BY <1>1 DEF ReadersCounted
  <1>3. LoadedFresh'
    BY DEF ReadLockLoad, ReadUnLockLoad, LockGoto, At, LoadedFresh, EventTypeOK
  <1> QED
    BY <1>2, <1>3

(* The last reader out raises hReadLock, an earlier one leaves it down. *)
LEMMA FreesReadLock ==
  ASSUME LockInv, NEW t \in Thread, ReadUnLockFree(t)
  PROVE  ReadLockDown'
  <1>1. At(Down)' = At(Down) \ {t} /\ t \in At(Down)
    <2>1. LockGoto(t, "ru_free", "ru_set") /\ "ru_free" \in Down /\ "ru_set" \notin Down
      BY DEF ReadUnLockFree, Down, Counted
    <2> QED
      BY <2>1, Moved DEF LockInv
  <1>2. \A s \in At(Down) : s = t \/ s \in At(Counted)
    <2> SUFFICES ASSUME NEW s \in At(Down), s \notin At(Counted) PROVE s = t
      OBVIOUS
    <2>1. s \in At(Holding) /\ t \in At(Holding)
      BY DEF ReadUnLockFree, LockGoto, At, Down, Holding
    <2> QED
      BY <2>1 DEF LockInv, OneHolder
  <1>3. t \notin At(Counted) /\ At(Counted) \subseteq At(Down)
    BY DEF ReadUnLockFree, LockGoto, At, Counted, Down
  <1>4. At(Counted) = {} <=> dwReaders = 0
    <2>1. IsFiniteSet(At(Counted))
      BY ThreadFinite, FS_Subset DEF At
    <2> QED
      BY <2>1, FS_EmptySet DEF LockInv, ReadersCounted
  <1>5. ~hReadLock
    BY <1>1 DEF LockInv, ReadLockDown
  <1>6. At(Down)' = {} <=> dwReaders = 0
    BY <1>1, <1>2, <1>3, <1>4
  <1>7. hReadLock' <=> dwReaders = 0
    BY <1>5 DEF ReadUnLockFree
  <1> QED
    BY <1>6, <1>7 DEF ReadLockDown

(* A writer that leaves raises hReadLock; it was alone in Down. *)
LEMMA WriterFreesReadLock ==
  ASSUME LockInv, NEW t \in Thread, WriteUnLockRead(t)
  PROVE  ReadLockDown'
  <1>1. At(Down)' = At(Down) \ {t}
    <2>1. LockGoto(t, "writing", "wu_set") /\ "wu_set" \notin Down
      BY DEF WriteUnLockRead, Down, Counted
    <2> QED
      BY <2>1, Moved DEF LockInv
  <1>2. \A s \in At(Down) : s = t
    <2> SUFFICES ASSUME NEW s \in At(Down) PROVE s = t
      OBVIOUS
    <2>a. s \notin At(Counted)
      BY DEF LockInv, NoReaderBesideWriter, WriteUnLockRead, LockGoto, At
    <2>1. s \in At(Holding) /\ t \in At(Holding)
      BY <2>a DEF WriteUnLockRead, LockGoto, At, Down, Holding
    <2> QED
      BY <2>1 DEF LockInv, OneHolder
  <1> QED
    BY <1>1, <1>2 DEF ReadLockDown, WriteUnLockRead

(* Readers are counted in only by the holder of hWriteLock, and a writer is
   let in only when hReadLock says there are none. *)
LEMMA ReaderOrWriter ==
  ASSUME LockInv, NEW t \in Thread,
         CallReadLock(t) \/ CallWriteLock(t) \/ Wait(t) \/ Work(t)
  PROVE  NoReaderBesideWriter'
  <1> SUFFICES ASSUME NEW s \in At({"writing"})', NEW r \in At(Counted)' PROVE FALSE
    BY DEF NoReaderBesideWriter
  <1> USE DEF LockInv, EventTypeOK
  <1>1. CASE WriteLockWait(t)
    <2>1. r \in At(Counted)
      BY <1>1 DEF WriteLockWait, LockGoto, At, Counted
    <2> QED
      BY <1>1, <2>1 DEF WriteLockWait, ReadLockDown, At, Down
  <1>2. CASE ReadLockStore(t)
    <2>1. s \in At(Holding) /\ t \in At(Holding) /\ s # t
      BY <1>2 DEF ReadLockStore, LockGoto, At, Holding
    <2> QED
      BY <2>1 DEF OneHolder
  <1>3. CASE ~WriteLockWait(t) /\ ~ReadLockStore(t)
    <2>1. s \in At({"writing"}) /\ r \in At(Counted)
      BY <1>3 DEF CallReadLock, CallWriteLock, Wait, Work, ReadLockWait,
        ReadUnLockWait, ReadLockReset, ReadLockLoad, ReadLockSet, CallReadUnLock,
        ReadUnLockLoad, ReadUnLockStore, ReadUnLockFree, ReadUnLockSet,
        WriteUnLockRead, WriteUnLockWrite, LockGoto, At, Counted
    <2> QED
      BY <2>1 DEF NoReaderBesideWriter
  <1> QED
    BY <1>1, <1>2, <1>3

(* Every step keeps the types. *)
LEMMA TypePreserved ==
  ASSUME LockInv, NEW t \in Thread,
         CallReadLock(t) \/ CallWriteLock(t) \/ Wait(t) \/ Work(t)
  PROVE  EventTypeOK'
  <1>1. lpc' \in [Thread -> LockLocation]
    BY DEF LockInv, EventTypeOK, CallReadLock, CallWriteLock, Wait, Work, ReadLockWait,
      ReadUnLockWait, WriteLockWait, ReadLockReset, ReadLockLoad, ReadLockStore,
      ReadLockSet, CallReadUnLock, ReadUnLockLoad, ReadUnLockStore, ReadUnLockFree,
      ReadUnLockSet, WriteUnLockRead, WriteUnLockWrite, LockGoto, LockLocation
  <1>2. hReadLock' \in BOOLEAN /\ hWriteLock' \in BOOLEAN
    BY DEF LockInv, EventTypeOK, CallReadLock, CallWriteLock, Wait, Work, ReadLockWait,
      ReadUnLockWait, WriteLockWait, ReadLockReset, ReadLockLoad, ReadLockStore,
      ReadLockSet, CallReadUnLock, ReadUnLockLoad, ReadUnLockStore, ReadUnLockFree,
      ReadUnLockSet, WriteUnLockRead, WriteUnLockWrite
  <1>3. dwReaders' \in Nat /\ reg' \in [Thread -> Nat]
    <2>1. CASE ReadLockStore(t) \/ ReadUnLockStore(t)
      BY <2>1, StoresCount DEF LockInv, EventTypeOK, ReadLockStore, ReadUnLockStore
    <2>2. CASE ~ReadLockStore(t) /\ ~ReadUnLockStore(t)
      BY <2>2 DEF LockInv, EventTypeOK, CallReadLock, CallWriteLock, Wait, Work, ReadLockWait,
        ReadUnLockWait, WriteLockWait, ReadLockReset, ReadLockLoad, ReadLockSet,
        CallReadUnLock, ReadUnLockLoad, ReadUnLockFree, ReadUnLockSet,
        WriteUnLockRead, WriteUnLockWrite
    <2> QED
      BY <2>1, <2>2
  <1> QED
    BY <1>1, <1>2, <1>3 DEF EventTypeOK

(* Every step keeps the inductive invariant. *)
LEMMA NextInv == LockInv /\ [EventNext]_eventVars => LockInv'
  <1> SUFFICES ASSUME LockInv, [EventNext]_eventVars PROVE LockInv'
    OBVIOUS
  <1>1. CASE UNCHANGED eventVars
    BY <1>1 DEF eventVars, LockInv, EventTypeOK, OneHolder, ReadLockDown, NoReaderBesideWriter,
      LoadedFresh, ReadersCounted, At
  <1>2. ASSUME NEW t \in Thread,
               CallReadLock(t) \/ CallWriteLock(t) \/ Wait(t) \/ Work(t)
        PROVE  LockInv'
    <2> USE DEF LockInv
    <2>1. EventTypeOK' /\ NoReaderBesideWriter'
      BY <1>2, TypePreserved, ReaderOrWriter
    <2>2. CASE CallReadLock(t)
      <3>1. LockGoto(t, "idle", "rl_wait")
        BY <2>2 DEF CallReadLock
      <3>2. /\ "idle" \notin Holding /\ "rl_wait" \notin Holding
            /\ "idle" \notin Down /\ "rl_wait" \notin Down
            /\ "idle" \notin Counted /\ "rl_wait" \notin Counted
        BY DEF Holding, Down, Counted
      <3>3. OneHolder'
        BY <2>2, <3>1, <3>2, KeepsMutex DEF CallReadLock
      <3>4. ReadLockDown'
        BY <2>2, <3>1, <3>2, KeepsReadLock DEF CallReadLock
      <3>5. ReadersCounted' /\ LoadedFresh'
        BY <2>2, <3>1, <3>2, KeepsCount DEF CallReadLock
      <3> QED
        BY <2>1, <3>3, <3>4, <3>5
    <2>3. CASE CallWriteLock(t)
      <3>1. LockGoto(t, "idle", "wl_wait")
        BY <2>3 DEF CallWriteLock
      <3>2. /\ "idle" \notin Holding /\ "wl_wait" \notin Holding
            /\ "idle" \notin Down /\ "wl_wait" \notin Down
            /\ "idle" \notin Counted /\ "wl_wait" \notin Counted
        BY DEF Holding, Down, Counted
      <3>3. OneHolder'
        BY <2>3, <3>1, <3>2, KeepsMutex DEF CallWriteLock
      <3>4. ReadLockDown'
        BY <2>3, <3>1, <3>2, KeepsReadLock DEF CallWriteLock
      <3>5. ReadersCounted' /\ LoadedFresh'
        BY <2>3, <3>1, <3>2, KeepsCount DEF CallWriteLock
      <3> QED
        BY <2>1, <3>3, <3>4, <3>5
    <2>4. CASE ReadLockWait(t)
      <3>1. LockGoto(t, "rl_wait", "rl_reset")
        BY <2>4 DEF ReadLockWait
      <3>2. /\ "rl_wait" \notin Holding /\ "rl_reset" \in Holding
            /\ "rl_wait" \notin Down /\ "rl_reset" \notin Down
            /\ "rl_wait" \notin Counted /\ "rl_reset" \notin Counted
        BY DEF Holding, Down, Counted
      <3>3. OneHolder'
        BY <2>4, <3>1, <3>2, TakesMutex DEF ReadLockWait
      <3>4. ReadLockDown'
        BY <2>4, <3>1, <3>2, KeepsReadLock DEF ReadLockWait
      <3>5. ReadersCounted' /\ LoadedFresh'
        BY <2>4, <3>1, <3>2, KeepsCount DEF ReadLockWait
      <3> QED
        BY <2>1, <3>3, <3>4, <3>5
    <2>5. CASE ReadLockReset(t)
      <3>1. LockGoto(t, "rl_reset", "rl_load")
        BY <2>5 DEF ReadLockReset
      <3>2. /\ "rl_reset" \in Holding /\ "rl_load" \in Holding
            /\ "rl_reset" \notin Down /\ "rl_load" \in Down
            /\ "rl_reset" \notin Counted /\ "rl_load" \notin Counted
        BY DEF Holding, Down, Counted
      <3>3. OneHolder'
        BY <2>5, <3>1, <3>2, KeepsMutex DEF ReadLockReset
      <3>4. ReadLockDown'
        BY <2>5, <3>1, <3>2, LowersReadLock DEF ReadLockReset
      <3>5. ReadersCounted' /\ LoadedFresh'
        BY <2>5, <3>1, <3>2, KeepsCount DEF ReadLockReset
      <3> QED
        BY <2>1, <3>3, <3>4, <3>5
    <2>6. CASE ReadLockLoad(t)
      <3>1. LockGoto(t, "rl_load", "rl_store")
        BY <2>6 DEF ReadLockLoad
      <3>2. /\ "rl_load" \in Holding /\ "rl_store" \in Holding
            /\ "rl_load" \in Down /\ "rl_store" \in Down
            /\ "rl_load" \notin Counted /\ "rl_store" \notin Counted
        BY DEF Holding, Down, Counted
      <3>3. OneHolder'
        BY <2>6, <3>1, <3>2, KeepsMutex DEF ReadLockLoad
      <3>4. ReadLockDown'
        BY <2>6, <3>1, <3>2, KeepsReadLock DEF ReadLockLoad
      <3>5. ReadersCounted' /\ LoadedFresh'
        BY <2>6, LoadsCount
      <3> QED
        BY <2>1, <3>3, <3>4, <3>5
    <2>7. CASE ReadLockStore(t)
      <3>1. LockGoto(t, "rl_store", "rl_set")
        BY <2>7 DEF ReadLockStore
      <3>2. /\ "rl_store" \in Holding /\ "rl_set" \in Holding
            /\ "rl_store" \in Down /\ "rl_set" \in Down
            /\ "rl_store" \notin Counted /\ "rl_set" \in Counted
        BY DEF Holding, Down, Counted
      <3>3. OneHolder'
        BY <2>7, <3>1, <3>2, KeepsMutex DEF ReadLockStore
      <3>4. ReadLockDown'
        BY <2>7, <3>1, <3>2, KeepsReadLock DEF ReadLockStore
      <3>5. ReadersCounted' /\ LoadedFresh'
        BY <2>7, StoresCount
      <3> QED
        BY <2>1, <3>3, <3>4, <3>5
    <2>8. CASE ReadLockSet(t)
      <3>1. LockGoto(t, "rl_set", "reading")
        BY <2>8 DEF ReadLockSet
      <3>2. /\ "rl_set" \in Holding /\ "reading" \notin Holding
            /\ "rl_set" \in Down /\ "reading" \in Down
            /\ "rl_set" \in Counted /\ "reading" \in Counted
        BY DEF Holding, Down, Counted
      <3>3. OneHolder'
        BY <2>8, <3>1, <3>2, GivesMutex DEF ReadLockSet
      <3>4. ReadLockDown'
        BY <2>8, <3>1, <3>2, KeepsReadLock DEF ReadLockSet
      <3>5. ReadersCounted' /\ LoadedFresh'
        BY <2>8, <3>1, <3>2, KeepsCount DEF ReadLockSet
      <3> QED
        BY <2>1, <3>3, <3>4, <3>5
    <2>9. CASE CallReadUnLock(t)
      <3>1. LockGoto(t, "reading", "ru_wait")
        BY <2>9 DEF CallReadUnLock
      <3>2. /\ "reading" \notin Holding /\ "ru_wait" \notin Holding
            /\ "reading" \in Down /\ "ru_wait" \in Down
            /\ "reading" \in Counted /\ "ru_wait" \in Counted
        BY DEF Holding, Down, Counted
      <3>3. OneHolder'
        BY <2>9, <3>1, <3>2, KeepsMutex DEF CallReadUnLock
      <3>4. ReadLockDown'
        BY <2>9, <3>1, <3>2, KeepsReadLock DEF CallReadUnLock
      <3>5. ReadersCounted' /\ LoadedFresh'
        BY <2>9, <3>1, <3>2, KeepsCount DEF CallReadUnLock
      <3> QED
        BY <2>1, <3>3, <3>4, <3>5
    <2>10. CASE ReadUnLockWait(t)
      <3>1. LockGoto(t, "ru_wait", "ru_load")
        BY <2>10 DEF ReadUnLockWait
      <3>2. /\ "ru_wait" \notin Holding /\ "ru_load" \in Holding
            /\ "ru_wait" \in Down /\ "ru_load" \in Down
            /\ "ru_wait" \in Counted /\ "ru_load" \in Counted
        BY DEF Holding, Down, Counted
      <3>3. OneHolder'
        BY <2>10, <3>1, <3>2, TakesMutex DEF ReadUnLockWait
      <3>4. ReadLockDown'
        BY <2>10, <3>1, <3>2, KeepsReadLock DEF ReadUnLockWait
      <3>5. ReadersCounted' /\ LoadedFresh'
        BY <2>10, <3>1, <3>2, KeepsCount DEF ReadUnLockWait
      <3> QED
        BY <2>1, <3>3, <3>4, <3>5
    <2>11. CASE ReadUnLockLoad(t)
      <3>1. LockGoto(t, "ru_load", "ru_store")
        BY <2>11 DEF ReadUnLockLoad
      <3>2. /\ "ru_load" \in Holding /\ "ru_store" \in Holding
            /\ "ru_load" \in Down /\ "ru_store" \in Down
            /\ "ru_load" \in Counted /\ "ru_store" \in Counted
        BY DEF Holding, Down, Counted
      <3>3. OneHolder'
        BY <2>11, <3>1, <3>2, KeepsMutex DEF ReadUnLockLoad
      <3>4. ReadLockDown'
        BY <2>11, <3>1, <3>2, KeepsReadLock DEF ReadUnLockLoad
      <3>5. ReadersCounted' /\ LoadedFresh'
        BY <2>11, LoadsCount
      <3> QED
        BY <2>1, <3>3, <3>4, <3>5
    <2>12. CASE ReadUnLockStore(t)
      <3>1. LockGoto(t, "ru_store", "ru_free")
        BY <2>12 DEF ReadUnLockStore
      <3>2. /\ "ru_store" \in Holding /\ "ru_free" \in Holding
            /\ "ru_store" \in Down /\ "ru_free" \in Down
            /\ "ru_store" \in Counted /\ "ru_free" \notin Counted
        BY DEF Holding, Down, Counted
      <3>3. OneHolder'
        BY <2>12, <3>1, <3>2, KeepsMutex DEF ReadUnLockStore
      <3>4. ReadLockDown'
        BY <2>12, <3>1, <3>2, KeepsReadLock DEF ReadUnLockStore
      <3>5. ReadersCounted' /\ LoadedFresh'
        BY <2>12, StoresCount
      <3> QED
        BY <2>1, <3>3, <3>4, <3>5
    <2>13. CASE ReadUnLockFree(t)
      <3>1. LockGoto(t, "ru_free", "ru_set")
        BY <2>13 DEF ReadUnLockFree
      <3>2. /\ "ru_free" \in Holding /\ "ru_set" \in Holding
            /\ "ru_free" \in Down /\ "ru_set" \notin Down
            /\ "ru_free" \notin Counted /\ "ru_set" \notin Counted
        BY DEF Holding, Down, Counted
      <3>3. OneHolder'
        BY <2>13, <3>1, <3>2, KeepsMutex DEF ReadUnLockFree
      <3>4. ReadLockDown'
        BY <2>13, FreesReadLock
      <3>5. ReadersCounted' /\ LoadedFresh'
        BY <2>13, <3>1, <3>2, KeepsCount DEF ReadUnLockFree
      <3> QED
        BY <2>1, <3>3, <3>4, <3>5
    <2>14. CASE ReadUnLockSet(t)
      <3>1. LockGoto(t, "ru_set", "idle")
        BY <2>14 DEF ReadUnLockSet
      <3>2. /\ "ru_set" \in Holding /\ "idle" \notin Holding
            /\ "ru_set" \notin Down /\ "idle" \notin Down
            /\ "ru_set" \notin Counted /\ "idle" \notin Counted
        BY DEF Holding, Down, Counted
      <3>3. OneHolder'
        BY <2>14, <3>1, <3>2, GivesMutex DEF ReadUnLockSet
      <3>4. ReadLockDown'
        BY <2>14, <3>1, <3>2, KeepsReadLock DEF ReadUnLockSet
      <3>5. ReadersCounted' /\ LoadedFresh'
        BY <2>14, <3>1, <3>2, KeepsCount DEF ReadUnLockSet
      <3> QED
        BY <2>1, <3>3, <3>4, <3>5
    <2>15. CASE WriteLockWait(t)
      <3>1. LockGoto(t, "wl_wait", "writing")
        BY <2>15 DEF WriteLockWait
      <3>2. /\ "wl_wait" \notin Holding /\ "writing" \in Holding
            /\ "wl_wait" \notin Down /\ "writing" \in Down
            /\ "wl_wait" \notin Counted /\ "writing" \notin Counted
        BY DEF Holding, Down, Counted
      <3>3. OneHolder'
        BY <2>15, <3>1, <3>2, TakesMutex DEF WriteLockWait
      <3>4. ReadLockDown'
        BY <2>15, <3>1, <3>2, LowersReadLock DEF WriteLockWait
      <3>5. ReadersCounted' /\ LoadedFresh'
        BY <2>15, <3>1, <3>2, KeepsCount DEF WriteLockWait
      <3> QED
        BY <2>1, <3>3, <3>4, <3>5
    <2>16. CASE WriteUnLockRead(t)
      <3>1. LockGoto(t, "writing", "wu_set")
        BY <2>16 DEF WriteUnLockRead
      <3>2. /\ "writing" \in Holding /\ "wu_set" \in Holding
            /\ "writing" \in Down /\ "wu_set" \notin Down
            /\ "writing" \notin Counted /\ "wu_set" \notin Counted
        BY DEF Holding, Down, Counted
      <3>3. OneHolder'
        BY <2>16, <3>1, <3>2, KeepsMutex DEF WriteUnLockRead
      <3>4. ReadLockDown'
        BY <2>16, WriterFreesReadLock
      <3>5. ReadersCounted' /\ LoadedFresh'
        BY <2>16, <3>1, <3>2, KeepsCount DEF WriteUnLockRead
      <3> QED
        BY <2>1, <3>3, <3>4, <3>5
    <2>17. CASE WriteUnLockWrite(t)
      <3>1. LockGoto(t, "wu_set", "idle")
        BY <2>17 DEF WriteUnLockWrite
      <3>2. /\ "wu_set" \in Holding /\ "idle" \notin Holding
            /\ "wu_set" \notin Down /\ "idle" \notin Down
            /\ "wu_set" \notin Counted /\ "idle" \notin Counted
        BY DEF Holding, Down, Counted
      <3>3. OneHolder'
        BY <2>17, <3>1, <3>2, GivesMutex DEF WriteUnLockWrite
      <3>4. ReadLockDown'
        BY <2>17, <3>1, <3>2, KeepsReadLock DEF WriteUnLockWrite
      <3>5. ReadersCounted' /\ LoadedFresh'
        BY <2>17, <3>1, <3>2, KeepsCount DEF WriteUnLockWrite
      <3> QED
        BY <2>1, <3>3, <3>4, <3>5
    <2> QED
      BY <1>2, <2>2, <2>3, <2>4, <2>5, <2>6, <2>7, <2>8, <2>9, <2>10, <2>11, <2>12, <2>13, <2>14, <2>15, <2>16, <2>17 DEF Wait, Work
  <1> QED
    BY <1>1, <1>2 DEF EventNext

THEOREM InvariantHolds == EventSpec => []LockInv
  <1> QED
    BY InitInv, NextInv, PTL DEF EventSpec

(* A thread that writes is alone: RingBuffer.c's critical sections, whatever
   the number of threads, never overlap. *)
THEOREM Exclusion == EventSpec => []WriterAlone
  <1>1. LockInv => WriterAlone
    <2> SUFFICES ASSUME LockInv, NEW t \in At({"writing"}), NEW s \in At({"reading", "writing"})
                 PROVE  s = t
      BY DEF WriterAlone, At
    <2>1. s \notin At(Counted)
      BY DEF LockInv, NoReaderBesideWriter
    <2>2. s \in At(Holding) /\ t \in At(Holding)
      BY <2>1 DEF At, Holding, Counted
    <2> QED
      BY <2>2 DEF LockInv, OneHolder
  <1> QED
    BY <1>1, InvariantHolds, PTL

(* The four functions implement the abstract lock: returning from a lock
   function acquires it, entering an unlock function releases it, and every
   other step is invisible. *)
THEOREM Implements == EventSpec => ImplementsRWLock
  <1>1. EventInit => AbstractLock!LockInit
    BY DEF EventInit, AbstractLock!LockInit, At
  <1>2. ASSUME LockInv, [EventNext]_eventVars
        PROVE  [AbstractLock!LockNext]_<<At({"reading"}), At({"writing"})>>
    <2>1. CASE UNCHANGED eventVars
      BY <2>1 DEF eventVars, At
    <2>2. ASSUME NEW t \in Thread,
                 CallReadLock(t) \/ CallWriteLock(t) \/ Wait(t) \/ Work(t)
          PROVE  [AbstractLock!LockNext]_<<At({"reading"}), At({"writing"})>>
      <3>a. EventTypeOK /\ ReadLockDown /\ NoReaderBesideWriter
        BY <1>2 DEF LockInv
      <3> USE <3>a DEF EventTypeOK
      <3>1. CASE ReadLockSet(t)
        <4>1. At({"reading"})' = At({"reading"}) \union {t} /\ t \notin At({"reading"})
          BY <3>1 DEF ReadLockSet, LockGoto, At
        <4>2. At({"writing"})' = At({"writing"})
          BY <3>1 DEF ReadLockSet, LockGoto, At
        <4>3. At({"writing"}) = {}
          <5>1. t \in At(Counted)
            BY <3>1 DEF ReadLockSet, LockGoto, At, Counted
          <5> QED
            BY <5>1 DEF NoReaderBesideWriter
        <4>4. AbstractLock!AcquireRead(t)
          BY <4>1, <4>2, <4>3 DEF AbstractLock!AcquireRead
        <4> QED
          BY <4>4 DEF AbstractLock!LockNext
      <3>2. CASE CallReadUnLock(t)
        <4>1. /\ At({"reading"})' = At({"reading"}) \ {t} /\ t \in At({"reading"})
              /\ At({"writing"})' = At({"writing"})
          BY <3>2 DEF CallReadUnLock, LockGoto, At
        <4>2. AbstractLock!ReleaseRead(t)
          BY <4>1 DEF AbstractLock!ReleaseRead
        <4> QED
          BY <4>2 DEF AbstractLock!LockNext
      <3>3. CASE WriteLockWait(t)
        <4>1. At({"reading"})' = {} /\ At({"reading"}) = {} /\ At({"writing"}) = {}
          BY <3>3 DEF WriteLockWait, LockGoto, At, ReadLockDown, Down, Counted
        <4>2. At({"writing"})' = {t}
          BY <3>3, <4>1 DEF WriteLockWait, LockGoto, At
        <4>3. AbstractLock!AcquireWrite(t)
          BY <4>1, <4>2 DEF AbstractLock!AcquireWrite
        <4> QED
          BY <4>3 DEF AbstractLock!LockNext
      <3>4. CASE WriteUnLockRead(t)
        <4>1. /\ At({"writing"})' = At({"writing"}) \ {t} /\ t \in At({"writing"})
              /\ At({"reading"})' = At({"reading"})
          BY <3>4 DEF WriteUnLockRead, LockGoto, At
        <4>2. AbstractLock!ReleaseWrite(t)
          BY <4>1 DEF AbstractLock!ReleaseWrite
        <4> QED
          BY <4>2 DEF AbstractLock!LockNext
      <3>5. CASE ~( \/ ReadLockSet(t) \/ CallReadUnLock(t)
                    \/ WriteLockWait(t) \/ WriteUnLockRead(t))
        BY <2>2, <3>5 DEF CallReadLock, CallWriteLock, Wait, Work, ReadLockWait,
          ReadUnLockWait, ReadLockReset, ReadLockLoad, ReadLockStore, ReadUnLockLoad,
          ReadUnLockStore, ReadUnLockFree, ReadUnLockSet, WriteUnLockWrite, LockGoto, At
      <3> QED
        BY <3>1, <3>2, <3>3, <3>4, <3>5
    <2> QED
      BY <1>2, <2>1, <2>2 DEF EventNext
  <1> QED
    BY <1>1, <1>2, InvariantHolds, PTL
       DEF EventSpec, ImplementsRWLock, AbstractLock!LockSpec, AbstractLock!lockVars
=============================================================================
