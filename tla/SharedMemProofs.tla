---------------------------- MODULE SharedMemProofs ----------------------------
(***************************************************************************)
(* Proofs about mem.c: any finite sets of readers and writers, any number  *)
(* of kills and failed reads, any file.                                    *)
(***************************************************************************)
EXTENDS SharedMem, FiniteSetTheorems, TLAPS

(* Where a process stands: a reader before and after it announced itself and  *)
(* after it met a writer, and the same for a writer.                          *)
Outside == {"off", "claim", "refused"}
Gone == {"failed", "done", "killed"}
RStarts == {"clear0", "clear1", "clear2", "raise", "arm", "alive"}
RMet == {"input", "read", "fill", "filling", "filled", "check1", "waitzero", "check2", "leave", "bye"}
RAlive == {"meet"} \union RMet
WAlive == {"open", "take", "copy", "release", "check", "leave", "bye"}
WMet == {"arm", "disarm", "alive"} \union WAlive
ReaderPc == Outside \union RStarts \union RAlive \union Gone
WriterPc == Outside \union {"meet"} \union WMet \union Gone

PcTypes ==
  /\ pc \in [Process -> ReaderPc \union WriterPc]
  /\ \A r \in Reader : pc[r] \in ReaderPc
  /\ \A w \in Writer : pc[w] \in WriterPc

Buffer == [from : Process \union {"nobody"}, no : Int]
Full == [from : Reader, no : Int]

(* Segments are counted by the processes that have removed one. *)
DataTypes ==
  /\ key \in Nat /\ key <= Cardinality({p \in Process : pc[p] = "done"})
  /\ att \in [Process -> Nat] /\ \A p \in Process : att[p] <= key
  /\ mem \in [Segment -> Buffer] /\ \A g \in Segment : mem[g].no # 0 => mem[g] \in Full
  /\ chunk \in [Process -> Buffer] /\ \A p \in Process : chunk[p].no # 0 => chunk[p] \in Full
  /\ next \in [Reader -> 0..Chunks]
  /\ fd \in [Writer -> BOOLEAN]
  /\ out \in [Writer -> Seq(Full)]

SemTypes == sem \in [Sem -> Nat] /\ undo \in [Process -> [Sem -> -2..2]]

(* What the kernel owes to each process: the place and, while it lives, what    *)
(* it has announced and armed with; a later SETVAL may have dropped the latter.  *)
UndoOf(p) ==
  /\ p \in Reader =>
       /\ undo[p][0] \in {0, 2} /\ undo[p][1] \in {0, -2} /\ undo[p][2] = 0 /\ undo[p][4] = 0
       /\ undo[p][3] = (IF Inside(p) THEN -1 ELSE 0)
       /\ undo[p][0] = 2 => pc[p] \in {"alive"} \union RAlive
       /\ undo[p][1] = -2 => pc[p] \in RAlive
  /\ p \in Writer =>
       /\ undo[p][0] \in {0, -2} /\ undo[p][1] = 0 /\ undo[p][2] \in {0, -2} /\ undo[p][3] = 0
       /\ undo[p][4] = (IF Inside(p) THEN -1 ELSE 0)
       /\ undo[p][0] = -2 => pc[p] \in {"disarm", "alive"} \union WAlive
       /\ undo[p][2] = -2 => pc[p] \in WAlive
  /\ ~Inside(p) => \A s \in Sem : undo[p][s] = 0

Undos == \A p \in Process : UndoOf(p)

(* Semaphores 3 and 4 are the places, each taken by one process. *)
Places ==
  /\ sem[3] \in {0, 1} /\ sem[4] \in {0, 1}
  /\ \A r \in Reader : Inside(r) => sem[3] = 1
  /\ \A w \in Writer : Inside(w) => sem[4] = 1
  /\ OneOfEachKind

(* Semaphores 1 and 2 have no more than their announcer gave, and nothing when
   there is none. *)
Announced ==
  /\ sem[1] <= 2 /\ (sem[1] > 0 => \E r \in Reader : undo[r][1] = -2)
  /\ sem[2] <= 2 /\ (sem[2] > 0 => \E w \in Writer : undo[w][2] = -2)

(* Nobody meets without a partner that was there. *)
Partners ==
  /\ (\E w \in Writer : pc[w] \in WMet) => \E r \in Reader : pc[r] \in RAlive \union Gone
  /\ (\E r \in Reader : pc[r] \in RMet) => \E w \in Writer : pc[w] \in WAlive \union Gone

Couple ==
  NoSuccessor =>
    /\ \A r \in Reader : pc[r] \in RAlive =>
         sem[1] >= 1 /\ (sem[1] = 2 \/ \E w \in Writer : pc[w] \in WMet \union Gone)
    /\ \A w \in Writer : pc[w] \in WAlive =>
         sem[2] >= 1 /\ (sem[2] = 2 \/ \E r \in Reader : pc[r] \in RMet \union Gone)

(* Semaphore 0.  From its first SETVAL to the meeting a reader knows what the   *)
(* semaphore has at most; the writer that answers it waits at its take.         *)
Armed(w) == pc[w] = "disarm" /\ undo[w][0] = -2
Raised(r) == IF pc[r] = "arm" THEN 2 ELSE 0

Starting(r) ==
  /\ sem[0] > Raised(r) => sem[0] <= Raised(r) + 2 /\ \E w \in Writer : Armed(w)
  /\ pc[r] \in {"raise", "arm", "alive", "meet"} =>
       \A w \in Writer : undo[w][2] = -2 =>
          pc[w] \in {"open", "take"} \/ (pc[r] = "arm" /\ sem[0] <= 1)

(* After the meeting it knows it exactly. *)
Filling ==
  /\ \A w \in Writer : pc[w] \notin {"copy", "release"}
  /\ \A w \in Writer : pc[w] = "disarm" => undo[w][0] = -2 /\ sem[0] = 2
  /\ (\A w \in Writer : pc[w] # "disarm") => sem[0] = 0

Offering ==
  /\ \A w \in Writer : pc[w] \in {"copy", "release"} => sem[0] = 1
  /\ \A w \in Writer : pc[w] = "disarm" => undo[w][0] = -2 /\ sem[0] \in {2, 4}
  /\ (\A w \in Writer : pc[w] \notin {"disarm", "copy", "release"}) => sem[0] \in {0, 2}

BufferOf(r) ==
  /\ pc[r] \in {"clear1", "clear2", "raise", "arm", "alive", "meet"} => Starting(r)
  /\ pc[r] \in {"input", "read", "fill", "filling", "filled", "check2"} => Filling
  /\ pc[r] \in {"check1", "waitzero"} => Offering

BufferKnown == ~stranded => \A r \in Reader : BufferOf(r)

Kept == PcTypes /\ SemTypes /\ Undos /\ Places
Meeting == Announced /\ Partners /\ Couple /\ ByeMeansGone
SInv == Kept /\ DataTypes /\ Meeting /\ BufferKnown

-----------------------------------------------------------------------------
LEMMA Kinds ==
  /\ Reader \subseteq Process /\ Writer \subseteq Process
  /\ \A p \in Process : p \in Reader <=> p \notin Writer
  /\ IsFiniteSet(Process) /\ Sem = {0, 1, 2, 3, 4}
  /\ Chunks \in Nat
  BY ProcessAssumption, BoundAssumption DEF Process, Sem

USE Kinds DEF Outside, Gone, RStarts, RMet, RAlive, WAlive, WMet, ReaderPc, WriterPc, Left, Inside

(* The effect of each step on the semaphores, the adjustments and the places. *)
Moves(p, from, to) == pc[p] = from /\ pc' = [pc EXCEPT ![p] = to]

Still(p, from, to) == Moves(p, from, to) /\ UNCHANGED <<sem, undo, stranded>>

Shifts(p, from, to, s, op, debt) ==
  /\ Moves(p, from, to) /\ UNCHANGED stranded
  /\ sem[s] + op >= 0 /\ sem' = [sem EXCEPT ![s] = sem[s] + op]
  /\ undo' = [undo EXCEPT ![p] = [undo[p] EXCEPT ![s] = undo[p][s] - debt]]

Clears(p, from, to, s) ==
  /\ Moves(p, from, to) /\ UNCHANGED stranded
  /\ sem' = [sem EXCEPT ![s] = 0]
  /\ undo' = [q \in Process |-> [undo[q] EXCEPT ![s] = 0]]

Ends(p) ==
  /\ pc[p] \notin {"off", "refused", "failed", "done", "killed"}
  /\ \/ pc[p] \in {"leave", "bye"} /\ pc' = [pc EXCEPT ![p] = "done"] /\ UNCHANGED stranded
     \/ p \in Reader /\ pc[p] = "input" /\ pc' = [pc EXCEPT ![p] = "failed"] /\ UNCHANGED stranded
     \/ /\ pc' = [pc EXCEPT ![p] = "killed"]
        /\ stranded' = (stranded \/ (pc[p] \in {"copy", "release"} /\ undo[p][0] = 0))
  /\ sem' = [s \in Sem |-> IF sem[s] + undo[p][s] < 0 THEN 0 ELSE sem[s] + undo[p][s]]
  /\ undo' = [undo EXCEPT ![p] = [s \in Sem |-> 0]]

ReaderEffect(r) ==
  \/ Still(r, "off", "claim") \/ Still(r, "claim", "refused")
  \/ sem[3] = 0 /\ Shifts(r, "claim", "clear0", 3, 1, 1)
  \/ Clears(r, "clear0", "clear1", 0) \/ Clears(r, "clear1", "clear2", 1)
  \/ Clears(r, "clear2", "raise", 2)
  \/ Shifts(r, "raise", "arm", 0, 2, 0) \/ Shifts(r, "arm", "alive", 0, -2, -2)
  \/ Shifts(r, "alive", "meet", 1, 2, 2) \/ Shifts(r, "meet", "input", 2, -1, 0)
  \/ Still(r, "input", "read") \/ Still(r, "read", "fill") \/ Still(r, "fill", "filling")
  \/ Still(r, "fill", "filled") \/ Still(r, "filling", "filled")
  \/ Shifts(r, "filled", "check1", 0, 2, 0)
  \/ sem[2] = 0 /\ (Still(r, "check1", "bye") \/ Still(r, "check2", "bye"))
  \/ Still(r, "check1", "waitzero")
  \/ sem[0] = 0 /\ Still(r, "waitzero", "check2")
  \/ Still(r, "check2", "leave") \/ Still(r, "check2", "read")

WriterEffect(w) ==
  \/ Still(w, "off", "claim") \/ Still(w, "claim", "refused")
  \/ sem[4] = 0 /\ Shifts(w, "claim", "meet", 4, 1, 1)
  \/ Shifts(w, "meet", "arm", 1, -1, 0)
  \/ Shifts(w, "arm", "disarm", 0, 2, 2) \/ Shifts(w, "disarm", "alive", 0, -2, 0)
  \/ Shifts(w, "alive", "open", 2, 2, 2)
  \/ Still(w, "open", "take") \/ Shifts(w, "take", "copy", 0, -1, 0)
  \/ Still(w, "copy", "release") \/ Shifts(w, "release", "check", 0, -1, 0)
  \/ sem[1] = 0 /\ Still(w, "check", "bye")
  \/ Still(w, "check", "leave") \/ Still(w, "check", "take")

Quiet == UNCHANGED <<pc, sem, undo, stranded>>

Effect ==
  \/ \E r \in Reader : ReaderEffect(r)
  \/ \E w \in Writer : WriterEffect(w)
  \/ \E p \in Process : Ends(p)
  \/ Quiet

(* A semop without SEM_UNDO leaves the adjustments, one with it adds to them. *)
LEMMA CallShifts ==
  ASSUME SemTypes, NEW p \in Process, NEW from, NEW to, NEW s \in Sem, NEW op \in Int, NEW flag,
         Call(p, from, to, s, op, flag), UNCHANGED stranded
  PROVE  Shifts(p, from, to, s, op, IF flag = "SEM_UNDO" THEN op ELSE 0)
  <1>1. undo[p][s] \in Int /\ undo[p] \in [Sem -> -2..2]
    BY DEF SemTypes
  <1>2. CASE flag = "SEM_UNDO"
    BY <1>1, <1>2 DEF Call, Goto, SemOp, Shifts, Moves
  <1>3. CASE flag # "SEM_UNDO"
    <2>1. [undo[p] EXCEPT ![s] = undo[p][s] - 0] = undo[p]
      BY <1>1
    <2>2. [undo EXCEPT ![p] = undo[p]] = undo
      BY DEF SemTypes
    <2> QED
      BY <1>3, <2>1, <2>2 DEF Call, Goto, SemOp, Shifts, Moves
  <1> QED
    BY <1>2, <1>3

LEMMA ReaderHasEffect ==
  ASSUME SemTypes, NEW r \in Reader, ReaderStep(r)
  PROVE  ReaderEffect(r) \/ Ends(r)
  <1>p. r \in Process /\ 0 \in Sem /\ 1 \in Sem /\ 2 \in Sem /\ 3 \in Sem
    OBVIOUS
  <1> USE DEF ReaderEffect
  <1>1. CASE \/ Start(r) \/ Refused(r) \/ OpenInput(r) \/ Read(r) \/ FillStarts(r) \/ FillEnds(r)
             \/ WaitCopied(r)
    BY <1>1 DEF Start, Refused, OpenInput, Read, FillStarts, FillEnds, WaitCopied, Goto, Still, Moves
  <1>2. CASE Claim(r)
    BY <1>2, <1>p DEF Claim, SemOp, Goto, Place, Shifts, Moves, SemTypes
  <1>3. CASE ReaderMeets(r)
    <2>1. CASE SetVal(r, 0, "clear0", "clear1") \/ SetVal(r, 1, "clear1", "clear2")
               \/ SetVal(r, 2, "clear2", "raise")
      BY <2>1 DEF SetVal, Goto, Clears, Moves
    <2>2. CASE Call(r, "raise", "arm", 0, 2, "0")
      <3>1. UNCHANGED stranded
        BY <2>2 DEF Call
      <3>2. Shifts(r, "raise", "arm", 0, 2, 0)
        BY <2>2, <3>1, <1>p, CallShifts, "0" # "SEM_UNDO"
      <3> QED
        BY <3>2
    <2>3. CASE ReaderArms(r)
      <3>1. UNCHANGED stranded /\ Call(r, "arm", "alive", 0, -2, "SEM_UNDO")
        BY <2>3 DEF Call, ReaderArms
      <3>2. Shifts(r, "arm", "alive", 0, -2, -2)
        BY <3>1, <1>p, CallShifts
      <3> QED
        BY <3>2
    <2>4. CASE Call(r, "alive", "meet", 1, 2, "SEM_UNDO")
      <3>1. UNCHANGED stranded
        BY <2>4 DEF Call
      <3>2. Shifts(r, "alive", "meet", 1, 2, 2)
        BY <2>4, <3>1, <1>p, CallShifts
      <3> QED
        BY <3>2
    <2>5. CASE Call(r, "meet", "input", 2, -1, "0")
      <3>1. UNCHANGED stranded
        BY <2>5 DEF Call
      <3>2. Shifts(r, "meet", "input", 2, -1, 0)
        BY <2>5, <3>1, <1>p, CallShifts, "0" # "SEM_UNDO"
      <3> QED
        BY <3>2
    <2> QED
      BY <1>3, <2>1, <2>2, <2>3, <2>4, <2>5 DEF ReaderMeets
  <1>4. CASE Filled(r)
    <2>1. UNCHANGED stranded /\ Call(r, "filled", "check1", 0, 2, "0")
      BY <1>4 DEF Call, Filled
    <2>2. Shifts(r, "filled", "check1", 0, 2, 0)
      BY <2>1, <1>p, CallShifts, "0" # "SEM_UNDO"
    <2> QED
      BY <2>2
  <1>5. CASE Check(r, 2, "check1", "waitzero") \/ Check(r, 2, "check2", More(r))
    BY <1>5 DEF Check, Goto, Still, Moves, More
  <1>6. CASE Leave(r) \/ OpenFails(r)
    BY <1>6 DEF Leave, OpenFails, Goto, ApplyUndo, Ends
  <1> QED
    BY <1>1, <1>2, <1>3, <1>4, <1>5, <1>6 DEF ReaderStep

LEMMA WriterHasEffect ==
  ASSUME SemTypes, NEW w \in Writer, WriterStep(w)
  PROVE  WriterEffect(w) \/ Ends(w)
  <1>p. w \in Process /\ w \notin Reader /\ 0 \in Sem /\ 1 \in Sem /\ 2 \in Sem /\ 4 \in Sem
    OBVIOUS
  <1> USE DEF WriterEffect
  <1>1. CASE Start(w) \/ Refused(w) \/ Open(w) \/ Copy(w)
    BY <1>1 DEF Start, Refused, Open, Copy, Goto, Still, Moves
  <1>2. CASE Claim(w)
    BY <1>2, <1>p DEF Claim, SemOp, Goto, Place, Shifts, Moves, SemTypes
  <1>3. CASE Call(w, "meet", "arm", 1, -1, "0")
    <2>1. UNCHANGED stranded
      BY <1>3 DEF Call
    <2>2. Shifts(w, "meet", "arm", 1, -1, 0)
      BY <1>3, <2>1, <1>p, CallShifts, "0" # "SEM_UNDO"
    <2> QED
      BY <2>2
  <1>4. CASE Call(w, "arm", "disarm", 0, 2, "SEM_UNDO")
    <2>1. UNCHANGED stranded
      BY <1>4 DEF Call
    <2>2. Shifts(w, "arm", "disarm", 0, 2, 2)
      BY <1>4, <2>1, <1>p, CallShifts
    <2> QED
      BY <2>2
  <1>5. CASE Call(w, "disarm", "alive", 0, -2, "0")
    <2>1. UNCHANGED stranded
      BY <1>5 DEF Call
    <2>2. Shifts(w, "disarm", "alive", 0, -2, 0)
      BY <1>5, <2>1, <1>p, CallShifts, "0" # "SEM_UNDO"
    <2> QED
      BY <2>2
  <1>6. CASE WriterAlive(w)
    <2>1. UNCHANGED stranded /\ Call(w, "alive", "open", 2, 2, "SEM_UNDO")
      BY <1>6 DEF Call, WriterAlive
    <2>2. Shifts(w, "alive", "open", 2, 2, 2)
      BY <2>1, <1>p, CallShifts
    <2> QED
      BY <2>2
  <1>7. CASE Take(w)
    <2>1. UNCHANGED stranded /\ Call(w, "take", "copy", 0, -1, "0")
      BY <1>7 DEF Call, Take
    <2>2. Shifts(w, "take", "copy", 0, -1, 0)
      BY <2>1, <1>p, CallShifts, "0" # "SEM_UNDO"
    <2> QED
      BY <2>2
  <1>8. CASE Release(w)
    <2>1. UNCHANGED stranded /\ Call(w, "release", "check", 0, -1, "0")
      BY <1>8 DEF Call, Release
    <2>2. Shifts(w, "release", "check", 0, -1, 0)
      BY <2>1, <1>p, CallShifts, "0" # "SEM_UNDO"
    <2> QED
      BY <2>2
  <1>9. CASE Check(w, 1, "check", More(w))
    BY <1>9, <1>p DEF Check, Goto, Still, Moves, More
  <1>10. CASE Leave(w)
    BY <1>10 DEF Leave, ApplyUndo, Ends
  <1> QED
    BY <1>1, <1>2, <1>3, <1>4, <1>5, <1>6, <1>7, <1>8, <1>9, <1>10 DEF WriterStep, WriterMeets

LEMMA EveryStepHasEffect ==
  ASSUME SemTypes, [Next]_vars
  PROVE  Effect
  <1>1. CASE \E p \in Process : Crash(p)
    BY <1>1 DEF Crash, ApplyUndo, Ends, Effect
  <1>2. CASE UNCHANGED vars
    BY <1>2 DEF vars, Effect, Quiet
  <1> QED
    BY <1>1, <1>2, ReaderHasEffect, WriterHasEffect DEF Next, Effect

-----------------------------------------------------------------------------
LEMMA KeptInit == Init => Kept
  <1> SUFFICES ASSUME Init PROVE Kept
    OBVIOUS
  <1>1. PcTypes
    BY DEF Init, PcTypes
  <1>2. SemTypes
    BY DEF Init, SemTypes
  <1>3. Undos
    BY DEF Init, Undos, UndoOf
  <1>4. Places
    BY DEF Init, Places, OneOfEachKind
  <1> QED
    BY <1>1, <1>2, <1>3, <1>4 DEF Kept

(* A step changes one process and, but for a SETVAL, only its adjustments. *)
LEMMA OthersKeep ==
  ASSUME Kept, NEW p \in Process, NEW q \in Process \ {p}, pc'[q] = pc[q], undo'[q] = undo[q]
  PROVE  UndoOf(q)'
  BY DEF Kept, Undos, UndoOf

LEMMA OthersKeepClear ==
  ASSUME Kept, NEW p \in Process, NEW q \in Process \ {p}, NEW from, NEW to, NEW s \in {0, 1, 2},
         Clears(p, from, to, s)
  PROVE  /\ pc'[q] = pc[q] /\ UndoOf(q)'
         /\ undo'[q][s] = 0 /\ \A t \in Sem \ {s} : undo'[q][t] = undo[q][t]
  <1>1. /\ pc'[q] = pc[q] /\ undo'[q] = [undo[q] EXCEPT ![s] = 0] /\ undo[q] \in [Sem -> -2..2]
        /\ UndoOf(q)
    BY DEF Kept, PcTypes, SemTypes, Clears, Moves, Undos
  <1>2. undo'[q][s] = 0 /\ \A t \in Sem \ {s} : undo'[q][t] = undo[q][t]
    BY <1>1
  <1> QED
    BY <1>1, <1>2 DEF UndoOf

LEMMA OthersKeepReader ==
  ASSUME Kept, NEW r \in Reader, NEW q \in Process \ {r}, ReaderEffect(r)
  PROVE  pc'[q] = pc[q] /\ UndoOf(q)'
  <1>1. CASE \E s \in {0, 1, 2} : \E from, to : Clears(r, from, to, s)
    BY <1>1, OthersKeepClear
  <1>2. CASE pc'[q] = pc[q] /\ undo'[q] = undo[q]
    BY <1>2, OthersKeep
  <1>3. pc'[q] = pc[q]
    BY DEF ReaderEffect, Still, Shifts, Clears, Moves, Kept, PcTypes
  <1>4. undo'[q] = undo[q] \/ Clears(r, "clear0", "clear1", 0) \/ Clears(r, "clear1", "clear2", 1)
          \/ Clears(r, "clear2", "raise", 2)
    BY DEF ReaderEffect, Still, Shifts, Kept, SemTypes
  <1> QED
    BY <1>1, <1>2, <1>3, <1>4

LEMMA OthersKeepWriter ==
  ASSUME Kept, NEW w \in Writer, NEW q \in Process \ {w}, WriterEffect(w)
  PROVE  pc'[q] = pc[q] /\ UndoOf(q)'
  <1>1. pc'[q] = pc[q] /\ undo'[q] = undo[q]
    BY DEF WriterEffect, Still, Shifts, Moves, Kept, PcTypes, SemTypes
  <1> QED
    BY <1>1, OthersKeep

LEMMA OthersKeepEnd ==
  ASSUME Kept, NEW p \in Process, NEW q \in Process \ {p}, Ends(p)
  PROVE  pc'[q] = pc[q] /\ UndoOf(q)'
  <1>1. pc'[q] = pc[q] /\ undo'[q] = undo[q]
    BY DEF Ends, Kept, PcTypes, SemTypes
  <1> QED
    BY <1>1, OthersKeep

(* The place of a process is in its own adjustment, so that every end gives it
   back once. *)
LEMMA ReaderUndo ==
  ASSUME Kept, NEW r \in Reader, ReaderEffect(r)
  PROVE  UndoOf(r)' /\ undo' \in [Process -> [Sem -> -2..2]] /\ pc'[r] \in ReaderPc
         /\ pc' \in [Process -> ReaderPc \union WriterPc] /\ UNCHANGED sem[4]
         /\ sem' \in [Sem -> Nat]
         /\ (Inside(r)' # Inside(r) => Inside(r)' /\ sem[3] = 0 /\ sem'[3] = 1)
         /\ (Inside(r)' = Inside(r) => UNCHANGED sem[3])
  <1>p. r \in Process /\ r \notin Writer /\ undo[r] \in [Sem -> -2..2] /\ UndoOf(r)
        /\ undo \in [Process -> [Sem -> -2..2]] /\ pc \in [Process -> ReaderPc \union WriterPc]
        /\ sem \in [Sem -> Nat]
    BY DEF Kept, SemTypes, PcTypes, Undos
  <1>1. CASE \E to : Still(r, pc[r], to) /\ ReaderEffect(r)
    BY <1>1, <1>p DEF Still, Moves, ReaderEffect, UndoOf, Shifts, Clears
  <1>2. CASE sem[3] = 0 /\ Shifts(r, "claim", "clear0", 3, 1, 1)
    BY <1>2, <1>p DEF Shifts, Moves, UndoOf
  <1>3. CASE Clears(r, "clear0", "clear1", 0) \/ Clears(r, "clear1", "clear2", 1)
               \/ Clears(r, "clear2", "raise", 2)
    <2>1. undo' \in [Process -> [Sem -> -2..2]]
      <3>1. PICK s \in Sem : undo' = [q \in Process |-> [undo[q] EXCEPT ![s] = 0]]
        BY <1>3 DEF Clears
      <3>2. \A q \in Process : undo[q] \in [Sem -> -2..2]
        BY <1>p
      <3>3. \A q \in Process : [undo[q] EXCEPT ![s] = 0] \in [Sem -> -2..2]
        BY <3>2
      <3> QED
        BY <3>1, <3>3
    <2>2. \A s \in Sem : undo'[r][s] = undo[r][s] \/ undo'[r][s] = 0
      BY <1>3, <1>p DEF Clears
    <2>3. undo'[r][3] = undo[r][3] /\ undo'[r][4] = undo[r][4]
      BY <1>3, <1>p DEF Clears
    <2>4. sem' \in [Sem -> Nat] /\ UNCHANGED <<sem[3], sem[4]>>
      BY <1>3, <1>p DEF Clears
    <2>5. /\ pc[r] \in RStarts /\ pc'[r] \in RStarts
          /\ pc' \in [Process -> ReaderPc \union WriterPc]
          /\ (pc[r] = "clear0" /\ pc'[r] = "clear1") \/ (pc[r] = "clear1" /\ pc'[r] = "clear2")
               \/ (pc[r] = "clear2" /\ pc'[r] = "raise")
      BY <1>3, <1>p DEF Clears, Moves
    <2>6. UndoOf(r)'
      BY <1>p, <2>2, <2>3, <2>5 DEF UndoOf
    <2> QED
      BY <2>1, <2>4, <2>5, <2>6
  <1>4. CASE Shifts(r, "raise", "arm", 0, 2, 0) \/ Shifts(r, "filled", "check1", 0, 2, 0)
               \/ Shifts(r, "meet", "input", 2, -1, 0)
    BY <1>4, <1>p DEF Shifts, Moves, UndoOf
  <1>5. CASE Shifts(r, "arm", "alive", 0, -2, -2)
    BY <1>5, <1>p DEF Shifts, Moves, UndoOf
  <1>6. CASE Shifts(r, "alive", "meet", 1, 2, 2)
    BY <1>6, <1>p DEF Shifts, Moves, UndoOf
  <1> QED
    BY <1>1, <1>2, <1>3, <1>4, <1>5, <1>6 DEF ReaderEffect, Still, Moves

LEMMA WriterUndo ==
  ASSUME Kept, NEW w \in Writer, WriterEffect(w)
  PROVE  UndoOf(w)' /\ undo' \in [Process -> [Sem -> -2..2]] /\ pc'[w] \in WriterPc
         /\ pc' \in [Process -> ReaderPc \union WriterPc] /\ UNCHANGED sem[3]
         /\ sem' \in [Sem -> Nat]
         /\ (Inside(w)' # Inside(w) => Inside(w)' /\ sem[4] = 0 /\ sem'[4] = 1)
         /\ (Inside(w)' = Inside(w) => UNCHANGED sem[4])
  <1>p. w \in Process /\ w \notin Reader /\ undo[w] \in [Sem -> -2..2] /\ UndoOf(w)
        /\ undo \in [Process -> [Sem -> -2..2]] /\ pc \in [Process -> ReaderPc \union WriterPc]
        /\ sem \in [Sem -> Nat]
    BY DEF Kept, SemTypes, PcTypes, Undos
  <1>1. CASE \E to : Still(w, pc[w], to) /\ WriterEffect(w)
    BY <1>1, <1>p DEF Still, Moves, WriterEffect, UndoOf, Shifts, Clears
  <1>2. CASE sem[4] = 0 /\ Shifts(w, "claim", "meet", 4, 1, 1)
    BY <1>2, <1>p DEF Shifts, Moves, UndoOf
  <1>3. CASE Shifts(w, "meet", "arm", 1, -1, 0) \/ Shifts(w, "take", "copy", 0, -1, 0)
               \/ Shifts(w, "release", "check", 0, -1, 0) \/ Shifts(w, "disarm", "alive", 0, -2, 0)
    BY <1>3, <1>p DEF Shifts, Moves, UndoOf
  <1>4. CASE Shifts(w, "arm", "disarm", 0, 2, 2) \/ Shifts(w, "alive", "open", 2, 2, 2)
    BY <1>4, <1>p DEF Shifts, Moves, UndoOf
  <1> QED
    BY <1>1, <1>2, <1>3, <1>4 DEF WriterEffect, Still, Moves

(* The end of a process gives its place back. *)
LEMMA EndUndo ==
  ASSUME Kept, NEW p \in Process, Ends(p)
  PROVE  UndoOf(p)' /\ undo' \in [Process -> [Sem -> -2..2]] /\ pc'[p] \in Gone
         /\ pc' \in [Process -> ReaderPc \union WriterPc]
         /\ sem' \in [Sem -> Nat]
         /\ (p \in Reader => UNCHANGED sem[4] /\ sem'[3] = IF Inside(p) THEN 0 ELSE sem[3])
         /\ (p \in Writer => UNCHANGED sem[3] /\ sem'[4] = IF Inside(p) THEN 0 ELSE sem[4])
  <1>p. undo[p] \in [Sem -> -2..2] /\ UndoOf(p) /\ undo \in [Process -> [Sem -> -2..2]]
        /\ pc \in [Process -> ReaderPc \union WriterPc] /\ sem \in [Sem -> Nat]
    BY DEF Kept, SemTypes, PcTypes, Undos
  <1>1. pc'[p] \in Gone /\ pc' \in [Process -> ReaderPc \union WriterPc]
    BY <1>p DEF Ends
  <1>2. \A s \in Sem : undo'[p][s] = 0
    BY <1>p DEF Ends
  <1>3. undo' \in [Process -> [Sem -> -2..2]]
    BY <1>p DEF Ends
  <1>4. sem' \in [Sem -> Nat] /\ \A s \in Sem : sem'[s] = IF sem[s] + undo[p][s] < 0 THEN 0
                                                       ELSE sem[s] + undo[p][s]
    <2>1. \A s \in Sem : undo[p][s] \in Int /\ sem[s] \in Nat
      BY <1>p
    <2> QED
      BY <2>1 DEF Ends
  <1>5. UndoOf(p)'
    BY <1>1, <1>2 DEF UndoOf
  <1>6. /\ p \in Reader => undo[p][4] = 0 /\ undo[p][3] = IF Inside(p) THEN -1 ELSE 0
        /\ p \in Writer => undo[p][3] = 0 /\ undo[p][4] = IF Inside(p) THEN -1 ELSE 0
    BY <1>p DEF UndoOf
  <1>7. /\ sem[3] \in {0, 1} /\ sem[4] \in {0, 1}
        /\ p \in Reader /\ Inside(p) => sem[3] = 1
        /\ p \in Writer /\ Inside(p) => sem[4] = 1
    BY DEF Kept, Places
  <1> QED
    BY <1>1, <1>3, <1>4, <1>5, <1>6, <1>7

LEMMA KeptNext ==
  ASSUME Kept, Effect
  PROVE  Kept'
  <1>1. ASSUME NEW r \in Reader, ReaderEffect(r) PROVE Kept'
    <2>1. \A q \in Process \ {r} : pc'[q] = pc[q] /\ UndoOf(q)'
      BY <1>1, OthersKeepReader
    <2>2. UndoOf(r)' /\ undo' \in [Process -> [Sem -> -2..2]] /\ pc'[r] \in ReaderPc
          /\ pc' \in [Process -> ReaderPc \union WriterPc] /\ UNCHANGED sem[4]
          /\ sem' \in [Sem -> Nat]
          /\ (Inside(r)' # Inside(r) => Inside(r)' /\ sem[3] = 0 /\ sem'[3] = 1)
          /\ (Inside(r)' = Inside(r) => UNCHANGED sem[3])
      BY <1>1, ReaderUndo
    <2>3. PcTypes'
      BY <2>1, <2>2 DEF Kept, PcTypes
    <2>4. Undos' /\ SemTypes'
      BY <2>1, <2>2 DEF Undos, SemTypes
    <2>5. Places'
      <3> HIDE DEF Inside
      <3>1. \A q \in Process \ {r} : Inside(q)' = Inside(q)
        BY <2>1 DEF Inside
      <3> QED
        BY <2>2, <3>1 DEF Kept, Places, OneOfEachKind
    <2> QED
      BY <2>3, <2>4, <2>5 DEF Kept
  <1>2. ASSUME NEW w \in Writer, WriterEffect(w) PROVE Kept'
    <2>1. \A q \in Process \ {w} : pc'[q] = pc[q] /\ UndoOf(q)'
      BY <1>2, OthersKeepWriter
    <2>2. UndoOf(w)' /\ undo' \in [Process -> [Sem -> -2..2]] /\ pc'[w] \in WriterPc
          /\ pc' \in [Process -> ReaderPc \union WriterPc] /\ UNCHANGED sem[3]
          /\ sem' \in [Sem -> Nat]
          /\ (Inside(w)' # Inside(w) => Inside(w)' /\ sem[4] = 0 /\ sem'[4] = 1)
          /\ (Inside(w)' = Inside(w) => UNCHANGED sem[4])
      BY <1>2, WriterUndo
    <2>3. PcTypes'
      BY <2>1, <2>2 DEF Kept, PcTypes
    <2>4. Undos' /\ SemTypes'
      BY <2>1, <2>2 DEF Undos, SemTypes
    <2>5. Places'
      <3> HIDE DEF Inside
      <3>1. \A q \in Process \ {w} : Inside(q)' = Inside(q)
        BY <2>1 DEF Inside
      <3> QED
        BY <2>2, <3>1 DEF Kept, Places, OneOfEachKind
    <2> QED
      BY <2>3, <2>4, <2>5 DEF Kept
  <1>3. ASSUME NEW p \in Process, Ends(p) PROVE Kept'
    <2>1. \A q \in Process \ {p} : pc'[q] = pc[q] /\ UndoOf(q)'
      BY <1>3, OthersKeepEnd
    <2>2. UndoOf(p)' /\ undo' \in [Process -> [Sem -> -2..2]] /\ pc'[p] \in Gone
          /\ pc' \in [Process -> ReaderPc \union WriterPc]
          /\ sem' \in [Sem -> Nat]
          /\ (p \in Reader => UNCHANGED sem[4] /\ sem'[3] = IF Inside(p) THEN 0 ELSE sem[3])
          /\ (p \in Writer => UNCHANGED sem[3] /\ sem'[4] = IF Inside(p) THEN 0 ELSE sem[4])
      BY <1>3, EndUndo
    <2>3. PcTypes'
      BY <2>1, <2>2 DEF Kept, PcTypes
    <2>4. Undos' /\ SemTypes'
      BY <2>1, <2>2 DEF Undos, SemTypes
    <2>5. Places'
      <3>1. ~Inside(p)' /\ \A q \in Process \ {p} : Inside(q)' = Inside(q)
        BY <2>1, <2>2
      <3> HIDE DEF Inside
      <3> QED
        BY <2>2, <3>1 DEF Kept, Places, OneOfEachKind
    <2> QED
      BY <2>3, <2>4, <2>5 DEF Kept
  <1>4. CASE Quiet
    BY <1>4 DEF Quiet, Kept, PcTypes, SemTypes, Undos, UndoOf, Places, OneOfEachKind
  <1> QED
    BY <1>1, <1>2, <1>3, <1>4 DEF Effect

-----------------------------------------------------------------------------
(* The announcements.  What a reader sees of them: *)
LEMMA ReaderAlone ==
  ASSUME Kept, NEW r \in Reader, Inside(r)
  PROVE  \A q \in Reader \ {r} : ~Inside(q) /\ \A s \in Sem : undo[q][s] = 0
  BY DEF Kept, Places, OneOfEachKind, Undos, UndoOf

LEMMA WriterAlone ==
  ASSUME Kept, NEW w \in Writer, Inside(w)
  PROVE  \A q \in Writer \ {w} : ~Inside(q) /\ \A s \in Sem : undo[q][s] = 0
  BY DEF Kept, Places, OneOfEachKind, Undos, UndoOf

LEMMA AnnouncedReader ==
  ASSUME Kept, Announced, NEW r \in Reader, ReaderEffect(r)
  PROVE  Announced'
  <1>p. r \in Process /\ sem \in [Sem -> Nat] /\ undo \in [Process -> [Sem -> -2..2]] /\ UndoOf(r)
        /\ \A w \in Writer : w \in Process /\ w # r /\ undo[w] \in [Sem -> -2..2]
        /\ \A q \in Reader : q \in Process /\ undo[q] \in [Sem -> -2..2]
    BY DEF Kept, SemTypes, Undos
  <1>1. CASE UNCHANGED <<sem[1], sem[2]>> /\ \A q \in Process : undo'[q][1] = undo[q][1]
                                                              /\ undo'[q][2] = undo[q][2]
    BY <1>1, <1>p DEF Announced
  <1>2. CASE \E to : Still(r, pc[r], to)
    BY <1>1, <1>2 DEF Still
  <1>3. CASE Shifts(r, "claim", "clear0", 3, 1, 1) \/ Shifts(r, "raise", "arm", 0, 2, 0)
              \/ Shifts(r, "arm", "alive", 0, -2, -2) \/ Shifts(r, "filled", "check1", 0, 2, 0)
    BY <1>1, <1>3, <1>p DEF Shifts
  <1>4. CASE Clears(r, "clear0", "clear1", 0)
    BY <1>1, <1>4, <1>p DEF Clears
  <1>5. CASE Clears(r, "clear1", "clear2", 1)
    BY <1>5, <1>p DEF Clears, Announced
  <1>6. CASE Clears(r, "clear2", "raise", 2)
    BY <1>6, <1>p DEF Clears, Announced
  <1>7. CASE Shifts(r, "alive", "meet", 1, 2, 2)
    <2>1. Inside(r) /\ undo[r][1] = 0
      BY <1>7, <1>p DEF Shifts, Moves, UndoOf
    <2>2. sem[1] = 0
      BY <2>1, <1>p, ReaderAlone DEF Announced
    <2>3. undo'[r][1] = -2 /\ sem'[1] = 2 /\ sem'[2] = sem[2] /\ \A w \in Writer : undo'[w] = undo[w]
      BY <1>7, <1>p, <2>1, <2>2 DEF Shifts
    <2> QED
      BY <2>3 DEF Announced
  <1>8. CASE Shifts(r, "meet", "input", 2, -1, 0)
    <2>1. sem'[1] = sem[1] /\ sem'[2] = sem[2] - 1 /\ \A q \in Process : undo'[q][1] = undo[q][1]
                                                              /\ undo'[q][2] = undo[q][2]
      BY <1>8, <1>p DEF Shifts
    <2>2. sem[2] \in Nat
      BY <1>p
    <2> QED
      BY <2>1, <2>2, <1>p DEF Announced
  <1> QED
    BY <1>2, <1>3, <1>4, <1>5, <1>6, <1>7, <1>8 DEF ReaderEffect, Still, Moves

LEMMA AnnouncedWriter ==
  ASSUME Kept, Announced, NEW w \in Writer, WriterEffect(w)
  PROVE  Announced'
  <1>p. w \in Process /\ sem \in [Sem -> Nat] /\ undo \in [Process -> [Sem -> -2..2]] /\ UndoOf(w)
        /\ \A r \in Reader : r \in Process /\ w # r /\ undo[r] \in [Sem -> -2..2]
        /\ \A q \in Writer : q \in Process /\ undo[q] \in [Sem -> -2..2]
    BY DEF Kept, SemTypes, Undos
  <1>1. CASE UNCHANGED <<sem[1], sem[2]>> /\ \A q \in Process : undo'[q][1] = undo[q][1]
                                                              /\ undo'[q][2] = undo[q][2]
    BY <1>1, <1>p DEF Announced
  <1>2. CASE \E to : Still(w, pc[w], to)
    BY <1>1, <1>2 DEF Still
  <1>3. CASE Shifts(w, "claim", "meet", 4, 1, 1) \/ Shifts(w, "arm", "disarm", 0, 2, 2)
              \/ Shifts(w, "disarm", "alive", 0, -2, 0) \/ Shifts(w, "take", "copy", 0, -1, 0)
              \/ Shifts(w, "release", "check", 0, -1, 0)
    BY <1>1, <1>3, <1>p DEF Shifts
  <1>4. CASE Shifts(w, "alive", "open", 2, 2, 2)
    <2>1. Inside(w) /\ undo[w][2] = 0
      BY <1>4, <1>p DEF Shifts, Moves, UndoOf
    <2>2. sem[2] = 0
      BY <2>1, <1>p, WriterAlone DEF Announced
    <2>3. undo'[w][2] = -2 /\ sem'[2] = 2 /\ sem'[1] = sem[1] /\ \A r \in Reader : undo'[r] = undo[r]
      BY <1>4, <1>p, <2>1, <2>2 DEF Shifts
    <2> QED
      BY <2>3 DEF Announced
  <1>5. CASE Shifts(w, "meet", "arm", 1, -1, 0)
    <2>1. sem'[2] = sem[2] /\ sem'[1] = sem[1] - 1 /\ \A q \in Process : undo'[q][1] = undo[q][1]
                                                              /\ undo'[q][2] = undo[q][2]
      BY <1>5, <1>p DEF Shifts
    <2>2. sem[1] \in Nat
      BY <1>p
    <2> QED
      BY <2>1, <2>2, <1>p DEF Announced
  <1> QED
    BY <1>2, <1>3, <1>4, <1>5 DEF WriterEffect, Still, Moves

(* The end of the announcer takes back what is left of its announcement. *)
LEMMA AnnouncedEnd ==
  ASSUME Kept, Announced, NEW p \in Process, Ends(p)
  PROVE  Announced'
  <1>p. undo[p] \in [Sem -> -2..2] /\ UndoOf(p) /\ undo \in [Process -> [Sem -> -2..2]]
        /\ sem \in [Sem -> Nat] /\ 1 \in Sem /\ 2 \in Sem
    BY DEF Kept, SemTypes, Undos
  <1>1. \A s \in Sem : sem'[s] = IF sem[s] + undo[p][s] < 0 THEN 0 ELSE sem[s] + undo[p][s]
    BY DEF Ends
  <1>2. \A q \in Process \ {p} : undo'[q] = undo[q]
    BY <1>p DEF Ends
  <1>3. undo[p][1] \in {0, -2} /\ undo[p][2] \in {0, -2} /\ sem[1] \in Nat /\ sem[2] \in Nat
    BY <1>p DEF UndoOf
  <1>4. sem'[1] <= 2 /\ (sem'[1] > 0 => \E r \in Reader : undo'[r][1] = -2)
    <2>1. CASE undo[p][1] = -2
      BY <1>1, <1>3, <1>p, <2>1 DEF Announced
    <2>2. CASE undo[p][1] = 0
      <3>1. sem'[1] = sem[1]
        BY <1>1, <1>3, <1>p, <2>2
      <3>2. \A r \in Reader : undo[r][1] = -2 => undo'[r][1] = -2
        BY <1>2, <2>2
      <3> QED
        BY <3>1, <3>2 DEF Announced
    <2> QED
      BY <1>3, <2>1, <2>2
  <1>5. sem'[2] <= 2 /\ (sem'[2] > 0 => \E w \in Writer : undo'[w][2] = -2)
    <2>1. CASE undo[p][2] = -2
      BY <1>1, <1>3, <1>p, <2>1 DEF Announced
    <2>2. CASE undo[p][2] = 0
      <3>1. sem'[2] = sem[2]
        BY <1>1, <1>3, <1>p, <2>2
      <3>2. \A w \in Writer : undo[w][2] = -2 => undo'[w][2] = -2
        BY <1>2, <2>2
      <3> QED
        BY <3>1, <3>2 DEF Announced
    <2> QED
      BY <1>3, <2>1, <2>2
  <1> QED
    BY <1>4, <1>5 DEF Announced

-----------------------------------------------------------------------------
(* Where a step takes a process, and what it saw or did then. *)
LEMMA StepOf ==
  ASSUME Kept, Effect, NEW q \in Process
  PROVE  \/ pc'[q] = pc[q]
         \/ q \in Reader /\ ReaderEffect(q)
         \/ q \in Writer /\ WriterEffect(q)
         \/ Ends(q)
  BY OthersKeepReader, OthersKeepWriter, OthersKeepEnd DEF Effect, Quiet

LEMMA ReaderStages ==
  ASSUME Kept, Effect, NEW r \in Reader
  PROVE  /\ pc[r] \in RAlive \union Gone => pc'[r] \in RAlive \union Gone
         /\ pc[r] \in RMet \union Gone => pc'[r] \in RMet \union Gone
         /\ pc[r] \in Gone => pc'[r] \in Gone
         /\ pc[r] \notin Outside => pc'[r] \notin Outside
         /\ pc'[r] \in RMet /\ pc[r] \notin RMet => Shifts(r, "meet", "input", 2, -1, 0)
         /\ pc'[r] \in RAlive /\ pc[r] \notin RAlive => Shifts(r, "alive", "meet", 1, 2, 2)
         /\ pc'[r] = "bye" /\ pc[r] # "bye" => sem[2] = 0 /\ pc[r] \in RMet
  <1>p. r \in Process /\ r \notin Writer /\ pc \in [Process -> ReaderPc \union WriterPc] /\ pc[r] \in ReaderPc
    BY DEF Kept, PcTypes
  <1>1. CASE pc'[r] = pc[r]
    BY <1>1
  <1>2. CASE Ends(r)
    BY <1>2, <1>p DEF Ends
  <1>3. CASE \E from, to : Still(r, from, to) /\ ReaderEffect(r)
    BY <1>3, <1>p DEF ReaderEffect, Still, Shifts, Clears, Moves
  <1>4. CASE \E from, to, s, op, debt : Shifts(r, from, to, s, op, debt) /\ ReaderEffect(r)
    BY <1>4, <1>p DEF ReaderEffect, Still, Shifts, Clears, Moves
  <1>5. CASE \E from, to, s : Clears(r, from, to, s) /\ ReaderEffect(r)
    BY <1>5, <1>p DEF ReaderEffect, Still, Shifts, Clears, Moves
  <1> QED
    BY <1>p, <1>1, <1>2, <1>3, <1>4, <1>5, StepOf DEF ReaderEffect

LEMMA WriterStages ==
  ASSUME Kept, Effect, NEW w \in Writer
  PROVE  /\ pc[w] \in WMet \union Gone => pc'[w] \in WMet \union Gone
         /\ pc[w] \in WAlive \union Gone => pc'[w] \in WAlive \union Gone
         /\ pc[w] \in Gone => pc'[w] \in Gone
         /\ pc[w] \notin Outside => pc'[w] \notin Outside
         /\ pc'[w] \in WMet /\ pc[w] \notin WMet => Shifts(w, "meet", "arm", 1, -1, 0)
         /\ pc'[w] \in WAlive /\ pc[w] \notin WAlive => Shifts(w, "alive", "open", 2, 2, 2)
         /\ pc'[w] = "bye" /\ pc[w] # "bye" => sem[1] = 0 /\ pc[w] \in WAlive
  <1>p. w \in Process /\ w \notin Reader /\ pc \in [Process -> ReaderPc \union WriterPc] /\ pc[w] \in WriterPc
    BY DEF Kept, PcTypes
  <1>1. CASE pc'[w] = pc[w]
    BY <1>1
  <1>2. CASE Ends(w)
    BY <1>2, <1>p DEF Ends
  <1>3. CASE \E from, to : Still(w, from, to) /\ WriterEffect(w)
    BY <1>3, <1>p DEF WriterEffect, Still, Shifts, Moves
  <1>4. CASE \E from, to, s, op, debt : Shifts(w, from, to, s, op, debt) /\ WriterEffect(w)
    BY <1>4, <1>p DEF WriterEffect, Still, Shifts, Moves
  <1> QED
    BY <1>p, <1>1, <1>2, <1>3, <1>4, StepOf DEF WriterEffect

(* What changes the two announcements. *)
LEMMA AnnouncementsMove ==
  ASSUME Kept, Effect
  PROVE  /\ \/ sem'[1] = sem[1]
            \/ \E r \in Reader : Clears(r, "clear1", "clear2", 1) \/ Shifts(r, "alive", "meet", 1, 2, 2)
            \/ \E w \in Writer : Shifts(w, "meet", "arm", 1, -1, 0)
            \/ \E r \in Reader : Ends(r) /\ undo[r][1] = -2
         /\ \/ sem'[2] = sem[2]
            \/ \E r \in Reader : Clears(r, "clear2", "raise", 2) \/ Shifts(r, "meet", "input", 2, -1, 0)
            \/ \E w \in Writer : Shifts(w, "alive", "open", 2, 2, 2)
            \/ \E w \in Writer : Ends(w) /\ undo[w][2] = -2
  <1>p. sem \in [Sem -> Nat]
    BY DEF Kept, SemTypes
  <1>1. ASSUME NEW r \in Reader, ReaderEffect(r)
        PROVE  /\ sem'[1] = sem[1] \/ Clears(r, "clear1", "clear2", 1) \/ Shifts(r, "alive", "meet", 1, 2, 2)
               /\ sem'[2] = sem[2] \/ Clears(r, "clear2", "raise", 2) \/ Shifts(r, "meet", "input", 2, -1, 0)
    BY <1>1, <1>p DEF ReaderEffect, Still, Shifts, Clears
  <1>2. ASSUME NEW w \in Writer, WriterEffect(w)
        PROVE  /\ sem'[1] = sem[1] \/ Shifts(w, "meet", "arm", 1, -1, 0)
               /\ sem'[2] = sem[2] \/ Shifts(w, "alive", "open", 2, 2, 2)
    BY <1>2, <1>p DEF WriterEffect, Still, Shifts
  <1>3. ASSUME NEW p \in Process, Ends(p)
        PROVE  /\ sem'[1] = sem[1] \/ (p \in Reader /\ undo[p][1] = -2)
               /\ sem'[2] = sem[2] \/ (p \in Writer /\ undo[p][2] = -2)
    <2>1. UndoOf(p) /\ sem[1] \in Nat /\ sem[2] \in Nat
      BY <1>p DEF Kept, Undos
    <2>2. \A s \in {1, 2} : sem'[s] = IF sem[s] + undo[p][s] < 0 THEN 0 ELSE sem[s] + undo[p][s]
      BY <1>3 DEF Ends
    <2> QED
      BY <2>1, <2>2 DEF UndoOf
  <1>4. CASE Quiet
    BY <1>4 DEF Quiet
  <1> QED
    BY <1>1, <1>2, <1>3, <1>4 DEF Effect

(* Who claims now has never been preceded, if nobody was before. *)
LEMMA NoSuccessorBefore ==
  ASSUME Kept, Effect, NoSuccessor'
  PROVE  /\ NoSuccessor
         /\ \A p, q \in Reader : pc[p] \notin Outside /\ pc[q] \notin Outside => p = q
         /\ \A p, q \in Writer : pc[p] \notin Outside /\ pc[q] \notin Outside => p = q
  <1>1. \A p \in Process : pc[p] \notin Outside => pc'[p] \notin Outside
    BY ReaderStages, WriterStages
  <1>2. ASSUME NEW P \in {Reader, Writer}, NEW p \in P, NEW q \in P,
               pc[p] \notin Outside, pc[q] \notin Outside
        PROVE  p = q
    <2>1. pc'[p] \notin Outside /\ pc'[q] \notin Outside
      BY <1>1, <1>2
    <2> QED
      BY <2>1, <1>2 DEF NoSuccessor
  <1>3. NoSuccessor
    BY <1>2 DEF NoSuccessor
  <1> QED
    BY <1>2, <1>3

LEMMA PartnersNext ==
  ASSUME Kept, Announced, Partners, Effect
  PROVE  Partners'
  <1>1. ASSUME NEW w \in Writer, pc'[w] \in WMet
        PROVE  \E r \in Reader : pc'[r] \in RAlive \union Gone
    <2>1. CASE pc[w] \in WMet
      BY <2>1, ReaderStages DEF Partners
    <2>2. CASE pc[w] \notin WMet
      <3>1. Shifts(w, "meet", "arm", 1, -1, 0)
        BY <1>1, <2>2, WriterStages
      <3>2. sem[1] > 0
        BY <3>1 DEF Shifts, Kept, SemTypes
      <3>3. PICK r \in Reader : undo[r][1] = -2
        BY <3>2 DEF Announced
      <3>4. pc[r] \in RAlive
        BY <3>3 DEF Kept, Undos, UndoOf
      <3> QED
        BY <3>4, ReaderStages
    <2> QED
      BY <2>1, <2>2
  <1>2. ASSUME NEW r \in Reader, pc'[r] \in RMet
        PROVE  \E w \in Writer : pc'[w] \in WAlive \union Gone
    <2>1. CASE pc[r] \in RMet
      BY <2>1, WriterStages DEF Partners
    <2>2. CASE pc[r] \notin RMet
      <3>1. Shifts(r, "meet", "input", 2, -1, 0)
        BY <1>2, <2>2, ReaderStages
      <3>2. sem[2] > 0
        BY <3>1 DEF Shifts, Kept, SemTypes
      <3>3. PICK w \in Writer : undo[w][2] = -2
        BY <3>2 DEF Announced
      <3>4. pc[w] \in WAlive
        BY <3>3 DEF Kept, Undos, UndoOf
      <3> QED
        BY <3>4, WriterStages
    <2> QED
      BY <2>1, <2>2
  <1> QED
    BY <1>1, <1>2 DEF Partners

(* Semaphores 1 and 2 of the first couple: 2 until the partner takes its step. *)
LEMMA CoupleNext ==
  ASSUME Kept, Announced, Partners, Couple, Effect
  PROVE  Couple'
  <1> SUFFICES ASSUME NoSuccessor'
               PROVE  /\ \A r \in Reader : pc'[r] \in RAlive =>
                           sem'[1] >= 1 /\ (sem'[1] = 2 \/ \E w \in Writer : pc'[w] \in WMet \union Gone)
                      /\ \A w \in Writer : pc'[w] \in WAlive =>
                           sem'[2] >= 1 /\ (sem'[2] = 2 \/ \E r \in Reader : pc'[r] \in RMet \union Gone)
    BY DEF Couple
  <1>a. NoSuccessor
        /\ (\A p, q \in Reader : pc[p] \notin Outside /\ pc[q] \notin Outside => p = q)
        /\ (\A p, q \in Writer : pc[p] \notin Outside /\ pc[q] \notin Outside => p = q)
    BY NoSuccessorBefore
  <1>b. sem[1] \in Nat /\ sem[2] \in Nat /\ sem \in [Sem -> Nat] /\ pc \in [Process -> ReaderPc \union WriterPc]
    BY DEF Kept, SemTypes, PcTypes
  <1>1. ASSUME NEW r \in Reader, pc'[r] \in RAlive
        PROVE  sem'[1] >= 1 /\ (sem'[1] = 2 \/ \E w \in Writer : pc'[w] \in WMet \union Gone)
    <2>1. CASE pc[r] \notin RAlive
      <3>1. Shifts(r, "alive", "meet", 1, 2, 2)
        BY <1>1, <2>1, ReaderStages
      <3>2. Inside(r) /\ undo[r][1] = 0
        BY <3>1 DEF Shifts, Moves, Kept, Undos, UndoOf
      <3>3. sem[1] = 0
        BY <3>2, <1>b, ReaderAlone DEF Announced
      <3> QED
        BY <3>1, <3>3, <1>b DEF Shifts
    <2>2. CASE pc[r] \in RAlive
      <3>1. sem[1] >= 1 /\ (sem[1] = 2 \/ \E w \in Writer : pc[w] \in WMet \union Gone)
        BY <2>2, <1>a DEF Couple
      <3>2. CASE sem'[1] = sem[1]
        BY <3>1, <3>2, WriterStages
      <3>3. ASSUME NEW q \in Reader, Clears(q, "clear1", "clear2", 1) \/ Shifts(q, "alive", "meet", 1, 2, 2)
            PROVE  FALSE
        BY <2>2, <3>3, <1>a DEF Clears, Shifts, Moves
      <3>4. ASSUME NEW w \in Writer, Shifts(w, "meet", "arm", 1, -1, 0)
            PROVE  sem'[1] = 1 /\ pc'[w] \in WMet
        <4>1. pc[w] = "meet" /\ sem'[1] = sem[1] - 1 /\ pc'[w] = "arm"
          BY <3>4, <1>b DEF Shifts, Moves
        <4>2. \A v \in Writer : pc[v] \notin WMet \union Gone
          BY <4>1, <1>a DEF Kept, PcTypes
        <4> QED
          BY <3>1, <4>1, <4>2
      <3>5. ASSUME NEW q \in Reader, Ends(q), undo[q][1] = -2
            PROVE  FALSE
        <4>1. pc[q] \in RAlive /\ pc'[q] \in Gone
          BY <3>5, <1>b DEF Kept, Undos, UndoOf, Ends
        <4> QED
          BY <4>1, <2>2, <1>1, <1>a
      <3> QED
        BY <3>2, <3>3, <3>4, <3>5, AnnouncementsMove
    <2> QED
      BY <2>1, <2>2
  <1>2. ASSUME NEW w \in Writer, pc'[w] \in WAlive
        PROVE  sem'[2] >= 1 /\ (sem'[2] = 2 \/ \E r \in Reader : pc'[r] \in RMet \union Gone)
    <2>1. CASE pc[w] \notin WAlive
      <3>1. Shifts(w, "alive", "open", 2, 2, 2)
        BY <1>2, <2>1, WriterStages
      <3>2. Inside(w) /\ undo[w][2] = 0
        BY <3>1 DEF Shifts, Moves, Kept, Undos, UndoOf
      <3>3. sem[2] = 0
        BY <3>2, <1>b, WriterAlone DEF Announced
      <3> QED
        BY <3>1, <3>3, <1>b DEF Shifts
    <2>2. CASE pc[w] \in WAlive
      <3>1. sem[2] >= 1 /\ (sem[2] = 2 \/ \E r \in Reader : pc[r] \in RMet \union Gone)
        BY <2>2, <1>a DEF Couple
      <3>2. CASE sem'[2] = sem[2]
        BY <3>1, <3>2, ReaderStages
      <3>3. ASSUME NEW r \in Reader, Clears(r, "clear2", "raise", 2)
            PROVE  FALSE
        <4>1. PICK q \in Reader : pc[q] \in RAlive \union Gone
          BY <2>2 DEF Partners
        <4> QED
          BY <3>3, <4>1, <1>a DEF Clears, Moves
      <3>4. ASSUME NEW r \in Reader, Shifts(r, "meet", "input", 2, -1, 0)
            PROVE  sem'[2] = 1 /\ pc'[r] \in RMet
        <4>1. pc[r] = "meet" /\ sem'[2] = sem[2] - 1 /\ pc'[r] = "input"
          BY <3>4, <1>b DEF Shifts, Moves
        <4>2. \A v \in Reader : pc[v] \notin RMet \union Gone
          BY <4>1, <1>a DEF Kept, PcTypes
        <4> QED
          BY <3>1, <4>1, <4>2
      <3>5. ASSUME NEW v \in Writer, Shifts(v, "alive", "open", 2, 2, 2)
            PROVE  FALSE
        BY <2>2, <3>5, <1>a DEF Shifts, Moves
      <3>6. ASSUME NEW v \in Writer, Ends(v), undo[v][2] = -2
            PROVE  FALSE
        <4>1. pc[v] \in WAlive /\ pc'[v] \in Gone
          BY <3>6, <1>b DEF Kept, Undos, UndoOf, Ends
        <4> QED
          BY <4>1, <2>2, <1>2, <1>a
      <3> QED
        BY <3>2, <3>3, <3>4, <3>5, <3>6, AnnouncementsMove
    <2> QED
      BY <2>1, <2>2
  <1> QED
    BY <1>1, <1>2

LEMMA ByeNext ==
  ASSUME Kept, Partners, Couple, ByeMeansGone, Effect
  PROVE  ByeMeansGone'
  <1> SUFFICES ASSUME NoSuccessor'
               PROVE  /\ \A r \in Reader : pc'[r] = "bye" => \E w \in Writer : pc'[w] \in Gone
                      /\ \A w \in Writer : pc'[w] = "bye" => \E r \in Reader : pc'[r] \in Gone
    BY DEF ByeMeansGone
  <1>a. NoSuccessor /\ sem[1] \in Nat /\ sem[2] \in Nat
    BY NoSuccessorBefore DEF Kept, SemTypes
  <1>1. ASSUME NEW r \in Reader, pc'[r] = "bye" PROVE \E w \in Writer : pc'[w] \in Gone
    <2>1. CASE pc[r] = "bye"
      BY <2>1, <1>a, WriterStages DEF ByeMeansGone
    <2>2. CASE pc[r] # "bye"
      <3>1. sem[2] = 0 /\ pc[r] \in RMet
        BY <1>1, <2>2, ReaderStages
      <3>2. PICK w \in Writer : pc[w] \in WAlive \union Gone
        BY <3>1 DEF Partners
      <3>3. pc[w] \in Gone
        BY <3>1, <3>2, <1>a DEF Couple
      <3> QED
        BY <3>3, WriterStages
    <2> QED
      BY <2>1, <2>2
  <1>2. ASSUME NEW w \in Writer, pc'[w] = "bye" PROVE \E r \in Reader : pc'[r] \in Gone
    <2>1. CASE pc[w] = "bye"
      BY <2>1, <1>a, ReaderStages DEF ByeMeansGone
    <2>2. CASE pc[w] # "bye"
      <3>1. sem[1] = 0 /\ pc[w] \in WAlive
        BY <1>2, <2>2, WriterStages
      <3>2. PICK r \in Reader : pc[r] \in RAlive \union Gone
        BY <3>1 DEF Partners
      <3>3. pc[r] \in Gone
        BY <3>1, <3>2, <1>a DEF Couple
      <3> QED
        BY <3>3, ReaderStages
    <2> QED
      BY <2>1, <2>2
  <1> QED
    BY <1>1, <1>2

LEMMA MeetingNext ==
  ASSUME Kept, Meeting, Effect
  PROVE  Meeting'
  <1>1. Announced'
    BY AnnouncedReader, AnnouncedWriter, AnnouncedEnd DEF Meeting, Effect, Quiet, Announced
  <1> QED
    BY <1>1, PartnersNext, CoupleNext, ByeNext DEF Meeting

-----------------------------------------------------------------------------
(* The buffer.  The reader's own steps: *)
LEMMA BufferOwn ==
  ASSUME Kept, Announced, NEW r \in Reader, BufferOf(r), ReaderEffect(r)
  PROVE  BufferOf(r)'
  <1>p. /\ r \in Process /\ sem \in [Sem -> Nat] /\ sem[0] \in Nat
        /\ pc \in [Process -> ReaderPc \union WriterPc]
        /\ \A w \in Writer : w \in Process /\ w # r /\ undo[w] \in [Sem -> -2..2]
    BY DEF Kept, SemTypes, PcTypes
  <1>1. CASE \/ Still(r, "off", "claim") \/ Still(r, "claim", "refused") \/ Still(r, "input", "read")
             \/ Still(r, "read", "fill") \/ Still(r, "fill", "filling")
             \/ Still(r, "fill", "filled") \/ Still(r, "filling", "filled")
             \/ Still(r, "check1", "bye") \/ Still(r, "check2", "bye") \/ Still(r, "check1", "waitzero")
             \/ sem[0] = 0 /\ Still(r, "waitzero", "check2")
             \/ Still(r, "check2", "leave") \/ Still(r, "check2", "read")
    <2>1. sem' = sem /\ undo' = undo /\ \A w \in Writer : pc'[w] = pc[w]
      BY <1>1, <1>p DEF Still, Moves
    <2>2. CASE pc'[r] \in Outside \union Gone \union {"leave", "bye", "clear0"}
      BY <2>2 DEF BufferOf
    <2>3. CASE /\ pc[r] \in {"input", "read", "fill", "filling", "check2"}
               /\ pc'[r] \in {"read", "fill", "filling", "filled"}
      BY <2>1, <2>3 DEF BufferOf, Filling
    <2>4. CASE pc[r] = "check1" /\ pc'[r] = "waitzero"
      BY <2>1, <2>4 DEF BufferOf, Offering
    <2>5. CASE pc[r] = "waitzero" /\ pc'[r] = "check2" /\ sem[0] = 0
      BY <2>1, <2>5 DEF BufferOf, Offering, Filling
    <2>6. \/ pc'[r] \in Outside \union Gone \union {"leave", "bye", "clear0"}
          \/ /\ pc[r] \in {"input", "read", "fill", "filling", "check2"}
             /\ pc'[r] \in {"read", "fill", "filling", "filled"}
          \/ <<pc[r], pc'[r]>> = <<"check1", "waitzero">>
          \/ <<pc[r], pc'[r]>> = <<"waitzero", "check2">> /\ sem[0] = 0
      BY <1>1, <1>p DEF Still, Moves
    <2> QED
      BY <2>2, <2>3, <2>4, <2>5, <2>6
  <1>2. CASE Shifts(r, "claim", "clear0", 3, 1, 1)
    BY <1>2, <1>p DEF Shifts, Moves, BufferOf
  <1>3. CASE Clears(r, "clear0", "clear1", 0)
    BY <1>3, <1>p DEF Clears, Moves, BufferOf, Starting, Raised
  <1>4. CASE Clears(r, "clear1", "clear2", 1)
    <2>1. sem'[0] = sem[0] /\ pc[r] = "clear1" /\ pc'[r] = "clear2"
          /\ \A w \in Writer : pc'[w] = pc[w] /\ undo'[w][0] = undo[w][0]
      BY <1>4, <1>p DEF Clears, Moves
    <2> QED
      BY <2>1 DEF BufferOf, Starting, Raised, Armed
  <1>5. CASE Clears(r, "clear2", "raise", 2)
    <2>1. sem'[0] = sem[0] /\ pc[r] = "clear2" /\ pc'[r] = "raise"
          /\ \A w \in Writer : pc'[w] = pc[w] /\ undo'[w][0] = undo[w][0] /\ undo'[w][2] = 0
      BY <1>5, <1>p DEF Clears, Moves
    <2> QED
      BY <2>1 DEF BufferOf, Starting, Raised, Armed
  <1>6. CASE Shifts(r, "raise", "arm", 0, 2, 0)
    <2>1. sem'[0] = sem[0] + 2 /\ pc[r] = "raise" /\ pc'[r] = "arm"
          /\ \A w \in Writer : pc'[w] = pc[w] /\ undo'[w] = undo[w]
      BY <1>6, <1>p DEF Shifts, Moves
    <2> QED
      BY <2>1, <1>p DEF BufferOf, Starting, Raised, Armed
  <1>7. CASE Shifts(r, "arm", "alive", 0, -2, -2)
    <2>1. sem'[0] = sem[0] - 2 /\ sem[0] >= 2 /\ pc[r] = "arm" /\ pc'[r] = "alive"
          /\ \A w \in Writer : pc'[w] = pc[w] /\ undo'[w] = undo[w]
      BY <1>7, <1>p DEF Shifts, Moves
    <2> QED
      BY <2>1, <1>p DEF BufferOf, Starting, Raised, Armed
  <1>8. CASE Shifts(r, "alive", "meet", 1, 2, 2)
    <2>1. sem'[0] = sem[0] /\ pc[r] = "alive" /\ pc'[r] = "meet"
          /\ \A w \in Writer : pc'[w] = pc[w] /\ undo'[w] = undo[w]
      BY <1>8, <1>p DEF Shifts, Moves
    <2> QED
      BY <2>1, <1>p DEF BufferOf, Starting, Raised, Armed
  <1>9. CASE Shifts(r, "meet", "input", 2, -1, 0)
    <2>1. sem'[0] = sem[0] /\ sem[2] > 0 /\ pc[r] = "meet" /\ pc'[r] = "input"
          /\ \A w \in Writer : pc'[w] = pc[w] /\ undo'[w] = undo[w]
      BY <1>9, <1>p DEF Shifts, Moves
    <2>2. PICK w \in Writer : undo[w][2] = -2
      BY <2>1 DEF Announced
    <2>3. pc[w] \in {"open", "take"} /\ Starting(r)
      BY <2>1, <2>2 DEF BufferOf, Starting
    <2>4. \A v \in Writer \ {w} : ~Inside(v)
      BY <2>3, WriterAlone
    <2>5. sem[0] = 0
      BY <2>1, <2>3, <2>4, <1>p DEF Starting, Raised, Armed
    <2>6. Filling'
      BY <2>1, <2>3, <2>4, <2>5 DEF Filling
    <2> QED
      BY <2>1, <2>6 DEF BufferOf
  <1>10. CASE Shifts(r, "filled", "check1", 0, 2, 0)
    <2>1. sem'[0] = sem[0] + 2 /\ pc[r] = "filled" /\ pc'[r] = "check1"
          /\ \A w \in Writer : pc'[w] = pc[w] /\ undo'[w] = undo[w]
      BY <1>10, <1>p DEF Shifts, Moves
    <2> QED
      BY <2>1, <1>p DEF BufferOf, Filling, Offering
  <1> QED
    BY <1>1, <1>2, <1>3, <1>4, <1>5, <1>6, <1>7, <1>8, <1>9, <1>10 DEF ReaderEffect

(* Nothing that a reader knows changes with a step that leaves semaphore 0 and
   the writers past the meeting alone. *)
LEMMA BufferSame ==
  ASSUME NEW r \in Reader, BufferOf(r), pc'[r] = pc[r], sem'[0] = sem[0],
         \A w \in Writer : /\ undo'[w][0] = undo[w][0] /\ undo'[w][2] = undo[w][2]
                           /\ \/ pc'[w] = pc[w]
                              \/ /\ pc[w] \notin {"disarm", "copy", "release"} /\ undo[w][2] = 0
                                 /\ pc'[w] \notin {"disarm", "copy", "release"}
  PROVE  BufferOf(r)'
  <1>1. Starting(r) => Starting(r)'
    BY DEF Starting, Raised, Armed
  <1>2. Filling => Filling'
    BY DEF Filling
  <1>3. Offering => Offering'
    BY DEF Offering
  <1> QED
    BY <1>1, <1>2, <1>3 DEF BufferOf

(* The steps of a writer that is alone among the writers: *)
LEMMA BufferWriter ==
  ASSUME Kept, NEW r \in Reader, BufferOf(r), NEW w \in Writer, WriterEffect(w)
  PROVE  BufferOf(r)'
  <1>p. /\ w \in Process /\ r \in Process /\ w # r /\ sem \in [Sem -> Nat] /\ sem[0] \in Nat
        /\ pc \in [Process -> ReaderPc \union WriterPc] /\ UndoOf(w) /\ undo[w] \in [Sem -> -2..2]
        /\ undo \in [Process -> [Sem -> -2..2]] /\ w \notin Reader
    BY DEF Kept, SemTypes, PcTypes, Undos
  <1>q. pc'[r] = pc[r] /\ \A v \in Writer \ {w} : pc'[v] = pc[v] /\ undo'[v] = undo[v]
    BY <1>p DEF WriterEffect, Still, Shifts, Moves
  <1>1. CASE Still(w, "off", "claim") \/ Still(w, "claim", "refused")
    <2>1. sem'[0] = sem[0] /\ undo' = undo /\ pc[w] \in Outside /\ pc'[w] \in Outside
      BY <1>1, <1>p DEF Still, Moves
    <2>2. undo[w][2] = 0
      BY <2>1, <1>p DEF UndoOf
    <2> QED
      BY <2>1, <2>2, <1>q, BufferSame
  <1>2. CASE Shifts(w, "claim", "meet", 4, 1, 1) \/ Shifts(w, "meet", "arm", 1, -1, 0)
    <2>1. sem'[0] = sem[0] /\ undo'[w][0] = undo[w][0] /\ undo'[w][2] = undo[w][2]
          /\ pc[w] \in {"claim", "meet"} /\ pc'[w] \in {"meet", "arm"}
      BY <1>2, <1>p DEF Shifts, Moves
    <2>2. undo[w][2] = 0
      BY <2>1, <1>p DEF UndoOf
    <2> QED
      BY <2>1, <2>2, <1>q, BufferSame
  <1>3. CASE Inside(w) /\ pc[w] # "meet"
    <2>a. \A v \in Writer \ {w} : /\ pc'[v] = pc[v] /\ undo'[v] = undo[v]
                                 /\ pc[v] \in Outside \union Gone /\ undo[v][0] = 0 /\ undo[v][2] = 0
      BY <1>3, <1>q, WriterAlone
    <2>b. UNCHANGED <<pc[r]>> /\ Raised(r) \in {0, 2} /\ Raised(r)' = Raised(r)
      BY <1>q DEF Raised
    <2>1. CASE Shifts(w, "arm", "disarm", 0, 2, 2)
      <3>1. sem'[0] = sem[0] + 2 /\ pc[w] = "arm" /\ pc'[w] = "disarm"
            /\ undo'[w][0] = undo[w][0] - 2 /\ undo'[w][2] = undo[w][2]
        BY <2>1, <1>p DEF Shifts, Moves
      <3>2. undo'[w][0] = -2 /\ undo'[w][2] = 0
        BY <3>1, <1>p DEF UndoOf
      <3>3. Starting(r) => Starting(r)'
        BY <2>a, <2>b, <3>1, <3>2, <1>p DEF Starting, Armed
      <3>4. Filling => Filling'
        BY <2>a, <3>1, <3>2, <1>p DEF Filling
      <3>5. Offering => Offering'
        BY <2>a, <3>1, <3>2, <1>p DEF Filling, Offering
      <3> QED
        BY <2>b, <3>3, <3>4, <3>5 DEF BufferOf
    <2>2. CASE Shifts(w, "disarm", "alive", 0, -2, 0)
      <3>1. sem'[0] = sem[0] - 2 /\ sem'[0] >= 0 /\ pc[w] = "disarm" /\ pc'[w] = "alive"
            /\ undo'[w][0] = undo[w][0] /\ undo'[w][2] = undo[w][2]
        BY <2>2, <1>p DEF Shifts, Moves
      <3>2. undo'[w][2] = 0
        BY <3>1, <1>p DEF UndoOf
      <3>3. Starting(r) => Starting(r)'
        BY <2>a, <2>b, <3>1, <3>2, <1>p DEF Starting, Armed
      <3>4. Filling => Filling'
        BY <2>a, <3>1, <3>2, <1>p DEF Filling
      <3>5. Offering => Offering'
        BY <2>a, <3>1, <3>2, <1>p DEF Filling, Offering
      <3> QED
        BY <2>b, <3>3, <3>4, <3>5 DEF BufferOf
    <2>3. CASE Shifts(w, "alive", "open", 2, 2, 2)
      <3>1. sem'[0] = sem[0] /\ pc[w] = "alive" /\ pc'[w] = "open"
            /\ undo'[w][0] = undo[w][0]
        BY <2>3, <1>p DEF Shifts, Moves
      <3>3. Starting(r) => Starting(r)'
        BY <2>a, <2>b, <3>1, <1>p DEF Starting, Armed
      <3>4. Filling => Filling'
        BY <2>a, <3>1, <1>p DEF Filling
      <3>5. Offering => Offering'
        BY <2>a, <3>1, <1>p DEF Filling, Offering
      <3> QED
        BY <2>b, <3>3, <3>4, <3>5 DEF BufferOf
    <2>4. CASE Shifts(w, "take", "copy", 0, -1, 0)
      <3>1. sem'[0] = sem[0] - 1 /\ sem'[0] >= 0 /\ pc[w] = "take" /\ pc'[w] = "copy"
            /\ undo'[w][0] = undo[w][0] /\ undo'[w][2] = undo[w][2]
        BY <2>4, <1>p DEF Shifts, Moves
      <3>3. Starting(r) => Starting(r)'
        BY <2>a, <2>b, <3>1, <1>p DEF Starting, Armed, Raised
      <3>4. Filling => Filling'
        BY <2>a, <3>1, <1>p DEF Filling
      <3>5. Offering => Offering'
        BY <2>a, <3>1, <1>p DEF Filling, Offering
      <3> QED
        BY <2>b, <3>3, <3>4, <3>5 DEF BufferOf
    <2>5. CASE Shifts(w, "release", "check", 0, -1, 0)
      <3>1. sem'[0] = sem[0] - 1 /\ sem'[0] >= 0 /\ pc[w] = "release" /\ pc'[w] = "check"
            /\ undo'[w][0] = undo[w][0] /\ undo'[w][2] = undo[w][2]
        BY <2>5, <1>p DEF Shifts, Moves
      <3>3. Starting(r) => Starting(r)'
        BY <2>a, <2>b, <3>1, <1>p DEF Starting, Armed, Raised
      <3>4. Filling => Filling'
        BY <2>a, <3>1, <1>p DEF Filling
      <3>5. Offering => Offering'
        BY <2>a, <3>1, <1>p DEF Filling, Offering
      <3> QED
        BY <2>b, <3>3, <3>4, <3>5 DEF BufferOf
    <2>6. CASE Still(w, "open", "take") \/ Still(w, "check", "bye") \/ Still(w, "check", "leave")
               \/ Still(w, "check", "take") \/ Still(w, "copy", "release")
      <3>1. sem' = sem /\ undo' = undo
            /\ <<pc[w], pc'[w]>> \in {<<"open", "take">>, <<"check", "bye">>, <<"check", "leave">>,
                                    <<"check", "take">>, <<"copy", "release">>}
        BY <2>6, <1>p DEF Still, Moves
      <3>3. Starting(r) => Starting(r)'
        BY <2>a, <2>b, <3>1, <1>p DEF Starting, Armed
      <3>4. Filling => Filling'
        BY <2>a, <3>1, <1>p DEF Filling
      <3>5. Offering => Offering'
        BY <2>a, <3>1, <1>p DEF Filling, Offering
      <3> QED
        BY <2>b, <3>3, <3>4, <3>5 DEF BufferOf
    <2> QED
      BY <1>3, <2>1, <2>2, <2>3, <2>4, <2>5, <2>6 DEF WriterEffect, Still, Shifts, Moves
  <1> QED
    BY <1>1, <1>2, <1>3 DEF WriterEffect, Still, Shifts, Moves

(* The end of a process, which may take an adjustment back. *)
LEMMA BufferEnd ==
  ASSUME Kept, NEW r \in Reader, BufferOf(r), NEW p \in Process \ {r}, Ends(p), ~stranded', Inside(r)
  PROVE  BufferOf(r)'
  <1>p. /\ sem \in [Sem -> Nat] /\ sem[0] \in Nat /\ 0 \in Sem
        /\ pc \in [Process -> ReaderPc \union WriterPc] /\ UndoOf(p) /\ undo[p] \in [Sem -> -2..2]
        /\ undo \in [Process -> [Sem -> -2..2]]
    BY DEF Kept, SemTypes, PcTypes, Undos
  <1>q. /\ sem'[0] = IF sem[0] + undo[p][0] < 0 THEN 0 ELSE sem[0] + undo[p][0]
        /\ undo'[p][2] = 0 /\ undo'[p][0] = 0 /\ pc'[p] \in Gone
        /\ \A q \in Process \ {p} : pc'[q] = pc[q] /\ undo'[q] = undo[q]
    BY <1>p DEF Ends
  <1>1. CASE p \in Reader
    <2>1. undo[p][0] = 0
      BY <1>1, ReaderAlone
    <2> QED
      BY <1>1, <1>p, <1>q, <2>1, BufferSame
  <1>2. CASE p \in Writer /\ ~Inside(p)
    <2>1. undo[p][0] = 0 /\ undo[p][2] = 0
      BY <1>2, <1>p DEF UndoOf
    <2> QED
      BY <1>2, <1>p, <1>q, <2>1, BufferSame
  <1>3. CASE p \in Writer /\ Inside(p)
    <2>1. \A v \in Writer \ {p} : /\ pc'[v] = pc[v] /\ undo'[v] = undo[v]
                                 /\ pc[v] \in Outside \union Gone /\ undo[v][0] = 0 /\ undo[v][2] = 0
      BY <1>3, <1>q, WriterAlone
    <2>2. undo[p][0] \in {0, -2} /\ (pc[p] \in {"copy", "release"} => undo[p][0] = -2)
      BY <1>3, <1>p DEF UndoOf, Ends
    <2>3. pc'[r] = pc[r] /\ Raised(r) \in {0, 2} /\ Raised(r)' = Raised(r)
      BY <1>q DEF Raised
    <2>4. Starting(r) => Starting(r)'
      BY <1>3, <1>p, <1>q, <2>1, <2>2, <2>3 DEF Starting, Armed
    <2>5. Filling => Filling'
      BY <1>3, <1>p, <1>q, <2>1, <2>2 DEF Filling
    <2>6. Offering => Offering'
      BY <1>3, <1>p, <1>q, <2>1, <2>2 DEF Offering
    <2> QED
      BY <2>3, <2>4, <2>5, <2>6 DEF BufferOf
  <1> QED
    BY <1>1, <1>2, <1>3

LEMMA BufferNext ==
  ASSUME Kept, Announced, BufferKnown, Effect
  PROVE  BufferKnown'
  <1> SUFFICES ASSUME ~stranded', NEW r \in Reader
               PROVE  BufferOf(r)'
    BY DEF BufferKnown
  <1>1. ~stranded /\ BufferOf(r)
    <2>1. ASSUME NEW q \in Reader, ReaderEffect(q) PROVE UNCHANGED stranded
      BY <2>1 DEF ReaderEffect, Still, Shifts, Clears
    <2>2. ASSUME NEW w \in Writer, WriterEffect(w) PROVE UNCHANGED stranded
      BY <2>2 DEF WriterEffect, Still, Shifts
    <2>3. ASSUME NEW p \in Process, Ends(p) PROVE ~stranded
      BY <2>3 DEF Ends
    <2> QED
      BY <2>1, <2>2, <2>3 DEF BufferKnown, Effect, Quiet
  <1>2. CASE ~Inside(r)'
    BY <1>2 DEF BufferOf
  <1>3. CASE ReaderEffect(r)
    BY <1>1, <1>3, BufferOwn
  <1>4. ASSUME NEW q \in Reader \ {r}, ReaderEffect(q), Inside(r)'
        PROVE  BufferOf(r)'
    <2>1. pc'[r] = pc[r] /\ Inside(r)
      BY <1>4, OthersKeepReader
    <2>2. ~Inside(q) /\ ~Inside(q)'
      BY <2>1, <1>4, KeptNext, ReaderAlone DEF Kept, Places, OneOfEachKind
    <2>3. \E to : Still(q, pc[q], to)
      BY <2>2, <1>4 DEF ReaderEffect, Still, Shifts, Clears, Moves, Kept, PcTypes
    <2>4. sem' = sem /\ undo' = undo /\ \A w \in Writer : pc'[w] = pc[w]
      BY <2>3 DEF Still, Moves, Kept, PcTypes
    <2> QED
      BY <1>1, <2>1, <2>4, BufferSame
  <1>5. ASSUME NEW w \in Writer, WriterEffect(w)
        PROVE  BufferOf(r)'
    BY <1>1, <1>5, BufferWriter
  <1>6. ASSUME NEW p \in Process, Ends(p), Inside(r)'
        PROVE  BufferOf(r)'
    <2>1. p # r /\ Inside(r)
      BY <1>6, EndUndo, OthersKeepEnd
    <2> QED
      BY <1>1, <1>6, <2>1, BufferEnd
  <1>7. CASE Quiet
    BY <1>1, <1>7, BufferSame DEF Quiet
  <1> QED
    BY <1>2, <1>3, <1>4, <1>5, <1>6, <1>7 DEF Effect

-----------------------------------------------------------------------------
(* A removed segment is counted once for each process that has left. *)
LEMMA SegmentCounted ==
  ASSUME DataTypes
  PROVE  key \in Segment /\ att \in [Process -> Segment]
  <1> DEFINE D == {p \in Process : pc[p] = "done"}
  <1>1. Cardinality(D) <= Cardinality(Process) /\ Cardinality(D) \in Nat /\ Cardinality(Process) \in Nat
    BY FS_Subset, FS_CardinalityType
  <1> HIDE DEF D
  <1>2. key \in Nat /\ key <= Cardinality(D)
    BY DEF DataTypes, D
  <1> QED
    BY <1>1, <1>2 DEF DataTypes, Segment

LEMMA KeyKept ==
  ASSUME Kept, DataTypes, [Next]_vars
  PROVE  /\ key' \in Nat /\ key <= key'
         /\ key' <= Cardinality({p \in Process : pc'[p] = "done"})
  <1> DEFINE D == {p \in Process : pc[p] = "done"}
             E == {p \in Process : pc'[p] = "done"}
  <1>f. /\ IsFiniteSet(D) /\ IsFiniteSet(E)
        /\ Cardinality(D) \in Nat /\ Cardinality(E) \in Nat
        /\ (D \subseteq E => Cardinality(D) <= Cardinality(E))
    BY FS_Subset, FS_CardinalityType
  <1>d. key \in Nat /\ key <= Cardinality(D)
    BY DEF DataTypes
  <1>e. D \subseteq E
    <2>1. \A p \in Process : pc[p] \in Gone => pc'[p] = pc[p]
      <3>1. Effect
        BY EveryStepHasEffect DEF Kept
      <3> QED
        BY <3>1, StepOf DEF ReaderEffect, WriterEffect, Still, Shifts, Clears, Ends, Moves
    <2> QED
      BY <2>1
  <1>1. CASE key' = key
    BY <1>1, <1>d, <1>e, <1>f
  <1>2. ASSUME NEW p \in Process, Leave(p) PROVE key' \in {key, key + 1} /\ E = D \union {p} /\ p \notin D
    BY <1>2 DEF Leave, Kept, PcTypes
  <1>3. ASSUME NEW p \in Process, Leave(p), key' = key + 1 PROVE key' <= Cardinality(E)
    <2>1. Cardinality(E) = Cardinality(D) + 1
      BY <1>2, <1>3, <1>f, FS_AddElement
    <2> QED
      BY <2>1, <1>3, <1>d, <1>f
  <1>4. (\E p \in Process : Leave(p)) \/ key' = key
    BY DEF Next, vars, ReaderStep, WriterStep, Start, Claim, Refused, ReaderMeets, WriterMeets, SetVal,
           Call, ReaderArms, WriterAlive, OpenInput, OpenFails, Read, FillStarts, FillEnds, Filled, Check, WaitCopied, Open, Take, Copy, Release, Crash
  <1> QED
    BY <1>1, <1>2, <1>3, <1>4, <1>d

LEMMA DataInit == Init => DataTypes
  <1> SUFFICES ASSUME Init PROVE DataTypes
    OBVIOUS
  <1>1. Cardinality({p \in Process : pc[p] = "done"}) \in Nat
    BY FS_Subset, FS_CardinalityType
  <1>2. Zero \in Buffer /\ Zero.no = 0
    BY DEF Zero, Buffer
  <1> QED
    BY <1>1, <1>2 DEF Init, DataTypes

LEMMA DataNext ==
  ASSUME Kept, DataTypes, [Next]_vars
  PROVE  DataTypes'
  <1>k. /\ key' \in Nat /\ key \in Nat /\ key <= key'
        /\ key' <= Cardinality({p \in Process : pc'[p] = "done"})
    BY KeyKept DEF DataTypes
  <1>s. key \in Segment /\ att \in [Process -> Segment]
    BY SegmentCounted
  <1>m. mem \in [Segment -> Buffer] /\ \A g \in Segment : mem[g].no # 0 => mem[g] \in Full
    BY DEF DataTypes
  <1>1. CASE UNCHANGED <<att, mem, chunk, next, fd, out>>
    BY <1>1, <1>k DEF DataTypes
  <1>2. ASSUME NEW p \in Process, Start(p) PROVE DataTypes'
    <2>1. att' \in [Process -> Nat] /\ \A q \in Process : att'[q] <= key'
      BY <1>2, <1>k DEF Start, DataTypes
    <2> QED
      BY <1>2, <1>k, <2>1 DEF Start, DataTypes
  <1>3. ASSUME NEW r \in Reader, Read(r) PROVE DataTypes'
    <2>1. next[r] \in 0..Chunks
      BY DEF DataTypes
    <2>2. next' \in [Reader -> 0..Chunks] /\ \E b \in Full : chunk' = [chunk EXCEPT ![r] = b]
      <3>1. CASE next[r] < Chunks /\ next' = [next EXCEPT ![r] = @ + 1]
                 /\ chunk' = [chunk EXCEPT ![r] = [from |-> r, no |-> next[r] + 1]]
        <4>1. [from |-> r, no |-> next[r] + 1] \in Full /\ next[r] + 1 \in 0..Chunks
          BY <3>1, <2>1 DEF Full
        <4> QED
          BY <3>1, <4>1 DEF DataTypes
      <3>2. CASE next' = next /\ chunk' = [chunk EXCEPT ![r] = [from |-> r, no |-> 0]]
        <4>1. [from |-> r, no |-> 0] \in Full
          BY DEF Full
        <4> QED
          BY <3>2, <4>1 DEF DataTypes
      <3>3. CASE next' = next /\ chunk' = [chunk EXCEPT ![r] = Garbage(r)]
        <4>1. Garbage(r) \in Full
          BY DEF Full, Garbage
        <4> QED
          BY <3>3, <4>1 DEF DataTypes
      <3> QED
        BY <1>3, <3>1, <3>2, <3>3 DEF Read
    <2>3. PICK b \in Full : chunk' = [chunk EXCEPT ![r] = b]
      BY <2>2
    <2>4. chunk' \in [Process -> Buffer] /\ \A p \in Process : chunk'[p].no # 0 => chunk'[p] \in Full
      BY <2>3 DEF DataTypes, Full, Buffer
    <2> QED
      BY <1>3, <1>k, <2>2, <2>4 DEF Read, DataTypes
  <1>6. ASSUME NEW r \in Reader, FillStarts(r) \/ FillEnds(r) PROVE DataTypes'
    <2>1. PICK b \in Buffer : mem' = [mem EXCEPT ![att[r]] = b] /\ (b.no # 0 => b \in Full)
      <3>1. Torn(r) \in Full /\ Torn(r) \in Buffer
        BY DEF Torn, Full, Buffer
      <3>2. chunk[r] \in Buffer /\ (chunk[r].no # 0 => chunk[r] \in Full)
        BY DEF DataTypes
      <3> QED
        BY <1>6, <3>1, <3>2 DEF FillStarts, FillEnds
    <2>2. mem' \in [Segment -> Buffer] /\ \A g \in Segment : mem'[g].no # 0 => mem'[g] \in Full
      BY <1>m, <1>s, <2>1
    <2> QED
      BY <1>6, <1>k, <2>2 DEF FillStarts, FillEnds, DataTypes
  <1>4. ASSUME NEW w \in Writer, Open(w) PROVE DataTypes'
    <2>1. fd' \in [Writer -> BOOLEAN]
      BY <1>4, BoundAssumption DEF Open, DataTypes
    <2> QED
      BY <1>4, <1>k, <2>1 DEF Open, DataTypes
  <1>5. ASSUME NEW w \in Writer, Copy(w) PROVE DataTypes'
    <2>1. mem[att[w]] \in Buffer /\ (mem[att[w]].no # 0 => mem[att[w]] \in Full)
      BY <1>m, <1>s
    <2>2. chunk' \in [Process -> Buffer] /\ \A p \in Process : chunk'[p].no # 0 => chunk'[p] \in Full
      BY <1>5, <2>1 DEF Copy, DataTypes
    <2>3. out[w] \in Seq(Full)
      BY DEF DataTypes
    <2>4. out' \in [Writer -> Seq(Full)]
      <3>1. CASE fd[w] /\ mem[att[w]].no # 0
        <4>1. Append(out[w], mem[att[w]]) \in Seq(Full)
          BY <2>1, <2>3, <3>1
        <4> QED
          BY <1>5, <3>1, <4>1 DEF Copy, DataTypes
      <3>2. CASE ~(fd[w] /\ mem[att[w]].no # 0)
        BY <1>5, <3>2 DEF Copy, DataTypes
      <3> QED
        BY <3>1, <3>2
    <2> QED
      BY <1>5, <1>k, <2>2, <2>4 DEF Copy, DataTypes
  <1> QED
    BY <1>1, <1>2, <1>3, <1>4, <1>5, <1>6
    DEF Next, vars, ReaderStep, WriterStep, Claim, Refused, ReaderMeets, WriterMeets, SetVal,
        Call, ReaderArms, WriterAlive, OpenInput, OpenFails, Filled, Check, WaitCopied, Take, Release, Leave, Crash

-----------------------------------------------------------------------------
LEMMA InvariantInit == Init => SInv
  <1> SUFFICES ASSUME Init PROVE SInv
    OBVIOUS
  <1>1. Kept /\ DataTypes
    BY KeptInit, DataInit
  <1>2. Meeting
    BY DEF Init, Meeting, Announced, Partners, Couple, ByeMeansGone
  <1>3. BufferKnown
    BY DEF Init, BufferKnown, BufferOf
  <1> QED
    BY <1>1, <1>2, <1>3 DEF SInv

LEMMA InvariantNext == SInv /\ [Next]_vars => SInv'
  <1> SUFFICES ASSUME SInv, [Next]_vars PROVE SInv'
    OBVIOUS
  <1>1. Effect
    BY EveryStepHasEffect DEF SInv, Kept
  <1> QED
    BY <1>1, KeptNext, DataNext, MeetingNext, BufferNext DEF SInv, Meeting

LEMMA InvariantIsStronger == SInv => Inv
  <1> SUFFICES ASSUME SInv PROVE Inv
    OBVIOUS
  <1>1. TypeOK
    <2>1. key \in Segment /\ att \in [Process -> Segment]
      BY SegmentCounted DEF SInv
    <2>2. \A w \in Writer : \A j \in 1..Len(out[w]) : out[w][j].from \in Reader
      <3>1. \A w \in Writer : out[w] \in Seq(Full)
        BY DEF SInv, DataTypes
      <3>2. \A w \in Writer : \A j \in 1..Len(out[w]) : out[w][j] \in Full
        BY <3>1
      <3> QED
        BY <3>2 DEF Full
    <2> QED
      BY <2>1, <2>2 DEF SInv, Kept, SemTypes, DataTypes, TypeOK
  <1>2. NoCopyWhileFilling
    BY DEF SInv, BufferKnown, BufferOf, Filling, NoCopyWhileFilling
  <1> QED
    BY <1>1, <1>2 DEF SInv, Kept, Places, Meeting, Inv

(* mem.c: what each semaphore can be worth, and what the kernel owes to whom, at
   every point of both programs, however many processes were killed and started
   again before.  This is the induction that the theorem about Inv needs: a
   reader that starts sets semaphores 0 to 2 one by one under a writer that may
   still be there. *)
THEOREM InvariantHolds == Spec => []SInv
  BY InvariantInit, InvariantNext, PTL DEF Spec

(* mem.c: for any number of readers, writers, kills and failed reads there are
   never two readers or two writers past their claim; the reader never fills the
   segment while a writer copies from it, unless a writer was stranded; and
   while no process has had a successor, the one that says that its partner is
   dead is right. *)
THEOREM SharedMemIsSafe == Spec => []Inv
  BY InvariantHolds, InvariantIsStronger, PTL

-----------------------------------------------------------------------------
(* What the writer has of the file of its reader: o holds the first k buffers of  *)
(* r's file in order, and between them what failed reads left.                   *)
Good(o, r, k) ==
  /\ \A j \in 1..Len(o) : o[j].from = r /\ o[j].no # -2
  /\ \A j \in Real(o) : o[j].no = Cardinality({i \in Real(o) : i <= j})
  /\ Cardinality(Real(o)) = k

LEMMA GoodNil ==
  ASSUME NEW r
  PROVE  Good(<<>>, r, 0)
  <1>1. Real(<<>>) = {}
    BY DEF Real
  <1>2. \A j \in 1..Len(<<>>) : FALSE
    OBVIOUS
  <1>3. Cardinality({}) = 0
    BY FS_EmptySet
  <1> HIDE DEF Real
  <1> QED
    BY <1>1, <1>2, <1>3 DEF Good

LEMMA AppendLast ==
  ASSUME NEW o \in Seq(Full), NEW b \in Full
  PROVE  Append(o, b) # <<>> /\ Append(o, b)[Len(Append(o, b))] = b
  <1>1. Len(Append(o, b)) = Len(o) + 1 /\ Len(o) \in Nat /\ Append(o, b)[Len(o) + 1] = b
    OBVIOUS
  <1> QED
    BY <1>1

LEMMA GoodFaithful ==
  ASSUME NEW o, NEW r, NEW k, Good(o, r, k)
  PROVE  Faithful(o)
  <1>1. \A q : Torn(q).no = -2
    BY DEF Torn
  <1>2. \A j \in 1..Len(o) : o[j] # Torn(o[j].from)
    BY <1>1 DEF Good
  <1> QED
    BY <1>2 DEF Good, Faithful

(* One more buffer, the next of the file or garbage. *)
LEMMA GoodAppend ==
  ASSUME NEW r, NEW k \in Nat, NEW o \in Seq(Full), Good(o, r, k), NEW b \in Full, b.from = r,
         b.no = -1 \/ b.no = k + 1
  PROVE  Good(Append(o, b), r, IF b.no = -1 THEN k ELSE k + 1)
  <1> DEFINE a == Append(o, b)
             n == Len(o)
  <1>a. /\ n \in Nat /\ Len(a) = n + 1 /\ a[n + 1] = b
        /\ \A j \in 1..n : a[j] = o[j]
    OBVIOUS
  <1>r. Real(o) = {j \in 1..n : o[j].no > 0} /\ Real(a) = {j \in 1..(n + 1) : a[j].no > 0}
    BY <1>a DEF Real
  <1> HIDE DEF a, n
  <1>f. IsFiniteSet(Real(o)) /\ n + 1 \notin Real(o) /\ Cardinality(Real(o)) = k
    <2>1. IsFiniteSet(1..n) /\ Real(o) \subseteq 1..n
      BY <1>a, <1>r, FS_Interval
    <2> QED
      BY <2>1, <1>a, FS_Subset DEF Good
  <1>1. Real(a) = IF b.no = -1 THEN Real(o) ELSE Real(o) \union {n + 1}
    BY <1>a, <1>r
  <1>2. \A j \in 1..(n + 1) : a[j].from = r /\ a[j].no # -2
    BY <1>a DEF Good, n
  <1>3. Cardinality(Real(a)) = IF b.no = -1 THEN k ELSE k + 1
    BY <1>1, <1>f, FS_AddElement
  <1>4. ASSUME NEW j \in Real(o) PROVE a[j].no = Cardinality({i \in Real(a) : i <= j})
    <2>1. {i \in Real(a) : i <= j} = {i \in Real(o) : i <= j}
      BY <1>1, <1>a, <1>r
    <2> QED
      BY <2>1, <1>a, <1>r DEF Good
  <1>5. ASSUME b.no # -1 PROVE a[n + 1].no = Cardinality({i \in Real(a) : i <= n + 1})
    <2>1. {i \in Real(a) : i <= n + 1} = Real(a)
      BY <1>a, <1>r
    <2> QED
      BY <2>1, <1>3, <1>5, <1>a
  <1>6. \A j \in Real(a) : a[j].no = Cardinality({i \in Real(a) : i <= j})
    BY <1>1, <1>4, <1>5
  <1> QED
    BY <1>2, <1>3, <1>6, <1>a DEF Good, a

(* The buffer a reader read last. *)
Held(r) ==
  /\ chunk[r].from = r /\ chunk[r].no >= -1
  /\ chunk[r].no > 0 => chunk[r].no = next[r]
  /\ chunk[r].no = 0 => next[r] = Chunks

Unopened == {"off", "claim", "refused", "meet", "arm", "disarm", "alive", "open"}
Opened(w) == fd[w] \/ pc[w] \in Unopened

(* Whether the buffer in the segment is in the writer's output already, *)
Last(w) == mem[0].no # 0 => out[w] # <<>> /\ out[w][Len(out[w])] = mem[0]

Copied(r, w) == Opened(w) => Good(out[w], r, next[r]) /\ Last(w)

(* and the one that the reader holds not: it is still to be stored, half stored,
   or in the segment. *)
Ahead(r, w) ==
  Held(r) /\ (Opened(w) => Good(out[w], r, IF chunk[r].no > 0 THEN next[r] - 1 ELSE next[r]))

Unstored(r, w) == Ahead(r, w) /\ (Opened(w) => Last(w))
Half(r, w) == Ahead(r, w) /\ mem[0] = Torn(r)
Uncopied(r, w) == Ahead(r, w) /\ mem[0] = chunk[r]

(* What a writer whose reader was killed copies once more. *)
Again(r, w) == Opened(w) => (\E k : Good(out[w], r, k)) /\ Last(w)

(* Nothing is missing, and the end of the file has been passed on. *)
Whole(w) == Undisturbed /\ fd[w] => Cardinality(Real(out[w])) = Chunks

Later == {"release", "check", "leave", "bye"}
Told(r, w) == chunk[r].no = 0 => pc[w] \in Later /\ chunk[w].no = 0

Offered(r, w) ==
  IF pc[w] = "release" \/ sem[0] = 0 THEN Copied(r, w) /\ Told(r, w) ELSE Uncopied(r, w)

(* Where the two stand once they have met. *)
Passed(r, w) ==
  /\ pc[r] \in {"meet", "input", "read"} => Copied(r, w)
  /\ pc[r] \in {"meet", "input"} => mem[0].no = 0
  /\ pc[r] = "fill" => Unstored(r, w)
  /\ pc[r] = "filling" => Half(r, w)
  /\ pc[r] = "filled" => Uncopied(r, w)
  /\ pc[r] \in {"check1", "waitzero"} => Held(r) /\ Offered(r, w)
  /\ pc[r] \in {"check2", "leave"} => Held(r) /\ Copied(r, w) /\ Told(r, w)
  /\ pc[r] = "leave" => chunk[r].no = 0
  /\ pc[r] = "killed" => pc[w] \in Later \/ Again(r, w) \/ Half(r, w) \/ Uncopied(r, w)
  /\ pc[r] = "failed" => pc[w] \in Later \/ (Copied(r, w) /\ mem[0].no = 0)
  /\ pc[r] = "done" => pc[w] \in Later /\ Whole(w)

Faced(r, w) ==
  pc[w] \in WMet /\ pc[r] \in RAlive \union Gone => att[r] = 0 /\ att[w] = 0 /\ Passed(r, w)

(* The end of a writer. *)
Closed(w) ==
  /\ pc[w] \in {"release", "check", "leave"} /\ chunk[w].no = 0 => Whole(w)
  /\ pc[w] = "leave" => chunk[w].no = 0
  /\ pc[w] \in {"bye", "done"} => Whole(w)

(* Nobody has dropped a writer's adjustments yet. *)
Owed(w) ==
  /\ pc[w] \in {"disarm", "alive"} \union WAlive => undo[w][0] = -2
  /\ pc[w] \in WAlive => undo[w][2] = -2

(* Before a process has begun, nothing of it is anywhere. *)
Begun ==
  /\ \A r \in Reader : pc[r] \notin RMet \union Gone => next[r] = 0
  /\ (\A r \in Reader : pc[r] \notin RMet \union Gone) => mem[0] = Zero
  /\ \A w \in Writer : pc[w] \in Unopened \/ ~fd[w] => out[w] = <<>>
  /\ crashes \in Nat /\ (crashes = 0 => \A p \in Process : pc[p] # "killed")

Handed ==
  NoSuccessor =>
    /\ ~stranded
    /\ \A w \in Writer : Owed(w) /\ Closed(w) /\ IsPrefix(w)
    /\ \A r \in Reader, w \in Writer : Faced(r, w)

OutInv == SInv /\ Begun /\ Handed

(* What a step does to the data. *)
DataSame == UNCHANGED <<mem, chunk, next, fd, out>>

LEMMA DataMoves ==
  ASSUME [Next]_vars
  PROVE  \/ DataSame
         \/ \E r \in Reader : Read(r) \/ FillStarts(r) \/ FillEnds(r)
         \/ \E w \in Writer : Open(w) \/ Copy(w)
  BY DEF DataSame, Next, vars, ReaderStep, WriterStep, Start, Claim, Refused, ReaderMeets,
         WriterMeets, SetVal, Call, ReaderArms, WriterAlive, OpenInput, OpenFails, Filled, Check,
         WaitCopied, Take, Release, Leave, Crash

LEMMA SameBuffer ==
  ASSUME NEW r \in Reader, NEW w \in Writer, UNCHANGED <<mem, chunk[r], next, out>>,
         Opened(w)' => Opened(w)
  PROVE  /\ Copied(r, w) => Copied(r, w)'
         /\ Unstored(r, w) => Unstored(r, w)'
         /\ Half(r, w) => Half(r, w)'
         /\ Uncopied(r, w) => Uncopied(r, w)'
         /\ Again(r, w) => Again(r, w)'
         /\ Held(r) => Held(r)'
  <1>1. Held(r) => Held(r)'
    BY DEF Held
  <1>2. Last(w)' = Last(w)
    BY DEF Last
  <1>3. \A k : Good(out[w], r, k) => Good(out[w], r, k)'
    BY DEF Good, Real
  <1>4. next'[r] = next[r] /\ chunk'[r] = chunk[r] /\ mem' = mem
    OBVIOUS
  <1>5. Ahead(r, w) => Ahead(r, w)'
    BY <1>1, <1>3, <1>4 DEF Ahead
  <1> QED
    BY <1>1, <1>2, <1>3, <1>4, <1>5 DEF Copied, Unstored, Half, Uncopied, Again

LEMMA OpenedSame ==
  ASSUME NEW w \in Writer, fd'[w] = fd[w], pc'[w] \in Unopened => pc[w] \in Unopened
  PROVE  Opened(w)' => Opened(w)
  BY DEF Opened

(* What has been copied can be copied again. *)
LEMMA CopiedIsAgain ==
  ASSUME NEW r \in Reader, NEW w \in Writer
  PROVE  Copied(r, w) \/ Unstored(r, w) => Again(r, w)
  BY DEF Copied, Unstored, Ahead, Again

LEMMA BegunInit == Init => Begun
  <1> SUFFICES ASSUME Init PROVE Begun
    OBVIOUS
  <1>1. 0 \in Segment
    BY FS_CardinalityType DEF Segment
  <1> QED
    BY <1>1 DEF Init, Begun

LEMMA BegunNext ==
  ASSUME SInv, Begun, [Next]_vars
  PROVE  Begun'
  <1>e. Effect /\ Kept /\ Kept'
    BY EveryStepHasEffect, InvariantNext DEF SInv, Kept
  <1>p. /\ \A r \in Reader : pc'[r] \notin RMet \union Gone => pc[r] \notin RMet \union Gone
        /\ \A w \in Writer : pc'[w] \in Unopened => pc[w] \in Unopened
    <2>1. ASSUME NEW r \in Reader, pc'[r] \notin RMet \union Gone PROVE pc[r] \notin RMet \union Gone
      BY <2>1, <1>e, StepOf DEF ReaderEffect, Still, Shifts, Clears, Moves, Ends, Kept, PcTypes
    <2>2. ASSUME NEW w \in Writer, pc'[w] \in Unopened PROVE pc[w] \in Unopened
      BY <2>2, <1>e, StepOf DEF WriterEffect, Still, Shifts, Moves, Ends, Kept, PcTypes, Unopened
    <2> QED
      BY <2>1, <2>2
  <1>1. crashes' \in Nat /\ (crashes' = 0 => \A p \in Process : pc'[p] # "killed")
    <2>1. CASE \E p \in Process : Crash(p)
      BY <2>1 DEF Crash, Begun
    <2>2. CASE crashes' = crashes /\ \A p \in Process : pc'[p] = "killed" => pc[p] = "killed"
      BY <2>2 DEF Begun
    <2>3. (\E p \in Process : Crash(p)) \/ (crashes' = crashes
            /\ \A p \in Process : pc'[p] = "killed" => pc[p] = "killed")
      <3>1. ASSUME NEW p \in Process, ReaderStep(p) \/ WriterStep(p)
            PROVE  crashes' = crashes /\ pc'[p] # "killed" /\ \A q \in Process \ {p} : pc'[q] = pc[q]
        BY <3>1, <1>e DEF ReaderStep, WriterStep, Start, Claim, Refused, ReaderMeets, WriterMeets,
             SetVal, Call, ReaderArms, WriterAlive, OpenInput, OpenFails, Read, FillStarts, FillEnds, Filled, Check, More, WaitCopied, Open, Copy,
             Take, Release, Leave, Goto, Kept, PcTypes
      <3> QED
        BY <3>1 DEF Next, vars
    <2> QED
      BY <2>1, <2>2, <2>3
  <1>2. CASE DataSame
    BY <1>1, <1>2, <1>p DEF DataSame, Begun
  <1>3. ASSUME NEW r \in Reader, Read(r) \/ FillStarts(r) \/ FillEnds(r) PROVE Begun'
    <2>1. pc[r] \in RMet /\ pc'[r] \in RMet /\ UNCHANGED <<fd, out>>
          /\ \A q \in Reader \ {r} : next'[q] = next[q]
      BY <1>3, <1>e DEF Read, FillStarts, FillEnds, Goto, Kept, PcTypes, SInv, DataTypes
    <2> QED
      BY <1>1, <1>p, <2>1 DEF Begun
  <1>4. ASSUME NEW w \in Writer, Open(w) \/ Copy(w) PROVE Begun'
    <2>1. /\ UNCHANGED <<mem, next>> /\ pc'[w] \notin Unopened
          /\ \A v \in Writer \ {w} : out'[v] = out[v] /\ fd'[v] = fd[v]
          /\ (~fd'[w] => out'[w] = <<>>)
      <3>1. CASE Open(w)
        BY <3>1, <1>e DEF Open, Goto, Kept, PcTypes, Begun, Unopened, SInv, DataTypes
      <3>2. CASE Copy(w)
        <4>1. /\ pc'[w] = "release" /\ fd' = fd /\ UNCHANGED <<mem, next>>
              /\ (~fd[w] => out' = out)
              /\ \A v \in Writer \ {w} : out'[v] = out[v]
          BY <3>2, <1>e DEF Copy, Goto, Kept, PcTypes, SInv, DataTypes
        <4> QED
          BY <4>1 DEF Begun, Unopened
      <3> QED
        BY <1>4, <3>1, <3>2
    <2> QED
      BY <1>1, <1>p, <2>1 DEF Begun
  <1> QED
    BY <1>2, <1>3, <1>4, DataMoves

(* A reader that could not open its file stays in that, and a kill is counted. *)
LEMMA UndisturbedBefore ==
  ASSUME SInv, Begun, [Next]_vars
  PROVE  /\ Undisturbed' => Undisturbed
         /\ \A w \in Writer : out'[w] = out[w] /\ fd'[w] = fd[w] /\ Whole(w) => Whole(w)'
  <1>1. crashes' = 0 => crashes = 0
    <2>1. crashes \in Nat
      BY DEF Begun
    <2> QED
      BY <2>1 DEF Next, vars, ReaderStep, WriterStep, Start, Claim, Refused, ReaderMeets, WriterMeets,
         SetVal, Call, ReaderArms, WriterAlive, OpenInput, OpenFails, Read, FillStarts, FillEnds,
         Filled, Check, WaitCopied, Open, Copy, Take, Release, Leave, Crash
  <1>2. \A r \in Reader : pc[r] = "failed" => pc'[r] = "failed"
    <2>1. Effect /\ Kept
      BY EveryStepHasEffect DEF SInv, Kept
    <2> QED
      BY <2>1, StepOf DEF ReaderEffect, Still, Shifts, Clears, Moves, Ends
  <1>3. Undisturbed' => Undisturbed
    BY <1>1, <1>2 DEF Undisturbed
  <1> QED
    BY <1>3 DEF Whole, Real

(* While nobody has had a successor: one of each kind past its claim. *)
LEMMA AloneReader ==
  ASSUME NoSuccessor, NEW r \in Reader, NEW q \in Reader \ {r}, pc[r] \notin Outside
  PROVE  pc[q] \in Outside
  BY DEF NoSuccessor

LEMMA AloneWriter ==
  ASSUME NoSuccessor, NEW w \in Writer, NEW v \in Writer \ {w}, pc[w] \notin Outside
  PROVE  pc[v] \in Outside
  BY DEF NoSuccessor

(* A process of each kind has a partner when it has met one. *)
LEMMA PartnerOfReader ==
  ASSUME SInv, NoSuccessor, NEW r \in Reader, NEW w \in Writer, pc[r] \in RMet, pc[w] \in WMet
  PROVE  pc[w] \in WAlive /\ pc[r] # "bye"
  <1>1. \E v \in Writer : pc[v] \in WAlive \union Gone
    BY DEF SInv, Meeting, Partners
  <1>2. pc[w] \in WAlive
    BY <1>1, AloneWriter
  <1>3. pc[r] = "bye" => \E v \in Writer : pc[v] \in Gone
    BY DEF SInv, Meeting, ByeMeansGone
  <1> QED
    BY <1>2, <1>3, AloneWriter

LEMMA PartnerOfWriter ==
  ASSUME SInv, NoSuccessor, NEW r \in Reader, NEW w \in Writer, pc[w] \in WMet, pc[r] \notin Outside
  PROVE  pc[r] \in RAlive \union Gone
  <1>1. \E q \in Reader : pc[q] \in RAlive \union Gone
    BY DEF SInv, Meeting, Partners
  <1> QED
    BY <1>1, AloneReader

LEMMA PartnerAtBye ==
  ASSUME SInv, NoSuccessor, NEW r \in Reader, NEW w \in Writer, pc[w] = "bye", pc[r] \notin Outside
  PROVE  pc[r] \in Gone
  <1>1. \E q \in Reader : pc[q] \in Gone
    BY DEF SInv, Meeting, ByeMeansGone
  <1> QED
    BY <1>1, AloneReader

(* Without a reader semaphore 1 is 0. *)
LEMMA NobodyAnnounced ==
  ASSUME SInv, NoSuccessor, NEW r \in Reader, pc[r] \in Gone
  PROVE  sem[1] = 0
  <1>1. sem[1] > 0 => \E q \in Reader : pc[q] \in RAlive
    BY DEF SInv, Kept, Undos, UndoOf, Meeting, Announced
  <1>2. sem[1] \in Nat
    BY DEF SInv, Kept, SemTypes
  <1> QED
    BY <1>1, <1>2, AloneReader

(* Once a reader and a writer have begun, the steps of the others are those of
   processes that are refused. *)
Apart(r, w) ==
  /\ UNCHANGED <<sem, mem, chunk, next, fd, out, crashes, stranded>>
  /\ pc'[r] = pc[r] /\ pc'[w] = pc[w] /\ undo'[w] = undo[w]
  /\ att'[r] = att[r] /\ att'[w] = att[w]

LEMMA OutsiderStep ==
  ASSUME SInv, NEW p \in Process, ReaderStep(p) \/ WriterStep(p) \/ Crash(p),
         pc[p] \in Outside, pc'[p] \in Outside
  PROVE  /\ UNCHANGED <<sem, undo, mem, chunk, next, fd, out, crashes, stranded>>
         /\ \A q \in Process \ {p} : pc'[q] = pc[q] /\ att'[q] = att[q]
  <1>p. pc \in [Process -> ReaderPc \union WriterPc] /\ att \in [Process -> Nat]
    BY DEF SInv, Kept, PcTypes, DataTypes
  <1>1. Start(p) \/ Refused(p)
    BY <1>p DEF ReaderStep, WriterStep, Crash, Claim, ReaderMeets, WriterMeets, SetVal, Call, ReaderArms,
         WriterAlive, OpenInput, OpenFails, Read, FillStarts, FillEnds, Filled, Check, More, WaitCopied, Open, Copy, Take, Release, Leave, Goto
  <1> QED
    BY <1>1, <1>p DEF Start, Refused, Goto

LEMMA StepsOfTwo ==
  ASSUME SInv, [Next]_vars, NoSuccessor', NEW r \in Reader, NEW w \in Writer,
         pc[r] \notin Outside, pc[w] \notin Outside
  PROVE  \/ ReaderStep(r) \/ Crash(r)
         \/ WriterStep(w) \/ Crash(w)
         \/ Apart(r, w)
  <1>e. Effect /\ NoSuccessor /\ Kept /\ Kept'
    BY EveryStepHasEffect, NoSuccessorBefore, InvariantNext DEF SInv, Kept
  <1>p. pc'[r] \notin Outside /\ pc'[w] \notin Outside
    BY <1>e, StepOf DEF ReaderEffect, WriterEffect, Still, Shifts, Clears, Moves, Ends, Kept, PcTypes
  <1>1. ASSUME NEW q \in Reader \ {r}, ReaderStep(q) \/ Crash(q) PROVE Apart(r, w)
    <2>1. pc[q] \in Outside
      BY <1>e, AloneReader
    <2>2. pc'[q] \in Outside
      BY <1>e, <1>p DEF NoSuccessor
    <2>3. q \in Process /\ w \in Process \ {q} /\ r \in Process \ {q}
      OBVIOUS
    <2> QED
      BY <1>1, <2>1, <2>2, <2>3, OutsiderStep DEF Apart
  <1>2. ASSUME NEW v \in Writer \ {w}, WriterStep(v) \/ Crash(v) PROVE Apart(r, w)
    <2>1. pc[v] \in Outside
      BY <1>e, AloneWriter
    <2>2. pc'[v] \in Outside
      BY <1>e, <1>p DEF NoSuccessor
    <2>3. v \in Process /\ w \in Process \ {v} /\ r \in Process \ {v}
      OBVIOUS
    <2> QED
      BY <1>2, <2>1, <2>2, <2>3, OutsiderStep DEF Apart
  <1>3. CASE UNCHANGED vars
    BY <1>3 DEF vars, Apart
  <1> QED
    BY <1>1, <1>2, <1>3 DEF Next

LEMMA OwedNext ==
  ASSUME SInv, Handed, [Next]_vars, NoSuccessor'
  PROVE  ~stranded' /\ \A w \in Writer : Owed(w)'
  <1>e. Effect /\ NoSuccessor /\ Kept
    BY EveryStepHasEffect, NoSuccessorBefore DEF SInv, Kept
  <1>o. ~stranded /\ \A w \in Writer : Owed(w)
    BY <1>e DEF Handed
  <1>t. pc \in [Process -> ReaderPc \union WriterPc] /\ (\A r \in Reader : pc[r] \in ReaderPc)
        /\ sem \in [Sem -> Nat] /\ undo \in [Process -> [Sem -> -2..2]] /\ {0, 1, 2, 4} \subseteq Sem
    BY <1>e DEF Kept, SemTypes, PcTypes
  <1>1. ASSUME NEW q \in Reader, ReaderEffect(q) PROVE ~stranded' /\ \A w \in Writer : Owed(w)'
    <2>1. ~stranded'
      BY <1>1, <1>o DEF ReaderEffect, Still, Shifts, Clears
    <2>2. ASSUME NEW w \in Writer PROVE Owed(w)'
      <3>1. pc'[w] = pc[w]
        BY <1>1, <1>e, OthersKeepReader
      <3>2. CASE pc[w] \in WMet
        <4>1. pc[q] \notin {"clear0", "clear1", "clear2"}
          BY <1>e, <3>2, PartnerOfWriter
        <4>2. undo'[w] = undo[w]
          BY <4>1, <1>1, <1>t DEF ReaderEffect, Still, Shifts, Clears, Moves
        <4> QED
          BY <3>1, <4>2, <1>o DEF Owed
      <3>3. CASE pc[w] \notin WMet
        BY <3>1, <3>3 DEF Owed
      <3> QED
        BY <3>2, <3>3
    <2> QED
      BY <2>1, <2>2
  <1>2. ASSUME NEW v \in Writer, WriterEffect(v) PROVE ~stranded' /\ \A w \in Writer : Owed(w)'
    <2>1. ~stranded'
      BY <1>2, <1>o DEF WriterEffect, Still, Shifts
    <2>2. \A w \in Writer \ {v} : pc'[w] = pc[w] /\ undo'[w] = undo[w]
      BY <1>2, <1>t DEF WriterEffect, Still, Shifts, Moves
    <2>3. Owed(v) /\ UndoOf(v) /\ undo[v] \in [Sem -> -2..2]
      BY <1>o, <1>e, <1>t DEF Kept, Undos
    <2>4. Owed(v)'
      <3>1. CASE Shifts(v, "arm", "disarm", 0, 2, 2) \/ Shifts(v, "alive", "open", 2, 2, 2)
        BY <3>1, <2>3, <1>t DEF Shifts, Moves, UndoOf, Owed
      <3>2. CASE pc'[v] \notin {"disarm", "alive"} \union WAlive
        BY <3>2 DEF Owed
      <3>3. CASE undo'[v] = undo[v] /\ pc[v] \in {"disarm", "alive"} \union WAlive
                 /\ (pc'[v] \in WAlive => pc[v] \in WAlive)
        BY <3>3, <2>3 DEF Owed
      <3>4. CASE \E to : Still(v, pc[v], to)
        BY <3>4, <3>2, <3>3, <1>2, <1>t DEF WriterEffect, Still, Moves, Shifts
      <3>5. CASE Shifts(v, "disarm", "alive", 0, -2, 0) \/ Shifts(v, "take", "copy", 0, -1, 0)
                 \/ Shifts(v, "release", "check", 0, -1, 0)
        <4>1. undo'[v] = undo[v]
          BY <3>5, <2>3, <1>t DEF Shifts
        <4>2. pc[v] \in {"disarm", "alive"} \union WAlive /\ (pc'[v] \in WAlive => pc[v] \in WAlive)
          BY <3>5, <1>t DEF Shifts, Moves
        <4> QED
          BY <4>1, <4>2, <3>3
      <3> QED
        BY <3>1, <3>2, <3>4, <3>5, <1>2, <1>t DEF WriterEffect, Shifts, Still, Moves
    <2> QED
      BY <2>1, <2>2, <2>4, <1>o DEF Owed
  <1>3. ASSUME NEW p \in Process, Ends(p) PROVE ~stranded' /\ \A w \in Writer : Owed(w)'
    <2>1. ~stranded'
      <3>1. pc[p] \in {"copy", "release"} => p \in Writer /\ pc[p] \in WAlive
        BY <1>t
      <3>2. pc[p] \in {"copy", "release"} => undo[p][0] = -2
        BY <3>1, <1>o DEF Owed
      <3>3. ~(pc[p] \in {"copy", "release"} /\ undo[p][0] = 0)
        BY <3>2
      <3>4. UNCHANGED stranded \/ stranded' = (stranded \/ (pc[p] \in {"copy", "release"} /\ undo[p][0] = 0))
        BY <1>3 DEF Ends
      <3> QED
        BY <3>3, <3>4, <1>o, Zenon
    <2>2. \A w \in Writer \ {p} : pc'[w] = pc[w] /\ undo'[w] = undo[w]
      BY <1>3, <1>t DEF Ends
    <2>3. pc'[p] \in Gone
      BY <1>3, <1>t DEF Ends
    <2> QED
      BY <2>1, <2>2, <2>3, <1>o DEF Owed
  <1>4. CASE Quiet
    BY <1>4, <1>o DEF Quiet, Owed
  <1> QED
    BY <1>1, <1>2, <1>3, <1>4, <1>e DEF Effect

(* The steps that only move a reader and a writer on. *)
LEMMA OpenedBefore ==
  ASSUME Kept, Effect, NEW w \in Writer
  PROVE  pc'[w] \in Unopened => pc[w] \in Unopened
  BY StepOf DEF WriterEffect, Still, Shifts, Moves, Ends, Kept, PcTypes, Unopened

LEMMA FacedBefore ==
  ASSUME SInv, [Next]_vars, NoSuccessor', NEW r \in Reader, NEW w \in Writer,
         pc'[w] \in WMet, pc'[r] \in RAlive \union Gone
  PROVE  pc[r] \in RAlive \union Gone /\ pc[w] \notin Outside
  <1>e. Effect /\ NoSuccessor /\ Kept
    BY EveryStepHasEffect, NoSuccessorBefore DEF SInv, Kept
  <1>1. CASE pc'[w] = pc[w]
    <2>1. PICK q \in Reader : pc[q] \in RAlive \union Gone
      BY <1>1 DEF SInv, Meeting, Partners
    <2>2. pc'[q] \in RAlive \union Gone
      BY <2>1, <1>e, ReaderStages
    <2>3. q = r
      BY <2>2 DEF NoSuccessor
    <2> QED
      BY <1>1, <2>1, <2>3
  <1>2. CASE pc'[w] # pc[w]
    <2>1. WriterEffect(w) \/ Ends(w)
      BY <1>2, <1>e, StepOf
    <2>2. r \in Process \ {w} /\ w \in Process /\ pc \in [Process -> ReaderPc \union WriterPc]
      BY <1>e DEF Kept, PcTypes
    <2>3. pc'[r] = pc[r]
      BY <2>1, <2>2, <1>e, OthersKeepWriter, OthersKeepEnd
    <2>4. pc[w] \notin Outside
      BY <2>1, <2>2, <1>2 DEF WriterEffect, Still, Shifts, Moves, Ends
    <2> QED
      BY <2>3, <2>4
  <1> QED
    BY <1>1, <1>2

(* What a reader that has met its writer does. *)
LEMMA FacedReader ==
  ASSUME SInv, SInv', Handed, [Next]_vars, NoSuccessor',
         NEW r \in Reader, NEW w \in Writer, ReaderStep(r) \/ Crash(r),
         pc'[w] \in WMet, pc'[r] \in RAlive \union Gone
  PROVE  Faced(r, w)'
  <1>e. Effect /\ NoSuccessor /\ Kept /\ ~stranded
    BY EveryStepHasEffect, NoSuccessorBefore DEF SInv, Kept, Handed
  <1>t. /\ pc \in [Process -> ReaderPc \union WriterPc] /\ r \in Process /\ w \in Process
        /\ sem \in [Sem -> Nat] /\ 0 \in Sem /\ sem[0] \in Nat
        /\ chunk \in [Process -> Buffer] /\ next \in [Reader -> 0..Chunks] /\ mem \in [Segment -> Buffer]
        /\ 0 \in Segment
    <2>1. 0 \in Segment
      BY FS_CardinalityType DEF Segment
    <2> QED
      BY <1>e, <2>1 DEF Kept, SemTypes, PcTypes, SInv, DataTypes
  <1>r. pc[r] \in RAlive \union Gone
    BY FacedBefore
  <1>s. pc'[w] = pc[w] /\ fd' = fd /\ out' = out
    <2>1. ReaderEffect(r) \/ Ends(r)
      BY <1>t, ReaderHasEffect DEF Crash, ApplyUndo, Ends, SInv, Kept
    <2>2. w \in Process \ {r}
      OBVIOUS
    <2>3. pc'[w] = pc[w]
      BY <2>1, <2>2, <1>t, <1>e, OthersKeepReader, OthersKeepEnd
    <2>4. fd' = fd /\ out' = out
      BY DEF ReaderStep, Start, Claim, Refused, ReaderMeets, SetVal, Call, ReaderArms, OpenInput, OpenFails,
           Read, FillStarts, FillEnds, Filled, Check, WaitCopied, Leave, Crash
    <2> QED
      BY <2>3, <2>4
  <1>g. pc[r] \notin Gone /\ att' = att
    BY <1>r, <1>t DEF ReaderStep, Start, Claim, Refused, ReaderMeets, SetVal, Call, ReaderArms, OpenInput, OpenFails,
           Read, FillStarts, FillEnds, Filled, Check, WaitCopied, Leave, Crash, Goto
  <1>w. (pc[r] \in RMet => pc[w] \in WAlive) /\ pc[r] # "bye"
    BY <1>e, <1>s, PartnerOfReader
  <1>f. att[r] = 0 /\ att[w] = 0 /\ Passed(r, w)
    BY <1>e, <1>s, <1>r DEF Handed, Faced
  <1>b. BufferOf(r)
    BY <1>e DEF SInv, BufferKnown
  <1>u. fd'[w] = fd[w] /\ (pc'[w] \in Unopened => pc[w] \in Unopened) /\ (Opened(w)' => Opened(w))
    BY <1>s, OpenedSame
  <1>p. SUFFICES Passed(r, w)'
    BY <1>f, <1>g DEF Faced
  <1>m. DataSame => /\ Copied(r, w) => Copied(r, w)'
                    /\ Unstored(r, w) => Unstored(r, w)'
                    /\ Half(r, w) => Half(r, w)'
                    /\ Uncopied(r, w) => Uncopied(r, w)'
                    /\ Again(r, w) => Again(r, w)'
                    /\ Held(r) => Held(r)'
                    /\ Told(r, w) => Told(r, w)'
    BY <1>s, <1>u, SameBuffer DEF Told, DataSame
  <1>1. CASE Read(r)
    <2>1. pc[r] = "read" /\ pc'[r] = "fill" /\ mem' = mem
      BY <1>1, <1>t DEF Read, Goto
    <2>2. Copied(r, w) /\ (Opened(w)' => Opened(w))
      BY <2>1, <1>f, <1>u DEF Passed
    <2>3. next[r] \in 0..Chunks /\ \A k : Good(out[w], r, k)' = Good(out'[w], r, k)
      BY <1>t DEF Good, Real
    <2>4. Held(r)' /\ (Opened(w)' => Good(out[w], r, IF chunk'[r].no > 0 THEN next'[r] - 1 ELSE next'[r]))
      <3>1. CASE next'[r] = next[r] + 1 /\ chunk'[r] = [from |-> r, no |-> next[r] + 1]
        BY <3>1, <2>2, <2>3 DEF Held, Copied
      <3>2. CASE next[r] = Chunks /\ next' = next /\ chunk'[r] = [from |-> r, no |-> 0]
        BY <3>2, <2>2, <2>3 DEF Held, Copied
      <3>3. CASE next' = next /\ chunk'[r] = [from |-> r, no |-> -1]
        BY <3>3, <2>2, <2>3 DEF Held, Copied
      <3> QED
        BY <1>1, <1>t, <3>1, <3>2, <3>3 DEF Read, Garbage
    <2>5. Ahead(r, w)'
      BY <2>4, <1>s DEF Ahead, Good, Real
    <2>6. Opened(w)' => Last(w)'
      BY <2>1, <2>2, <1>s DEF Copied, Last
    <2> QED
      BY <2>1, <2>5, <2>6 DEF Passed, Unstored
  <1>9. CASE OpenInput(r) \/ OpenFails(r)
    <2>1. pc[r] = "input" /\ pc'[r] \in {"read", "failed"} /\ DataSame
      BY <1>9, <1>t DEF OpenInput, OpenFails, Goto, DataSame
    <2>2. Copied(r, w)' /\ mem'[0].no = 0
      BY <2>1, <1>f, <1>m DEF Passed, DataSame
    <2> QED
      BY <2>1, <2>2 DEF Passed
  <1>10. CASE FillStarts(r) \/ FillEnds(r)
    <2>1. /\ UNCHANGED <<chunk, next, fd, out>> /\ pc[r] \in {"fill", "filling"}
          /\ \/ pc'[r] = "filling" /\ mem'[0] = Torn(r)
             \/ pc'[r] = "filled" /\ mem'[0] = chunk[r]
      BY <1>10, <1>t, <1>f DEF FillStarts, FillEnds, Goto
    <2>2. Ahead(r, w)
      BY <2>1, <1>f DEF Passed, Unstored, Half
    <2>3. Ahead(r, w)'
      BY <2>1, <2>2, <1>u DEF Ahead, Held, Good, Real
    <2>4. Half(r, w)' \/ pc'[r] = "filled"
      BY <2>1, <2>3 DEF Half
    <2>5. Uncopied(r, w)' \/ pc'[r] = "filling"
      BY <2>1, <2>3 DEF Uncopied
    <2> QED
      BY <2>1, <2>4, <2>5 DEF Passed
  <1>2. CASE Call(r, "meet", "input", 2, -1, "0")
    <2>1. pc[r] = "meet" /\ pc'[r] = "input" /\ DataSame
      BY <1>2, <1>t DEF Call, Goto, DataSame
    <2> QED
      BY <2>1, <1>f, <1>m DEF Passed, DataSame
  <1>3. CASE Filled(r)
    <2>1. pc[r] = "filled" /\ pc'[r] = "check1" /\ DataSame /\ sem'[0] = sem[0] + 2
      BY <1>3, <1>t DEF Filled, Call, SemOp, Goto, DataSame
    <2>2. pc[w] # "release"
      BY <2>1, <1>b DEF BufferOf, Filling
    <2>3. Uncopied(r, w)' /\ Held(r)'
      BY <2>1, <1>f, <1>m DEF Passed, Uncopied, Ahead
    <2> QED
      BY <2>1, <2>2, <2>3, <1>s, <1>t DEF Passed, Offered
  <1>4. CASE Check(r, 2, "check1", "waitzero")
    <2>1. pc[r] = "check1" /\ pc'[r] \in {"waitzero", "bye"} /\ DataSame /\ sem' = sem
      BY <1>4, <1>t DEF Check, Goto, DataSame
    <2> QED
      BY <2>1, <1>f, <1>m, <1>s DEF Passed, Offered
  <1>5. CASE WaitCopied(r)
    <2>1. pc[r] = "waitzero" /\ pc'[r] = "check2" /\ DataSame /\ sem[0] = 0
      BY <1>5, <1>t DEF WaitCopied, Goto, DataSame
    <2> QED
      BY <2>1, <1>f, <1>m DEF Passed, Offered
  <1>6. CASE Check(r, 2, "check2", More(r))
    <2>1. pc[r] = "check2" /\ DataSame /\ chunk' = chunk
          /\ (pc'[r] = "bye" \/ (pc'[r] = "leave" /\ chunk[r].no = 0) \/ pc'[r] = "read")
      BY <1>6, <1>t DEF Check, More, Goto, DataSame
    <2> QED
      BY <2>1, <1>f, <1>m DEF Passed
  <1>7. CASE Leave(r)
    <2>1. pc[r] = "leave" /\ pc'[r] = "done" /\ DataSame /\ crashes' = crashes
      BY <1>7, <1>t, <1>w DEF Leave, DataSame
    <2>2. Held(r) /\ Copied(r, w) /\ Told(r, w) /\ chunk[r].no = 0
      BY <2>1, <1>f DEF Passed
    <2>3. fd[w] => Cardinality(Real(out[w])) = Chunks
      BY <2>2 DEF Held, Copied, Opened, Good
    <2>4. Whole(w)'
      BY <2>3, <1>s DEF Whole, Real
    <2> QED
      BY <2>1, <2>2, <2>4, <1>s DEF Passed, Told
  <1>8. CASE Crash(r)
    <2>1. pc'[r] = "killed" /\ DataSame
      BY <1>8, <1>t DEF Crash, DataSame
    <2>2. Again(r, w) \/ Half(r, w) \/ Uncopied(r, w)
      BY <1>f, <1>r, <1>g, <1>w, CopiedIsAgain DEF Passed, Offered
    <2> QED
      BY <2>1, <2>2, <1>m DEF Passed
  <1> QED
    BY <1>1, <1>2, <1>3, <1>4, <1>5, <1>6, <1>7, <1>8, <1>9, <1>10, <1>r, <1>g, <1>t
    DEF ReaderStep, ReaderMeets, ReaderArms, SetVal, Start, Claim, Refused, Call, Goto

(* Where a writer copies its reader is waiting, or has been killed. *)
LEMMA CopyMeets ==
  ASSUME SInv, Handed, NoSuccessor, NEW r \in Reader, NEW w \in Writer, pc[w] = "copy",
         pc[r] \in RAlive \union Gone
  PROVE  /\ att[w] = 0 /\ Passed(r, w)
         /\ \/ pc[r] \in {"check1", "waitzero"} /\ Uncopied(r, w)
            \/ pc[r] = "killed" /\ (Again(r, w) \/ Half(r, w) \/ Uncopied(r, w))
            \/ pc[r] = "failed" /\ mem[0].no = 0
  <1>f. att[w] = 0 /\ Passed(r, w) /\ Owed(w) /\ ~stranded
    BY DEF Handed, Faced
  <1>b. BufferOf(r)
    BY <1>f DEF SInv, BufferKnown
  <1>1. pc[r] \notin {"input", "read", "fill", "filling", "filled", "check2"}
    BY <1>b DEF BufferOf, Filling
  <1>2. pc[r] # "meet"
    BY <1>b, <1>f DEF BufferOf, Starting, Owed
  <1>3. pc[r] # "bye"
    BY PartnerOfReader
  <1>4. pc[r] \notin {"leave", "done"}
    BY <1>f DEF Passed, Told, Later
  <1>5. pc[r] \in {"check1", "waitzero"} => Uncopied(r, w)
    <2>1. pc[r] \in {"check1", "waitzero"} => sem[0] # 0
      BY <1>b DEF BufferOf, Offering
    <2> QED
      BY <2>1, <1>f DEF Passed, Offered
  <1>6. /\ pc[r] = "killed" => Again(r, w) \/ Half(r, w) \/ Uncopied(r, w)
        /\ pc[r] = "failed" => mem[0].no = 0
    BY <1>f DEF Passed, Later
  <1> QED
    BY <1>1, <1>2, <1>3, <1>4, <1>5, <1>6, <1>f

LEMMA CopiedNow ==
  ASSUME SInv, NEW r \in Reader, NEW w \in Writer, Copy(w), Uncopied(r, w), att[w] = 0
  PROVE  /\ Copied(r, w)' /\ Told(r, w)' /\ Held(r)' /\ pc'[w] = "release"
         /\ (out'[w] = out[w] \/ Faithful(out'[w]))
         /\ (chunk'[w].no = 0 => Whole(w)')
  <1>t. /\ w # r /\ w \in Process /\ r \in Process /\ 0 \in Segment
        /\ pc \in [Process -> ReaderPc \union WriterPc] /\ chunk \in [Process -> Buffer]
        /\ next[r] \in 0..Chunks /\ out \in [Writer -> Seq(Full)] /\ out[w] \in Seq(Full)
        /\ mem \in [Segment -> Buffer] /\ (mem[0].no # 0 => mem[0] \in Full) /\ mem[0].no \in Int
    <2>1. 0 \in Segment
      BY FS_CardinalityType DEF Segment
    <2> QED
      BY <2>1 DEF SInv, Kept, PcTypes, DataTypes, Buffer
  <1>1. /\ pc[w] = "copy" /\ pc'[w] = "release" /\ UNCHANGED <<mem, next, fd, crashes>>
        /\ chunk'[w] = mem[0] /\ chunk'[r] = chunk[r]
        /\ out'[w] = IF fd[w] /\ mem[0].no # 0 THEN Append(out[w], mem[0]) ELSE out[w]
    BY <1>t DEF Copy, Goto
  <1>2. mem[0] = chunk[r] /\ Held(r) /\ mem[0].from = r /\ mem[0].no >= -1
    BY DEF Uncopied, Ahead, Held
  <1>3. Held(r)' /\ Told(r, w)'
    BY <1>1, <1>2 DEF Held, Told, Later
  <1>o. Opened(w)' <=> fd[w]
    BY <1>1 DEF Opened, Unopened
  <1>l. Copied(r, w)' <=> (fd[w] => Good(out[w], r, next[r])' /\ Last(w)')
    BY <1>o DEF Copied
  <1>4. CASE ~fd[w]
    <2>1. Whole(w)'
      BY <1>1, <1>4 DEF Whole
    <2> QED
      BY <1>1, <1>3, <1>4, <1>l, <2>1
  <1>5. CASE fd[w] /\ mem[0].no = 0
    <2>1. Good(out[w], r, next[r]) /\ next[r] = Chunks /\ out'[w] = out[w]
      BY <1>1, <1>2, <1>5 DEF Uncopied, Ahead, Opened, Held
    <2>2. Copied(r, w)'
      <3>1. Last(w)'
        BY <1>1, <1>5 DEF Last
      <3>2. Good(out[w], r, next[r])'
        BY <1>1, <2>1 DEF Good, Real
      <3> QED
        BY <3>1, <3>2, <1>l
    <2>3. Whole(w)'
      BY <1>1, <2>1 DEF Whole, Good, Real
    <2> QED
      BY <1>1, <1>3, <2>1, <2>2, <2>3
  <1>6. CASE fd[w] /\ mem[0].no # 0
    <2> DEFINE b == mem[0]
               k == IF b.no > 0 THEN next[r] - 1 ELSE next[r]
    <2>1. Good(out[w], r, k)
      BY <1>2, <1>6 DEF Uncopied, Ahead, Opened
    <2>2. /\ k \in Nat /\ (b.no = -1 \/ b.no = k + 1) /\ next[r] = IF b.no = -1 THEN k ELSE k + 1
      BY <1>2, <1>6, <1>t DEF Held
    <2>3. out'[w] = Append(out[w], b) /\ b \in Full
      BY <1>1, <1>6, <1>t
    <2> HIDE DEF k, b
    <2>4. b.from = r
      BY <1>2 DEF b
    <2>5. Good(out'[w], r, next[r])
      BY <2>1, <2>2, <2>3, <2>4, <1>t, GoodAppend
    <2>6. out'[w] # <<>> /\ out'[w][Len(out'[w])] = b
      BY <2>3, <1>t, AppendLast
    <2>7. Copied(r, w)'
      <3>1. Last(w)'
        BY <1>1, <2>6 DEF Last, b
      <3>2. Good(out[w], r, next[r])'
        BY <1>1, <2>5 DEF Good, Real
      <3> QED
        BY <3>1, <3>2, <1>l
    <2>8. Faithful(out'[w])
      BY <2>5, GoodFaithful
    <2> QED
      BY <1>1, <1>3, <1>6, <2>7, <2>8
  <1> QED
    BY <1>4, <1>5, <1>6

(* A second copy of the last buffer, when the reader was killed. *)
LEMMA CopiedAgain ==
  ASSUME SInv, Begun, NEW r \in Reader, NEW w \in Writer, Copy(w), Again(r, w), att[w] = 0,
         pc[r] = "killed"
  PROVE  /\ pc'[w] = "release" /\ Whole(w)' /\ pc'[r] = "killed"
         /\ out'[w] = out[w] \/ IsPrefix(w)'
  <1>t. /\ w # r /\ w \in Process /\ r \in Process
        /\ pc \in [Process -> ReaderPc \union WriterPc]
        /\ out \in [Writer -> Seq(Full)] /\ out[w] \in Seq(Full)
    BY DEF SInv, Kept, PcTypes, DataTypes
  <1>1. /\ pc[w] = "copy" /\ pc'[w] = "release" /\ crashes' = crashes /\ pc'[r] = "killed"
        /\ out'[w] = IF fd[w] /\ mem[0].no # 0 THEN Append(out[w], mem[0]) ELSE out[w]
    BY <1>t DEF Copy, Goto
  <1>2. Whole(w)'
    BY <1>1, <1>t DEF Begun, Whole, Undisturbed
  <1>3. ASSUME fd[w], mem[0].no # 0 PROVE IsPrefix(w)'
    <2> DEFINE o == out[w]
               n == Len(o)
    <2>1. PICK k : Good(o, r, k)
      BY <1>3 DEF Again, Opened
    <2>l. o # <<>> /\ o[n] = mem[0]
      BY <1>3 DEF Again, Opened, Last
    <2>2. out'[w] = Append(o, mem[0]) /\ o \in Seq(Full) /\ mem[0] \in Full
      BY <1>1, <1>3, <1>t, <2>l
    <2>3. Faithful(o)
      BY <2>1, GoodFaithful
    <2>r. n \in Nat /\ n >= 1 /\ o[n].from = r
      BY <2>1, <2>l, <2>2 DEF Good
    <2>4. /\ Len(out'[w]) = n + 1 /\ n + 1 > 1 /\ (n + 1) - 1 = n /\ out'[w][n + 1] = mem[0]
          /\ out'[w][n] = mem[0] /\ SubSeq(out'[w], 1, n) = o
      BY <2>l, <2>2, <2>r
    <2>5. pc'[out'[w][n + 1].from] = "killed"
      BY <2>l, <2>4, <2>r, <1>1
    <2> HIDE DEF n, o
    <2>6. LET m == Len(out'[w]) IN
            /\ m > 0 /\ pc'[out'[w][m].from] = "killed"
            /\ m > 1 /\ out'[w][m] = out'[w][m - 1]
            /\ Faithful(SubSeq(out'[w], 1, m - 1))
      <3> DEFINE m == Len(out'[w])
      <3>1. m = n + 1 /\ m > 1 /\ m > 0 /\ m - 1 = n
        BY <2>4, <2>r
      <3>2. out'[w][m] = out'[w][m - 1] /\ pc'[out'[w][m].from] = "killed"
        BY <2>4, <2>5, <3>1
      <3>3. Faithful(SubSeq(out'[w], 1, m - 1))
        BY <2>3, <2>4, <3>1
      <3> QED
        BY <3>1, <3>2, <3>3
    <2> QED
      BY <2>6 DEF IsPrefix, Faithful, Real, Torn
  <1> QED
    BY <1>1, <1>2, <1>3

(* A buffer half stored, when the reader was killed. *)
LEMMA CopiedTorn ==
  ASSUME SInv, Begun, NEW r \in Reader, NEW w \in Writer, Copy(w), Half(r, w), att[w] = 0,
         pc[r] = "killed"
  PROVE  /\ pc'[w] = "release" /\ Whole(w)' /\ pc'[r] = "killed"
         /\ out'[w] = out[w] \/ IsPrefix(w)'
  <1>t. /\ w # r /\ w \in Process /\ r \in Process
        /\ pc \in [Process -> ReaderPc \union WriterPc]
        /\ out \in [Writer -> Seq(Full)] /\ out[w] \in Seq(Full)
        /\ mem[0].from = r /\ mem[0] \in Full /\ mem[0] = Torn(r)
    <2>1. Torn(r) \in Full /\ Torn(r).from = r
      BY DEF Torn, Full
    <2> QED
      BY <2>1 DEF SInv, Kept, PcTypes, DataTypes, Half
  <1>1. /\ pc[w] = "copy" /\ pc'[w] = "release" /\ crashes' = crashes /\ pc'[r] = "killed"
        /\ out'[w] = IF fd[w] /\ mem[0].no # 0 THEN Append(out[w], mem[0]) ELSE out[w]
    BY <1>t DEF Copy, Goto
  <1>2. Whole(w)'
    BY <1>1, <1>t DEF Begun, Whole, Undisturbed
  <1>3. ASSUME fd[w], mem[0].no # 0 PROVE IsPrefix(w)'
    <2> DEFINE o == out[w]
               n == Len(o)
    <2>1. PICK k : Good(o, r, k)
      BY <1>3 DEF Half, Ahead, Opened
    <2>2. out'[w] = Append(o, mem[0]) /\ o \in Seq(Full) /\ mem[0] \in Full
      BY <1>1, <1>3, <1>t
    <2>3. Faithful(o)
      BY <2>1, GoodFaithful
    <2>4. /\ Len(out'[w]) = n + 1 /\ n + 1 > 0 /\ (n + 1) - 1 = n /\ out'[w][n + 1] = mem[0]
          /\ SubSeq(out'[w], 1, n) = o
      BY <2>2
    <2>5. pc'[out'[w][n + 1].from] = "killed" /\ out'[w][n + 1] = Torn(out'[w][n + 1].from)
      BY <2>4, <1>t, <1>1
    <2> HIDE DEF n, o
    <2>6. LET m == Len(out'[w]) IN
            /\ m > 0 /\ pc'[out'[w][m].from] = "killed"
            /\ out'[w][m] = Torn(out'[w][m].from)
            /\ Faithful(SubSeq(out'[w], 1, m - 1))
      BY <2>3, <2>4, <2>5
    <2> QED
      BY <2>6 DEF IsPrefix, Faithful, Real, Torn
  <1> QED
    BY <1>1, <1>2, <1>3

(* What a writer that has met its reader does. *)
LEMMA FacedWriter ==
  ASSUME SInv, SInv', Begun, Handed, [Next]_vars, NoSuccessor',
         NEW r \in Reader, NEW w \in Writer, WriterStep(w) \/ Crash(w),
         pc'[w] \in WMet, pc'[r] \in RAlive \union Gone
  PROVE  Faced(r, w)'
  <1>e. Effect /\ NoSuccessor /\ Kept /\ ~stranded
    BY EveryStepHasEffect, NoSuccessorBefore DEF SInv, Kept, Handed
  <1>t. /\ pc \in [Process -> ReaderPc \union WriterPc] /\ r \in Process /\ w \in Process /\ w # r
        /\ w \notin Reader
        /\ sem \in [Sem -> Nat] /\ 0 \in Sem /\ 1 \in Sem /\ sem[0] \in Nat /\ sem[1] \in Nat
        /\ chunk \in [Process -> Buffer]
    BY <1>e DEF Kept, SemTypes, PcTypes, SInv, DataTypes
  <1>r. pc[r] \in RAlive \union Gone /\ pc[w] \notin Outside
    BY FacedBefore
  <1>s. pc'[r] = pc[r]
    <2>1. WriterEffect(w) \/ Ends(w)
      BY <1>t, <1>e, WriterHasEffect DEF Crash, ApplyUndo, Ends, Kept
    <2>2. r \in Process \ {w}
      BY <1>t
    <2> QED
      BY <2>1, <2>2, <1>t, <1>e, OthersKeepWriter, OthersKeepEnd
  <1>g. UNCHANGED <<mem, next, att, crashes>> /\ chunk'[r] = chunk[r] /\ ~Crash(w) /\ ~Leave(w)
    BY <1>r, <1>t DEF WriterStep, Start, Claim, Refused, WriterMeets, Call, WriterAlive, Open, Take,
         Copy, Release, Check, Leave, Crash, Goto
  <1>b. BufferOf(r)
    BY <1>e DEF SInv, BufferKnown
  <1>o. pc'[w] \in Unopened => pc[w] \in Unopened
    BY <1>e, OpenedBefore
  <1>m. UNCHANGED <<chunk, out>> /\ (Opened(w)' => Opened(w))
          => /\ Copied(r, w) => Copied(r, w)'
             /\ Unstored(r, w) => Unstored(r, w)'
             /\ Half(r, w) => Half(r, w)'
             /\ Uncopied(r, w) => Uncopied(r, w)'
             /\ Again(r, w) => Again(r, w)'
             /\ Held(r) => Held(r)'
    BY <1>g, SameBuffer
  <1>d. DataSame => (Opened(w)' => Opened(w))
    BY <1>o, OpenedSame DEF DataSame
  <1>h. UNCHANGED <<fd, out>> /\ Whole(w) => Whole(w)'
    BY UndisturbedBefore
  <1>1. CASE Call(w, "meet", "arm", 1, -1, "0")
    <2>1. pc[w] = "meet" /\ pc'[w] = "arm" /\ DataSame /\ sem[1] >= 1
      BY <1>1, <1>t DEF Call, Goto, SemOp, DataSame
    <2>2. pc[r] = "meet"
      <3>1. pc[r] \notin Gone
        BY <2>1, <1>e, NobodyAnnounced
      <3>2. pc[r] \notin RMet
        <4>1. pc[r] \in RMet => \E v \in Writer : pc[v] \in WAlive \union Gone
          BY DEF SInv, Meeting, Partners
        <4> QED
          BY <4>1, <2>1, <1>e, AloneWriter
      <3> QED
        BY <3>1, <3>2, <1>r
    <2>3. \A p \in Process : pc[p] # "done"
      BY <2>1, <2>2, <1>e, AloneReader, AloneWriter
    <2>4. key = 0 /\ att[r] = 0 /\ att[w] = 0
      <3>1. {p \in Process : pc[p] = "done"} = {}
        BY <2>3
      <3>2. Cardinality({p \in Process : pc[p] = "done"}) = 0
        BY <3>1, FS_EmptySet
      <3> QED
        BY <3>2 DEF SInv, DataTypes
    <2>5. next[r] = 0 /\ mem[0] = Zero /\ out[w] = <<>>
      <3>1. \A q \in Reader : pc[q] \notin RMet \union Gone
        BY <2>2, <1>e, AloneReader
      <3> QED
        BY <2>1, <3>1 DEF Begun, Unopened
    <2>6. Copied(r, w)
      BY <2>5, GoodNil DEF Copied, Last, Zero
    <2>7. Copied(r, w)' /\ mem'[0].no = 0
      BY <2>1, <2>5, <2>6, <1>m, <1>d, <1>g DEF DataSame, Zero
    <2> QED
      BY <2>1, <2>2, <2>4, <2>7, <1>s, <1>g DEF Faced, Passed
  <1>f. ASSUME pc[w] # "meet" PROVE att[r] = 0 /\ att[w] = 0 /\ Passed(r, w)
    <2>1. pc[w] \in WMet
      BY <1>f, <1>r, <1>t, <1>e, WriterStages DEF Kept, PcTypes, WriterStep, Crash, Start, Claim, Refused,
           WriterMeets, Call, WriterAlive, Open, Take, Copy, Release, Check, Leave, Goto
    <2> QED
      BY <2>1, <1>e, <1>r DEF Handed, Faced
  <1>2. CASE Call(w, "arm", "disarm", 0, 2, "SEM_UNDO") \/ Call(w, "disarm", "alive", 0, -2, "0")
             \/ WriterAlive(w)
    <2>1. DataSame /\ pc[w] \in {"arm", "disarm", "alive"}
      BY <1>2, <1>t DEF Call, WriterAlive, Goto, DataSame
    <2>2. pc[r] \notin RMet
      BY <2>1, <1>e, PartnerOfReader
    <2>3. pc[r] \in {"meet", "killed", "failed"} /\ Passed(r, w) /\ att[r] = 0 /\ att[w] = 0
      BY <2>1, <2>2, <1>f, <1>r DEF Passed, Later
    <2>4. pc[r] \in {"meet", "failed"} => Copied(r, w)' /\ mem'[0].no = 0
      BY <2>1, <2>3, <1>m, <1>d, <1>g DEF Passed, Later, DataSame
    <2>5. pc[r] = "killed" => Again(r, w)' \/ Half(r, w)' \/ Uncopied(r, w)'
      BY <2>1, <2>3, <1>m, <1>d DEF Passed, Later, DataSame
    <2> QED
      BY <2>3, <2>4, <2>5, <1>s, <1>g DEF Faced, Passed
  <1>3. CASE Open(w)
    <2>1. pc[w] = "open" /\ pc'[w] = "take" /\ UNCHANGED <<sem, mem, chunk, next, out>>
      BY <1>3, <1>t DEF Open, Goto
    <2>2. Passed(r, w) /\ att[r] = 0 /\ att[w] = 0
      BY <2>1, <1>f
    <2>3. (Opened(w)' => Opened(w)) /\ UNCHANGED mem
      BY <2>1 DEF Opened, Unopened
    <2>4. Told(r, w) => Told(r, w)'
      BY <2>1 DEF Told, Later
    <2>5. Passed(r, w)'
      BY <2>1, <2>2, <2>3, <2>4, <1>s, <1>m DEF Passed, Offered, Later
    <2> QED
      BY <2>2, <2>5, <1>g DEF Faced
  <1>4. CASE Take(w)
    <2>1. pc[w] = "take" /\ pc'[w] = "copy" /\ DataSame /\ sem[0] >= 1 /\ sem'[0] = sem[0] - 1
      BY <1>4, <1>t DEF Take, Call, SemOp, Goto, DataSame
    <2>2. Passed(r, w) /\ att[r] = 0 /\ att[w] = 0
      BY <2>1, <1>f
    <2>3. pc[r] \in {"check1", "waitzero"} => sem[0] = 2
      BY <2>1, <1>b, <1>e, AloneWriter DEF BufferOf, Offering
    <2>4. Told(r, w) => Told(r, w)'
      BY <2>1 DEF Told, DataSame, Later
    <2>5. Passed(r, w)'
      BY <2>1, <2>2, <2>3, <2>4, <1>s, <1>g, <1>m, <1>d DEF Passed, Offered, Later, DataSame
    <2> QED
      BY <2>2, <2>5, <1>g DEF Faced
  <1>5. CASE Copy(w)
    <2>1. pc[w] = "copy" /\ pc'[w] = "release"
      BY <1>5, <1>t DEF Copy, Goto
    <2>2. /\ att[w] = 0 /\ att[r] = 0
          /\ \/ pc[r] \in {"check1", "waitzero"} /\ Uncopied(r, w)
             \/ pc[r] \in {"killed", "failed"}
      BY <2>1, <1>e, <1>r, <1>f, CopyMeets
    <2>3. pc[r] \in {"check1", "waitzero"} => Copied(r, w)' /\ Told(r, w)' /\ Held(r)'
      BY <2>2, <1>5, CopiedNow
    <2> QED
      BY <2>1, <2>2, <2>3, <1>s, <1>g DEF Faced, Passed, Offered, Later
  <1>6. CASE Release(w)
    <2>1. pc[w] = "release" /\ pc'[w] = "check" /\ DataSame /\ sem'[0] = sem[0] - 1 /\ crashes' = crashes
      BY <1>6, <1>t DEF Release, Call, SemOp, Goto, DataSame
    <2>2. Passed(r, w) /\ att[r] = 0 /\ att[w] = 0
      BY <2>1, <1>f
    <2>3. pc[r] \in {"check1", "waitzero"} => sem[0] = 1
      BY <2>1, <1>b DEF BufferOf, Offering
    <2>4. (Told(r, w) => Told(r, w)') /\ (Whole(w) => Whole(w)')
      BY <2>1, <1>h DEF Told, DataSame, Later
    <2>5. Passed(r, w)'
      BY <2>1, <2>2, <2>3, <2>4, <1>s, <1>g, <1>m, <1>d DEF Passed, Offered, Later, DataSame
    <2> QED
      BY <2>2, <2>5, <1>g DEF Faced
  <1>7. CASE Check(w, 1, "check", More(w))
    <2>1. /\ pc[w] = "check" /\ DataSame /\ sem' = sem /\ crashes' = crashes
          /\ pc'[w] = "bye" \/ (pc'[w] = "leave" /\ chunk[w].no = 0)
             \/ (pc'[w] = "take" /\ chunk[w].no # 0 /\ sem[1] # 0)
      BY <1>7, <1>t DEF Check, More, Goto, DataSame
    <2>2. Passed(r, w) /\ att[r] = 0 /\ att[w] = 0
      BY <2>1, <1>f
    <2>3. pc[r] \in Gone => pc'[w] \in Later
      BY <2>1, <1>e, NobodyAnnounced DEF Later
    <2>4. (Told(r, w) => Told(r, w)') /\ (Whole(w) => Whole(w)')
      BY <2>1, <1>h DEF Told, DataSame, Later
    <2>5. Passed(r, w)'
      BY <2>1, <2>2, <2>3, <2>4, <1>s, <1>g, <1>m, <1>d DEF Passed, Offered, Later, DataSame
    <2> QED
      BY <2>2, <2>5, <1>g DEF Faced
  <1> QED
    BY <1>1, <1>2, <1>3, <1>4, <1>5, <1>6, <1>7, <1>r, <1>g, <1>t
    DEF WriterStep, WriterMeets, Start, Claim, Refused, Goto

LEMMA FacedNext ==
  ASSUME SInv, Begun, Handed, [Next]_vars, NoSuccessor', NEW r \in Reader, NEW w \in Writer
  PROVE  Faced(r, w)'
  <1> SUFFICES ASSUME pc'[w] \in WMet, pc'[r] \in RAlive \union Gone
               PROVE  Faced(r, w)'
    BY DEF Faced
  <1>i. SInv'
    BY InvariantNext
  <1>b. pc[r] \in RAlive \union Gone /\ pc[w] \notin Outside
    BY FacedBefore
  <1>1. CASE Apart(r, w)
    <2>1. NoSuccessor
      BY EveryStepHasEffect, NoSuccessorBefore DEF SInv, Kept
    <2>2. att'[r] = 0 /\ att'[w] = 0 /\ Passed(r, w)
      BY <1>1, <1>b, <2>1 DEF Handed, Faced, Apart
    <2>3. /\ Copied(r, w) => Copied(r, w)'
          /\ Unstored(r, w) => Unstored(r, w)'
          /\ Half(r, w) => Half(r, w)'
          /\ Uncopied(r, w) => Uncopied(r, w)'
          /\ Again(r, w) => Again(r, w)'
          /\ Held(r) => Held(r)'
      <3>1. Opened(w)' => Opened(w)
        BY <1>1 DEF Apart, Opened
      <3> QED
        BY <1>1, <3>1, SameBuffer DEF Apart
    <2>4. (Whole(w) => Whole(w)') /\ (Told(r, w) => Told(r, w)')
      BY <1>1, UndisturbedBefore DEF Apart, Told
    <2>5. pc'[r] = pc[r] /\ pc'[w] = pc[w] /\ sem' = sem /\ chunk' = chunk /\ mem' = mem
      BY <1>1 DEF Apart
    <2>6. Passed(r, w)'
      BY <2>2, <2>3, <2>4, <2>5 DEF Passed, Offered
    <2> QED
      BY <2>2, <2>6 DEF Faced
  <1> QED
    BY <1>i, <1>b, <1>1, StepsOfTwo, FacedReader, FacedWriter

(* What a writer has, from its own steps only. *)
LEMMA ClosedNext ==
  ASSUME SInv, Begun, Handed, [Next]_vars, NoSuccessor', NEW w \in Writer
  PROVE  Closed(w)' /\ IsPrefix(w)'
  <1>e. Effect /\ NoSuccessor /\ Kept
    BY EveryStepHasEffect, NoSuccessorBefore DEF SInv, Kept
  <1>h. Closed(w) /\ IsPrefix(w)
    BY <1>e DEF Handed
  <1>t. /\ pc \in [Process -> ReaderPc \union WriterPc] /\ w \in Process /\ crashes \in Nat
        /\ chunk \in [Process -> Buffer] /\ fd \in [Writer -> BOOLEAN] /\ out \in [Writer -> Seq(Full)]
    BY <1>e DEF Kept, PcTypes, SInv, DataTypes, Begun
  <1>k. \A p : pc[p] = "killed" /\ p \in Process => pc'[p] = "killed"
    BY <1>e, <1>t, StepOf DEF ReaderEffect, WriterEffect, Still, Shifts, Clears, Moves, Ends
  <1>p. out'[w] = out[w] => IsPrefix(w)'
    <2> SUFFICES ASSUME out'[w] = out[w] PROVE IsPrefix(w)'
      OBVIOUS
    <2> DEFINE m == Len(out[w])
    <2>1. CASE Faithful(out[w])
      BY <2>1 DEF IsPrefix, Faithful, Real, Torn
    <2>2. CASE /\ m > 0 /\ pc[out[w][m].from] = "killed"
               /\ (m > 1 /\ out[w][m] = out[w][m - 1]) \/ out[w][m] = Torn(out[w][m].from)
               /\ Faithful(SubSeq(out[w], 1, m - 1))
      <3>1. out[w][m].from \in Process
        <4>1. out[w] \in Seq(Full) /\ m \in 1..Len(out[w])
          BY <1>t, <2>2
        <4>2. out[w][m] \in Full
          BY <4>1
        <4> QED
          BY <4>2 DEF Full
      <3>2. pc'[out[w][m].from] = "killed"
        BY <3>1, <2>2, <1>k
      <3>3. LET l == Len(out'[w]) IN
              /\ l > 0 /\ pc'[out'[w][l].from] = "killed"
              /\ (l > 1 /\ out'[w][l] = out'[w][l - 1]) \/ out'[w][l] = Torn(out'[w][l].from)
              /\ Faithful(SubSeq(out'[w], 1, l - 1))
        BY <2>2, <3>2
      <3> QED
        BY <3>3 DEF IsPrefix, Faithful, Real, Torn
    <2> QED
      BY <1>h, <2>1, <2>2 DEF IsPrefix
  <1>w. out'[w] = out[w] /\ fd'[w] = fd[w] => (Whole(w) => Whole(w)')
    BY UndisturbedBefore
  <1>1. CASE /\ pc'[w] = pc[w] /\ chunk'[w] = chunk[w] /\ fd'[w] = fd[w] /\ out'[w] = out[w]
    BY <1>1, <1>h, <1>p, <1>w DEF Closed
  <1>2. CASE Copy(w)
    <2>1. pc[w] = "copy" /\ pc'[w] = "release"
      BY <1>2, <1>t DEF Copy, Goto
    <2>2. PICK r \in Reader : pc[r] \in RAlive \union Gone
      BY <2>1 DEF SInv, Meeting, Partners
    <2>3. /\ att[w] = 0
          /\ \/ Uncopied(r, w)
             \/ pc[r] = "killed" /\ (Again(r, w) \/ Half(r, w))
             \/ pc[r] = "failed" /\ mem[0].no = 0
      BY <2>1, <2>2, <1>e, CopyMeets
    <2>4. CASE Uncopied(r, w)
      <3>1. (out'[w] = out[w] \/ Faithful(out'[w])) /\ (chunk'[w].no = 0 => Whole(w)')
        BY <1>2, <2>3, <2>4, CopiedNow
      <3>2. Faithful(out'[w]) => IsPrefix(w)'
        BY DEF IsPrefix, Faithful, Real, Torn
      <3>3. IsPrefix(w)'
        BY <3>1, <3>2, <1>p
      <3> QED
        BY <2>1, <3>1, <3>3 DEF Closed
    <2>5. CASE pc[r] = "killed" /\ (Again(r, w) \/ Half(r, w))
      BY <1>2, <2>1, <2>3, <2>5, <1>p, CopiedAgain, CopiedTorn DEF Closed
    <2>6. CASE pc[r] = "failed" /\ mem[0].no = 0
      <3>1. out'[w] = out[w] /\ pc'[r] = "failed"
        BY <1>2, <1>t, <2>1, <2>3, <2>6 DEF Copy, Goto
      <3>2. Whole(w)'
        BY <3>1 DEF Whole, Undisturbed
      <3> QED
        BY <2>1, <3>1, <3>2, <1>p DEF Closed
    <2> QED
      BY <2>3, <2>4, <2>5, <2>6
  <1>3. CASE Check(w, 1, "check", More(w))
    <2>1. /\ pc[w] = "check" /\ DataSame /\ sem' = sem /\ w \notin Reader
          /\ \/ pc'[w] = "bye" /\ sem[1] = 0
             \/ (pc'[w] = "leave" /\ chunk[w].no = 0)
             \/ (pc'[w] = "take" /\ chunk[w].no # 0)
      BY <1>3, <1>t DEF Check, More, Goto, DataSame
    <2>2. CASE pc'[w] = "bye" /\ sem[1] = 0
      <3>1. PICK r \in Reader : pc[r] \in RAlive \union Gone
        BY <2>1 DEF SInv, Meeting, Partners
      <3>2. pc[r] \in Gone
        BY <3>1, <2>2, <1>e DEF SInv, Meeting, Couple
      <3>3. Whole(w)
        <4>1. CASE pc[r] \in {"killed", "failed"}
          BY <4>1 DEF Whole, Undisturbed, Begun
        <4>2. CASE pc[r] = "done"
          BY <4>2, <2>1, <1>e DEF Handed, Faced, Passed
        <4> QED
          BY <3>2, <4>1, <4>2
      <3> QED
        BY <2>1, <2>2, <3>3, <1>p, <1>w DEF Closed, DataSame
    <2>3. CASE pc'[w] = "leave" /\ chunk[w].no = 0
      BY <2>1, <2>3, <1>h, <1>p, <1>w DEF Closed, DataSame
    <2>4. CASE pc'[w] = "take"
      BY <2>1, <2>4, <1>p DEF Closed, DataSame
    <2> QED
      BY <2>1, <2>2, <2>3, <2>4
  <1>4. CASE Release(w)
    <2>1. pc[w] = "release" /\ pc'[w] = "check" /\ DataSame
      BY <1>4, <1>t DEF Release, Call, Goto, DataSame
    <2> QED
      BY <2>1, <1>h, <1>p, <1>w DEF Closed, DataSame
  <1>5. CASE Leave(w)
    <2>1. pc[w] \in {"leave", "bye"} /\ pc'[w] = "done" /\ DataSame
      BY <1>5, <1>t DEF Leave, DataSame
    <2> QED
      BY <2>1, <1>h, <1>p, <1>w DEF Closed, DataSame
  <1>6. CASE out'[w] = out[w] /\ pc'[w] \notin {"release", "check", "leave", "bye", "done"}
    BY <1>6, <1>p DEF Closed
  <1>7. ASSUME NEW p \in Process, ReaderStep(p) \/ WriterStep(p) \/ Crash(p), p # w
        PROVE  pc'[w] = pc[w] /\ chunk'[w] = chunk[w] /\ fd'[w] = fd[w] /\ out'[w] = out[w]
    BY <1>7, <1>t DEF Next, vars, ReaderStep, WriterStep, Start, Claim, Refused, ReaderMeets, WriterMeets,
       SetVal, Call, ReaderArms, WriterAlive, OpenInput, OpenFails, Read, FillStarts, FillEnds, Filled, Check, WaitCopied, Open, Copy, Take, Release,
       Leave, Crash, Goto
  <1>8. ASSUME WriterStep(w) \/ Crash(w)
        PROVE  \/ Copy(w) \/ Check(w, 1, "check", More(w)) \/ Release(w) \/ Leave(w)
               \/ out'[w] = out[w] /\ pc'[w] \notin {"release", "check", "leave", "bye", "done"}
    BY <1>8, <1>t DEF WriterStep, Start, Claim, Refused, WriterMeets, Call, WriterAlive, Open, Take,
       Crash, Goto
  <1> QED
    BY <1>1, <1>2, <1>3, <1>4, <1>5, <1>6, <1>7, <1>8 DEF Next, vars

LEMMA HandedNext ==
  ASSUME SInv, Begun, Handed, [Next]_vars
  PROVE  Handed'
  BY OwedNext, ClosedNext, FacedNext DEF Handed

LEMMA OutInit == Init => OutInv
  <1> SUFFICES ASSUME Init PROVE OutInv
    OBVIOUS
  <1>1. SInv /\ Begun
    BY InvariantInit, BegunInit
  <1>2. \A w \in Writer : pc[w] = "off" /\ out[w] = <<>>
    BY DEF Init
  <1>3. \A w \in Writer : Owed(w) /\ Closed(w)
    BY <1>2 DEF Owed, Closed
  <1>4. \A w \in Writer : IsPrefix(w)
    <2>1. Good(<<>>, 0, 0)
      BY GoodNil
    <2> QED
      BY <2>1, <1>2, GoodFaithful DEF IsPrefix
  <1>5. \A r \in Reader, w \in Writer : Faced(r, w)
    BY <1>2 DEF Faced
  <1>6. ~stranded
    BY DEF Init
  <1> QED
    BY <1>1, <1>3, <1>4, <1>5, <1>6 DEF OutInv, Handed

LEMMA OutNext == OutInv /\ [Next]_vars => OutInv'
  BY InvariantNext, BegunNext, HandedNext DEF OutInv

LEMMA OutIsStronger == OutInv => OutputFaithful
  BY DEF OutInv, Handed, Closed, OutputFaithful, IsWhole, Whole

(* mem.c: before the first restart, for a file of any length, any number of
   failed reads, an input or output that does not open and a kill of either
   process at any point, what the writer has written is a prefix of what its
   reader read; one more buffer, the last one again or the next one half stored,
   can follow it only if that reader was killed.  When nobody was killed, the
   reader could open its file and the writer has ended with its output open, it has
   the whole file. *)
THEOREM OutputStaysFaithful == Spec => []OutputFaithful
  BY OutInit, OutNext, OutIsStronger, PTL DEF Spec
=============================================================================
