------------------------------ MODULE SemRing ------------------------------
(***************************************************************************)
(* ParProg/MPI/ring/sem_mpi_ring.c and ParProg/MPI/syn/syn.c: the ranks of *)
(* an MPI program print in the order of their numbers.  Rank r takes r     *)
(* from one semaphore, prints, and gives r + 1 back; the last rank removes *)
(* the semaphore.  Every operation has SEM_UNDO, so a rank that exits      *)
(* takes back the one it gave more than it took.                           *)
(***************************************************************************)
EXTENDS Integers, Sequences

CONSTANT m_rank       \* the number of ranks
ASSUME RankAssumption == m_rank \in Nat \ {0}

Rank == 0..m_rank - 1

VARIABLES
  exists,     \* is there a semaphore with the program's key
  sem,        \* its value
  undo,       \* the kernel's pending adjustment for each rank
  pc,
  order       \* the ranks that printed

vars == <<exists, sem, undo, pc, order>>

Goto(r, from, to) == pc[r] = from /\ pc' = [pc EXCEPT ![r] = to]

(* Another run of the program, or one that was killed, may have left a
   semaphore with any value. *)
Init ==
  /\ exists \in BOOLEAN
  /\ sem = 0
  /\ undo = [r \in Rank |-> 0]
  /\ pc = [r \in Rank |-> IF r = 0 THEN "create" ELSE "barrier"]
  /\ order = <<>>

(* Create_Sem, in rank 0: a semaphore that is there already aborts the program. *)
Create ==
  /\ ~exists
  /\ Goto(0, "create", "barrier")
  /\ exists' = TRUE /\ sem' = 0
  /\ UNCHANGED <<undo, order>>

Abort ==
  /\ exists
  /\ pc[0] = "create"
  /\ pc' = [r \in Rank |-> "aborted"]
  /\ UNCHANGED <<exists, sem, undo, order>>

(* Nobody leaves MPI_Barrier before everybody is there; Connect_to_Sem then
   finds the semaphore. *)
Barrier(r) ==
  /\ \A s \in Rank : pc[s] # "create"
  /\ Goto(r, "barrier", "wait")
  /\ UNCHANGED <<exists, sem, undo, order>>

(* Mutant: every rank but 0 takes one. *)
TakeOne(r) ==
  /\ exists
  /\ IF r = 0 THEN sem = 0 ELSE sem >= 1
  /\ Goto(r, "wait", "turn")
  /\ sem' = IF r = 0 THEN sem ELSE sem - 1
  /\ undo' = [undo EXCEPT ![r] = @ + r]
  /\ UNCHANGED <<exists, order>>

(* semop by -r.  For rank 0 that is an operation by 0, which waits for 0. *)
Take(r) ==
  /\ exists
  /\ IF r = 0 THEN sem = 0 ELSE sem >= r
  /\ Goto(r, "wait", "turn")
  /\ sem' = sem - r
  /\ undo' = [undo EXCEPT ![r] = @ + r]
  /\ UNCHANGED <<exists, order>>

(* printf and the byte written to t.txt. *)
PrintNumber(r) ==
  /\ Goto(r, "turn", "give")
  /\ order' = Append(order, r)
  /\ UNCHANGED <<exists, sem, undo>>

(* Mutant: what was taken is given back, and no more. *)
GiveBack(r) ==
  /\ exists
  /\ Goto(r, "give", IF r = m_rank - 1 THEN "remove" ELSE "finalize")
  /\ sem' = sem + r
  /\ undo' = [undo EXCEPT ![r] = @ - r]
  /\ UNCHANGED <<exists, order>>

Give(r) ==
  /\ exists
  /\ Goto(r, "give", IF r = m_rank - 1 THEN "remove" ELSE "finalize")
  /\ sem' = sem + r + 1
  /\ undo' = [undo EXCEPT ![r] = @ - (r + 1)]
  /\ UNCHANGED <<exists, order>>

(* semop fails when the semaphore is gone: RemovedAfterUse shows that it never
   is, so the two failing branches of main have no action. *)
Remove(r) ==
  /\ Goto(r, "remove", "finalize")
  /\ exists' = FALSE
  /\ UNCHANGED <<sem, undo, order>>

(* MPI_Finalize need not wait for the other ranks; the exit applies SEM_UNDO. *)
Exit(r) ==
  /\ Goto(r, "finalize", "exited")
  /\ sem' = IF ~exists THEN sem ELSE IF sem + undo[r] < 0 THEN 0 ELSE sem + undo[r]
  /\ undo' = [undo EXCEPT ![r] = 0]
  /\ UNCHANGED <<exists, order>>

RankStep(r) ==
  \/ Barrier(r) \/ Take(r) \/ PrintNumber(r) \/ Give(r) \/ Remove(r)

Next == Create \/ Abort \/ \E r \in Rank : RankStep(r) \/ Exit(r)

Spec == Init /\ [][Next]_vars

(* Ranks that can go on do.  MPI_Finalize may wait for the other ranks as long
   as the library likes, so nothing makes a rank exit. *)
FairSpec == Spec /\ WF_vars(Create \/ Abort) /\ \A r \in Rank : WF_vars(RankStep(r))
-----------------------------------------------------------------------------
Location == {"create", "barrier", "wait", "turn", "give", "remove", "finalize",
             "exited", "aborted"}

(* Types of the semaphore and of the ranks' positions. *)
TypeOK ==
  /\ exists \in BOOLEAN /\ sem \in Nat
  /\ undo \in [Rank -> Int] /\ pc \in [Rank -> Location]
  /\ order \in Seq(Rank)

Past == {"give", "remove", "finalize", "exited"}

(* The ranks that printed are the first ones, in order. *)
InOrder ==
  /\ \A j \in 1..Len(order) : order[j] = j - 1
  /\ \A r \in Rank : pc[r] \in Past <=> r < Len(order)

(* Between take and give a rank is alone, it is the next or the last one of
   the order, and nothing is left in the semaphore for anybody else. *)
OneTurn ==
  /\ sem <= Len(order)
  /\ \A r \in Rank :
       /\ pc[r] = "turn" => sem = 0 /\ r = Len(order)
       /\ pc[r] = "give" => sem = 0 /\ r = Len(order) - 1
  /\ \A r, s \in Rank : pc[r] \in {"turn", "give"} /\ pc[s] \in {"turn", "give"} => r = s

(* What the exit of a rank does to the semaphore: -1, whoever waits. *)
UndoIsOne ==
  \A r \in Rank :
    /\ pc[r] \in {"create", "barrier", "wait"} => undo[r] = 0
    /\ pc[r] \in {"turn", "give"} => undo[r] = r
    /\ pc[r] \in {"remove", "finalize"} => undo[r] = -1

(* The semaphore is there for every rank that will use it: the last rank removes
   it when nobody else can be waiting. *)
RemovedAfterUse ==
  /\ \A r \in Rank : pc[r] \in {"wait", "turn", "give", "remove"} => exists
  /\ \A r \in Rank : pc[r] = "barrier" => exists \/ pc[0] = "create"
  /\ \A r \in Rank : pc[r] = "remove" => r = m_rank - 1

IInv == TypeOK /\ InOrder /\ OneTurn /\ UndoIsOne /\ RemovedAfterUse

(* The ranks take turns. *)
Abstract == INSTANCE Turns WITH First <- 0, Last <- m_rank - 1

ImplementsTurns == Abstract!TurnsSpec

(* Every rank has its turn, unless the program was aborted or a rank's exit
   took its one back from those still waiting: the only way to get stuck. *)
AllHadTurn == Len(order) = m_rank

TurnsOrEarlyExit ==
  AllHadTurn \/ (\E r \in Rank : pc[r] = "aborted" \/ (pc[r] = "exited" /\ ~AllHadTurn))
=============================================================================
