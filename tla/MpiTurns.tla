------------------------------- MODULE MpiTurns -------------------------------
(***************************************************************************)
(* ParProg/MPI: ranks that print in turn because each waits for a message. *)
(* In ring/mpi_ring.cpp rank k waits for rank k - 1 and then writes to     *)
(* rank k + 1; in ping_pong/mpi_ping_pong.cpp, and in the variant that     *)
(* prints to a file, rank 0 writes to one rank after the other and waits   *)
(* for the answer.                                                         *)
(* External: Send may return as soon as MPI has a copy of the message, or  *)
(* only when the message is received; no call of MPI fails.                *)
(***************************************************************************)
EXTENDS Integers, Sequences

CONSTANT last_rank        \* the last rank
ASSUME MpiAssumption == last_rank \in Nat

Ranks == 0..last_rank
MASTER == 0

VARIABLES
  ring,      \* mpi_ring, or else a ping pong
  copies,    \* Send returns before the message is received
  at,        \* where each rank is
  n_rank,    \* the rank that the master of a ping pong turns to
  mail,      \* the messages on their way
  told       \* history: who says "I am", by the number it says or was sent

mpiVars == <<ring, copies, at, n_rank, mail, told>>

MpiInit ==
  /\ ring \in BOOLEAN /\ copies \in BOOLEAN
  /\ at = [k \in Ranks |-> IF k = MASTER THEN "says" ELSE "recv"]
  /\ n_rank = 1
  /\ mail = {} /\ told = <<>>

-----------------------------------------------------------------------------
(* Whom rank k writes to and whom it waits for. *)
Target(k) == IF ring THEN k + 1 ELSE IF k = MASTER THEN n_rank ELSE MASTER
Source(k) == IF ring THEN k - 1 ELSE IF k = MASTER THEN n_rank ELSE MASTER

(* Mutant: everybody sends its own rank. *)
NumberOwn(k) == k

(* The number sent: one's own rank, except that the master of the ping pong
   sends the rank it writes to. *)
Number(k) == IF ~ring /\ k = MASTER THEN n_rank ELSE k

HasTarget(k) == Target(k) <= last_rank

MovesTo(k, place) == at' = [at EXCEPT ![k] = place]

(* The first line of rank 0. *)
Says ==
  /\ at[MASTER] = "says"
  /\ told' = Append(told, MASTER)
  /\ MovesTo(MASTER, IF HasTarget(MASTER) THEN "send" ELSE "done")
  /\ UNCHANGED <<ring, copies, n_rank, mail>>

MpiSend(k) ==
  /\ at[k] = "send"
  /\ mail' = mail \cup {[from |-> k, to |-> Target(k), mes |-> Number(k)]}
  /\ MovesTo(k, "sending")
  /\ UNCHANGED <<ring, copies, n_rank, told>>

SendReturns(k) ==
  /\ at[k] = "sending"
  /\ copies \/ \A e \in mail : e.from # k
  /\ MovesTo(k, IF ~ring /\ k = MASTER THEN "recv" ELSE "done")
  /\ UNCHANGED <<ring, copies, n_rank, mail, told>>

(* Recv of a rank that then says its line: in the ring the number it received
   is its neighbour's, in a ping pong its own. *)
RankRecv(k) ==
  /\ at[k] = "recv" /\ k # MASTER
  /\ \E e \in mail :
       /\ e.from = Source(k) /\ e.to = k
       /\ mail' = mail \ {e}
       /\ told' = Append(told, IF ring THEN e.mes + 1 ELSE e.mes)
  /\ MovesTo(k, IF HasTarget(k) THEN "send" ELSE "done")
  /\ UNCHANGED <<ring, copies, n_rank>>

(* The answer; then the next rank, if there is one. *)
MasterRecv ==
  /\ at[MASTER] = "recv"
  /\ \E e \in mail : e.from = Source(MASTER) /\ e.to = MASTER /\ mail' = mail \ {e}
  /\ n_rank' = n_rank + 1
  /\ MovesTo(MASTER, IF n_rank' <= last_rank THEN "send" ELSE "done")
  /\ UNCHANGED <<ring, copies, told>>

MpiRankStep(k) == MpiSend(k) \/ SendReturns(k) \/ RankRecv(k)

MpiStep == Says \/ MasterRecv \/ \E k \in Ranks : MpiRankStep(k)

(* MPI::Finalize. *)
Finalized == (\A k \in Ranks : at[k] = "done") /\ UNCHANGED mpiVars

MpiNext == MpiStep \/ Finalized

(* Every rank that can go on does. *)
MpiFairSpec == MpiInit /\ [][MpiNext]_mpiVars /\ WF_mpiVars(MpiStep)
-----------------------------------------------------------------------------
(* The ranks have their turns in order, whether Send waits or not, each is told
   the number that is its due, and once the first has had its turn all of them
   come to their end with nothing left in the mail. *)
InTurn == INSTANCE Turns WITH First <- MASTER, Last <- last_rank, order <- told

MpiTakesTurns ==
  /\ InTurn!TurnsSpec
  /\ told # <<>> ~> [](mail = {} /\ Len(told) = last_rank + 1 /\ \A k \in Ranks : at[k] = "done")
=============================================================================
