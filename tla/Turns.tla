------------------------------- MODULE Turns -------------------------------
(***************************************************************************)
(* What the programs that pass a turn along promise: the processes First,  *)
(* First + 1, ... act once each and in this order.  Linux/message/msg.c    *)
(* does it with a message queue, ParProg/MPI/ring/sem_mpi_ring.c and       *)
(* ParProg/MPI/syn/syn.c with one semaphore.                               *)
(***************************************************************************)
EXTENDS Integers, Sequences

CONSTANTS First, Last

VARIABLE order      \* the processes that had their turn

TurnsInit == order = <<>>

Turn ==
  /\ First + Len(order) <= Last
  /\ order' = Append(order, First + Len(order))

TurnsSpec == TurnsInit /\ [][Turn]_order
=============================================================================
