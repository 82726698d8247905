------------------------------ MODULE MCParallel ------------------------------
(* What processes, ranks or threads wait for each other with, one at a time:   *)
(* the programs that pass a turn along or divide a computation, message/msg.c  *)
(* and those of ParProg/, and the lock of WindowsOS/RingBuffer.                *)
EXTENDS SemRing, MsgChain, MpiTurns, PSort, Sweep, RingBufLock

VARIABLE program

allVars == <<program, vars, msgVars, mpiVars, sortVars, sweepVars, eventVars>>

MCExp == [x \in 0..6 |-> <<1, 3, 2, 6, 4, 5, 1>>[x + 1]]

MCArrays == {<<2, 2, 1, 1, 1>>, <<1, 2, 1, 2, 1>>, <<2, 1, 2, 2, 1>>}

(* The programs that are not looked at stay in one initial state. *)
MCInit ==
  /\ program \in {"sem", "msg", "mpi", "sort", "sweep", "lock"}
  /\ EventInit /\ Init /\ MsgInit /\ MpiInit /\ SortInit /\ SweepInit
  /\ program # "sem" => exists
  /\ program # "mpi" => ring /\ copies
  /\ arr \in MCArrays
  /\ program # "sort" => arr = <<2, 2, 1, 1, 1>>
  /\ program # "sweep" => sign = 1 /\ y = [k \in 0..N |-> 1] /\ a[0][0] = 1

SemSteps == program = "sem" /\ UNCHANGED <<program, msgVars, mpiVars, sortVars, sweepVars, eventVars>>
MsgSteps == program = "msg" /\ UNCHANGED <<program, vars, mpiVars, sortVars, sweepVars, eventVars>>
MpiSteps == program = "mpi" /\ UNCHANGED <<program, vars, msgVars, sortVars, sweepVars, eventVars>>
SortSteps == program = "sort" /\ UNCHANGED <<program, vars, msgVars, mpiVars, sweepVars, eventVars>>
SweepSteps == program = "sweep" /\ UNCHANGED <<program, vars, msgVars, mpiVars, sortVars, eventVars>>

LockSteps ==
  program = "lock" /\ UNCHANGED <<program, vars, msgVars, mpiVars, sortVars, sweepVars>>

(* The first two may stop before their end: with a semaphore that is there
   already, a rank that exits early, a fork that fails. *)
Stops == program \in {"sem", "msg"} /\ UNCHANGED allVars

MCNext ==
  \/ SemSteps /\ Next
  \/ MsgSteps /\ MsgNext
  \/ MpiSteps /\ MpiNext
  \/ SortSteps /\ SortNext
  \/ SweepSteps /\ SweepNext
  \/ LockSteps /\ EventNext
  \/ Stops

(* The fairness of each program. *)
MCSpec ==
  /\ MCInit /\ [][MCNext]_allVars
  /\ WF_allVars(SemSteps /\ (Create \/ Abort))
  /\ \A r \in Rank : WF_allVars(SemSteps /\ RankStep(r))
  /\ WF_allVars(MsgSteps /\ ParentStep)
  /\ \A k \in Child : WF_allVars(MsgSteps /\ ChildStep(k))
  /\ WF_allVars(MpiSteps /\ MpiStep)
  /\ \A r \in SortRank : WF_allVars(SortSteps /\ SortStep(r))
  /\ WF_allVars(SortSteps /\ LastBarrier)
  /\ \A t \in Threads :
       WF_allVars(SweepSteps /\ (Iterate(t) \/ LeaveLoop(t) \/ Decide(t)))
  /\ \A t \in Thread : WF_allVars(LockSteps /\ Work(t))
  /\ \A t \in ReadLocker :
       SF_allVars(LockSteps /\ ReadLockWait(t)) /\ SF_allVars(LockSteps /\ ReadUnLockWait(t))
  /\ \A t \in WriteLocker : SF_allVars(LockSteps /\ WriteLockWait(t))

(* What each program comes to for good, if it is the one that runs.  The
   semaphore: every rank has its turn, or one aborts, or exits too early. *)
SemEnds == []<>(program = "sem" => TurnsOrEarlyExit)

(* The queue: the line ends or a fork fails, and the children end. *)
MsgEnds == []<>(program = "msg" => LineEnds)

(* The sort: the array is sorted whole on ROOT. *)
SortEnds == []<>(program = "sort" => Sorted)
=============================================================================
