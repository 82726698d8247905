------------------------------- MODULE PSort -------------------------------
(* ParProg/MPI/sort/psort.cpp.  An array is scattered over `size` ranks,    *)
(* each sorts its part, and the parts are merged up a binary tree: in round *)
(* i a rank that is a multiple of 2^(i+1) receives from rank + 2^i, if there *)
(* is one, and every other rank sends all it has to rank - 2^i and leaves.  *)
(* A part goes as two messages, its length (tag ONE) and its numbers (tag   *)
(* TWO).  MPI may return from Send before or after the message is received. *)
EXTENDS Integers, Sequences, FiniteSets

CONSTANTS size,    \* number of ranks
          Asked,   \* argv[1]: how many numbers to sort
          Values   \* the numbers mrand48 may give

ASSUME SizeAssumption == size \in Nat \ {0} /\ Asked \in Nat
ASSUME ValuesAssumption == Values \subseteq Int

SortRank == 0 .. size - 1
ROOT == 0

num == IF Asked % size = 0 THEN Asked ELSE Asked + size - (Asked % size)
mn == num \div size

VARIABLES arr,     \* the array on ROOT
          war,     \* every rank's part; its length is mn in the code
          rn,      \* the length a rank was told
          round,   \* the round of a rank
          place,
          length, numbers  \* what a rank sent with tag ONE, TWO, until received

sortVars == <<arr, war, rn, round, place, length, numbers>>

SortInit ==
    /\ arr \in [1 .. num -> Values]
    /\ war = [r \in SortRank |-> SubSeq(arr, r * mn + 1, (r + 1) * mn)]
    /\ rn = [r \in SortRank |-> 0]
    /\ round = [r \in SortRank |-> 0]
    /\ place = [r \in SortRank |-> "qsort"]
    /\ length = [r \in SortRank |-> <<>>]
    /\ numbers = [r \in SortRank |-> <<>>]

\* Where a rank finds itself at the head of round k.
Step(k) == 2 ^ k
Receives(r, k) == r % (2 * Step(k)) = 0
(* Mutant: the last rank is never anybody's partner.                         *)
AloneOneOff(r, k) == r + Step(k) >= size - 1
Alone(r, k) == r + Step(k) >= size
From(r) == r + Step(round[r])

\* qsort with cmp: where each number goes.
Goes(s, k) == Cardinality({j \in DOMAIN s : s[j] < s[k] \/ (s[j] = s[k] /\ j <= k)})
qsort(s) == [k \in DOMAIN s |-> s[CHOOSE j \in DOMAIN s : Goes(s, j) = k]]

Sort(r) ==
    /\ place[r] = "qsort"
    /\ war' = [war EXCEPT ![r] = qsort(@)]
    /\ place' = [place EXCEPT ![r] = "loop"]
    /\ UNCHANGED <<arr, rn, round, length, numbers>>

Round(r) ==
    /\ place[r] = "loop"
    /\ IF Step(round[r]) >= size
         THEN place' = [place EXCEPT ![r] = "barrier"] /\ UNCHANGED round
       ELSE IF ~Receives(r, round[r])
         THEN place' = [place EXCEPT ![r] = "send"] /\ UNCHANGED round
       ELSE IF Alone(r, round[r])
         THEN round' = [round EXCEPT ![r] = @ + 1] /\ UNCHANGED place
       ELSE place' = [place EXCEPT ![r] = "recv"] /\ UNCHANGED round
    /\ UNCHANGED <<arr, war, rn, length, numbers>>

SendLength(r) ==
    /\ place[r] = "send"
    /\ length' = [length EXCEPT ![r] = <<Len(war[r])>>]
    /\ place' = [place EXCEPT ![r] = "sendnumbers"]
    /\ UNCHANGED <<arr, war, rn, round, numbers>>

SendNumbers(r) ==
    /\ place[r] = "sendnumbers"
    /\ numbers' = [numbers EXCEPT ![r] = <<war[r]>>]
    /\ place' = [place EXCEPT ![r] = "sent"]
    /\ UNCHANGED <<arr, war, rn, round, length>>

\* Send has returned: the message may or may not have been received.
Sent(r) ==
    /\ place[r] = "sent"
    /\ place' = [place EXCEPT ![r] = "barrier"]
    /\ UNCHANGED <<arr, war, rn, round, length, numbers>>

ReceiveLength(r) ==
    /\ place[r] = "recv" /\ length[From(r)] # <<>>
    /\ rn' = [rn EXCEPT ![r] = Head(length[From(r)])]
    /\ length' = [length EXCEPT ![From(r)] = <<>>]
    /\ place' = [place EXCEPT ![r] = "recvnumbers"]
    /\ UNCHANGED <<arr, war, round, numbers>>

\* The turns of the loop over (is, it): where it takes from sar, and is after
\* id turns; it is then id - is.
TakesSar(sar, tar, is, it) == is < Len(sar) /\ (it = Len(tar) \/ sar[is + 1] < tar[it + 1])
Taken(sar, tar) ==
    LET is[id \in 0 .. Len(sar) + Len(tar)] ==
          IF id = 0 THEN 0
          ELSE is[id - 1] + (IF TakesSar(sar, tar, is[id - 1], (id - 1) - is[id - 1]) THEN 1 ELSE 0)
    IN  is

(* Mutant: the loop ends when one of the arrays is used up.                 *)
MergeShort(sar, tar) ==
    LET is == Taken(sar, tar)
        both == {id \in 1 .. Len(sar) + Len(tar) : is[id - 1] < Len(sar) /\ (id - 1) - is[id - 1] < Len(tar)}
    IN  [id \in both |-> IF is[id] # is[id - 1] THEN sar[is[id]] ELSE tar[id - is[id]]]
Merge(sar, tar) ==
    LET is == Taken(sar, tar)
    IN  [id \in 1 .. Len(sar) + Len(tar) |->
            IF is[id] # is[id - 1] THEN sar[is[id]] ELSE tar[id - is[id]]]

ReceiveNumbers(r) ==
    /\ place[r] = "recvnumbers" /\ numbers[From(r)] # <<>>
    /\ war' = [war EXCEPT ![r] = Merge(@, Head(numbers[From(r)]))]
    /\ numbers' = [numbers EXCEPT ![From(r)] = <<>>]
    /\ round' = [round EXCEPT ![r] = @ + 1]
    /\ place' = [place EXCEPT ![r] = "loop"]
    /\ UNCHANGED <<arr, rn, length>>

CheckSort(s) == \A k \in 2 .. Len(s) : s[k] >= s[k - 1]

LastBarrier ==
    /\ \A r \in SortRank : place[r] = "barrier"
    /\ place' = [r \in SortRank |->
                 IF r # ROOT THEN "exit"
                 ELSE IF CheckSort(war[ROOT]) THEN "success" ELSE "fail"]
    /\ UNCHANGED <<arr, war, rn, round, length, numbers>>

Done == \A r \in SortRank : place[r] \in {"exit", "success", "fail"}
Finished == Done /\ UNCHANGED sortVars

SortStep(r) ==
    \/ Sort(r) \/ Round(r) \/ SendLength(r) \/ SendNumbers(r) \/ Sent(r)
    \/ ReceiveLength(r) \/ ReceiveNumbers(r)

SortNext == (\E r \in SortRank : SortStep(r)) \/ LastBarrier \/ Finished

SortSpec == SortInit /\ [][SortNext]_sortVars

\* Every rank is a process of its own.
SortFairSpec == SortSpec /\ (\A r \in SortRank : WF_sortVars(SortStep(r))) /\ WF_sortVars(LastBarrier)

-----------------------------------------------------------------------------
Occurrences(s, v) == Cardinality({k \in DOMAIN s : s[k] = v})

\* A rank that has sent its part is no longer its owner.
Owns(r) == \/ place[r] \notin {"sent", "barrier", "exit"}
           \/ place[r] \in {"barrier", "exit"} /\ Step(round[r]) >= size
Parts == {<<"war", r>> : r \in {q \in SortRank : Owns(q)}}
            \cup {<<"message", r>> : r \in {q \in SortRank : numbers[q] # <<>>}}
Part(p) == IF p[1] = "war" THEN war[p[2]] ELSE Head(numbers[p[2]])

\* The numbers there are, each at its place in a part.
Cells == UNION {{p} \X DOMAIN Part(p) : p \in Parts}

(* Wherever the ranks are, every number of the array is in exactly one      *)
(* rank's part or one message: merging neither loses nor duplicates.        *)
NothingLost ==
    \A v \in Values : Occurrences(arr, v) = Cardinality({c \in Cells : Part(c[1])[c[2]] = v})

(* The numbers a rank receives are as many as it was told: they fit rarr.   *)
LengthIsTold ==
    \A r \in SortRank :
        (place[r] = "recvnumbers" /\ numbers[From(r)] # <<>>)
            => Len(Head(numbers[From(r)])) = rn[r]

SortInv == NothingLost /\ LengthIsTold

(* Whatever the number of ranks, no rank waits for a message that is never  *)
(* sent: all come to the last barrier, and ROOT then holds the whole array. *)
Sorted == Done /\ place[ROOT] = "success" /\ Len(war[ROOT]) = num
=============================================================================
