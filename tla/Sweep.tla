-------------------------------- MODULE Sweep --------------------------------
(***************************************************************************)
(* ParProg/OpenMp/sweep, sweepB1.cpp and sweepB2.cpp: Newton's iterations  *)
(* for a boundary problem.  Each computes the correction v from a system   *)
(* of three diagonals, which is reduced level by level until one equation  *)
(* is left and solved back again; each loop is divided among the threads,  *)
(* which wait for each other at its end, and every thread decides for      *)
(* itself whether another iteration is needed.                             *)
(* Numbers are those of the field of P elements; what a new array holds is *)
(* arbitrary.  External: exp is an arbitrary function.                     *)
(***************************************************************************)
EXTENDS Integers, FiniteSets

CONSTANTS
  R,          \* levels of the reduction: 12
  Threads,    \* numThreads, as 0..3
  P,          \* bound: a prime, the size of the field
  K,          \* h * h / 12
  Exp,        \* the values of exp
  Eps,        \* eps, as a number of elements
  Edges,      \* the values of p, b in main
  Junk        \* what the memory of a new array may be filled with

ASSUME SweepAssumption ==
  /\ R \in Nat \ {0} /\ P \in Nat \ {0, 1} /\ K \in 0..P - 1 /\ Eps \in Nat
  /\ Exp \in [0..P - 1 -> 0..P - 1]
  /\ Threads = 0..Cardinality(Threads) - 1

N == 2 ^ R
offset(i) == 2 ^ i

VARIABLES
  sign,        \* -1 in sweepB1 and 1 in sweepB2: the sign of the terms with exp
  a, b, c, g,  \* the equations of each level
  y, v,        \* the solution so far and its correction
  loop,        \* the loop each thread is in
  done         \* how many iterations of its share of it each thread has done

sweepVars == <<sign, a, b, c, g, y, v, loop, done>>

-----------------------------------------------------------------------------
(* The loops in order: the coefficients (0), the reductions (1 to R - 1), the
   solutions from level R - 1 down to 0, and the sum; after it norm. *)
SumLoop  == 2 * R
NormLoop == 2 * R + 1
Level(l) == IF l < R THEN l ELSE 2 * R - 1 - l

(* The first index of a loop, its step and its last possible index. *)
FirstIndex(l) == IF l = 0 THEN 1 ELSE IF l = SumLoop THEN 0 ELSE offset(Level(l))
By(l)   == IF l \in {0, SumLoop} THEN 1
           ELSE IF l < R THEN offset(l) ELSE 2 * offset(Level(l))
UpTo(l) == IF l = SumLoop THEN N ELSE N - 1

Count(l) == (UpTo(l) - FirstIndex(l)) \div By(l) + 1

(* The share of thread t: an equal part in one piece. *)
Piece(l) == (Count(l) + Cardinality(Threads) - 1) \div Cardinality(Threads)
ShareOf(t, l) ==
  LET rest == Count(l) - t * Piece(l)
  IN IF rest < 0 THEN 0 ELSE IF rest < Piece(l) THEN rest ELSE Piece(l)

Index(t, l) == FirstIndex(l) + By(l) * (t * Piece(l) + done[t])

-----------------------------------------------------------------------------
(* Arithmetic; x / 0 is 0 here. *)
Num(x) == x % P
Over(x) == Num(x) ^ (P - 2) % P

ExpOf(x) == Exp[Num(-sign * x)]

(* 5 / 6 is a division of integers. *)
CoefA(z, i) == Num(1 + sign * K * ExpOf(z[i - 1]))
CoefB(z, i) == Num(-2 + sign * (5 \div 6) * 12 * K * ExpOf(z[i]))
CoefC(z, i) == Num(1 + sign * K * ExpOf(z[i + 1]))
CoefG(z, i) == Num(K * (ExpOf(z[i + 1]) + 10 * ExpOf(z[i]) + ExpOf(z[i - 1]))
                   - (z[i - 1] - 2 * z[i] + z[i + 1]))

Coefficients(i) ==
  /\ a' = [a EXCEPT ![0][i] = CoefA(y, i)]
  /\ b' = [b EXCEPT ![0][i] = CoefB(y, i)]
  /\ c' = [c EXCEPT ![0][i] = CoefC(y, i)]
  /\ g' = [g EXCEPT ![0][i] = CoefG(y, i)]
  /\ UNCHANGED <<y, v>>

Reduce(i, j) ==
  LET prev == j - offset(i) \div 2
      next == j + offset(i) \div 2
      k == i - 1
      l == a[k][j] * Over(b[k][prev])
      r == c[k][j] * Over(b[k][next])
  IN /\ a' = [a EXCEPT ![i][j] = Num(-a[k][prev] * l)]
     /\ b' = [b EXCEPT ![i][j] = Num(b[k][j] - l * c[k][prev] - r * a[k][next])]
     /\ c' = [c EXCEPT ![i][j] = Num(-c[k][next] * r)]
     /\ g' = [g EXCEPT ![i][j] = Num(g[k][j] - l * g[k][prev] - r * g[k][next])]
     /\ UNCHANGED <<y, v>>

Solve(i, j) ==
  /\ v' = [v EXCEPT ![j] =
       Num((g[i][j] - c[i][j] * v[j + offset(i)] - a[i][j] * v[j - offset(i)]) * Over(b[i][j]))]
  /\ UNCHANGED <<a, b, c, g, y>>

Add(i) ==
  /\ y' = [y EXCEPT ![i] = Num(@ + v[i])]
  /\ UNCHANGED <<a, b, c, g, v>>

Body(l, j) ==
  \/ l = 0 /\ Coefficients(j)
  \/ l \in 1..R - 1 /\ Reduce(l, j)
  \/ l \in R..SumLoop - 1 /\ Solve(Level(l), j)
  \/ l = SumLoop /\ Add(j)

-----------------------------------------------------------------------------
(* new double[N + 1] is not initialised. *)
SweepInit ==
  /\ sign \in {-1, 1}
  /\ \E junk \in Junk :
       /\ a = [i \in 0..R - 1 |-> [j \in 0..N |-> junk]]
       /\ b = a /\ c = a
       /\ g = [a EXCEPT ![0][0] = 0, ![0][N] = 0]
       /\ v = [j \in 0..N |-> IF j \in {0, N} THEN 0 ELSE junk]
  /\ \E p \in Edges : y = [i \in 0..N |-> Num(1 + (p - 1) * i)]
  /\ loop = [t \in Threads |-> 0]
  /\ done = [t \in Threads |-> 0]

Iterate(t) ==
  /\ loop[t] < NormLoop /\ done[t] < ShareOf(t, loop[t])
  /\ Body(loop[t], Index(t, loop[t]))
  /\ done' = [done EXCEPT ![t] = @ + 1]
  /\ UNCHANGED <<sign, loop>>

AtEnd(t) == loop[t] < NormLoop /\ done[t] = ShareOf(t, loop[t])

(* Mutant: "omp for nowait". *)
ReleasedNoWait == {t \in Threads : AtEnd(t)}

(* The end of "omp for": nobody goes on before everybody is there. *)
Released == IF \A t \in Threads : AtEnd(t) THEN Threads ELSE {}

LeaveLoop(t) ==
  /\ t \in Released
  /\ loop' = [u \in Threads |-> IF u \in Released THEN loop[u] + 1 ELSE loop[u]]
  /\ done' = [u \in Threads |-> IF u \in Released THEN 0 ELSE done[u]]
  /\ UNCHANGED <<sign, a, b, c, g, y, v>>

(* norm: here the number of elements that are not 0. *)
norm == Cardinality({i \in 0..N : v[i] # 0})

Left == NormLoop + 1

Decide(t) ==
  /\ loop[t] = NormLoop
  /\ loop' = [loop EXCEPT ![t] = IF norm > Eps THEN 0 ELSE Left]
  /\ UNCHANGED <<sign, a, b, c, g, y, v, done>>

SweepStep == \E t \in Threads : Iterate(t) \/ LeaveLoop(t) \/ Decide(t)

(* The end of the parallel region. *)
AllLeft == (\A t \in Threads : loop[t] = Left) /\ UNCHANGED sweepVars

SweepNext == SweepStep \/ AllLeft

(* Every thread that can go on does. *)
SweepFairSpec ==
  /\ SweepInit /\ [][SweepNext]_sweepVars
  /\ \A t \in Threads : WF_sweepVars(Iterate(t) \/ LeaveLoop(t) \/ Decide(t))
-----------------------------------------------------------------------------
(* Whenever a thread looks at v, v solves the equations that y gave before v was
   added to it, unless one of the numbers that were divided by was 0; and if one
   thread leaves the iterations then all of them do. *)
Before == [i \in 0..N |-> Num(y[i] - v[i])]

Divisors == {CoefB(Before, j) : j \in 1..N - 1} \cup
            UNION {{b[i][j] : j \in {k * offset(i) : k \in 1..2 ^ (R - i) - 1}} : i \in 1..R - 1}

Solved ==
  \A i \in 1..N - 1 :
    Num(CoefA(Before, i) * v[i - 1] + CoefB(Before, i) * v[i] + CoefC(Before, i) * v[i + 1])
      = CoefG(Before, i)

SweepSolves ==
  /\ []((\E t \in Threads : loop[t] = NormLoop) /\ 0 \notin Divisors => Solved)
  /\ (\E t \in Threads : loop[t] = Left) ~> (\A t \in Threads : loop[t] = Left)
=============================================================================
