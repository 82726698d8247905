--------------------------- MODULE ParallelProofs ---------------------------
(***************************************************************************)
(* Proofs about the programs whose ranks divide a computation or take      *)
(* turns, for any number of ranks, children and numbers: PSort loses no    *)
(* number and ends with the array sorted; SemRing, MsgChain and MpiTurns    *)
(* have inductive invariants of their own, and each implements Turns.      *)
(***************************************************************************)
EXTENDS SemRing, MsgChain, MpiTurns, PSort, FiniteSetTheorems, NaturalsInduction, TLAPS

(* Powers of two, as the subsets of 1..k. *)
LEMMA PowerCounts ==
  ASSUME NEW k \in Nat
  PROVE  2^k = Cardinality(SUBSET (1..k)) /\ IsFiniteSet(SUBSET (1..k)) /\ 2^k \in Nat
  <1>1. IsFiniteSet(1..k) /\ Cardinality(1..k) = k
    BY FS_Interval
  <1>2. IsFiniteSet(SUBSET (1..k)) /\ Cardinality(SUBSET (1..k)) = 2^k
    BY <1>1, FS_SUBSET
  <1> QED
    BY <1>2, FS_CardinalityType

LEMMA PowerOfZero == 2^0 = 1
  <1>1. SUBSET (1..0) = {{}}
    OBVIOUS
  <1> QED
    BY <1>1, PowerCounts, FS_Singleton

LEMMA PowerDoubles ==
  ASSUME NEW k \in Nat
  PROVE  2^(k + 1) = 2 * 2^k
  <1> DEFINE Without == SUBSET (1..k)
             With == {X \union {k + 1} : X \in Without}
             adds == [X \in Without |-> X \union {k + 1}]
  <1>1. IsFiniteSet(Without) /\ Cardinality(Without) = 2^k /\ 2^k \in Nat
    BY PowerCounts
  <1>2. adds \in Bijection(Without, With)
    <2>1. \A X \in Without : k + 1 \notin X
      OBVIOUS
    <2>2. \A X, Y \in Without : X \union {k + 1} = Y \union {k + 1} => X = Y
      BY <2>1
    <2>3. adds \in [Without -> With]
      OBVIOUS
    <2>4. \A X \in Without : adds[X] = X \union {k + 1}
      OBVIOUS
    <2>5. \A Y \in With : \E X \in Without : adds[X] = Y
      OBVIOUS
    <2> HIDE DEF Without, With, adds
    <2> QED
      BY <2>2, <2>3, <2>4, <2>5 DEF Bijection, Injection, Surjection, IsInjective
  <1>3. IsFiniteSet(With) /\ Cardinality(With) = 2^k
    <2> HIDE DEF Without, With, adds
    <2>1. ExistsBijection(Without, With)
      BY <1>2 DEF ExistsBijection
    <2> QED
      BY <1>1, <2>1, FS_Bijection
  <1>4. Without \intersect With = {}
    OBVIOUS
  <1>5. SUBSET (1..k + 1) = Without \union With
    <2>1. ASSUME NEW X \in SUBSET (1..k + 1) PROVE X \in Without \union With
      <3>1. CASE k + 1 \in X
        <4>1. X \ {k + 1} \in Without /\ X = (X \ {k + 1}) \union {k + 1}
          BY <3>1
        <4> QED
          BY <4>1
      <3>2. CASE k + 1 \notin X
        BY <3>2
      <3> QED
        BY <3>1, <3>2
    <2>2. Without \subseteq SUBSET (1..k + 1) /\ With \subseteq SUBSET (1..k + 1)
      <3>1. 1..k \subseteq 1..k + 1 /\ k + 1 \in 1..k + 1
        OBVIOUS
      <3> QED
        BY <3>1
    <2> HIDE DEF Without, With
    <2> QED
      BY <2>1, <2>2
  <1>6. Cardinality(Without \union With) = 2^k + 2^k - 0
    <2> HIDE DEF Without, With
    <2> QED
      BY <1>1, <1>3, <1>4, FS_Union, FS_EmptySet
  <1> HIDE DEF Without, With
  <1>7. 2^(k + 1) = Cardinality(SUBSET (1..k + 1))
    BY PowerCounts
  <1>8. \A x \in Nat : x + x - 0 = 2 * x
    OBVIOUS
  <1>9. 2^(k + 1) = 2^k + 2^k - 0
    BY <1>5, <1>6, <1>7
  <1> QED
    BY <1>1, <1>8, <1>9

LEMMA PowerIsPositive ==
  ASSUME NEW k \in Nat
  PROVE  2^k \in Nat /\ 2^k >= 1
  <1>1. {} \in SUBSET (1..k)
    OBVIOUS
  <1>2. 2^k \in Nat /\ IsFiniteSet(SUBSET (1..k)) /\ 2^k = Cardinality(SUBSET (1..k))
    BY PowerCounts
  <1>3. Cardinality(SUBSET (1..k)) # 0
    BY <1>1, <1>2, FS_EmptySet
  <1> QED
    BY <1>2, <1>3

(* A set of naturals has a least element. *)
LEMMA LeastElement ==
  ASSUME NEW T \in SUBSET Nat, T # {}
  PROVE  \E x \in T : \A y \in T : x <= y
  <1>1. IsWellFoundedOn(OpToRel(<, Nat), Nat)
    BY NatLessThanWellFounded
  <1>2. \E x \in T : \A y \in T : ~ (<<y, x>> \in OpToRel(<, Nat))
    BY <1>1, WFMin
  <1>3. PICK x \in T : \A y \in T : ~ (<<y, x>> \in OpToRel(<, Nat))
    BY <1>2
  <1>4. \A y \in T : ~(y < x)
    BY <1>3 DEF OpToRel
  <1> QED
    BY <1>4

(* The steps of the tree, as powers of two. *)
LEMMA StepIs ==
  ASSUME NEW k \in Nat
  PROVE  Step(0) = 1 /\ Step(k) \in Nat /\ Step(k) >= 1 /\ Step(k + 1) = 2 * Step(k)
  BY PowerOfZero, PowerDoubles, PowerIsPositive DEF Step

LEMMA PositiveProduct ==
  ASSUME NEW x \in Nat, NEW y \in Nat, x >= 1, y >= 1
  PROVE  x * y \in Nat /\ x * y >= 1 /\ x * y >= x
  <1>1. PICK c \in Nat : y = c + 1
    BY y - 1 \in Nat
  <1>2. x * y = x * c + x /\ x * c \in Nat
    BY <1>1
  <1> QED
    BY <1>2

(* Remainders by multiples. *)
LEMMA RemainderOf ==
  ASSUME NEW d \in Nat, d >= 1, NEW x \in Nat
  PROVE  x = d * (x \div d) + (x % d) /\ x \div d \in Nat /\ x % d \in 0..d - 1
  OBVIOUS

LEMMA DividesIs ==
  ASSUME NEW d \in Nat, d >= 1, NEW x \in Nat
  PROVE  x % d = 0 <=> \E y \in Nat : x = d * y
  <1>1. ASSUME x % d = 0 PROVE \E y \in Nat : x = d * y
    <2>1. PICK q \in Nat : x = d * q + (x % d)
      BY RemainderOf
    <2>2. d * q \in Nat /\ x = d * q + 0
      BY <1>1, <2>1
    <2>3. x = d * q
      BY <2>2
    <2> QED
      BY <2>3
  <1>2. ASSUME NEW y \in Nat, x = d * y PROVE x % d = 0
    <2> DEFINE q == x \div d
               e == x % d
    <2>1. d * y = d * q + e /\ q \in Nat /\ e \in 0..d - 1
      BY <1>2, RemainderOf
    <2> HIDE DEF q, e
    <2>2. ASSUME q < y PROVE FALSE
      <3>1. PICK c \in Nat : y = (q + 1) + c
        BY <2>1, <2>2, y - (q + 1) \in Nat
      <3>2. d * y = d * q + d + d * c /\ d * c \in Nat /\ d * q \in Nat
        BY <2>1, <3>1
      <3> QED
        BY <2>1, <3>2
    <2>3. ASSUME y < q PROVE FALSE
      <3>1. PICK c \in Nat : q = (y + 1) + c
        BY <2>1, <2>3, q - (y + 1) \in Nat
      <3>2. d * q = d * y + d + d * c /\ d * c \in Nat /\ d * y \in Nat
        BY <2>1, <3>1
      <3> QED
        BY <2>1, <3>2
    <2>4. q = y
      BY <2>1, <2>2, <2>3
    <2>5. d * q \in Nat
      BY <2>1
    <2>6. e = 0
      BY <2>1, <2>4, <2>5
    <2> QED
      BY <2>6 DEF e
  <1> QED
    BY <1>1, <1>2

LEMMA DividesChain ==
  ASSUME NEW d \in Nat, d >= 1, NEW e \in Nat, e >= 1, e % d = 0, NEW x \in Nat, x % e = 0
  PROVE  x % d = 0
  <1>1. PICK y \in Nat : e = d * y
    BY DividesIs
  <1>2. PICK z \in Nat : x = e * z
    BY DividesIs
  <1>3. x = d * (y * z) /\ y * z \in Nat
    BY <1>1, <1>2
  <1> QED
    BY <1>3, DividesIs

LEMMA StepDivides ==
  ASSUME NEW k \in Nat, NEW l \in Nat, k <= l
  PROVE  Step(l) % Step(k) = 0 /\ Step(k) <= Step(l)
  <1> DEFINE Fails == {c \in Nat : ~(Step(k + c) % Step(k) = 0 /\ Step(k) <= Step(k + c))}
  <1>p. Step(k) \in Nat /\ Step(k) >= 1
    BY StepIs
  <1>1. 0 \notin Fails
    <2>1. Step(k) = Step(k) * 1 /\ k + 0 = k
      BY <1>p
    <2> QED
      BY <1>p, <2>1, DividesIs
  <1>2. ASSUME NEW c \in Nat, c \notin Fails PROVE c + 1 \notin Fails
    <2>1. Step(k + (c + 1)) = 2 * Step(k + c) /\ Step(k + c) \in Nat /\ Step(k + c) >= 1
      <3>1. k + c \in Nat /\ k + (c + 1) = (k + c) + 1
        OBVIOUS
      <3> QED
        BY <3>1, StepIs
    <2>2. PICK y \in Nat : Step(k + c) = Step(k) * y
      BY <1>2, <1>p, <2>1, DividesIs
    <2>3. Step(k + (c + 1)) = Step(k) * (2 * y) /\ 2 * y \in Nat /\ Step(k + (c + 1)) \in Nat
      BY <1>p, <2>1, <2>2
    <2>4. Step(k + (c + 1)) % Step(k) = 0
      BY <1>p, <2>3, DividesIs
    <2>5. Step(k) <= Step(k + (c + 1))
      BY <1>2, <2>1, <1>p
    <2> QED
      BY <2>4, <2>5
  <1>3. Fails = {}
    <2> SUFFICES ASSUME Fails # {} PROVE FALSE
      OBVIOUS
    <2>1. Fails \in SUBSET Nat
      OBVIOUS
    <2> HIDE DEF Fails
    <2>2. PICK c \in Fails : \A y \in Fails : c <= y
      BY <2>1, LeastElement
    <2>3. c \in Nat /\ c # 0 /\ c - 1 \in Nat /\ c - 1 \notin Fails /\ (c - 1) + 1 = c
      BY <1>1, <2>1, <2>2
    <2> QED
      BY <1>2, <2>2, <2>3
  <1>4. l - k \in Nat /\ k + (l - k) = l
    OBVIOUS
  <1> QED
    BY <1>3, <1>4

LEMMA StepGrows ==
  ASSUME NEW k \in Nat, NEW l \in Nat, Step(k) < Step(l)
  PROVE  k < l
  BY StepDivides, StepIs

(* A rank that is at the head of no round k comes after a head of that round. *)
LEMMA PartnerIs ==
  ASSUME NEW k \in Nat, NEW q \in Nat, q % Step(k) = 0, ~Receives(q, k)
  PROVE  q - Step(k) \in Nat /\ Receives(q - Step(k), k) /\ (q - Step(k)) + Step(k) = q
  <1>s. Step(k) \in Nat /\ Step(k) >= 1 /\ 2 * Step(k) \in Nat /\ 2 * Step(k) >= 1
    BY StepIs
  <1>1. PICK y \in Nat : q = Step(k) * y
    BY <1>s, DividesIs
  <1>2. PICK z \in Nat : y = 2 * z \/ y = 2 * z + 1
    BY y \div 2 \in Nat
  <1>3. Step(k) * (2 * z) = (2 * Step(k)) * z /\ Step(k) * (2 * z + 1) = Step(k) * (2 * z) + Step(k)
        /\ Step(k) * (2 * z) \in Nat
    BY <1>s
  <1>4. CASE y = 2 * z
    <2>1. q = (2 * Step(k)) * z
      BY <1>1, <1>3, <1>4
    <2>2. q % (2 * Step(k)) = 0
      BY <2>1, <1>s, DividesIs
    <2> QED
      BY <2>2 DEF Receives
  <1>5. CASE y = 2 * z + 1
    <2>1. q - Step(k) = (2 * Step(k)) * z /\ q - Step(k) \in Nat
      BY <1>1, <1>3, <1>5, <1>s
    <2>2. (q - Step(k)) % (2 * Step(k)) = 0
      BY <2>1, <1>s, DividesIs
    <2> QED
      BY <2>1, <2>2, <1>s DEF Receives
  <1> QED
    BY <1>2, <1>4, <1>5

(* The partner a head of round k receives from is at the head of earlier rounds
   only. *)
LEMMA PartnerSends ==
  ASSUME NEW k \in Nat, NEW x \in Nat, Receives(x, k)
  PROVE  (x + Step(k)) % Step(k) = 0 /\ ~Receives(x + Step(k), k) /\ x % Step(k) = 0
  <1>s. Step(k) \in Nat /\ Step(k) >= 1 /\ 2 * Step(k) \in Nat /\ 2 * Step(k) >= 1
    BY StepIs
  <1>1. PICK y \in Nat : x = (2 * Step(k)) * y
    BY <1>s, DividesIs DEF Receives
  <1>2. x + Step(k) = Step(k) * (2 * y + 1) /\ 2 * y + 1 \in Nat /\ x = Step(k) * (2 * y) /\ 2 * y \in Nat
        /\ x + Step(k) \in Nat
    BY <1>1, <1>s
  <1>3. (x + Step(k)) % Step(k) = 0 /\ x % Step(k) = 0
    BY <1>2, <1>s, DividesIs
  <1>4. ASSUME Receives(x + Step(k), k) PROVE FALSE
    <2>1. PICK z \in Nat : x + Step(k) = (2 * Step(k)) * z
      BY <1>2, <1>4, <1>s, DividesIs DEF Receives
    <2>2. Step(k) * (2 * y + 1) = Step(k) * (2 * z)
      BY <1>2, <2>1, <1>s
    <2>3. \A a, b \in Nat : Step(k) * a = Step(k) * b => a = b
      BY <1>s
    <2>4. 2 * y + 1 = 2 * z
      BY <2>2, <2>3
    <2> QED
      BY <2>4
  <1> QED
    BY <1>3, <1>4

LEMMA HeadOfEarlier ==
  ASSUME NEW k \in Nat, NEW l \in Nat, l < k, NEW x \in Nat, x % Step(k) = 0
  PROVE  Receives(x, l)
  <1>1. l + 1 \in Nat /\ l + 1 <= k
    OBVIOUS
  <1>2. Step(l + 1) = 2 * Step(l) /\ Step(l + 1) \in Nat /\ Step(l + 1) >= 1 /\ Step(k) \in Nat /\ Step(k) >= 1
    BY <1>1, StepIs
  <1>3. Step(k) % Step(l + 1) = 0
    BY <1>1, StepDivides
  <1> QED
    BY <1>2, <1>3, DividesChain DEF Receives

(* So a rank leaves the tree in one round. *)
LEMMA OneRound ==
  ASSUME NEW k \in Nat, NEW l \in Nat, NEW x \in Nat, x % Step(k) = 0, ~Receives(x, k),
         x % Step(l) = 0, ~Receives(x, l)
  PROVE  k = l
  BY HeadOfEarlier

-----------------------------------------------------------------------------
(* What qsort and Merge do with the numbers. *)
Below(s, k) == {j \in DOMAIN s : s[j] < s[k] \/ (s[j] = s[k] /\ j <= k)}

LEMMA ValuesAreInts ==
  ASSUME NEW s \in Seq(Values)
  PROVE  s \in Seq(Int) /\ Len(s) \in Nat /\ DOMAIN s = 1..Len(s) /\ \A k \in DOMAIN s : s[k] \in Values /\ s[k] \in Int
  <1>1. Len(s) \in Nat /\ DOMAIN s = 1..Len(s) /\ s \in [1..Len(s) -> Values]
    OBVIOUS
  <1>2. s \in [1..Len(s) -> Int]
    BY <1>1, ValuesAssumption
  <1> QED
    BY <1>1, <1>2, ValuesAssumption

LEMMA GoesGrows ==
  ASSUME NEW s \in Seq(Int), NEW j \in DOMAIN s, NEW k \in DOMAIN s, j # k, j \in Below(s, k)
  PROVE  Goes(s, j) < Goes(s, k)
  <1>l. Len(s) \in Nat /\ DOMAIN s = 1..Len(s) /\ \A u \in DOMAIN s : s[u] \in Int
    OBVIOUS
  <1>1. IsFiniteSet(Below(s, k)) /\ Cardinality(Below(s, k)) \in Nat
        /\ IsFiniteSet(Below(s, j)) /\ Cardinality(Below(s, j)) \in Nat
    <2>1. IsFiniteSet(DOMAIN s)
      BY <1>l, FS_Interval
    <2>2. Below(s, k) \in SUBSET DOMAIN s /\ Below(s, j) \in SUBSET DOMAIN s
      BY DEF Below
    <2> QED
      BY <2>1, <2>2, FS_Subset, FS_CardinalityType
  <1>2. Below(s, j) \in SUBSET Below(s, k)
    BY <1>l DEF Below
  <1>3. k \in Below(s, k) /\ k \notin Below(s, j)
    BY <1>l DEF Below
  <1>4. Cardinality(Below(s, j)) <= Cardinality(Below(s, k))
        /\ Cardinality(Below(s, j)) # Cardinality(Below(s, k))
    BY <1>1, <1>2, <1>3, FS_Subset
  <1> QED
    BY <1>1, <1>4 DEF Goes, Below

LEMMA GoesIsBijection ==
  ASSUME NEW s \in Seq(Int)
  PROVE  [k \in DOMAIN s |-> Goes(s, k)] \in Bijection(DOMAIN s, DOMAIN s)
  <1> DEFINE g == [k \in DOMAIN s |-> Goes(s, k)]
  <1>l. Len(s) \in Nat /\ DOMAIN s = 1..Len(s) /\ \A u \in DOMAIN s : s[u] \in Int
    OBVIOUS
  <1>f. IsFiniteSet(DOMAIN s) /\ Cardinality(DOMAIN s) = Len(s)
    BY <1>l, FS_Interval
  <1>1. \A k \in DOMAIN s : Goes(s, k) \in DOMAIN s
    <2> TAKE k \in DOMAIN s
    <2>1. Below(s, k) \in SUBSET DOMAIN s /\ k \in Below(s, k)
      BY <1>l DEF Below
    <2>2. IsFiniteSet(Below(s, k)) /\ Cardinality(Below(s, k)) \in Nat
          /\ Cardinality(Below(s, k)) <= Len(s) /\ Cardinality(Below(s, k)) # 0
      BY <1>f, <2>1, FS_Subset, FS_CardinalityType, FS_EmptySet
    <2> QED
      BY <1>l, <2>2 DEF Goes, Below
  <1>2. \A j, k \in DOMAIN s : j # k => Goes(s, j) # Goes(s, k)
    <2> SUFFICES ASSUME NEW j \in DOMAIN s, NEW k \in DOMAIN s, j # k
                 PROVE  Goes(s, j) # Goes(s, k)
      OBVIOUS
    <2>1. j \in Below(s, k) \/ k \in Below(s, j)
      BY <1>l DEF Below
    <2>2. Goes(s, j) < Goes(s, k) \/ Goes(s, k) < Goes(s, j)
      BY <2>1, GoesGrows
    <2>3. Goes(s, j) \in Nat /\ Goes(s, k) \in Nat
      BY <1>1, <1>l
    <2> QED
      BY <2>2, <2>3
  <1>3. g \in Injection(DOMAIN s, DOMAIN s)
    BY <1>1, <1>2 DEF Injection, IsInjective
  <1>4. g \in Surjection(DOMAIN s, DOMAIN s)
    <2> HIDE DEF g
    <2> QED
      BY <1>3, <1>f, FS_Injection
  <1> QED
    BY <1>3, <1>4 DEF Bijection

LEMMA QsortIs ==
  ASSUME NEW s \in Seq(Values)
  PROVE  /\ qsort(s) \in Seq(Values) /\ Len(qsort(s)) = Len(s) /\ DOMAIN qsort(s) = DOMAIN s
         /\ \A k \in DOMAIN s : Goes(s, k) \in DOMAIN s /\ qsort(s)[Goes(s, k)] = s[k]
         /\ CheckSort(qsort(s))
  <1> DEFINE from(k) == CHOOSE j \in DOMAIN s : Goes(s, j) = k
  <1>u. s \in Seq(Int)
    BY ValuesAreInts
  <1>l. Len(s) \in Nat /\ DOMAIN s = 1..Len(s) /\ \A k \in DOMAIN s : s[k] \in Values /\ s[k] \in Int
    BY ValuesAreInts
  <1>g. /\ \A k \in DOMAIN s : Goes(s, k) \in DOMAIN s
        /\ \A j, k \in DOMAIN s : Goes(s, j) = Goes(s, k) => j = k
        /\ \A k \in DOMAIN s : \E j \in DOMAIN s : Goes(s, j) = k
    <2> DEFINE g == [k \in DOMAIN s |-> Goes(s, k)]
    <2>1. g \in Bijection(DOMAIN s, DOMAIN s)
      BY <1>u, GoesIsBijection
    <2>2. \A k \in DOMAIN s : g[k] = Goes(s, k)
      OBVIOUS
    <2> HIDE DEF g
    <2> QED
      BY <2>1, <2>2 DEF Bijection, Injection, Surjection, IsInjective
  <1>f. \A k \in DOMAIN s : from(k) \in DOMAIN s /\ Goes(s, from(k)) = k
    BY <1>g
  <1>1. qsort(s) = [k \in 1..Len(s) |-> s[from(k)]]
    BY <1>l DEF qsort
  <1> HIDE DEF from
  <1>2. qsort(s) \in Seq(Values) /\ Len(qsort(s)) = Len(s) /\ DOMAIN qsort(s) = DOMAIN s
    BY <1>1, <1>f, <1>l
  <1>3. \A k \in DOMAIN s : qsort(s)[Goes(s, k)] = s[k]
    BY <1>1, <1>f, <1>g, <1>l
  <1>4. ASSUME NEW k \in 2..Len(s) PROVE qsort(s)[k] >= qsort(s)[k - 1]
    <2>1. k \in DOMAIN s /\ k - 1 \in DOMAIN s
      BY <1>l
    <2>2. from(k) \in DOMAIN s /\ from(k - 1) \in DOMAIN s /\ Goes(s, from(k)) = k /\ Goes(s, from(k - 1)) = k - 1
      BY <2>1, <1>f
    <2>3. ~(Goes(s, from(k)) < Goes(s, from(k - 1))) /\ from(k) # from(k - 1)
      BY <2>2
    <2>4. from(k) \notin Below(s, from(k - 1))
      BY <2>2, <2>3, <1>u, GoesGrows
    <2>5. ~(s[from(k)] < s[from(k - 1)])
      BY <2>2, <2>4 DEF Below
    <2> QED
      BY <2>1, <2>2, <2>5, <1>1, <1>l
  <1> QED
    BY <1>g, <1>2, <1>3, <1>4 DEF CheckSort

LEMMA TakenHasSolution ==
  ASSUME NEW sar \in Seq(Values), NEW tar \in Seq(Values)
  PROVE  \E is : is = [id \in 0 .. Len(sar) + Len(tar) |->
           IF id = 0 THEN 0
           ELSE is[id - 1] + (IF TakesSar(sar, tar, is[id - 1], (id - 1) - is[id - 1]) THEN 1 ELSE 0)]
  <1> DEFINE After(u, id) == u + (IF TakesSar(sar, tar, u, (id - 1) - u) THEN 1 ELSE 0)
             Solves(m) == \E g : g = [id \in 0..m |-> IF id = 0 THEN 0 ELSE After(g[id - 1], id)]
             T == {m \in Nat : ~Solves(m)}
  <1> HIDE DEF After
  <1>1. Solves(0)
    <2> DEFINE h == [id \in 0..0 |-> 0]
    <2>1. ASSUME NEW id \in 0..0 PROVE h[id] = IF id = 0 THEN 0 ELSE After(h[id - 1], id)
      OBVIOUS
    <2>2. h = [id \in 0..0 |-> h[id]]
      OBVIOUS
    <2> HIDE DEF h
    <2>3. h = [id \in 0..0 |-> IF id = 0 THEN 0 ELSE After(h[id - 1], id)]
      BY <2>1, <2>2
    <2> QED
      BY <2>3
  <1>2. ASSUME NEW m \in Nat, Solves(m) PROVE Solves(m + 1)
    <2>1. PICK g : g = [id \in 0..m |-> IF id = 0 THEN 0 ELSE After(g[id - 1], id)]
      BY <1>2
    <2> DEFINE h == [id \in 0..m + 1 |-> IF id <= m THEN g[id] ELSE After(g[m], m + 1)]
    <2>2. ASSUME NEW id \in 0..m + 1 PROVE h[id] = IF id = 0 THEN 0 ELSE After(h[id - 1], id)
      <3>1. CASE id = 0
        BY <2>1, <3>1
      <3>2. CASE id # 0 /\ id <= m
        <4>1. id \in 0..m /\ id - 1 \in 0..m + 1 /\ id - 1 <= m
          BY <3>2
        <4>2. g[id] = After(g[id - 1], id) /\ h[id] = g[id] /\ h[id - 1] = g[id - 1]
          BY <2>1, <3>2, <4>1
        <4> QED
          BY <3>2, <4>2
      <3>3. CASE id = m + 1
        <4>1. id # 0 /\ id - 1 = m /\ m \in 0..m + 1 /\ ~(id <= m)
          BY <3>3
        <4>2. h[id] = After(g[m], m + 1) /\ h[id - 1] = g[m]
          BY <4>1
        <4> QED
          BY <3>3, <4>1, <4>2
      <3> QED
        BY <3>1, <3>2, <3>3
    <2>3. h = [id \in 0..m + 1 |-> h[id]]
      OBVIOUS
    <2> HIDE DEF h
    <2>4. h = [id \in 0..m + 1 |-> IF id = 0 THEN 0 ELSE After(h[id - 1], id)]
      BY <2>2, <2>3
    <2> QED
      BY <2>4
  <1>3. T = {}
    <2> SUFFICES ASSUME T # {} PROVE FALSE
      OBVIOUS
    <2>0. T \in SUBSET Nat /\ \A m \in Nat : m \notin T <=> Solves(m)
      OBVIOUS
    <2> HIDE DEF Solves, T
    <2>1. PICK m \in T : \A j \in T : m <= j
      BY <2>0, LeastElement
    <2>2. m \in Nat /\ m # 0 /\ m - 1 \in Nat /\ m - 1 \notin T
      BY <1>1, <2>0, <2>1
    <2>3. Solves((m - 1) + 1) /\ (m - 1) + 1 = m
      BY <1>2, <2>0, <2>2
    <2> QED
      BY <2>0, <2>1, <2>3
  <1>4. Solves(Len(sar) + Len(tar))
    <2>1. Len(sar) + Len(tar) \in Nat
      OBVIOUS
    <2> HIDE DEF Solves
    <2> QED
      BY <1>3, <2>1
  <1> QED
    BY <1>4 DEF After

LEMMA TakenIs ==
  ASSUME NEW sar \in Seq(Values), NEW tar \in Seq(Values)
  PROVE  /\ Taken(sar, tar)[0] = 0
         /\ \A id \in 1 .. Len(sar) + Len(tar) :
              Taken(sar, tar)[id] = Taken(sar, tar)[id - 1]
                + (IF TakesSar(sar, tar, Taken(sar, tar)[id - 1], (id - 1) - Taken(sar, tar)[id - 1])
                   THEN 1 ELSE 0)
  <1>1. PICK g : g = [id \in 0 .. Len(sar) + Len(tar) |->
           IF id = 0 THEN 0
           ELSE g[id - 1] + (IF TakesSar(sar, tar, g[id - 1], (id - 1) - g[id - 1]) THEN 1 ELSE 0)]
    BY TakenHasSolution
  <1> DEFINE t == Taken(sar, tar)
  <1>2. t = [id \in 0 .. Len(sar) + Len(tar) |->
           IF id = 0 THEN 0
           ELSE t[id - 1] + (IF TakesSar(sar, tar, t[id - 1], (id - 1) - t[id - 1]) THEN 1 ELSE 0)]
    BY <1>1, Zenon DEF Taken
  <1> HIDE DEF t
  <1>3. 0 \in 0 .. Len(sar) + Len(tar) /\ \A id \in 1 .. Len(sar) + Len(tar) :
          id \in 0 .. Len(sar) + Len(tar) /\ id # 0
    OBVIOUS
  <1> QED
    BY <1>2, <1>3, Zenon DEF t

(* What the turns of Merge take never exceeds an array, and grows. *)
LEMMA TakenBounds ==
  ASSUME NEW sar \in Seq(Values), NEW tar \in Seq(Values), NEW id \in 0 .. Len(sar) + Len(tar)
  PROVE  /\ Taken(sar, tar)[id] \in Nat /\ Taken(sar, tar)[id] <= Len(sar)
         /\ id - Taken(sar, tar)[id] \in Nat /\ id - Taken(sar, tar)[id] <= Len(tar)
  <1> DEFINE is == Taken(sar, tar)
             Fits(k) == is[k] \in Nat /\ is[k] <= Len(sar) /\ k - is[k] \in Nat /\ k - is[k] <= Len(tar)
             T == {k \in 0 .. Len(sar) + Len(tar) : ~Fits(k)}
  <1>l. Len(sar) \in Nat /\ Len(tar) \in Nat
    OBVIOUS
  <1>1. is[0] = 0 /\ \A k \in 1 .. Len(sar) + Len(tar) :
          is[k] = is[k - 1] + (IF TakesSar(sar, tar, is[k - 1], (k - 1) - is[k - 1]) THEN 1 ELSE 0)
    BY TakenIs
  <1> HIDE DEF is
  <1>2. 0 \notin T
    BY <1>1, <1>l
  <1>3. ASSUME NEW k \in 1 .. Len(sar) + Len(tar), Fits(k - 1) PROVE Fits(k)
    <2> DEFINE u == is[k - 1]
               j == (k - 1) - u
    <2>1. /\ u \in Nat /\ u <= Len(sar) /\ j \in Nat /\ j <= Len(tar) /\ k = u + j + 1
          /\ is[k] = u + (IF TakesSar(sar, tar, u, j) THEN 1 ELSE 0)
      BY <1>1, <1>3
    <2> HIDE DEF u, j
    <2>2. TakesSar(sar, tar, u, j) => u < Len(sar)
      BY DEF TakesSar
    <2>3. ~TakesSar(sar, tar, u, j) => j < Len(tar)
      BY <2>1, <1>l DEF TakesSar
    <2>4. CASE TakesSar(sar, tar, u, j)
      BY <2>1, <2>2, <2>4, <1>l
    <2>5. CASE ~TakesSar(sar, tar, u, j)
      BY <2>1, <2>3, <2>5, <1>l
    <2> QED
      BY <2>4, <2>5
  <1>4. T = {}
    <2> SUFFICES ASSUME T # {} PROVE FALSE
      OBVIOUS
    <2>0. T \in SUBSET Nat /\ T \subseteq 0 .. Len(sar) + Len(tar)
          /\ \A k \in 0 .. Len(sar) + Len(tar) : k \notin T <=> Fits(k)
      BY <1>l
    <2> HIDE DEF Fits, T
    <2>1. PICK k \in T : \A j \in T : k <= j
      BY <2>0, LeastElement
    <2>2. k \in 1 .. Len(sar) + Len(tar) /\ k - 1 \in 0 .. Len(sar) + Len(tar) /\ k - 1 \notin T
      BY <1>2, <1>l, <2>0, <2>1
    <2> QED
      BY <1>3, <2>0, <2>1, <2>2
  <1> QED
    BY <1>4 DEF is

LEMMA TakenGrows ==
  ASSUME NEW sar \in Seq(Values), NEW tar \in Seq(Values),
         NEW j \in 0 .. Len(sar) + Len(tar), NEW k \in 0 .. Len(sar) + Len(tar), j <= k
  PROVE  /\ Taken(sar, tar)[j] <= Taken(sar, tar)[k]
         /\ j - Taken(sar, tar)[j] <= k - Taken(sar, tar)[k]
  <1> DEFINE is == Taken(sar, tar)
             top == Len(sar) + Len(tar)
             Grows(u) == is[j] <= is[u] /\ j - is[j] <= u - is[u]
             T == {u \in j .. top : ~Grows(u)}
  <1>l. top \in Nat /\ j \in Nat /\ j <= top
    OBVIOUS
  <1>1. \A u \in 0..top : is[u] \in Nat
    BY TakenBounds
  <1>2. \A u \in 1..top : is[u] = is[u - 1] \/ is[u] = is[u - 1] + 1
    <2> TAKE u \in 1..top
    <2>1. is[u - 1] \in Nat
      BY <1>1, <1>l
    <2>2. is[u] = is[u - 1] + (IF TakesSar(sar, tar, is[u - 1], (u - 1) - is[u - 1]) THEN 1 ELSE 0)
      BY TakenIs
    <2> HIDE DEF is
    <2>3. CASE TakesSar(sar, tar, is[u - 1], (u - 1) - is[u - 1])
      BY <2>2, <2>3
    <2>4. CASE ~TakesSar(sar, tar, is[u - 1], (u - 1) - is[u - 1])
      BY <2>1, <2>2, <2>4
    <2> QED
      BY <2>3, <2>4
  <1> HIDE DEF is, top
  <1>3. j \notin T
    BY <1>1, <1>l
  <1>4. ASSUME NEW u \in j..top, u # j, Grows(u - 1) PROVE Grows(u)
    <2>1. u \in 1..top /\ u - 1 \in 0..top /\ j \in 0..top
      BY <1>4, <1>l
    <2>2. is[u - 1] \in Nat /\ is[j] \in Nat /\ is[u] \in Nat /\ (is[u] = is[u - 1] \/ is[u] = is[u - 1] + 1)
      BY <1>1, <1>2, <2>1, <1>l
    <2>3. is[j] <= is[u - 1] /\ j - is[j] <= (u - 1) - is[u - 1]
      BY <1>4
    <2>4. u \in Nat
      BY <2>1
    <2>5. \A x, y, z \in Nat : x <= y /\ j - x <= (u - 1) - y /\ (z = y \/ z = y + 1) => x <= z /\ j - x <= u - z
      BY <1>l, <2>4
    <2> QED
      BY <2>2, <2>3, <2>5
  <1>5. T = {}
    <2> SUFFICES ASSUME T # {} PROVE FALSE
      OBVIOUS
    <2>0. T \in SUBSET Nat /\ T \subseteq j..top /\ \A u \in j..top : u \notin T <=> Grows(u)
      BY <1>l
    <2> HIDE DEF Grows, T
    <2>1. PICK u \in T : \A x \in T : u <= x
      BY <2>0, LeastElement
    <2>2. u # j /\ u - 1 \in j..top /\ u \in j..top /\ u - 1 \notin T
      BY <1>3, <1>l, <2>0, <2>1
    <2> QED
      BY <1>4, <2>0, <2>1, <2>2
  <1>6. k \in j..top
    BY <1>l DEF top
  <1> QED
    BY <1>5, <1>6 DEF is

(* Turn id of Merge writes one number of one of the arrays. *)
LEMMA MergeTurn ==
  ASSUME NEW sar \in Seq(Values), NEW tar \in Seq(Values), NEW id \in 1 .. Len(sar) + Len(tar)
  PROVE  LET u == Taken(sar, tar)[id - 1]
             j == (id - 1) - u
         IN  /\ u \in Nat /\ j \in Nat
             /\ \/ /\ TakesSar(sar, tar, u, j) /\ Taken(sar, tar)[id] = u + 1 /\ u + 1 \in 1..Len(sar)
                   /\ Merge(sar, tar)[id] = sar[u + 1]
                \/ /\ ~TakesSar(sar, tar, u, j) /\ Taken(sar, tar)[id] = u /\ j + 1 \in 1..Len(tar)
                   /\ id - u = j + 1 /\ Merge(sar, tar)[id] = tar[j + 1]
  <1> DEFINE is == Taken(sar, tar)
             u == is[id - 1]
             j == (id - 1) - u
  <1>l. Len(sar) \in Nat /\ Len(tar) \in Nat /\ id - 1 \in 0 .. Len(sar) + Len(tar) /\ id \in 0 .. Len(sar) + Len(tar)
    OBVIOUS
  <1>1. u \in Nat /\ j \in Nat
    BY <1>l, TakenBounds
  <1>2. is[id] = u + (IF TakesSar(sar, tar, u, j) THEN 1 ELSE 0)
    BY TakenIs
  <1>3. is[id] <= Len(sar) /\ id - is[id] <= Len(tar)
    BY <1>l, TakenBounds
  <1>4. Merge(sar, tar)[id] = IF is[id] # u THEN sar[is[id]] ELSE tar[id - is[id]]
    BY DEF Merge
  <1>5. CASE TakesSar(sar, tar, u, j)
    <2>1. is[id] = u + 1 /\ u + 1 # u /\ u + 1 \in 1..Len(sar)
      BY <1>1, <1>2, <1>3, <1>5, <1>l
    <2> QED
      BY <1>1, <1>4, <1>5, <2>1
  <1>6. CASE ~TakesSar(sar, tar, u, j)
    <2>1. is[id] = u
      BY <1>1, <1>2, <1>6
    <2>2. id - u = j + 1
      BY <1>1, <1>l
    <2>3. j + 1 \in 1..Len(tar)
      BY <1>1, <1>3, <2>1, <2>2, <1>l
    <2> QED
      BY <1>1, <1>4, <1>6, <2>1, <2>2, <2>3
  <1> QED
    BY <1>5, <1>6

LEMMA MergeType ==
  ASSUME NEW sar \in Seq(Values), NEW tar \in Seq(Values)
  PROVE  /\ Merge(sar, tar) \in Seq(Values) /\ Len(Merge(sar, tar)) = Len(sar) + Len(tar)
         /\ DOMAIN Merge(sar, tar) = 1 .. Len(sar) + Len(tar)
  <1> DEFINE top == Len(sar) + Len(tar)
  <1>1. top \in Nat
    OBVIOUS
  <1>2. \A id \in 1..top : Merge(sar, tar)[id] \in Values
    <2> TAKE id \in 1..top
    <2>1. \/ \E x \in 1..Len(sar) : Merge(sar, tar)[id] = sar[x]
          \/ \E x \in 1..Len(tar) : Merge(sar, tar)[id] = tar[x]
      BY MergeTurn
    <2>2. /\ \A x \in 1..Len(sar) : sar[x] \in Values
          /\ \A x \in 1..Len(tar) : tar[x] \in Values
      BY ValuesAreInts
    <2> QED
      BY <2>1, <2>2
  <1>3. Merge(sar, tar) = [id \in 1..top |-> Merge(sar, tar)[id]]
    BY DEF Merge
  <1> HIDE DEF top
  <1> QED
    BY <1>1, <1>2, <1>3 DEF top

LEMMA FirstNumbers ==
  ASSUME NEW k \in Nat
  PROVE  IsFiniteSet(1..k) /\ Cardinality(1..k) = k
  BY FS_Interval

(* Every number of the two arrays is written once. *)
TakesFrom(g, sar, tar, p, q) ==
  /\ g \in Bijection(1 .. Len(sar) + Len(tar), ({p} \X (1..Len(sar))) \union ({q} \X (1..Len(tar))))
  /\ \A id \in 1 .. Len(sar) + Len(tar) :
       Merge(sar, tar)[id] = IF g[id][1] = p THEN sar[g[id][2]] ELSE tar[g[id][2]]

LEMMA MergeIsBijection ==
  ASSUME NEW sar \in Seq(Values), NEW tar \in Seq(Values), NEW p, NEW q, p # q
  PROVE  \E g : TakesFrom(g, sar, tar, p, q)
  <1> DEFINE is == Taken(sar, tar)
             top == Len(sar) + Len(tar)
             S == {p} \X (1..Len(sar))
             T == {q} \X (1..Len(tar))
             g == [id \in 1..top |-> IF is[id] # is[id - 1] THEN <<p, is[id]>> ELSE <<q, id - is[id]>>]
  <1>l. Len(sar) \in Nat /\ Len(tar) \in Nat /\ top \in Nat
    OBVIOUS
  <1>1. ASSUME NEW id \in 1..top
        PROVE  /\ id - 1 \in 0..top /\ id \in 0..top /\ is[id - 1] \in Nat /\ is[id] \in Nat
               /\ \/ /\ is[id] = is[id - 1] + 1 /\ g[id] = <<p, is[id]>> /\ is[id] \in 1..Len(sar)
                     /\ Merge(sar, tar)[id] = sar[is[id]]
                  \/ /\ is[id] = is[id - 1] /\ g[id] = <<q, id - is[id]>> /\ id - is[id] \in 1..Len(tar)
                     /\ Merge(sar, tar)[id] = tar[id - is[id]]
    <2> DEFINE u == is[id - 1]
               j == (id - 1) - u
    <2>1. /\ u \in Nat /\ j \in Nat
          /\ \/ is[id] = u + 1 /\ u + 1 \in 1..Len(sar) /\ Merge(sar, tar)[id] = sar[u + 1]
             \/ is[id] = u /\ j + 1 \in 1..Len(tar) /\ id - u = j + 1 /\ Merge(sar, tar)[id] = tar[j + 1]
      BY MergeTurn
    <2>2. g[id] = IF is[id] # u THEN <<p, is[id]>> ELSE <<q, id - is[id]>>
      OBVIOUS
    <2>3. id - 1 \in 0..top /\ id \in 0..top
      BY <1>l
    <2> HIDE DEF g, u, j, is
    <2>4. is[id - 1] = u
      BY DEF u
    <2> QED
      BY <2>1, <2>2, <2>3, <2>4
  <1>d. DOMAIN g = 1..top /\ g = [id \in 1..top |-> g[id]]
    OBVIOUS
  <1>m. \A j, k \in 0..top : j <= k => is[j] <= is[k] /\ j - is[j] <= k - is[k]
    BY TakenGrows
  <1> HIDE DEF g, is, top
  <1>2. ASSUME NEW j \in 1..top, NEW k \in 1..top, j < k PROVE g[j] # g[k]
    <2>1. j <= k - 1 /\ k - 1 \in 0..top /\ j \in 0..top
      BY <1>2, <1>l
    <2>2. is[j] <= is[k - 1] /\ j - is[j] <= (k - 1) - is[k - 1]
      BY <1>m, <2>1
    <2>3. is[j] \in Nat /\ is[k] \in Nat /\ is[k - 1] \in Nat
      BY <1>1
    <2>4. CASE is[k] = is[k - 1] + 1 /\ g[k] = <<p, is[k]>>
      BY <1>1, <2>2, <2>3, <2>4
    <2>5. CASE is[k] = is[k - 1] /\ g[k] = <<q, k - is[k]>>
      <3>1. j - is[j] # k - is[k]
        BY <2>2, <2>3, <2>5
      <3>2. g[j] = <<p, is[j]>> \/ g[j] = <<q, j - is[j]>>
        BY <1>1
      <3> QED
        BY <2>5, <3>1, <3>2
    <2> QED
      BY <1>1, <2>4, <2>5
  <1>3. g \in [1..top -> S \union T]
    <2>1. ASSUME NEW id \in 1..top PROVE g[id] \in S \union T
      <3>1. /\ \A x \in 1..Len(sar) : <<p, x>> \in S
            /\ \A x \in 1..Len(tar) : <<q, x>> \in T
        OBVIOUS
      <3> HIDE DEF S, T
      <3>2. \/ g[id] = <<p, is[id]>> /\ is[id] \in 1..Len(sar)
            \/ g[id] = <<q, id - is[id]>> /\ id - is[id] \in 1..Len(tar)
        BY <1>1
      <3> QED
        BY <3>1, <3>2
    <2> HIDE DEF S, T
    <2> QED
      BY <1>d, <2>1
  <1>4. g \in Injection(1..top, S \union T)
    <2>1. \A j, k \in 1..top : j # k => j < k \/ k < j
      BY <1>l
    <2>2. \A j, k \in 1..top : g[j] = g[k] => j = k
      BY <1>2, <2>1
    <2> QED
      BY <1>3, <2>2 DEF Injection, IsInjective
  <1>5. IsFiniteSet(S \union T) /\ Cardinality(S \union T) = top
    <2>1. /\ IsFiniteSet({p}) /\ IsFiniteSet({q}) /\ Cardinality({p}) = 1 /\ Cardinality({q}) = 1
      BY FS_Singleton
    <2>a. /\ IsFiniteSet(1..Len(sar)) /\ Cardinality(1..Len(sar)) = Len(sar)
      BY <1>l, FirstNumbers
    <2>b. /\ IsFiniteSet(1..Len(tar)) /\ Cardinality(1..Len(tar)) = Len(tar)
      BY <1>l, FirstNumbers
    <2>2. /\ IsFiniteSet(S) /\ Cardinality(S) = 1 * Len(sar)
          /\ IsFiniteSet(T) /\ Cardinality(T) = 1 * Len(tar)
      <3>1. /\ IsFiniteSet(S) /\ Cardinality(S) = Cardinality({p}) * Cardinality(1..Len(sar))
        BY <2>1, <2>a, FS_Product
      <3>2. /\ IsFiniteSet(T) /\ Cardinality(T) = Cardinality({q}) * Cardinality(1..Len(tar))
        BY <2>1, <2>b, FS_Product
      <3> HIDE DEF S, T
      <3> QED
        BY <2>1, <2>a, <2>b, <3>1, <3>2
    <2>3. S \intersect T = {}
      OBVIOUS
    <2> HIDE DEF S, T
    <2>4. IsFiniteSet(S \union T) /\ Cardinality(S \union T) = Cardinality(S) + Cardinality(T) - Cardinality({})
      BY <2>2, <2>3, FS_Union
    <2>5. Cardinality({}) = 0
      BY FS_EmptySet
    <2>6. Cardinality(S \union T) = 1 * Len(sar) + 1 * Len(tar) - 0
      BY <2>2, <2>4, <2>5
    <2>7. 1 * Len(sar) + 1 * Len(tar) - 0 = Len(sar) + Len(tar)
      BY <1>l
    <2> QED
      BY <2>4, <2>6, <2>7 DEF top
  <1>6. g \in Surjection(1..top, S \union T)
    <2>0. top \in Nat
      BY <1>l DEF top
    <2>1. IsFiniteSet(1..top) /\ Cardinality(1..top) = top
      BY <2>0, FS_Interval
    <2> HIDE DEF S, T
    <2> QED
      BY <1>4, <1>5, <2>1, FS_Injection
  <1>7. \A id \in 1..top : Merge(sar, tar)[id] = IF g[id][1] = p THEN sar[g[id][2]] ELSE tar[g[id][2]]
    BY <1>1
  <1>8. g \in Bijection(1..top, S \union T)
    BY <1>4, <1>6 DEF Bijection
  <1>9. TakesFrom(g, sar, tar, p, q)
    BY <1>7, <1>8 DEF TakesFrom, top, S, T
  <1> QED
    BY <1>9

LEMMA MergeIsSorted ==
  ASSUME NEW sar \in Seq(Values), NEW tar \in Seq(Values), CheckSort(sar), CheckSort(tar)
  PROVE  CheckSort(Merge(sar, tar))
  <1> DEFINE is == Taken(sar, tar)
  <1>l. /\ Len(sar) \in Nat /\ Len(tar) \in Nat /\ Len(Merge(sar, tar)) = Len(sar) + Len(tar)
        /\ \A k \in 1..Len(sar) : sar[k] \in Int
        /\ \A k \in 1..Len(tar) : tar[k] \in Int
    BY MergeType, ValuesAreInts
  <1> SUFFICES ASSUME NEW id \in 2 .. Len(sar) + Len(tar)
               PROVE  Merge(sar, tar)[id] >= Merge(sar, tar)[id - 1]
    BY <1>l DEF CheckSort
  <1> DEFINE u == is[id - 2]
             j == (id - 2) - u
             u2 == is[id - 1]
             j2 == (id - 1) - u2
  <1>d. id - 1 \in 1 .. Len(sar) + Len(tar) /\ id \in 1 .. Len(sar) + Len(tar) /\ (id - 1) - 1 = id - 2
    BY <1>l
  <1>1. /\ u \in Nat /\ j \in Nat
        /\ \/ /\ TakesSar(sar, tar, u, j) /\ is[id - 1] = u + 1 /\ u + 1 \in 1..Len(sar)
              /\ Merge(sar, tar)[id - 1] = sar[u + 1]
           \/ /\ ~TakesSar(sar, tar, u, j) /\ is[id - 1] = u /\ j + 1 \in 1..Len(tar)
              /\ Merge(sar, tar)[id - 1] = tar[j + 1]
    BY <1>d, MergeTurn
  <1>2. /\ u2 \in Nat /\ j2 \in Nat
        /\ \/ /\ TakesSar(sar, tar, u2, j2) /\ u2 + 1 \in 1..Len(sar)
              /\ Merge(sar, tar)[id] = sar[u2 + 1]
           \/ /\ ~TakesSar(sar, tar, u2, j2) /\ j2 + 1 \in 1..Len(tar)
              /\ Merge(sar, tar)[id] = tar[j2 + 1]
    BY <1>d, MergeTurn
  <1>3. (u2 = u + 1 /\ j2 = j) \/ (u2 = u /\ j2 = j + 1)
    <2>1. u2 = u + 1 \/ u2 = u
      BY <1>1
    <2>2. j2 = (id - 1) - u2 /\ j = (id - 2) - u /\ u \in Int /\ id \in Int
      BY <1>1, <1>d
    <2> HIDE DEF u, u2, j, j2
    <2> QED
      BY <2>1, <2>2
  <1>s. /\ u + 1 \in 1..Len(sar) /\ (u + 1) + 1 \in 1..Len(sar) => sar[(u + 1) + 1] >= sar[u + 1]
        /\ j + 1 \in 1..Len(tar) /\ (j + 1) + 1 \in 1..Len(tar) => tar[(j + 1) + 1] >= tar[j + 1]
    <2>1. \A s \in {sar, tar} : \A k \in 2..Len(s) : s[k] >= s[k - 1]
      BY DEF CheckSort
    <2>2. u + 1 \in 1..Len(sar) /\ (u + 1) + 1 \in 1..Len(sar) =>
            (u + 1) + 1 \in 2..Len(sar) /\ ((u + 1) + 1) - 1 = u + 1
      BY <1>1, <1>l
    <2>3. j + 1 \in 1..Len(tar) /\ (j + 1) + 1 \in 1..Len(tar) =>
            (j + 1) + 1 \in 2..Len(tar) /\ ((j + 1) + 1) - 1 = j + 1
      BY <1>1, <1>l
    <2> HIDE DEF u, j
    <2> QED
      BY <2>1, <2>2, <2>3
  <1> HIDE DEF u, j, u2, j2, is
  <1>4. CASE TakesSar(sar, tar, u, j) /\ u + 1 \in 1..Len(sar) /\ Merge(sar, tar)[id - 1] = sar[u + 1]
             /\ u2 = u + 1 /\ j2 = j
    <2>1. j = Len(tar) \/ sar[u + 1] < tar[j + 1]
      BY <1>4 DEF TakesSar
    <2>2. j + 1 \in 1..Len(tar) => sar[u + 1] < tar[j + 1] /\ tar[j + 1] \in Int /\ sar[u + 1] \in Int
      BY <2>1, <1>4, <1>l
    <2>3. CASE Merge(sar, tar)[id] = sar[u2 + 1] /\ u2 + 1 \in 1..Len(sar)
      BY <2>3, <1>4, <1>s
    <2>4. CASE Merge(sar, tar)[id] = tar[j2 + 1] /\ j2 + 1 \in 1..Len(tar)
      BY <2>2, <2>4, <1>4
    <2> QED
      BY <1>2, <2>3, <2>4
  <1>5. CASE ~TakesSar(sar, tar, u, j) /\ j + 1 \in 1..Len(tar) /\ Merge(sar, tar)[id - 1] = tar[j + 1]
             /\ u2 = u /\ j2 = j + 1
    <2>1. u + 1 \in 1..Len(sar) => sar[u + 1] >= tar[j + 1]
      <3>1. ASSUME u + 1 \in 1..Len(sar) PROVE u < Len(sar) /\ sar[u + 1] \in Int /\ tar[j + 1] \in Int
        BY <1>1, <1>5, <1>l, <3>1
      <3> QED
        BY <3>1, <1>5 DEF TakesSar
    <2>3. CASE Merge(sar, tar)[id] = sar[u2 + 1] /\ u2 + 1 \in 1..Len(sar)
      BY <2>1, <2>3, <1>5
    <2>4. CASE Merge(sar, tar)[id] = tar[j2 + 1] /\ j2 + 1 \in 1..Len(tar)
      BY <2>4, <1>5, <1>s
    <2> QED
      BY <1>2, <2>3, <2>4
  <1>6. /\ \/ TakesSar(sar, tar, u, j) /\ u + 1 \in 1..Len(sar) /\ Merge(sar, tar)[id - 1] = sar[u + 1] /\ u2 = u + 1
           \/ ~TakesSar(sar, tar, u, j) /\ j + 1 \in 1..Len(tar) /\ Merge(sar, tar)[id - 1] = tar[j + 1] /\ u2 = u
    BY <1>1 DEF u2
  <1>7. u \in Nat /\ u + 1 # u
    BY <1>1
  <1> QED
    BY <1>3, <1>4, <1>5, <1>6, <1>7

-----------------------------------------------------------------------------
(* The inductive invariant of the sort. *)
Sending == {"send", "sendnumbers", "sent"}
Receiving == {"recv", "recvnumbers"}
Ended == {"exit", "success", "fail"}
SortPlace == {"qsort", "loop", "barrier"} \union Sending \union Receiving \union Ended

SortTypes ==
  /\ arr \in [1..num -> Values] /\ war \in [SortRank -> Seq(Values)]
  /\ rn \in [SortRank -> Nat] /\ round \in [SortRank -> Nat] /\ place \in [SortRank -> SortPlace]
  /\ length \in [SortRank -> Seq(Nat)] /\ numbers \in [SortRank -> Seq(Seq(Values))]

(* Where a rank stands in the tree. *)
InTree(r) ==
  /\ r % Step(round[r]) = 0
  /\ place[r] \in Receiving => Receives(r, round[r]) /\ ~Alone(r, round[r])
  /\ place[r] \in Sending => Step(round[r]) < size /\ ~Receives(r, round[r])
  /\ place[r] \in {"barrier"} \union Ended => Step(round[r]) >= size \/ ~Receives(r, round[r])

(* Gone: a rank has sent its numbers, or is ROOT at the end.  From its length
   on, its part does not change any more; a message is that part. *)
Gone == {"sent", "barrier"} \union Ended
Frozen == {"sendnumbers"} \union Gone
Message(q) ==
  /\ length[q] # <<>> => length[q] = <<Len(war[q])>> /\ place[q] \in Frozen
  /\ numbers[q] # <<>> =>
       numbers[q] = <<war[q]>> /\ place[q] \in Gone /\ Step(round[q]) < size /\ ~Receives(q, round[q])

(* The length a rank was told is that of a part that does not change. *)
Told(r) == place[r] = "recvnumbers" => rn[r] = Len(war[From(r)]) /\ place[From(r)] \in Frozen

(* What was sent to a rank in the rounds behind it has been received. *)
Behind(r) ==
  \A k \in 0 .. round[r] - 1 : r + Step(k) < size =>
    round[r + Step(k)] = k /\ numbers[r + Step(k)] = <<>> /\ place[r + Step(k)] \in Gone

Ordered(r) == place[r] # "qsort" => CheckSort(war[r])

AtEnds ==
  \A r \in SortRank : place[r] \in Ended =>
    /\ \A q \in SortRank : place[q] \in Ended /\ numbers[q] = <<>>
    /\ place[r] = IF r = ROOT THEN "success" ELSE "exit"

Shape ==
  /\ SortTypes /\ AtEnds
  /\ \A r \in SortRank : InTree(r) /\ Message(r) /\ Told(r) /\ Behind(r) /\ Ordered(r)

LEMMA RankIs ==
  ASSUME NEW r \in SortRank
  PROVE  r \in Nat /\ r < size /\ size \in Nat /\ size >= 1 /\ ROOT \in SortRank
  BY SizeAssumption DEF SortRank, ROOT

(* Nobody has ended as long as one rank is on its way. *)
LEMMA NoneEnded ==
  ASSUME AtEnds, NEW r \in SortRank, place[r] \notin Ended, NEW q \in SortRank
  PROVE  place[q] \notin Ended
  BY DEF AtEnds

LEMMA NobodyEnds ==
  ASSUME AtEnds, NEW r \in SortRank, place[r] \notin Ended,
         \A q \in SortRank : place'[q] = place[q] \/ place'[q] \notin Ended
  PROVE  AtEnds'
  <1>1. \A q \in SortRank : place'[q] \notin Ended
    BY NoneEnded
  <1> QED
    BY <1>1 DEF AtEnds

(* A rank that has not sent its numbers is behind nobody. *)
LEMMA StillBehind ==
  ASSUME Shape, NEW r \in SortRank, place[r] \notin Gone,
         \A q \in SortRank \ {r} : round'[q] = round[q] /\ place'[q] = place[q]
                                   /\ (numbers[q] = <<>> => numbers'[q] = <<>>),
         NEW p \in SortRank, NEW k \in 0 .. round[p] - 1, p + Step(k) < size
  PROVE  round'[p + Step(k)] = k /\ numbers'[p + Step(k)] = <<>> /\ place'[p + Step(k)] \in Gone
  <1>1. round[p + Step(k)] = k /\ numbers[p + Step(k)] = <<>> /\ place[p + Step(k)] \in Gone
    BY DEF Shape, Behind
  <1>2. round[p] \in Nat /\ k \in Nat
    BY DEF Shape, SortTypes
  <1>3. p + Step(k) \in SortRank
    <2>1. Step(k) \in Nat
      BY <1>2, StepIs
    <2>2. p \in Nat /\ size \in Nat /\ p + Step(k) < size
      BY RankIs
    <2> QED
      BY <2>1, <2>2 DEF SortRank
  <1> QED
    BY <1>1, <1>3

LEMMA PartnerRank ==
  ASSUME Shape, NEW r \in SortRank, place[r] \in Receiving
  PROVE  /\ From(r) \in SortRank /\ From(r) # r /\ Receives(r, round[r])
         /\ From(r) = r + Step(round[r]) /\ round[r] \in Nat
  <1>1. round[r] \in Nat /\ Receives(r, round[r]) /\ ~Alone(r, round[r])
    BY DEF Shape, SortTypes, InTree
  <1>2. Step(round[r]) \in Nat /\ Step(round[r]) >= 1
    BY <1>1, StepIs
  <1>3. r + Step(round[r]) < size /\ r \in Nat /\ size \in Nat
    BY <1>1, <1>2, RankIs DEF Alone
  <1>4. From(r) = r + Step(round[r])
    BY DEF From
  <1>5. r + Step(round[r]) \in SortRank /\ r + Step(round[r]) # r
    BY <1>2, <1>3 DEF SortRank
  <1> QED
    BY <1>1, <1>4, <1>5

LEMMA NumIs ==
  /\ num \in Nat /\ mn \in Nat /\ num = size * mn
  <1>1. size \in Nat /\ size >= 1 /\ Asked \in Nat
    BY SizeAssumption
  <1> DEFINE q == Asked \div size
             e == Asked % size
  <1>2. Asked = size * q + e /\ q \in Nat /\ e \in 0..size - 1
    BY <1>1, RemainderOf
  <1> HIDE DEF q, e
  <1>3. num = IF e = 0 THEN Asked ELSE Asked + size - e
    BY DEF num, e
  <1>4. \E y \in Nat : num = size * y
    <2>1. CASE e = 0
      <3>1. size * q \in Nat
        BY <1>1, <1>2
      <3> QED
        BY <1>2, <1>3, <2>1, <3>1
    <2>2. CASE e # 0
      <3>1. size * (q + 1) = size * q + size /\ size * q \in Nat
        BY <1>1, <1>2
      <3>2. num = size * (q + 1)
        BY <1>1, <1>2, <1>3, <2>2, <3>1
      <3> QED
        BY <1>2, <3>2
    <2> QED
      BY <2>1, <2>2
  <1>5. num \in Nat
    <2>1. PICK y \in Nat : num = size * y
      BY <1>4
    <2> QED
      BY <1>1, <2>1
  <1>6. num % size = 0
    BY <1>1, <1>4, <1>5, DividesIs
  <1>7. num = size * (num \div size) + (num % size) /\ num \div size \in Nat
    BY <1>1, <1>5, RemainderOf
  <1>8. size * (num \div size) \in Nat
    BY <1>1, <1>7
  <1> QED
    BY <1>5, <1>6, <1>7, <1>8 DEF mn

(* The part a rank is given. *)
LEMMA PartIs ==
  ASSUME NEW r \in SortRank, NEW s \in [1..num -> Values]
  PROVE  LET t == SubSeq(s, r * mn + 1, (r + 1) * mn)
         IN  /\ t \in Seq(Values) /\ Len(t) = mn /\ r * mn \in Nat
             /\ \A k \in 1..mn : t[k] = s[r * mn + k] /\ r * mn + k \in 1..num
  <1> DEFINE t == SubSeq(s, r * mn + 1, (r + 1) * mn)
             x == r * mn
  <1>1. num \in Nat /\ mn \in Nat /\ num = size * mn /\ r \in Nat /\ r < size /\ size \in Nat
    BY NumIs, RankIs
  <1>2. PICK c \in Nat : size = (r + 1) + c
    BY <1>1, size - (r + 1) \in Nat
  <1>3. /\ x \in Nat /\ (r + 1) * mn = x + mn /\ c * mn \in Nat
        /\ ((r + 1) + c) * mn = x + mn + c * mn
    BY <1>1
  <1>4. num = x + mn + c * mn
    BY <1>1, <1>2, <1>3
  <1> HIDE DEF x
  <1>5. t = SubSeq(s, x + 1, x + mn) /\ x + mn <= num
    BY <1>1, <1>3, <1>4 DEF x
  <1>6. s \in Seq(Values) /\ Len(s) = num
    BY <1>1
  <1>7. \A k \in 1..mn : x + k \in 1..num /\ s[x + k] \in Values
    BY <1>1, <1>3, <1>5
  <1>8. t = [k \in 1..mn |-> s[x + k]]
    BY <1>1, <1>3, <1>5, <1>6
  <1> HIDE DEF t
  <1>9. t \in Seq(Values) /\ Len(t) = mn
    BY <1>1, <1>7, <1>8
  <1> QED
    BY <1>3, <1>7, <1>8, <1>9 DEF t, x

LEMMA InitShape == ASSUME SortInit PROVE Shape
  <1>1. SortTypes
    <2>1. arr \in [1..num -> Values]
      BY DEF SortInit
    <2>2. \A r \in SortRank : SubSeq(arr, r * mn + 1, (r + 1) * mn) \in Seq(Values)
      BY <2>1, PartIs
    <2>3. war \in [SortRank -> Seq(Values)]
      BY <2>2 DEF SortInit
    <2>4. rn \in [SortRank -> Nat] /\ round \in [SortRank -> Nat] /\ place \in [SortRank -> SortPlace]
      BY DEF SortInit, SortPlace
    <2>5. length \in [SortRank -> Seq(Nat)] /\ numbers \in [SortRank -> Seq(Seq(Values))]
      BY DEF SortInit
    <2> QED
      BY <2>1, <2>3, <2>4, <2>5 DEF SortTypes
  <1>2. AtEnds
    BY DEF SortInit, AtEnds, Ended
  <1>3. ASSUME NEW r \in SortRank PROVE InTree(r) /\ Message(r) /\ Told(r) /\ Behind(r) /\ Ordered(r)
    <2>1. place[r] = "qsort" /\ round[r] = 0 /\ length[r] = <<>> /\ numbers[r] = <<>>
      BY DEF SortInit
    <2>2. r % Step(round[r]) = 0
      <3>1. r % 1 = 0
        BY RankIs
      <3> QED
        BY <2>1, <3>1, StepIs
    <2>3. InTree(r)
      BY <2>1, <2>2 DEF InTree, Receiving, Sending, Ended
    <2> QED
      BY <2>1, <2>3 DEF Message, Told, Behind, Ordered
  <1> QED
    BY <1>1, <1>2, <1>3 DEF Shape

LEMMA SortShape == ASSUME Shape, NEW r \in SortRank, Sort(r) PROVE Shape'
  <1>t. SortTypes /\ AtEnds
    BY DEF Shape
  <1>a. /\ place[r] = "qsort" /\ place' = [place EXCEPT ![r] = "loop"] /\ war' = [war EXCEPT ![r] = qsort(war[r])]
        /\ UNCHANGED <<arr, rn, round, length, numbers>>
    BY DEF Sort
  <1>0. war[r] \in Seq(Values) /\ qsort(war[r]) \in Seq(Values) /\ CheckSort(qsort(war[r]))
    BY <1>t, QsortIs DEF SortTypes
  <1>1. SortTypes'
    BY <1>t, <1>a, <1>0 DEF SortTypes, SortPlace
  <1>2. AtEnds'
    BY <1>t, <1>a, NobodyEnds DEF SortTypes, Ended
  <1>n. place[r] \notin Gone /\ place[r] \notin Frozen
    BY <1>a DEF Gone, Frozen, Ended
  <1>3. ASSUME NEW q \in SortRank
        PROVE  InTree(q)' /\ Message(q)' /\ Told(q)' /\ Behind(q)' /\ Ordered(q)'
    <2>1. InTree(q) /\ Message(q) /\ Told(q) /\ Ordered(q)
      BY DEF Shape
    <2>2. InTree(q)'
      BY <1>a, <1>t, <2>1 DEF InTree, SortTypes, Receiving, Sending, Ended
    <2>3. Message(q)'
      <3>1. CASE q = r
        BY <1>a, <1>n, <2>1, <3>1 DEF Message
      <3>2. CASE q # r
        BY <1>a, <1>t, <2>1, <3>2 DEF Message, SortTypes
      <3> QED
        BY <3>1, <3>2
    <2>4. Told(q)'
      <3> SUFFICES ASSUME place'[q] = "recvnumbers"
                   PROVE  rn'[q] = Len(war'[From(q)]) /\ place'[From(q)] \in Frozen
        BY <1>a DEF Told, From
      <3>1. q # r /\ place[q] = "recvnumbers"
        BY <1>a, <1>t DEF SortTypes
      <3>2. From(q) \in SortRank
        BY <3>1, PartnerRank DEF Receiving
      <3>3. rn[q] = Len(war[From(q)]) /\ place[From(q)] \in Frozen /\ From(q) # r
        BY <2>1, <3>1, <1>n DEF Told
      <3> QED
        BY <1>a, <1>t, <3>2, <3>3 DEF SortTypes
    <2>5. Behind(q)'
      BY <1>a, <1>t, <1>n, StillBehind DEF Behind, SortTypes
    <2>6. Ordered(q)'
      BY <1>a, <1>t, <1>0, <2>1 DEF Ordered, SortTypes
    <2> QED
      BY <2>2, <2>3, <2>4, <2>5, <2>6
  <1> QED
    BY <1>1, <1>2, <1>3 DEF Shape

(* A step that moves one rank, not yet gone, and changes no part. *)
LEMMA MovesOne ==
  ASSUME Shape, NEW r \in SortRank, place[r] \notin Frozen, place[r] # "qsort", NEW to \in SortPlace,
         place' = [place EXCEPT ![r] = to], to # "qsort", to \notin Ended,
         to = "recvnumbers" => rn'[r] = Len(war[From(r)]) /\ place[From(r)] \in Frozen /\ place[r] = "recv",
         \A q \in SortRank \ {r} : rn'[q] = rn[q] /\ round'[q] = round[q] /\ numbers'[q] = numbers[q],
         to = "recvnumbers" => round'[r] = round[r], numbers' = numbers,
         UNCHANGED <<arr, war>>
  PROVE  /\ AtEnds'
         /\ \A q \in SortRank : Told(q)' /\ Ordered(q)' /\ (round'[q] = round[q] => Behind(q)')
  <1>t. SortTypes /\ AtEnds
    BY DEF Shape
  <1>n. place[r] \notin Gone /\ place[r] \notin Ended
    BY DEF Gone, Frozen
  <1>1. AtEnds'
    BY <1>t, <1>n, NobodyEnds DEF SortTypes
  <1>2. ASSUME NEW q \in SortRank PROVE Told(q)'
    <2> SUFFICES ASSUME place'[q] = "recvnumbers"
                 PROVE  rn'[q] = Len(war'[From(q)']) /\ place'[From(q)'] \in Frozen
      BY DEF Told
    <2>1. CASE q = r
      <3>1. to = "recvnumbers"
        BY <2>1, <1>t DEF SortTypes
      <3>2. From(r) \in SortRank /\ From(r) # r
        BY <3>1, PartnerRank DEF Receiving
      <3>3. From(r)' = From(r)
        BY <3>1 DEF From
      <3> QED
        BY <1>t, <2>1, <3>1, <3>2, <3>3 DEF SortTypes
    <2>2. CASE q # r
      <3>1. place[q] = "recvnumbers" /\ From(q)' = From(q) /\ Told(q) /\ rn'[q] = rn[q]
        BY <1>t, <2>2 DEF SortTypes, From, Shape
      <3>2. From(q) \in SortRank
        BY <3>1, PartnerRank DEF Receiving
      <3>3. From(q) # r
        BY <3>1 DEF Told
      <3> QED
        BY <1>t, <3>1, <3>2, <3>3 DEF SortTypes, Told
    <2> QED
      BY <2>1, <2>2
  <1>3. ASSUME NEW q \in SortRank PROVE Ordered(q)'
    BY <1>t DEF Ordered, Shape, SortTypes
  <1>4. ASSUME NEW q \in SortRank, round'[q] = round[q] PROVE Behind(q)'
    <2>1. \A x \in SortRank \ {r} : round'[x] = round[x] /\ place'[x] = place[x]
                                   /\ (numbers[x] = <<>> => numbers'[x] = <<>>)
      BY <1>t DEF SortTypes
    <2> QED
      BY <1>4, <1>n, <2>1, StillBehind DEF Behind
  <1> QED
    BY <1>1, <1>2, <1>3, <1>4

LEMMA RoundShape == ASSUME Shape, NEW r \in SortRank, Round(r) PROVE Shape'
  <1>t. SortTypes /\ AtEnds
    BY DEF Shape
  <1>r. InTree(r) /\ Message(r)
    BY DEF Shape
  <1>a. place[r] = "loop" /\ UNCHANGED <<arr, war, rn, length, numbers>>
    BY DEF Round
  <1>n. place[r] \notin Frozen /\ place[r] # "qsort" /\ place[r] \notin Gone
    BY <1>a DEF Gone, Frozen, Ended
  <1>k. round[r] \in Nat /\ Step(round[r]) \in Nat /\ Step(round[r]) >= 1
        /\ Step(round[r] + 1) = 2 * Step(round[r]) /\ r \in Nat /\ size \in Nat
    BY <1>t, StepIs, RankIs DEF SortTypes
  <1>1. \E to \in {"loop", "barrier", "send", "recv"} :
          /\ place' = [place EXCEPT ![r] = to]
          /\ to = "loop" => Receives(r, round[r]) /\ Alone(r, round[r])
                            /\ round' = [round EXCEPT ![r] = round[r] + 1]
          /\ to # "loop" => round' = round
          /\ to = "barrier" => Step(round[r]) >= size
          /\ to = "send" => Step(round[r]) < size /\ ~Receives(r, round[r])
          /\ to = "recv" => Receives(r, round[r]) /\ ~Alone(r, round[r])
    <2>1. CASE Step(round[r]) >= size
      BY <2>1 DEF Round
    <2>2. CASE Step(round[r]) < size /\ ~Receives(r, round[r])
      BY <2>2, <1>k DEF Round
    <2>3. CASE Step(round[r]) < size /\ Receives(r, round[r]) /\ ~Alone(r, round[r])
      BY <2>3, <1>k DEF Round
    <2>4. CASE Step(round[r]) < size /\ Receives(r, round[r]) /\ Alone(r, round[r])
      <3>1. place' = place /\ place = [place EXCEPT ![r] = "loop"]
        BY <1>a, <1>k, <1>t, <2>4 DEF Round, SortTypes
      <3> QED
        BY <2>4, <3>1, <1>k DEF Round
    <2> QED
      BY <1>k, <2>1, <2>2, <2>3, <2>4
  <1>2. PICK to \in {"loop", "barrier", "send", "recv"} :
          /\ place' = [place EXCEPT ![r] = to]
          /\ to = "loop" => Receives(r, round[r]) /\ Alone(r, round[r])
                            /\ round' = [round EXCEPT ![r] = round[r] + 1]
          /\ to # "loop" => round' = round
          /\ to = "barrier" => Step(round[r]) >= size
          /\ to = "send" => Step(round[r]) < size /\ ~Receives(r, round[r])
          /\ to = "recv" => Receives(r, round[r]) /\ ~Alone(r, round[r])
    BY <1>1
  <1>p. to \in SortPlace /\ to # "qsort" /\ to \notin Ended /\ to # "recvnumbers"
    BY DEF SortPlace, Ended, Sending, Receiving
  <1>o. \A q \in SortRank \ {r} : rn'[q] = rn[q] /\ round'[q] = round[q] /\ numbers'[q] = numbers[q]
                                  /\ place'[q] = place[q]
    BY <1>a, <1>t, <1>2 DEF SortTypes
  <1>3. SortTypes'
    <2>1. round' \in [SortRank -> Nat]
      BY <1>2, <1>t, <1>k DEF SortTypes
    <2>2. place' \in [SortRank -> SortPlace]
      BY <1>2, <1>p, <1>t DEF SortTypes
    <2> QED
      BY <1>t, <1>a, <2>1, <2>2 DEF SortTypes
  <1>4. /\ AtEnds'
        /\ \A q \in SortRank : Told(q)' /\ Ordered(q)' /\ (round'[q] = round[q] => Behind(q)')
    BY <1>a, <1>n, <1>p, <1>o, <1>2, MovesOne
  <1>5. ASSUME NEW q \in SortRank PROVE InTree(q)' /\ Message(q)' /\ Behind(q)'
    <2>1. CASE q # r
      <3>1. InTree(q) /\ Message(q)
        BY DEF Shape
      <3> QED
        BY <1>o, <1>4, <1>a, <2>1, <3>1 DEF InTree, Message
    <2>2. CASE q = r
      <3>1. Message(r)'
        BY <1>r, <1>a, <1>n DEF Message
      <3>2. CASE to = "loop"
        <4>1. round'[r] = round[r] + 1 /\ place'[r] = "loop"
          BY <1>2, <1>t, <3>2 DEF SortTypes
        <4>2. InTree(r)'
          <5>1. r % Step(round'[r]) = 0
            BY <1>2, <1>k, <3>2, <4>1 DEF Receives
          <5> QED
            BY <4>1, <5>1 DEF InTree, Receiving, Sending, Ended
        <4>3. Behind(r)'
          <5> SUFFICES ASSUME NEW k \in 0 .. round'[r] - 1, r + Step(k) < size
                       PROVE  round'[r + Step(k)] = k /\ numbers'[r + Step(k)] = <<>> /\ place'[r + Step(k)] \in Gone
            BY DEF Behind
          <5>1. k \in 0 .. round[r] - 1 \/ k = round[r]
            BY <4>1, <1>k
          <5>2. k # round[r]
            BY <1>2, <1>k, <3>2 DEF Alone
          <5> QED
            BY <5>1, <5>2, <1>n, <1>o, StillBehind
        <4> QED
          BY <2>2, <3>1, <4>2, <4>3
      <3>3. CASE to # "loop"
        <4>1. round'[r] = round[r] /\ place'[r] = to
          BY <1>2, <1>t, <3>3 DEF SortTypes
        <4>2. InTree(r)'
          BY <1>2, <1>r, <1>k, <3>3, <4>1 DEF InTree, Receiving, Sending, Ended
        <4> QED
          BY <1>4, <2>2, <3>1, <4>1, <4>2
      <3> QED
        BY <3>2, <3>3
    <2> QED
      BY <2>1, <2>2
  <1> QED
    BY <1>3, <1>4, <1>5 DEF Shape

LEMMA SendLengthShape == ASSUME Shape, NEW r \in SortRank, SendLength(r) PROVE Shape'
  <1>t. SortTypes /\ AtEnds
    BY DEF Shape
  <1>r. InTree(r) /\ Message(r)
    BY DEF Shape
  <1>a. /\ place[r] = "send" /\ place' = [place EXCEPT ![r] = "sendnumbers"]
        /\ length' = [length EXCEPT ![r] = <<Len(war[r])>>] /\ UNCHANGED <<arr, war, rn, round, numbers>>
    BY DEF SendLength
  <1>n. place[r] \notin Frozen /\ place[r] # "qsort" /\ place[r] \notin Gone
    BY <1>a DEF Gone, Frozen, Ended
  <1>p. "sendnumbers" \in SortPlace /\ "sendnumbers" \notin Ended
    BY DEF SortPlace, Ended, Sending
  <1>3. SortTypes'
    <2>1. war[r] \in Seq(Values) /\ Len(war[r]) \in Nat
      BY <1>t DEF SortTypes
    <2>2. length' \in [SortRank -> Seq(Nat)]
      BY <1>a, <1>t, <2>1 DEF SortTypes
    <2>3. place' \in [SortRank -> SortPlace]
      BY <1>a, <1>p, <1>t DEF SortTypes
    <2> QED
      BY <1>t, <1>a, <2>2, <2>3 DEF SortTypes
  <1>4. /\ AtEnds'
        /\ \A q \in SortRank : Told(q)' /\ Ordered(q)' /\ (round'[q] = round[q] => Behind(q)')
    BY <1>a, <1>n, <1>p, MovesOne
  <1>5. ASSUME NEW q \in SortRank PROVE InTree(q)' /\ Message(q)' /\ Behind(q)'
    <2>1. InTree(q)'
      BY <1>a, <1>t DEF InTree, Shape, SortTypes, Receiving, Sending, Ended
    <2>2. CASE q # r
      BY <1>a, <1>t, <1>4, <2>1, <2>2 DEF Message, Shape, SortTypes
    <2>3. CASE q = r
      <3>1. numbers[r] = <<>> /\ place'[r] \in Frozen /\ length'[r] = <<Len(war[r])>>
        BY <1>r, <1>a, <1>t, <1>n DEF Message, SortTypes, Frozen
      <3>2. Message(r)'
        BY <1>a, <3>1 DEF Message
      <3> QED
        BY <1>a, <1>4, <2>1, <2>3, <3>2
    <2> QED
      BY <2>2, <2>3
  <1> QED
    BY <1>3, <1>4, <1>5 DEF Shape

(* A step from a place where the part is frozen to another such place. *)
LEMMA StaysFrozen ==
  ASSUME Shape, NEW r \in SortRank, place[r] \in {"sendnumbers", "sent"}, NEW to \in {"sent", "barrier"},
         place' = [place EXCEPT ![r] = to], UNCHANGED <<arr, war, rn, round, length>>,
         \A q \in SortRank \ {r} : numbers'[q] = numbers[q],
         place[r] = "sent" => numbers' = numbers
  PROVE  /\ AtEnds'
         /\ \A q \in SortRank : InTree(q)' /\ Told(q)' /\ Ordered(q)' /\ Behind(q)'
         /\ \A q \in SortRank \ {r} : Message(q)'
  <1>t. SortTypes /\ AtEnds
    BY DEF Shape
  <1>1. AtEnds'
    BY <1>t, NobodyEnds DEF SortTypes, Ended
  <1>2. \A q \in SortRank : (q # r => place'[q] = place[q]) /\ place'[r] = to
    BY <1>t DEF SortTypes
  <1>3. ASSUME NEW q \in SortRank PROVE InTree(q)' /\ Told(q)' /\ Ordered(q)' /\ Behind(q)'
    <2>1. InTree(q) /\ Told(q) /\ Ordered(q) /\ Behind(q)
      BY DEF Shape
    <2>2. InTree(q)'
      BY <1>2, <2>1 DEF InTree, Sending, Receiving, Ended
    <2>3. Told(q)'
      <3> SUFFICES ASSUME place'[q] = "recvnumbers"
                   PROVE  rn'[q] = Len(war'[From(q)']) /\ place'[From(q)'] \in Frozen
        BY DEF Told
      <3>1. place[q] = "recvnumbers" /\ From(q)' = From(q)
        BY <1>2 DEF From
      <3>2. From(q) \in SortRank
        BY <3>1, PartnerRank DEF Receiving
      <3>3. place'[From(q)] \in Frozen
        BY <1>2, <2>1, <3>1, <3>2 DEF Told, Frozen, Gone
      <3> QED
        BY <2>1, <3>1, <3>3 DEF Told
    <2>4. Ordered(q)'
      BY <1>2, <2>1 DEF Ordered
    <2>5. Behind(q)'
      <3> SUFFICES ASSUME NEW k \in 0 .. round[q] - 1, q + Step(k) < size
                   PROVE  round[q + Step(k)] = k /\ numbers'[q + Step(k)] = <<>> /\ place'[q + Step(k)] \in Gone
        BY DEF Behind
      <3>1. round[q + Step(k)] = k /\ numbers[q + Step(k)] = <<>> /\ place[q + Step(k)] \in Gone
        BY <2>1 DEF Behind
      <3>2. q + Step(k) \in SortRank
        <4>1. Step(k) \in Nat
          BY <1>t, StepIs DEF SortTypes
        <4> QED
          BY <4>1, RankIs DEF SortRank
      <3>3. CASE q + Step(k) # r
        BY <1>2, <3>1, <3>2, <3>3
      <3>4. CASE q + Step(k) = r
        <4>1. place[r] = "sent"
          BY <3>1, <3>4 DEF Gone, Ended
        <4> QED
          BY <1>2, <3>1, <3>4, <4>1 DEF Gone
      <3> QED
        BY <3>3, <3>4
    <2> QED
      BY <2>2, <2>3, <2>4, <2>5
  <1>4. ASSUME NEW q \in SortRank \ {r} PROVE Message(q)'
    BY <1>2 DEF Message, Shape
  <1> QED
    BY <1>1, <1>3, <1>4

LEMMA SendNumbersShape == ASSUME Shape, NEW r \in SortRank, SendNumbers(r) PROVE Shape'
  <1>t. SortTypes
    BY DEF Shape
  <1>r. InTree(r) /\ Message(r)
    BY DEF Shape
  <1>a. /\ place[r] = "sendnumbers" /\ place' = [place EXCEPT ![r] = "sent"]
        /\ numbers' = [numbers EXCEPT ![r] = <<war[r]>>] /\ UNCHANGED <<arr, war, rn, round, length>>
    BY DEF SendNumbers
  <1>1. SortTypes'
    <2>1. war[r] \in Seq(Values) /\ <<war[r]>> \in Seq(Seq(Values))
      BY <1>t DEF SortTypes
    <2>2. numbers' \in [SortRank -> Seq(Seq(Values))]
      BY <1>a, <1>t, <2>1 DEF SortTypes
    <2>3. "sent" \in SortPlace
      BY DEF SortPlace, Sending
    <2>4. place' \in [SortRank -> SortPlace]
      BY <1>a, <1>t, <2>3 DEF SortTypes
    <2> QED
      BY <1>t, <1>a, <2>2, <2>4 DEF SortTypes
  <1>2. \A q \in SortRank \ {r} : numbers'[q] = numbers[q]
    BY <1>a, <1>t DEF SortTypes
  <1>3. /\ AtEnds'
        /\ \A q \in SortRank : InTree(q)' /\ Told(q)' /\ Ordered(q)' /\ Behind(q)'
        /\ \A q \in SortRank \ {r} : Message(q)'
    BY <1>a, <1>2, StaysFrozen
  <1>4. Message(r)'
    <2>1. numbers'[r] = <<war[r]>> /\ place'[r] = "sent"
      BY <1>a, <1>t DEF SortTypes
    <2>2. Step(round[r]) < size /\ ~Receives(r, round[r])
      BY <1>r, <1>a DEF InTree, Sending
    <2> QED
      BY <1>r, <1>a, <2>1, <2>2 DEF Message, Frozen, Gone
  <1> QED
    BY <1>1, <1>3, <1>4 DEF Shape

LEMMA SentShape == ASSUME Shape, NEW r \in SortRank, Sent(r) PROVE Shape'
  <1>t. SortTypes
    BY DEF Shape
  <1>a. /\ place[r] = "sent" /\ place' = [place EXCEPT ![r] = "barrier"]
        /\ UNCHANGED <<arr, war, rn, round, length, numbers>>
    BY DEF Sent
  <1>1. SortTypes'
    BY <1>t, <1>a DEF SortTypes, SortPlace
  <1>3. /\ AtEnds'
        /\ \A q \in SortRank : InTree(q)' /\ Told(q)' /\ Ordered(q)' /\ Behind(q)'
        /\ \A q \in SortRank \ {r} : Message(q)'
    BY <1>a, StaysFrozen
  <1>4. Message(r)'
    BY <1>a, <1>t DEF Shape, SortTypes, Message, Frozen, Gone
  <1> QED
    BY <1>1, <1>3, <1>4 DEF Shape

LEMMA ReceiveLengthShape == ASSUME Shape, NEW r \in SortRank, ReceiveLength(r) PROVE Shape'
  <1>t. SortTypes
    BY DEF Shape
  <1> DEFINE f == From(r)
  <1>a. /\ place[r] = "recv" /\ length[f] # <<>> /\ rn' = [rn EXCEPT ![r] = Head(length[f])]
        /\ length' = [length EXCEPT ![f] = <<>>] /\ place' = [place EXCEPT ![r] = "recvnumbers"]
        /\ UNCHANGED <<arr, war, round, numbers>>
    BY DEF ReceiveLength
  <1>f. f \in SortRank /\ f # r
    BY <1>a, PartnerRank DEF Receiving
  <1> HIDE DEF f
  <1>n. place[r] \notin Frozen /\ place[r] # "qsort"
    BY <1>a DEF Gone, Frozen, Ended
  <1>m. length[f] = <<Len(war[f])>> /\ place[f] \in Frozen
    BY <1>a, <1>f DEF Shape, Message
  <1>p. "recvnumbers" \in SortPlace /\ "recvnumbers" \notin Ended
    BY DEF SortPlace, Ended, Receiving
  <1>h. Head(length[f]) = Len(war[f]) /\ Len(war[f]) \in Nat
    BY <1>f, <1>m, <1>t DEF SortTypes
  <1>1. SortTypes'
    <2>1. rn' \in [SortRank -> Nat]
      BY <1>a, <1>h, <1>t DEF SortTypes
    <2>0. <<>> \in Seq(Nat)
      OBVIOUS
    <2>2. length' \in [SortRank -> Seq(Nat)]
      BY <1>a, <1>t, <2>0 DEF SortTypes
    <2>3. place' \in [SortRank -> SortPlace]
      BY <1>a, <1>p, <1>t DEF SortTypes
    <2> QED
      BY <1>t, <1>a, <2>1, <2>2, <2>3 DEF SortTypes
  <1>2. rn'[r] = Len(war[From(r)]) /\ place[From(r)] \in Frozen /\ \A q \in SortRank \ {r} : rn'[q] = rn[q]
    BY <1>a, <1>h, <1>m, <1>t DEF SortTypes, f
  <1>3. /\ AtEnds'
        /\ \A q \in SortRank : Told(q)' /\ Ordered(q)' /\ (round'[q] = round[q] => Behind(q)')
    BY <1>a, <1>n, <1>p, <1>2, MovesOne
  <1>4. ASSUME NEW q \in SortRank PROVE InTree(q)' /\ Message(q)' /\ Behind(q)'
    <2>1. InTree(q) /\ Message(q)
      BY DEF Shape
    <2>2. InTree(q)'
      BY <2>1, <1>a, <1>t DEF InTree, SortTypes, Receiving, Sending, Ended
    <2>3. Message(q)'
      <3>1. CASE q = r
        BY <1>a, <1>f, <1>n, <1>t, <2>1, <3>1 DEF Message, SortTypes, Frozen
      <3>2. CASE q # r
        <4>1. place'[q] = place[q] /\ (length'[q] = length[q] \/ length'[q] = <<>>)
          BY <1>a, <1>t, <3>2 DEF SortTypes
        <4> QED
          BY <1>a, <2>1, <4>1 DEF Message
      <3> QED
        BY <3>1, <3>2
    <2> QED
      BY <1>a, <1>3, <2>2, <2>3
  <1> QED
    BY <1>1, <1>3, <1>4 DEF Shape

(* What a rank receives: the part of the partner of this round. *)
LEMMA ReceivedIs ==
  ASSUME Shape, NEW r \in SortRank, place[r] = "recvnumbers", numbers[From(r)] # <<>>
  PROVE  /\ Head(numbers[From(r)]) = war[From(r)] /\ numbers[From(r)] = <<war[From(r)]>>
         /\ round[From(r)] = round[r] /\ place[From(r)] \in Gone /\ war[From(r)] \in Seq(Values)
         /\ CheckSort(war[From(r)]) /\ Len(war[From(r)]) = rn[r]
  <1> DEFINE q == From(r)
             k == round[r]
  <1>1. q \in SortRank /\ Receives(r, k) /\ q = r + Step(k) /\ k \in Nat /\ r \in Nat
    BY PartnerRank, RankIs DEF Receiving
  <1>2. q % Step(k) = 0 /\ ~Receives(q, k)
    BY <1>1, PartnerSends
  <1> HIDE DEF q, k
  <1>3. /\ numbers[q] = <<war[q]>> /\ place[q] \in Gone /\ ~Receives(q, round[q]) /\ q % Step(round[q]) = 0
        /\ round[q] \in Nat /\ q \in Nat /\ war[q] \in Seq(Values) /\ Ordered(q)
    BY <1>1, RankIs DEF Shape, Message, InTree, SortTypes, q
  <1>4. round[q] = k
    BY <1>1, <1>2, <1>3, OneRound
  <1>5. Head(numbers[q]) = war[q]
    BY <1>3
  <1>6. CheckSort(war[q])
    BY <1>3 DEF Ordered, Gone, Ended
  <1>7. rn[r] = Len(war[q])
    BY DEF Shape, Told, q
  <1> QED
    BY <1>3, <1>4, <1>5, <1>6, <1>7 DEF q, k

LEMMA ReceiveNumbersShape == ASSUME Shape, NEW r \in SortRank, ReceiveNumbers(r) PROVE Shape'
  <1>t. SortTypes /\ AtEnds
    BY DEF Shape
  <1> DEFINE f == From(r)
             w == Merge(war[r], Head(numbers[f]))
  <1>a. /\ place[r] = "recvnumbers" /\ numbers[f] # <<>> /\ war' = [war EXCEPT ![r] = w]
        /\ numbers' = [numbers EXCEPT ![f] = <<>>] /\ round' = [round EXCEPT ![r] = round[r] + 1]
        /\ place' = [place EXCEPT ![r] = "loop"] /\ UNCHANGED <<arr, rn, length>>
    BY DEF ReceiveNumbers
  <1>f. f \in SortRank /\ f # r /\ Receives(r, round[r]) /\ round[r] \in Nat /\ f = r + Step(round[r])
    BY <1>a, PartnerRank DEF Receiving
  <1>w. w \in Seq(Values) /\ CheckSort(w)
    <2>1. war[r] \in Seq(Values) /\ CheckSort(war[r])
      BY <1>a, <1>t DEF Shape, Ordered, SortTypes
    <2>2. Head(numbers[f]) \in Seq(Values) /\ CheckSort(Head(numbers[f]))
      BY <1>a, ReceivedIs
    <2> QED
      BY <2>1, <2>2, MergeType, MergeIsSorted
  <1>g. place[f] \in Gone /\ round[f] = round[r]
    BY <1>a, ReceivedIs
  <1>s. Step(round[r] + 1) = 2 * Step(round[r])
    BY <1>f, StepIs
  <1> HIDE DEF f, w
  <1>n. place[r] \notin Frozen /\ place[r] # "qsort" /\ place[r] \notin Gone
    BY <1>a DEF Gone, Frozen, Ended
  <1>1. SortTypes'
    <2>1. round' \in [SortRank -> Nat]
      BY <1>a, <1>f, <1>t DEF SortTypes
    <2>2. place' \in [SortRank -> SortPlace]
      BY <1>a, <1>t DEF SortTypes, SortPlace
    <2>3. war' \in [SortRank -> Seq(Values)]
      BY <1>a, <1>w, <1>t DEF SortTypes
    <2>4. <<>> \in Seq(Seq(Values))
      OBVIOUS
    <2>5. numbers' \in [SortRank -> Seq(Seq(Values))]
      BY <1>a, <1>t, <2>4 DEF SortTypes
    <2> QED
      BY <1>t, <1>a, <2>1, <2>2, <2>3, <2>5 DEF SortTypes
  <1>2. AtEnds'
    BY <1>t, <1>a, NobodyEnds DEF SortTypes, Ended
  <1>o. \A q \in SortRank : /\ q # r => war'[q] = war[q] /\ round'[q] = round[q] /\ place'[q] = place[q]
                            /\ numbers'[q] = IF q = f THEN <<>> ELSE numbers[q]
    BY <1>a, <1>t DEF SortTypes
  <1>r. war'[r] = w /\ round'[r] = round[r] + 1 /\ place'[r] = "loop"
    BY <1>a, <1>t DEF SortTypes
  <1>3. ASSUME NEW q \in SortRank, q # r
        PROVE  InTree(q)' /\ Message(q)' /\ Told(q)' /\ Behind(q)' /\ Ordered(q)'
    <2>1. InTree(q) /\ Message(q) /\ Told(q) /\ Ordered(q)
      BY DEF Shape
    <2>2. InTree(q)' /\ Message(q)' /\ Ordered(q)'
      BY <1>3, <1>o, <1>a, <2>1 DEF InTree, Message, Ordered
    <2>3. Told(q)'
      <3> SUFFICES ASSUME place'[q] = "recvnumbers"
                   PROVE  rn'[q] = Len(war'[From(q)']) /\ place'[From(q)'] \in Frozen
        BY DEF Told
      <3>1. place[q] = "recvnumbers" /\ From(q)' = From(q)
        BY <1>3, <1>o DEF From
      <3>2. From(q) \in SortRank
        BY <3>1, PartnerRank DEF Receiving
      <3>3. rn[q] = Len(war[From(q)]) /\ place[From(q)] \in Frozen /\ From(q) # r
        BY <1>n, <2>1, <3>1 DEF Told
      <3> QED
        BY <1>a, <1>o, <3>1, <3>2, <3>3
    <2>4. Behind(q)'
      BY <1>3, <1>n, <1>o, StillBehind DEF Behind
    <2> QED
      BY <2>2, <2>3, <2>4
  <1>4. InTree(r)' /\ Message(r)' /\ Told(r)' /\ Behind(r)' /\ Ordered(r)'
    <2>1. InTree(r)'
      <3>1. r % Step(round'[r]) = 0
        BY <1>f, <1>r, <1>s DEF Receives
      <3> QED
        BY <1>r, <3>1 DEF InTree, Receiving, Sending, Ended
    <2>2. Message(r)'
      <3>1. length[r] = <<>> /\ numbers[r] = <<>>
        BY <1>n DEF Shape, Message
      <3> QED
        BY <1>a, <1>o, <3>1 DEF Message
    <2>3. Behind(r)'
      <3> SUFFICES ASSUME NEW k \in 0 .. round'[r] - 1, r + Step(k) < size
                   PROVE  round'[r + Step(k)] = k /\ numbers'[r + Step(k)] = <<>> /\ place'[r + Step(k)] \in Gone
        BY DEF Behind
      <3>1. k \in 0 .. round[r] - 1 \/ k = round[r]
        BY <1>r, <1>f
      <3>2. CASE k \in 0 .. round[r] - 1
        BY <3>2, <1>n, <1>o, StillBehind
      <3>3. CASE k = round[r]
        BY <3>3, <1>f, <1>g, <1>o
      <3> QED
        BY <3>1, <3>2, <3>3
    <2> QED
      BY <1>r, <1>w, <2>1, <2>2, <2>3 DEF Told, Ordered
  <1> QED
    BY <1>1, <1>2, <1>3, <1>4 DEF Shape

(* At the last barrier everything has been received. *)
LEMMA NothingUnderWay ==
  ASSUME Shape, \A r \in SortRank : place[r] = "barrier", NEW q \in SortRank
  PROVE  numbers[q] = <<>>
  <1> SUFFICES ASSUME numbers[q] # <<>> PROVE FALSE
    OBVIOUS
  <1> DEFINE k == round[q]
             x == q - Step(k)
  <1>1. /\ k \in Nat /\ Step(k) < size /\ ~Receives(q, k) /\ q % Step(k) = 0 /\ q \in Nat /\ q < size
        /\ size \in Nat /\ Step(k) \in Nat /\ Step(k) >= 1
    BY RankIs, StepIs DEF Shape, SortTypes, Message, InTree
  <1>2. x \in Nat /\ Receives(x, k) /\ x + Step(k) = q
    BY <1>1, PartnerIs
  <1>3. x \in SortRank
    BY <1>1, <1>2 DEF SortRank
  <1>4. x % Step(k) = 0
    BY <1>1, <1>2, PartnerSends
  <1> DEFINE l == round[x]
  <1>5. /\ l \in Nat /\ x % Step(l) = 0 /\ Behind(x) /\ Step(l) \in Nat
        /\ Step(l) >= size \/ ~Receives(x, l)
    BY <1>3, StepIs DEF Shape, SortTypes, InTree
  <1> HIDE DEF k, x, l
  <1>6. k < l
    <2>1. CASE Step(l) >= size
      BY <1>1, <1>5, <2>1, StepGrows
    <2>2. CASE ~Receives(x, l)
      <3>1. l # k
        BY <1>2, <2>2
      <3>2. ~(l < k)
        BY <1>1, <1>2, <1>4, <1>5, <2>2, HeadOfEarlier
      <3> QED
        BY <1>1, <1>5, <3>1, <3>2
    <2> QED
      BY <1>5, <2>1, <2>2
  <1>7. k \in 0 .. l - 1
    BY <1>1, <1>5, <1>6
  <1>8. numbers[x + Step(k)] = <<>>
    BY <1>1, <1>2, <1>5, <1>7 DEF Behind, l
  <1> QED
    BY <1>2, <1>8

LEMMA LastBarrierShape == ASSUME Shape, LastBarrier PROVE Shape'
  <1>t. SortTypes /\ AtEnds
    BY DEF Shape
  <1>a. /\ \A r \in SortRank : place[r] = "barrier"
        /\ \A r \in SortRank : place'[r] = IF r # ROOT THEN "exit"
                                           ELSE IF CheckSort(war[ROOT]) THEN "success" ELSE "fail"
        /\ place' \in [SortRank -> SortPlace]
        /\ UNCHANGED <<arr, war, rn, round, length, numbers>>
    BY DEF LastBarrier, SortPlace, Ended
  <1>o. ROOT \in SortRank /\ CheckSort(war[ROOT])
    <2>1. ROOT \in SortRank
      BY SizeAssumption DEF SortRank, ROOT
    <2> QED
      BY <1>a, <2>1 DEF Shape, Ordered
  <1>1. SortTypes'
    BY <1>t, <1>a DEF SortTypes
  <1>e. \A r \in SortRank : place'[r] \in Ended
    BY <1>a DEF Ended
  <1>2. AtEnds'
    <2>1. \A q \in SortRank : numbers'[q] = <<>>
      BY <1>a, NothingUnderWay
    <2> QED
      BY <1>a, <1>e, <1>o, <2>1 DEF AtEnds
  <1>3. ASSUME NEW q \in SortRank
        PROVE  InTree(q)' /\ Message(q)' /\ Told(q)' /\ Behind(q)' /\ Ordered(q)'
    <2>1. InTree(q) /\ Message(q) /\ Behind(q) /\ Ordered(q) /\ place[q] = "barrier" /\ place'[q] \in Ended
      BY <1>a, <1>e DEF Shape
    <2>2. InTree(q)'
      BY <1>a, <2>1 DEF InTree, Ended, Sending, Receiving
    <2>3. Message(q)'
      BY <1>a, <2>1 DEF Message, Frozen, Gone
    <2>4. Told(q)'
      BY <2>1 DEF Told, Ended
    <2>5. Behind(q)'
      <3> SUFFICES ASSUME NEW k \in 0 .. round[q] - 1, q + Step(k) < size
                   PROVE  round[q + Step(k)] = k /\ numbers[q + Step(k)] = <<>> /\ place'[q + Step(k)] \in Gone
        BY <1>a DEF Behind
      <3>1. round[q + Step(k)] = k /\ numbers[q + Step(k)] = <<>>
        BY <2>1 DEF Behind
      <3>2. Step(k) \in Nat
        BY <1>t, StepIs DEF SortTypes
      <3>3. q + Step(k) \in SortRank
        BY <3>2, RankIs DEF SortRank
      <3> QED
        BY <1>e, <3>1, <3>3 DEF Gone
    <2>6. Ordered(q)'
      BY <1>a, <2>1 DEF Ordered
    <2> QED
      BY <2>2, <2>3, <2>4, <2>5, <2>6
  <1> QED
    BY <1>1, <1>2, <1>3 DEF Shape

LEMMA SameShape == ASSUME Shape, UNCHANGED sortVars PROVE Shape'
  <1>1. UNCHANGED <<arr, war, rn, round, place, length, numbers>>
    BY DEF sortVars
  <1>2. SortTypes' /\ AtEnds'
    BY <1>1 DEF Shape, SortTypes, AtEnds
  <1>3. ASSUME NEW q \in SortRank
        PROVE  InTree(q)' /\ Message(q)' /\ Told(q)' /\ Behind(q)' /\ Ordered(q)'
    BY <1>1 DEF Shape, InTree, Message, Told, From, Behind, Ordered
  <1> QED
    BY <1>2, <1>3 DEF Shape

-----------------------------------------------------------------------------
(* Where the numbers are. *)
Spread ==
  \E f \in Bijection(1..num, Cells) : \A x \in 1..num : Part(f[x][1])[f[x][2]] = arr[x]

LEMMA CellsMove ==
  ASSUME Spread, arr' = arr, NEW A \in SUBSET Cells, NEW B, B \intersect (Cells \ A) = {},
         Cells' = (Cells \ A) \union B, NEW g \in Bijection(B, A),
         \A c \in B : Part(c[1])'[c[2]] = Part(g[c][1])[g[c][2]],
         \A c \in Cells \ A : Part(c[1])'[c[2]] = Part(c[1])[c[2]]
  PROVE  Spread'
  <1>1. PICK f \in Bijection(1..num, Cells) : \A x \in 1..num : Part(f[x][1])[f[x][2]] = arr[x]
    BY DEF Spread
  <1> DEFINE D == (Cells \ A) \union B
             back(c) == CHOOSE b \in B : g[b] = c
             h == [x \in 1..num |-> IF f[x] \in A THEN back(f[x]) ELSE f[x]]
  <1>f. /\ \A x \in 1..num : f[x] \in Cells
        /\ \A x, y \in 1..num : f[x] = f[y] => x = y
        /\ \A c \in Cells : \E x \in 1..num : f[x] = c
    BY <1>1 DEF Bijection, Injection, Surjection, IsInjective
  <1>g. /\ \A b \in B : g[b] \in A
        /\ \A b, c \in B : g[b] = g[c] => b = c
        /\ \A c \in A : \E b \in B : g[b] = c
    BY DEF Bijection, Injection, Surjection, IsInjective
  <1>b. \A c \in A : back(c) \in B /\ g[back(c)] = c
    BY <1>g
  <1>d. /\ \A x \in 1..num : h[x] = IF f[x] \in A THEN back(f[x]) ELSE f[x]
        /\ h = [x \in 1..num |-> h[x]]
    OBVIOUS
  <1> HIDE DEF back, h
  <1>5. \A x \in 1..num : /\ f[x] \in A => h[x] \in B /\ g[h[x]] = f[x]
                          /\ f[x] \notin A => h[x] = f[x] /\ h[x] \notin B
    BY <1>b, <1>d, <1>f
  <1>2. h \in [1..num -> D]
    <2>1. \A x \in 1..num : h[x] \in D
      BY <1>5, <1>f
    <2> QED
      BY <1>d, <2>1
  <1>3. \A x, y \in 1..num : h[x] = h[y] => x = y
    BY <1>5, <1>f
  <1>4. ASSUME NEW c \in D PROVE \E x \in 1..num : h[x] = c
    <2>1. CASE c \in B
      <3>1. PICK x \in 1..num : f[x] = g[c]
        BY <2>1, <1>f, <1>g
      <3>2. h[x] \in B /\ g[h[x]] = g[c]
        BY <2>1, <3>1, <1>g, <1>5
      <3> QED
        BY <2>1, <3>2, <1>g
    <2>2. CASE c \in Cells \ A
      BY <1>5, <1>f, <2>2
    <2> QED
      BY <2>1, <2>2
  <1>7. h \in Bijection(1..num, D)
    BY <1>2, <1>3, <1>4 DEF Bijection, Injection, Surjection, IsInjective
  <1>6. ASSUME NEW x \in 1..num PROVE Part(h[x][1])'[h[x][2]] = arr[x]
    <2>1. Part(f[x][1])[f[x][2]] = arr[x]
      BY <1>1
    <2>2. CASE f[x] \in A
      <3>1. h[x] \in B /\ g[h[x]] = f[x]
        BY <1>5, <2>2
      <3> QED
        BY <2>1, <3>1
    <2>3. CASE f[x] \notin A
      <3>1. h[x] = f[x] /\ f[x] \in Cells \ A
        BY <1>5, <1>f, <2>3
      <3> QED
        BY <2>1, <3>1
    <2> QED
      BY <2>2, <2>3
  <1>8. \E e \in Bijection(1..num, Cells') : \A x \in 1..num : Part(e[x][1])'[e[x][2]] = arr'[x]
    BY <1>6, <1>7
  <1> QED
    BY <1>8 DEF Spread

(* Some parts may be replaced by others that hold the same numbers. *)
Replaces(P, Q, A, B, g) ==
  /\ P \subseteq Parts /\ Parts' = (Parts \ P) \union Q /\ Q \intersect (Parts \ P) = {}
  /\ \A p \in Parts \ P : Part(p)' = Part(p)
  /\ \A c : c \in A <=> \E p \in P : \E k \in DOMAIN Part(p) : c = <<p, k>>
  /\ \A c : c \in B <=> \E p \in Q : \E k \in DOMAIN (Part(p)') : c = <<p, k>>
  /\ g \in Bijection(B, A)
  /\ \A c \in B : Part(c[1])'[c[2]] = Part(g[c][1])[g[c][2]]

LEMMA Rearranged ==
  ASSUME Spread, arr' = arr, NEW P, NEW Q, NEW A, NEW B, NEW g, Replaces(P, Q, A, B, g)
  PROVE  Spread'
  <1> DEFINE D == (Cells \ A) \union B
  <1>a. /\ P \subseteq Parts /\ Parts' = (Parts \ P) \union Q /\ Q \intersect (Parts \ P) = {}
        /\ \A p \in Parts \ P : Part(p)' = Part(p)
        /\ g \in Bijection(B, A) /\ \A c \in B : Part(c[1])'[c[2]] = Part(g[c][1])[g[c][2]]
    BY DEF Replaces
  <1>c. \A c : /\ c \in Cells <=> \E p \in Parts : \E k \in DOMAIN Part(p) : c = <<p, k>>
               /\ c \in A <=> \E p \in P : \E k \in DOMAIN Part(p) : c = <<p, k>>
               /\ c \in B <=> \E p \in Q : \E k \in DOMAIN (Part(p)') : c = <<p, k>>
               /\ c \in Cells' <=> \E p \in Parts' : \E k \in DOMAIN (Part(p)') : c = <<p, k>>
    <2> HIDE DEF D
    <2>2. \A c : c \in Cells <=> \E p \in Parts : \E k \in DOMAIN Part(p) : c = <<p, k>>
      BY DEF Cells
    <2>4. \A c : c \in Cells' <=> \E p \in Parts' : \E k \in DOMAIN (Part(p)') : c = <<p, k>>
      BY DEF Cells
    <2> QED
      BY <2>2, <2>4 DEF Replaces
  <1>2. A \in SUBSET Cells
    BY <1>a, <1>c
  <1>r. \A c : c \in Cells \ A <=> \E p \in Parts \ P : \E k \in DOMAIN Part(p) : c = <<p, k>>
    BY <1>a, <1>c
  <1>3. B \intersect (Cells \ A) = {}
    <2>1. ASSUME NEW c, c \in B, c \in Cells \ A PROVE FALSE
      <3>1a. PICK p \in Q : \E k \in DOMAIN (Part(p)') : c = <<p, k>>
        BY <1>c, <2>1
      <3>1. PICK k \in DOMAIN (Part(p)') : c = <<p, k>>
        BY <3>1a
      <3>2a. PICK q \in Parts \ P : \E l \in DOMAIN Part(q) : c = <<q, l>>
        BY <1>r, <2>1
      <3>2. PICK l \in DOMAIN Part(q) : c = <<q, l>>
        BY <3>2a
      <3>3. p = q
        BY <3>1, <3>2
      <3> QED
        BY <1>a, <3>3
    <2> QED
      BY <2>1
  <1>4. Cells' = D
    <2>1. ASSUME NEW c, c \in Cells' PROVE c \in D
      <3>1a. PICK p \in Parts' : \E k \in DOMAIN (Part(p)') : c = <<p, k>>
        BY <1>c, <2>1
      <3>1. PICK k \in DOMAIN (Part(p)') : c = <<p, k>>
        BY <3>1a
      <3>2. CASE p \in Q
        BY <1>c, <3>1, <3>2
      <3>3. CASE p \in Parts \ P
        BY <1>a, <1>r, <3>1, <3>3
      <3> QED
        BY <1>a, <3>1, <3>2, <3>3
    <2>2. ASSUME NEW c, c \in D PROVE c \in Cells'
      <3>1. CASE c \in B
        BY <1>a, <1>c, <3>1
      <3>2. CASE c \in Cells \ A
        <4>1a. PICK p \in Parts \ P : \E k \in DOMAIN Part(p) : c = <<p, k>>
          BY <3>2, <1>r
        <4>1. PICK k \in DOMAIN Part(p) : c = <<p, k>>
          BY <4>1a
        <4>2. p \in Parts' /\ k \in DOMAIN (Part(p)')
          BY <1>a, <4>1
        <4> QED
          BY <4>1, <4>2, <1>c
      <3> QED
        BY <2>2, <3>1, <3>2
    <2> HIDE DEF D
    <2> QED
      BY <2>1, <2>2
  <1>6. \A c \in Cells \ A : Part(c[1])'[c[2]] = Part(c[1])[c[2]]
    <2> SUFFICES ASSUME NEW c \in Cells \ A PROVE Part(c[1])'[c[2]] = Part(c[1])[c[2]]
      OBVIOUS
    <2>1. PICK p \in Parts \ P : \E k \in DOMAIN Part(p) : c = <<p, k>>
      BY <1>r
    <2>2. c[1] = p /\ Part(p)' = Part(p)
      BY <1>a, <2>1
    <2> QED
      BY <2>2
  <1> QED
    BY <1>2, <1>3, <1>4, <1>6, <1>a, CellsMove DEF D

LEMMA Unmoved ==
  ASSUME Spread, arr' = arr, Parts' = Parts, \A p \in Parts : Part(p)' = Part(p)
  PROVE  Spread'
  <1>1. Cells' = Cells
    BY DEF Cells
  <1>2. \A c \in Cells : Part(c[1])' = Part(c[1])
    BY DEF Cells
  <1>3. PICK f \in Bijection(1..num, Cells) : \A x \in 1..num : Part(f[x][1])[f[x][2]] = arr[x]
    BY DEF Spread
  <1>4. \A x \in 1..num : f[x] \in Cells
    BY <1>3 DEF Bijection, Injection
  <1>5. \A x \in 1..num : Part(f[x][1])'[f[x][2]] = arr'[x]
    BY <1>2, <1>3, <1>4
  <1>6. f \in Bijection(1..num, Cells')
    BY <1>1, <1>3
  <1>7. \E e \in Bijection(1..num, Cells') : \A x \in 1..num : Part(e[x][1])'[e[x][2]] = arr'[x]
    BY <1>5, <1>6
  <1> QED
    BY <1>7 DEF Spread

LEMMA BijectionIs ==
  ASSUME NEW S, NEW T, NEW g \in [S -> T],
         \A x, y \in S : g[x] = g[y] => x = y, \A y \in T : \E x \in S : g[x] = y
  PROVE  g \in Bijection(S, T)
  BY DEF Bijection, Injection, Surjection, IsInjective

Moves(w, v, K, t) ==
  /\ w \in Parts /\ Parts' = (Parts \ {w}) \union {v} /\ v \notin Parts \ {w}
  /\ \A p \in Parts \ {w} : Part(p)' = Part(p)
  /\ K = DOMAIN (Part(v)') /\ t \in Bijection(K, DOMAIN Part(w))
  /\ \A k \in K : Part(v)'[k] = Part(w)[t[k]]

LEMMA OnePart ==
  ASSUME Spread, arr' = arr, NEW w, NEW v, NEW K, NEW t, Moves(w, v, K, t)
  PROVE  Spread'
  <1>m. /\ w \in Parts /\ Parts' = (Parts \ {w}) \union {v} /\ v \notin Parts \ {w}
        /\ \A p \in Parts \ {w} : Part(p)' = Part(p)
        /\ K = DOMAIN (Part(v)') /\ t \in Bijection(K, DOMAIN Part(w))
        /\ \A k \in K : Part(v)'[k] = Part(w)[t[k]]
    BY DEF Moves
  <1> DEFINE g == [c \in {v} \X K |-> <<w, t[c[2]]>>]
             L == DOMAIN Part(w)
  <1>t. /\ \A k \in K : t[k] \in L
        /\ \A k, l \in K : t[k] = t[l] => k = l
        /\ \A l \in L : \E k \in K : t[k] = l
    BY <1>m DEF Bijection, Injection, Surjection, IsInjective
  <1>1. \A k \in K : <<v, k>> \in {v} \X K /\ g[<<v, k>>] = <<w, t[k]>>
    OBVIOUS
  <1>2. g \in Bijection({v} \X K, {w} \X L)
    <2>d. g = [c \in {v} \X K |-> g[c]]
      OBVIOUS
    <2>c. \A c \in {v} \X K : \E k \in K : c = <<v, k>>
      OBVIOUS
    <2>l. /\ \A c \in {w} \X L : \E l \in L : c = <<w, l>>
          /\ \A l \in L : <<w, l>> \in {w} \X L
      OBVIOUS
    <2> HIDE DEF g, L
    <2>1. \A c \in {v} \X K : g[c] \in {w} \X L
      BY <1>1, <1>t, <2>c, <2>l
    <2>2. ASSUME NEW c \in {v} \X K, NEW e \in {v} \X K, g[c] = g[e] PROVE c = e
      <3>1. PICK k \in K : c = <<v, k>>
        BY <2>c
      <3>2. PICK l \in K : e = <<v, l>>
        BY <2>c
      <3>3. t[k] = t[l]
        BY <1>1, <2>2, <3>1, <3>2
      <3> QED
        BY <1>t, <3>1, <3>2, <3>3
    <2>3. ASSUME NEW c \in {w} \X L PROVE \E e \in {v} \X K : g[e] = c
      <3>1. PICK l \in L : c = <<w, l>>
        BY <2>l
      <3>2. PICK k \in K : t[k] = l
        BY <1>t
      <3> QED
        BY <1>1, <3>1, <3>2
    <2>4. g \in [{v} \X K -> {w} \X L]
      BY <2>1, <2>d
    <2>5. /\ \A c, e \in {v} \X K : g[c] = g[e] => c = e
          /\ \A c \in {w} \X L : \E e \in {v} \X K : g[e] = c
      BY <2>2, <2>3
    <2> QED
      BY <2>4, <2>5, BijectionIs
  <1> HIDE DEF g
  <1> DEFINE P == {w}
             Q == {v}
             A == {w} \X L
             B == {v} \X K
  <1>3. /\ \A c : c \in A <=> \E p \in P : \E k \in DOMAIN Part(p) : c = <<p, k>>
        /\ \A c : c \in B <=> \E p \in Q : \E k \in DOMAIN (Part(p)') : c = <<p, k>>
    BY <1>m
  <1>4. \A c \in B : Part(c[1])'[c[2]] = Part(g[c][1])[g[c][2]]
    <2> SUFFICES ASSUME NEW k \in K PROVE Part(v)'[k] = Part(g[<<v, k>>][1])[g[<<v, k>>][2]]
      OBVIOUS
    <2>1. g[<<v, k>>][1] = w /\ g[<<v, k>>][2] = t[k]
      BY <1>1
    <2> QED
      BY <1>m, <2>1
  <1>5. /\ P \in SUBSET Parts /\ Parts' = (Parts \ P) \union Q /\ Q \intersect (Parts \ P) = {}
        /\ \A p \in Parts \ P : Part(p)' = Part(p)
    BY <1>m
  <1>6. g \in Bijection(B, A)
    BY <1>2
  <1> HIDE DEF P, Q, A, B
  <1>7. Replaces(P, Q, A, B, g)
    BY <1>3, <1>4, <1>5, <1>6 DEF Replaces
  <1> QED
    BY <1>7, Rearranged

LEMMA PartsAre ==
  ASSUME NEW p
  PROVE  p \in Parts <=> \/ \E q \in SortRank : Owns(q) /\ p = <<"war", q>>
                         \/ \E q \in SortRank : numbers[q] # <<>> /\ p = <<"message", q>>
  BY DEF Parts

LEMMA PartIsA ==
  ASSUME NEW q
  PROVE  Part(<<"war", q>>) = war[q] /\ Part(<<"message", q>>) = Head(numbers[q])
  BY DEF Part

LEMMA PartsStay ==
  ASSUME \A q \in SortRank : (Owns(q)' <=> Owns(q)) /\ war'[q] = war[q] /\ numbers'[q] = numbers[q]
  PROVE  Parts' = Parts /\ \A p \in Parts : Part(p)' = Part(p)
  <1>1. \A p : p \in Parts' <=> \/ \E q \in SortRank : Owns(q)' /\ p = <<"war", q>>
                               \/ \E q \in SortRank : numbers'[q] # <<>> /\ p = <<"message", q>>
    BY DEF Parts
  <1>2. \A p : p \in Parts' <=> p \in Parts
    BY <1>1, PartsAre
  <1>3. ASSUME NEW p \in Parts PROVE Part(p)' = Part(p)
    <2>1. \E q \in SortRank : p = <<"war", q>> \/ p = <<"message", q>>
      BY PartsAre
    <2>2. PICK q \in SortRank : p = <<"war", q>> \/ p = <<"message", q>>
      BY <2>1
    <2> QED
      BY <2>2 DEF Part
  <1> QED
    BY <1>2, <1>3

LEMMA QsortFrom ==
  ASSUME NEW s \in Seq(Values)
  PROVE  \E t \in Bijection(DOMAIN s, DOMAIN s) : \A k \in DOMAIN s : qsort(s)[k] = s[t[k]]
  <1> DEFINE from(k) == CHOOSE j \in DOMAIN s : Goes(s, j) = k
             t == [k \in DOMAIN s |-> from(k)]
             g == [k \in DOMAIN s |-> Goes(s, k)]
  <1>1. g \in Bijection(DOMAIN s, DOMAIN s)
    BY ValuesAreInts, GoesIsBijection
  <1>2. \A k \in DOMAIN s : g[k] = Goes(s, k)
    OBVIOUS
  <1> HIDE DEF g
  <1>3. /\ \A k \in DOMAIN s : Goes(s, k) \in DOMAIN s
        /\ \A j, k \in DOMAIN s : Goes(s, j) = Goes(s, k) => j = k
        /\ \A k \in DOMAIN s : \E j \in DOMAIN s : Goes(s, j) = k
    BY <1>1, <1>2 DEF Bijection, Injection, Surjection, IsInjective
  <1>4. \A k \in DOMAIN s : from(k) \in DOMAIN s /\ Goes(s, from(k)) = k
    BY <1>3
  <1>5. \A k \in DOMAIN s : t[k] = from(k)
    OBVIOUS
  <1>6. t = [k \in DOMAIN s |-> t[k]]
    OBVIOUS
  <1> HIDE DEF from, t
  <1>7. t \in [DOMAIN s -> DOMAIN s]
    BY <1>4, <1>5, <1>6
  <1>8. t \in Bijection(DOMAIN s, DOMAIN s)
    <2>1. \A j, k \in DOMAIN s : t[j] = t[k] => j = k
      BY <1>4, <1>5
    <2>2. \A j \in DOMAIN s : \E k \in DOMAIN s : t[k] = j
      BY <1>3, <1>4, <1>5
    <2> QED
      BY <1>7, <2>1, <2>2, BijectionIs
  <1>9. \A k \in DOMAIN s : qsort(s)[k] = s[t[k]]
    BY <1>4, <1>5, QsortIs
  <1> QED
    BY <1>8, <1>9

LEMMA SortSpread == ASSUME Shape, Spread, NEW r \in SortRank, Sort(r) PROVE Spread'
  <1>t. SortTypes
    BY DEF Shape
  <1>a. /\ place[r] = "qsort" /\ place' = [place EXCEPT ![r] = "loop"] /\ war' = [war EXCEPT ![r] = qsort(war[r])]
        /\ UNCHANGED <<arr, rn, round, length, numbers>>
    BY DEF Sort
  <1> DEFINE w == <<"war", r>>
             K == DOMAIN war[r]
  <1>0. war[r] \in Seq(Values) /\ DOMAIN qsort(war[r]) = K
    BY <1>t, QsortIs DEF SortTypes
  <1>1. PICK t \in Bijection(K, K) : \A k \in K : qsort(war[r])[k] = war[r][t[k]]
    BY <1>0, QsortFrom
  <1>2. \A q \in SortRank : /\ Owns(q)' <=> Owns(q)
                            /\ q # r => war'[q] = war[q]
                            /\ numbers'[q] = numbers[q]
    BY <1>a, <1>t DEF Owns, SortTypes
  <1>3. war'[r] = qsort(war[r])
    BY <1>a, <1>t DEF SortTypes
  <1>4. Parts' = Parts
    <2>1. \A p : p \in Parts' <=> \/ \E q \in SortRank : Owns(q)' /\ p = <<"war", q>>
                                 \/ \E q \in SortRank : numbers'[q] # <<>> /\ p = <<"message", q>>
      BY DEF Parts
    <2>2. \A p : p \in Parts' <=> p \in Parts
      BY <1>2, <2>1, PartsAre
    <2> QED
      BY <2>2
  <1>5. w \in Parts
    BY <1>a, PartsAre DEF Owns
  <1>6. ASSUME NEW p \in Parts \ {w} PROVE Part(p)' = Part(p)
    <2>1. \E q \in SortRank : (q # r /\ p = <<"war", q>>) \/ p = <<"message", q>>
      BY PartsAre
    <2>2. PICK q \in SortRank : (q # r /\ p = <<"war", q>>) \/ p = <<"message", q>>
      BY <2>1
    <2> QED
      BY <1>2, <2>2 DEF Part
  <1>7. Part(w) = war[r] /\ Part(w)' = war'[r]
    BY DEF Part
  <1> HIDE DEF w, K
  <1>8. Moves(w, w, K, t)
    <2>1. Parts' = (Parts \ {w}) \union {w} /\ w \notin Parts \ {w}
      BY <1>4, <1>5
    <2>2. K = DOMAIN (Part(w)') /\ K = DOMAIN Part(w)
      BY <1>0, <1>3, <1>7 DEF K
    <2>3. \A k \in K : Part(w)'[k] = Part(w)[t[k]]
      BY <1>1, <1>3, <1>7
    <2> QED
      BY <1>1, <1>5, <1>6, <2>1, <2>2, <2>3 DEF Moves
  <1> QED
    BY <1>8, <1>a, OnePart

LEMMA SameNumbers ==
  ASSUME NEW K
  PROVE  [k \in K |-> k] \in Bijection(K, K)
  <1>1. \A k \in K : [l \in K |-> l][k] = k
    OBVIOUS
  <1>2. [l \in K |-> l] \in [K -> K]
    OBVIOUS
  <1> QED
    BY <1>1, <1>2, BijectionIs

LEMMA SendNumbersSpread == ASSUME Shape, Spread, NEW r \in SortRank, SendNumbers(r) PROVE Spread'
  <1>t. SortTypes
    BY DEF Shape
  <1>a. /\ place[r] = "sendnumbers" /\ place' = [place EXCEPT ![r] = "sent"]
        /\ numbers' = [numbers EXCEPT ![r] = <<war[r]>>] /\ UNCHANGED <<arr, war, rn, round, length>>
    BY DEF SendNumbers
  <1> DEFINE w == <<"war", r>>
             v == <<"message", r>>
             K == DOMAIN war[r]
             t == [k \in K |-> k]
  <1>0. numbers[r] = <<>> /\ numbers'[r] = <<war[r]>> /\ numbers'[r] # <<>> /\ Head(numbers'[r]) = war[r]
    <2>1. numbers[r] = <<>>
      BY <1>a DEF Shape, Message, Gone, Ended
    <2>2. numbers'[r] = <<war[r]>>
      BY <1>a, <1>t DEF SortTypes
    <2> QED
      BY <2>1, <2>2
  <1>1. t \in Bijection(K, K) /\ \A k \in K : t[k] = k
    BY SameNumbers
  <1>2. \A q \in SortRank : /\ q # r => (Owns(q)' <=> Owns(q)) /\ numbers'[q] = numbers[q]
                            /\ war'[q] = war[q]
    BY <1>a, <1>t DEF Owns, SortTypes
  <1>3. Owns(r) /\ ~Owns(r)'
    <2>1. place'[r] = "sent"
      BY <1>a, <1>t DEF SortTypes
    <2> QED
      BY <1>a, <2>1 DEF Owns
  <1>4. \A p : p \in Parts' <=> \/ \E q \in SortRank : Owns(q)' /\ p = <<"war", q>>
                               \/ \E q \in SortRank : numbers'[q] # <<>> /\ p = <<"message", q>>
    BY DEF Parts
  <1>w. w # v /\ \A q : (<<"war", q>> = w <=> q = r) /\ (<<"message", q>> = v <=> q = r)
                        /\ <<"war", q>> # v /\ <<"message", q>> # w
    OBVIOUS
  <1>5. w \in Parts
    BY <1>3, PartsAre
  <1>6. v \notin Parts
    <2>1. ASSUME v \in Parts PROVE FALSE
      <3>1. \E q \in SortRank : numbers[q] # <<>> /\ <<"message", q>> = v
        BY <2>1, PartsAre
      <3> QED
        BY <1>0, <3>1
    <2> QED
      BY <2>1
  <1> HIDE DEF w, v
  <1>7. Parts' = (Parts \ {w}) \union {v}
    <2>1. ASSUME NEW q \in SortRank
          PROVE  /\ <<"war", q>> \in Parts' <=> <<"war", q>> \in (Parts \ {w}) \union {v}
                 /\ <<"message", q>> \in Parts' <=> <<"message", q>> \in (Parts \ {w}) \union {v}
      <3>1. /\ <<"war", q>> \in Parts <=> Owns(q)
            /\ <<"message", q>> \in Parts <=> numbers[q] # <<>>
            /\ <<"war", q>> \in Parts' <=> Owns(q)'
            /\ <<"message", q>> \in Parts' <=> numbers'[q] # <<>>
        BY <1>4, PartsAre
      <3> QED
        BY <1>0, <1>2, <1>3, <1>w, <3>1
    <2>2. \A p : p \in Parts \/ p \in Parts' \/ p = v => \E q \in SortRank : p = <<"war", q>> \/ p = <<"message", q>>
      BY <1>4, PartsAre DEF v
    <2>3. ASSUME NEW p PROVE p \in Parts' <=> p \in (Parts \ {w}) \union {v}
      <3>1. CASE \E q \in SortRank : p = <<"war", q>> \/ p = <<"message", q>>
        <4>1. PICK q \in SortRank : p = <<"war", q>> \/ p = <<"message", q>>
          BY <3>1
        <4>2. CASE p = <<"war", q>>
          BY <2>1, <4>2
        <4>3. CASE p = <<"message", q>>
          BY <2>1, <4>3
        <4> QED
          BY <4>1, <4>2, <4>3
      <3>2. CASE ~ \E q \in SortRank : p = <<"war", q>> \/ p = <<"message", q>>
        BY <2>2, <3>2
      <3> QED
        BY <3>1, <3>2
    <2> QED
      BY <2>3
  <1>8. ASSUME NEW p \in Parts \ {w} PROVE Part(p)' = Part(p)
    <2>1. \E q \in SortRank : p = <<"war", q>> \/ (q # r /\ p = <<"message", q>>)
      BY <1>0, PartsAre
    <2>2. PICK q \in SortRank : p = <<"war", q>> \/ (q # r /\ p = <<"message", q>>)
      BY <2>1
    <2> QED
      BY <1>2, <2>2 DEF Part
  <1>9. Part(w) = war[r] /\ Part(v)' = war[r]
    BY <1>0 DEF Part, w, v
  <1> HIDE DEF K, t
  <1>10. Moves(w, v, K, t)
    <2>1. K = DOMAIN (Part(v)') /\ K = DOMAIN Part(w)
      BY <1>9 DEF K
    <2>2. \A k \in K : Part(v)'[k] = Part(w)[t[k]]
      BY <1>1, <1>9
    <2> QED
      BY <1>1, <1>5, <1>6, <1>7, <1>8, <2>1, <2>2 DEF Moves
  <1> QED
    BY <1>10, <1>a, OnePart

LEMMA ReceiveNumbersSpread == ASSUME Shape, Spread, NEW r \in SortRank, ReceiveNumbers(r) PROVE Spread'
  <1>t. SortTypes
    BY DEF Shape
  <1> DEFINE f == From(r)
             sar == war[r]
             tar == Head(numbers[f])
             both == Merge(sar, tar)
  <1>a. /\ place[r] = "recvnumbers" /\ numbers[f] # <<>> /\ war' = [war EXCEPT ![r] = both]
        /\ numbers' = [numbers EXCEPT ![f] = <<>>] /\ round' = [round EXCEPT ![r] = round[r] + 1]
        /\ place' = [place EXCEPT ![r] = "loop"] /\ UNCHANGED <<arr, rn, length>>
    BY DEF ReceiveNumbers
  <1>f. f \in SortRank /\ f # r
    BY <1>a, PartnerRank DEF Receiving
  <1>s. sar \in Seq(Values) /\ tar \in Seq(Values)
    <2>1. tar \in Seq(Values)
      BY <1>a, ReceivedIs
    <2> QED
      BY <1>t, <2>1 DEF SortTypes
  <1> DEFINE w == <<"war", r>>
             v == <<"message", f>>
             top == Len(sar) + Len(tar)
             A == ({w} \X (1..Len(sar))) \union ({v} \X (1..Len(tar)))
             B == {w} \X (1..top)
  <1>w. w # v /\ \A q : (<<"war", q>> = w <=> q = r) /\ (<<"message", q>> = v <=> q = f)
                        /\ <<"war", q>> # v /\ <<"message", q>> # w
    OBVIOUS
  <1>m. /\ DOMAIN both = 1..top /\ DOMAIN sar = 1..Len(sar) /\ DOMAIN tar = 1..Len(tar)
        /\ \E e \in Bijection(1..top, A) :
             \A id \in 1..top : both[id] = IF e[id][1] = w THEN sar[e[id][2]] ELSE tar[e[id][2]]
    <2>1. w # v
      BY <1>w
    <2>2. DOMAIN sar = 1..Len(sar) /\ DOMAIN tar = 1..Len(tar)
      BY <1>s, ValuesAreInts
    <2> HIDE DEF sar, tar, w, v
    <2>3. DOMAIN both = 1..top
      BY <1>s, MergeType
    <2>4. \E e \in Bijection(1..top, A) :
             \A id \in 1..top : both[id] = IF e[id][1] = w THEN sar[e[id][2]] ELSE tar[e[id][2]]
      <3>1. \E e : TakesFrom(e, sar, tar, w, v)
        BY <1>s, <2>1, MergeIsBijection
      <3> QED
        BY <3>1 DEF TakesFrom
    <2> QED
      BY <2>2, <2>3, <2>4
  <1>p. Part(w) = sar /\ Part(v) = tar
    BY DEF Part
  <1> HIDE DEF f, sar, tar, both
  <1>v. /\ war'[r] = both /\ \A q \in SortRank : q # r => war'[q] = war[q]
        /\ numbers'[f] = <<>> /\ \A q \in SortRank : q # f => numbers'[q] = numbers[q]
        /\ numbers[f] # <<>>
    BY <1>a, <1>f, <1>t DEF SortTypes
  <1>o. Owns(r) /\ \A q \in SortRank : Owns(q)' <=> Owns(q)
    <2>1. place'[r] = "loop" /\ \A q \in SortRank \ {r} : place'[q] = place[q] /\ round'[q] = round[q]
      BY <1>a, <1>t DEF SortTypes
    <2> QED
      BY <1>a, <2>1 DEF Owns
  <1>4. \A p : p \in Parts' <=> \/ \E q \in SortRank : Owns(q)' /\ p = <<"war", q>>
                               \/ \E q \in SortRank : numbers'[q] # <<>> /\ p = <<"message", q>>
    BY DEF Parts
  <1> DEFINE P == {w, v}
             Q == {w}
  <1>1. P \subseteq Parts
    BY <1>f, <1>o, <1>v, PartsAre
  <1>2. Parts' = (Parts \ P) \union Q
    <2>1. ASSUME NEW q \in SortRank
          PROVE  /\ <<"war", q>> \in Parts' <=> <<"war", q>> \in (Parts \ P) \union Q
                 /\ <<"message", q>> \in Parts' <=> <<"message", q>> \in (Parts \ P) \union Q
      <3>1. /\ <<"war", q>> \in Parts <=> Owns(q)
            /\ <<"message", q>> \in Parts <=> numbers[q] # <<>>
            /\ <<"war", q>> \in Parts' <=> Owns(q)'
            /\ <<"message", q>> \in Parts' <=> numbers'[q] # <<>>
        BY <1>4, PartsAre
      <3> HIDE DEF w, v
      <3>2. <<"war", q>> \in Parts' <=> <<"war", q>> \in (Parts \ P) \union Q
        BY <1>o, <1>w, <3>1
      <3>3. <<"message", q>> \in Parts' <=> <<"message", q>> \in (Parts \ P) \union Q
        BY <1>v, <1>w, <3>1
      <3> QED
        BY <3>2, <3>3
    <2>2. \A p : p \in Parts \/ p \in Parts' \/ p = w => \E q \in SortRank : p = <<"war", q>> \/ p = <<"message", q>>
      BY <1>4, PartsAre
    <2>3. ASSUME NEW p PROVE p \in Parts' <=> p \in (Parts \ P) \union Q
      <3>1. CASE \E q \in SortRank : p = <<"war", q>> \/ p = <<"message", q>>
        <4>1. PICK q \in SortRank : p = <<"war", q>> \/ p = <<"message", q>>
          BY <3>1
        <4> HIDE DEF P, Q
        <4>2. CASE p = <<"war", q>>
          BY <2>1, <4>2
        <4>3. CASE p = <<"message", q>>
          BY <2>1, <4>3
        <4> QED
          BY <4>1, <4>2, <4>3
      <3>2. CASE ~ \E q \in SortRank : p = <<"war", q>> \/ p = <<"message", q>>
        BY <2>2, <3>2
      <3> QED
        BY <3>1, <3>2
    <2> QED
      BY <2>3
  <1>3. ASSUME NEW p \in Parts \ P PROVE Part(p)' = Part(p)
    <2>1. \E q \in SortRank : (q # r /\ p = <<"war", q>>) \/ (q # f /\ p = <<"message", q>>)
      BY PartsAre
    <2>2. PICK q \in SortRank : (q # r /\ p = <<"war", q>>) \/ (q # f /\ p = <<"message", q>>)
      BY <2>1
    <2> QED
      BY <1>v, <2>2 DEF Part
  <1>q. Part(w)' = both
    BY <1>v DEF Part
  <1> HIDE DEF w, v
  <1>5. PICK e \in Bijection(1..top, A) :
             \A id \in 1..top : both[id] = IF e[id][1] = w THEN sar[e[id][2]] ELSE tar[e[id][2]]
    BY <1>m
  <1> DEFINE g == [c \in B |-> e[c[2]]]
  <1>6. g \in Bijection(B, A)
    <2>1. /\ \A x \in 1..top : e[x] \in A
          /\ \A x, y \in 1..top : e[x] = e[y] => x = y
          /\ \A c \in A : \E x \in 1..top : e[x] = c
      BY <1>5 DEF Bijection, Injection, Surjection, IsInjective
    <2>2. /\ \A c \in B : c[2] \in 1..top /\ c = <<w, c[2]>>
          /\ \A x \in 1..top : <<w, x>> \in B
          /\ \A x \in 1..top : <<w, x>>[2] = x
      OBVIOUS
    <2>3. \A c \in B : g[c] = e[c[2]]
      OBVIOUS
    <2>d. g = [c \in B |-> g[c]]
      OBVIOUS
    <2> HIDE DEF g, A, B, top
    <2>4. g \in [B -> A]
      <3>1. \A c \in B : g[c] \in A
        BY <2>1, <2>2, <2>3
      <3> QED
        BY <3>1, <2>d
    <2>5. \A c, b \in B : g[c] = g[b] => c = b
      <3> SUFFICES ASSUME NEW c \in B, NEW b \in B, g[c] = g[b] PROVE c = b
        OBVIOUS
      <3>1. c[2] = b[2]
        BY <2>1, <2>2, <2>3
      <3> QED
        BY <2>2, <3>1
    <2>6. \A c \in A : \E b \in B : g[b] = c
      <3> SUFFICES ASSUME NEW c \in A PROVE \E b \in B : g[b] = c
        OBVIOUS
      <3>1. PICK x \in 1..top : e[x] = c
        BY <2>1
      <3>2. <<w, x>> \in B /\ <<w, x>>[2] = x
        BY <2>2
      <3> QED
        BY <2>3, <3>1, <3>2
    <2> QED
      BY <2>4, <2>5, <2>6, BijectionIs
  <1>7. \A c \in B : Part(c[1])'[c[2]] = Part(g[c][1])[g[c][2]]
    <2> SUFFICES ASSUME NEW c \in B PROVE Part(c[1])'[c[2]] = Part(g[c][1])[g[c][2]]
      OBVIOUS
    <2>1. c[1] = w /\ c[2] \in 1..top /\ g[c] = e[c[2]]
      OBVIOUS
    <2>2. e[c[2]] \in A
      BY <1>5, <2>1 DEF Bijection, Injection
    <2>3. e[c[2]][1] = w \/ e[c[2]][1] = v
      BY <2>2
    <2>4. Part(c[1])'[c[2]] = both[c[2]]
      BY <1>q, <2>1
    <2> HIDE DEF g, A, B, top
    <2> QED
      BY <1>5, <1>p, <1>w, <2>1, <2>3, <2>4
  <1>8. /\ \A c : c \in A <=> \E p \in P : \E k \in DOMAIN Part(p) : c = <<p, k>>
        /\ \A c : c \in B <=> \E p \in Q : \E k \in DOMAIN (Part(p)') : c = <<p, k>>
    <2>1. \A c : c \in A <=> \E p \in P : \E k \in DOMAIN Part(p) : c = <<p, k>>
      <3>1. DOMAIN Part(w) = 1..Len(sar) /\ DOMAIN Part(v) = 1..Len(tar)
        BY <1>m, <1>p
      <3> QED
        BY <3>1
    <2>2. \A c : c \in B <=> \E p \in Q : \E k \in DOMAIN (Part(p)') : c = <<p, k>>
      <3>1. DOMAIN (Part(w)') = 1..top
        BY <1>m, <1>q
      <3> HIDE DEF top
      <3> QED
        BY <3>1
    <2> QED
      BY <2>1, <2>2
  <1>9. Q \intersect (Parts \ P) = {}
    OBVIOUS
  <1> HIDE DEF P, Q, A, B, g
  <1>10. Replaces(P, Q, A, B, g)
    BY <1>1, <1>2, <1>3, <1>6, <1>7, <1>8, <1>9 DEF Replaces
  <1> QED
    BY <1>10, <1>a, Rearranged

(* The other steps leave every part where it is. *)
LEMMA StepSpread ==
  ASSUME Shape, Spread, NEW r \in SortRank, Round(r) \/ SendLength(r) \/ Sent(r) \/ ReceiveLength(r)
  PROVE  Spread'
  <1>t. SortTypes
    BY DEF Shape
  <1>1. arr' = arr /\ war' = war /\ numbers' = numbers
    BY DEF Round, SendLength, Sent, ReceiveLength
  <1>2. \A q \in SortRank : q # r => place'[q] = place[q] /\ round'[q] = round[q]
    <2>1. CASE Round(r)
      BY <1>t, <2>1 DEF Round, SortTypes
    <2>2. CASE SendLength(r)
      BY <1>t, <2>2 DEF SendLength, SortTypes
    <2>3. CASE Sent(r)
      BY <1>t, <2>3 DEF Sent, SortTypes
    <2>4. CASE ReceiveLength(r)
      BY <1>t, <2>4 DEF ReceiveLength, SortTypes
    <2> QED
      BY <2>1, <2>2, <2>3, <2>4
  <1>3. Owns(r)' <=> Owns(r)
    <2>1. CASE Round(r)
      <3>1. Owns(r)
        BY <2>1 DEF Round, Owns
      <3>2. Owns(r)'
        BY <1>t, <2>1 DEF Round, Owns, SortTypes
      <3> QED
        BY <3>1, <3>2
    <2>2. CASE SendLength(r)
      BY <1>t, <2>2 DEF SendLength, Owns, SortTypes
    <2>3. CASE Sent(r)
      <3>1. place[r] = "sent" /\ place'[r] = "barrier" /\ round' = round
        BY <1>t, <2>3 DEF Sent, SortTypes
      <3>2. Step(round[r]) < size /\ round[r] \in Nat
        BY <1>t, <3>1 DEF Shape, InTree, Sending, SortTypes
      <3>3. ~(Step(round[r]) >= size)
        BY <3>2, StepIs, RankIs
      <3> QED
        BY <3>1, <3>3 DEF Owns
    <2>4. CASE ReceiveLength(r)
      BY <1>t, <2>4 DEF ReceiveLength, Owns, SortTypes
    <2> QED
      BY <2>1, <2>2, <2>3, <2>4
  <1>4. \A q \in SortRank : (Owns(q)' <=> Owns(q)) /\ war'[q] = war[q] /\ numbers'[q] = numbers[q]
    BY <1>1, <1>2, <1>3 DEF Owns
  <1>5. Parts' = Parts /\ \A p \in Parts : Part(p)' = Part(p)
    BY <1>4, PartsStay
  <1> QED
    BY <1>1, <1>5, Unmoved

(* Every rank is at the head of its round, ROOT of all of them. *)
LEMMA RootIsHead ==
  ASSUME NEW k \in Nat
  PROVE  Receives(ROOT, k)
  <1>1. 2 * Step(k) \in Nat /\ 2 * Step(k) >= 1 /\ 0 = (2 * Step(k)) * 0
    BY StepIs
  <1>2. 0 % (2 * Step(k)) = 0
    BY <1>1, DividesIs
  <1> QED
    BY <1>2 DEF Receives, ROOT

LEMMA OnlyRoot ==
  ASSUME Shape, NEW r \in SortRank, place[r] \in {"barrier"} \union Ended
  PROVE  Step(round[r]) >= size <=> r = ROOT
  <1>1. round[r] \in Nat /\ Step(round[r]) \in Nat /\ Step(round[r]) >= 1
    BY StepIs DEF Shape, SortTypes
  <1>2. InTree(r)
    BY DEF Shape
  <1>3. ASSUME r = ROOT PROVE Step(round[r]) >= size
    BY <1>1, <1>2, <1>3, RootIsHead DEF InTree
  <1>4. ASSUME Step(round[r]) >= size PROVE r = ROOT
    <2>1. r \in Nat /\ r < Step(round[r]) /\ r % Step(round[r]) = 0
      BY <1>1, <1>2, <1>4, RankIs DEF InTree
    <2>2. PICK y \in Nat : r = Step(round[r]) * y
      BY <1>1, <2>1, DividesIs
    <2>3. y = 0
      <3> SUFFICES ASSUME y >= 1 PROVE FALSE
        OBVIOUS
      <3>1. Step(round[r]) * y >= Step(round[r])
        BY <1>1, PositiveProduct
      <3> QED
        BY <1>1, <2>1, <2>2, <3>1
    <2>4. r = 0
      BY <1>1, <2>2, <2>3
    <2> QED
      BY <2>4 DEF ROOT
  <1> QED
    BY <1>3, <1>4

LEMMA LastBarrierSpread == ASSUME Shape, Spread, LastBarrier PROVE Spread'
  <1>a. /\ \A r \in SortRank : place[r] = "barrier"
        /\ \A r \in SortRank : place'[r] = IF r # ROOT THEN "exit"
                                           ELSE IF CheckSort(war[ROOT]) THEN "success" ELSE "fail"
        /\ UNCHANGED <<arr, war, rn, round, length, numbers>>
    BY DEF LastBarrier
  <1>1. ASSUME NEW q \in SortRank PROVE Owns(q)' <=> Owns(q)
    <2>1. CASE q # ROOT
      BY <1>a, <2>1 DEF Owns
    <2>2. CASE q = ROOT
      <3>1. Owns(q)
        BY <1>a, <2>2, OnlyRoot DEF Owns
      <3>2. Owns(q)'
        BY <1>a, <2>2 DEF Owns
      <3> QED
        BY <3>1, <3>2
    <2> QED
      BY <2>1, <2>2
  <1>2. Parts' = Parts /\ \A p \in Parts : Part(p)' = Part(p)
    BY <1>a, <1>1, PartsStay
  <1> QED
    BY <1>a, <1>2, Unmoved

LEMMA SameSpread == ASSUME Spread, UNCHANGED sortVars PROVE Spread'
  <1>1. UNCHANGED <<arr, war, rn, round, place, length, numbers>>
    BY DEF sortVars
  <1>2. Parts' = Parts /\ \A p \in Parts : Part(p)' = Part(p)
    BY <1>1 DEF Parts, Owns, Part
  <1> QED
    BY <1>1, <1>2, Unmoved

(* The numbers of the array, one part after the other. *)
LEMMA QuotientIsUnique ==
  ASSUME NEW d \in Nat, d >= 1, NEW y \in Nat, NEW z \in Nat, NEW e \in 0..d - 1, NEW f \in 0..d - 1,
         d * y + e = d * z + f
  PROVE  y = z /\ e = f
  <1>1. ASSUME NEW a1 \in Nat, NEW b1 \in Nat, NEW c1 \in 0..d - 1, NEW d1 \in 0..d - 1,
               d * a1 + c1 = d * b1 + d1, a1 < b1
        PROVE  FALSE
    <2>1. PICK c \in Nat : b1 = (a1 + 1) + c
      BY <1>1, b1 - (a1 + 1) \in Nat
    <2>2. d * b1 = d * a1 + d + d * c /\ d * c \in Nat /\ d * a1 \in Nat
      BY <2>1
    <2> QED
      BY <1>1, <2>2
  <1>2. ~(y < z)
    BY <1>1
  <1>3. ~(z < y)
    BY <1>1
  <1>4. y = z
    BY <1>2, <1>3
  <1>5. d * y \in Nat /\ d * y = d * z
    BY <1>4
  <1> QED
    BY <1>4, <1>5

LEMMA InitSpread == ASSUME SortInit PROVE Spread
  <1>n. num \in Nat /\ mn \in Nat /\ num = size * mn /\ size \in Nat /\ size >= 1
    BY NumIs, SizeAssumption
  <1>a. arr \in [1..num -> Values] /\ \A r \in SortRank : /\ war[r] = SubSeq(arr, r * mn + 1, (r + 1) * mn)
                                                         /\ place[r] = "qsort" /\ numbers[r] = <<>>
    BY DEF SortInit
  <1>w. \A r \in SortRank : /\ DOMAIN war[r] = 1..mn /\ r * mn \in Nat
                            /\ \A k \in 1..mn : war[r][k] = arr[r * mn + k] /\ r * mn + k \in 1..num
    <2> TAKE r \in SortRank
    <2>1. /\ war[r] \in Seq(Values) /\ Len(war[r]) = mn /\ r * mn \in Nat
          /\ \A k \in 1..mn : war[r][k] = arr[r * mn + k] /\ r * mn + k \in 1..num
      BY <1>a, PartIs
    <2> QED
      BY <2>1, ValuesAreInts
  <1> DEFINE q(x) == (x - 1) \div mn
             e(x) == (x - 1) % mn
             f == [x \in 1..num |-> <<<<"war", q(x)>>, e(x) + 1>>]
  <1>1. ASSUME NEW x \in 1..num
        PROVE  /\ q(x) \in SortRank /\ e(x) \in 0..mn - 1 /\ mn >= 1 /\ x = (mn * q(x) + e(x)) + 1
               /\ mn * q(x) = q(x) * mn
    <2>1. mn >= 1
      <3> SUFFICES ASSUME mn = 0 PROVE FALSE
        BY <1>n
      <3>1. size * mn = 0
        BY <1>n
      <3> QED
        BY <1>n, <3>1
    <2>2. x - 1 = mn * q(x) + e(x) /\ q(x) \in Nat /\ e(x) \in 0..mn - 1
      <3>1. \A z \in Nat : z = mn * (z \div mn) + (z % mn) /\ z \div mn \in Nat /\ z % mn \in 0..mn - 1
        BY <1>n, <2>1, RemainderOf
      <3>2. x - 1 \in Nat
        BY <1>n
      <3> QED
        BY <3>1, <3>2
    <2> HIDE DEF q, e
    <2>3. mn * q(x) \in Nat /\ mn * q(x) = q(x) * mn
      BY <1>n, <2>2
    <2>4. q(x) < size
      <3> SUFFICES ASSUME q(x) >= size PROVE FALSE
        BY <1>n, <2>2
      <3>1. PICK c \in Nat : q(x) = size + c
        BY <1>n, <2>2, q(x) - size \in Nat
      <3>2. mn * q(x) = size * mn + mn * c /\ mn * c \in Nat /\ size * mn \in Nat
        BY <1>n, <3>1
      <3> QED
        BY <1>n, <2>2, <3>2
    <2>5. q(x) \in SortRank
      BY <1>n, <2>2, <2>4 DEF SortRank
    <2> QED
      BY <2>1, <2>2, <2>3, <2>5
  <1>2. \A x \in 1..num : f[x] = <<<<"war", q(x)>>, e(x) + 1>>
    OBVIOUS
  <1>d. f = [x \in 1..num |-> f[x]]
    OBVIOUS
  <1> HIDE DEF q, e, f
  <1>c. \A c : c \in Cells <=> \E r \in SortRank : \E k \in 1..mn : c = <<<<"war", r>>, k>>
    <2>1. \A p : p \in Parts <=> \E r \in SortRank : p = <<"war", r>>
      BY <1>a, PartsAre DEF Owns
    <2>2. \A r \in SortRank : DOMAIN Part(<<"war", r>>) = 1..mn
      BY <1>w, PartIsA
    <2>3. \A c : c \in Cells <=> \E p \in Parts : \E k \in DOMAIN Part(p) : c = <<p, k>>
      BY DEF Cells
    <2>4. ASSUME NEW c, c \in Cells PROVE \E r \in SortRank : \E k \in 1..mn : c = <<<<"war", r>>, k>>
      <3>1. PICK p \in Parts : \E k \in DOMAIN Part(p) : c = <<p, k>>
        BY <2>3, <2>4
      <3>2. PICK r \in SortRank : p = <<"war", r>>
        BY <2>1
      <3> QED
        BY <2>2, <3>1, <3>2
    <2>5. ASSUME NEW r \in SortRank, NEW k \in 1..mn PROVE <<<<"war", r>>, k>> \in Cells
      BY <2>1, <2>2, <2>3
    <2> QED
      BY <2>4, <2>5
  <1>3. \A x \in 1..num : f[x] \in Cells
    <2> TAKE x \in 1..num
    <2>1. q(x) \in SortRank /\ e(x) + 1 \in 1..mn
      BY <1>1, <1>n
    <2> QED
      BY <1>2, <1>c, <2>1
  <1>4. \A x, y \in 1..num : f[x] = f[y] => x = y
    <2> SUFFICES ASSUME NEW x \in 1..num, NEW y \in 1..num, f[x] = f[y] PROVE x = y
      OBVIOUS
    <2>1. q(x) = q(y) /\ e(x) + 1 = e(y) + 1
      BY <1>2
    <2>2. e(x) \in Int /\ e(y) \in Int
      BY <1>1
    <2>3. e(x) = e(y)
      BY <2>1, <2>2
    <2> QED
      BY <1>1, <2>1, <2>3
  <1>5. \A c \in Cells : \E x \in 1..num : f[x] = c
    <2> SUFFICES ASSUME NEW r \in SortRank, NEW k \in 1..mn
                 PROVE  \E x \in 1..num : f[x] = <<<<"war", r>>, k>>
      BY <1>c
    <2> DEFINE x == r * mn + k
    <2>1. x \in 1..num /\ r * mn \in Nat /\ r * mn = mn * r /\ r \in Nat
      BY <1>w, <1>n, RankIs
    <2>2. x = (mn * r + (k - 1)) + 1 /\ k - 1 \in 0..mn - 1
      BY <1>n, <2>1
    <2> HIDE DEF x
    <2>3. /\ x = (mn * q(x) + e(x)) + 1 /\ q(x) \in Nat /\ e(x) \in 0..mn - 1 /\ mn >= 1
      BY <1>1, <2>1, RankIs
    <2>4. mn * q(x) + e(x) = mn * r + (k - 1)
      <3>1. mn * q(x) \in Nat /\ mn * r \in Nat
        BY <1>n, <2>1, <2>3
      <3> QED
        BY <2>2, <2>3, <3>1
    <2>5. q(x) = r /\ e(x) = k - 1
      <3>1. \A y, z \in Nat : \A v, w \in 0..mn - 1 : mn * y + v = mn * z + w => y = z /\ v = w
        BY <1>n, <2>3, QuotientIsUnique
      <3> QED
        BY <2>1, <2>2, <2>3, <2>4, <3>1
    <2>6. e(x) + 1 = k
      BY <2>5
    <2>7. f[x] = <<<<"war", r>>, k>>
      BY <1>2, <2>1, <2>5, <2>6
    <2> QED
      BY <2>1, <2>7
  <1>6. f \in Bijection(1..num, Cells)
    <2>1. f \in [1..num -> Cells]
      BY <1>3, <1>d
    <2> QED
      BY <1>4, <1>5, <2>1, BijectionIs
  <1>7. ASSUME NEW x \in 1..num PROVE Part(f[x][1])[f[x][2]] = arr[x]
    <2>1. q(x) \in SortRank /\ e(x) + 1 \in 1..mn /\ x = q(x) * mn + (e(x) + 1)
      <3>1. q(x) * mn \in Nat
        BY <1>1, <1>w
      <3> QED
        BY <1>1, <1>n, <3>1
    <2>2. f[x][1] = <<"war", q(x)>> /\ f[x][2] = e(x) + 1
      BY <1>2
    <2>3. Part(f[x][1]) = war[q(x)]
      BY <2>2, PartIsA
    <2>4. war[q(x)][e(x) + 1] = arr[q(x) * mn + (e(x) + 1)]
      BY <1>w, <2>1
    <2> QED
      BY <2>1, <2>2, <2>3, <2>4
  <1> QED
    BY <1>6, <1>7 DEF Spread

-----------------------------------------------------------------------------
SortIInv == Shape /\ Spread

LEMMA SortInitInv == SortInit => SortIInv
  BY InitShape, InitSpread DEF SortIInv

LEMMA SortNextInv == SortIInv /\ [SortNext]_sortVars => SortIInv'
  <1> SUFFICES ASSUME SortIInv, [SortNext]_sortVars PROVE SortIInv'
    OBVIOUS
  <1>0. Shape /\ Spread
    BY DEF SortIInv
  <1>1. ASSUME NEW r \in SortRank, Sort(r) PROVE SortIInv'
    BY <1>0, <1>1, SortShape, SortSpread DEF SortIInv
  <1>2. ASSUME NEW r \in SortRank, Round(r) PROVE SortIInv'
    BY <1>0, <1>2, RoundShape, StepSpread DEF SortIInv
  <1>3. ASSUME NEW r \in SortRank, SendLength(r) PROVE SortIInv'
    BY <1>0, <1>3, SendLengthShape, StepSpread DEF SortIInv
  <1>4. ASSUME NEW r \in SortRank, SendNumbers(r) PROVE SortIInv'
    BY <1>0, <1>4, SendNumbersShape, SendNumbersSpread DEF SortIInv
  <1>5. ASSUME NEW r \in SortRank, Sent(r) PROVE SortIInv'
    BY <1>0, <1>5, SentShape, StepSpread DEF SortIInv
  <1>6. ASSUME NEW r \in SortRank, ReceiveLength(r) PROVE SortIInv'
    BY <1>0, <1>6, ReceiveLengthShape, StepSpread DEF SortIInv
  <1>7. ASSUME NEW r \in SortRank, ReceiveNumbers(r) PROVE SortIInv'
    BY <1>0, <1>7, ReceiveNumbersShape, ReceiveNumbersSpread DEF SortIInv
  <1>8. ASSUME LastBarrier PROVE SortIInv'
    BY <1>0, <1>8, LastBarrierShape, LastBarrierSpread DEF SortIInv
  <1>9. ASSUME UNCHANGED sortVars PROVE SortIInv'
    BY <1>0, <1>9, SameShape, SameSpread DEF SortIInv
  <1> QED
    BY <1>1, <1>2, <1>3, <1>4, <1>5, <1>6, <1>7, <1>8, <1>9 DEF SortNext, SortStep, Finished

(* A bijection between the array and the parts counts every value right. *)
LEMMA SpreadLosesNothing == ASSUME Shape, Spread PROVE NothingLost
  <1>1. PICK f \in Bijection(1..num, Cells) : \A x \in 1..num : Part(f[x][1])[f[x][2]] = arr[x]
    BY DEF Spread
  <1>2. /\ \A x \in 1..num : f[x] \in Cells
        /\ \A x, y \in 1..num : f[x] = f[y] => x = y
        /\ \A c \in Cells : \E x \in 1..num : f[x] = c
    BY <1>1 DEF Bijection, Injection, Surjection, IsInjective
  <1>3. DOMAIN arr = 1..num /\ num \in Nat
    BY NumIs DEF Shape, SortTypes
  <1> SUFFICES ASSUME NEW v \in Values
               PROVE  Occurrences(arr, v) = Cardinality({c \in Cells : Part(c[1])[c[2]] = v})
    BY DEF NothingLost
  <1> DEFINE S == {x \in DOMAIN arr : arr[x] = v}
             T == {c \in Cells : Part(c[1])[c[2]] = v}
             g == [x \in S |-> f[x]]
  <1>4. IsFiniteSet(S)
    <2>1. IsFiniteSet(1..num)
      BY <1>3, FirstNumbers
    <2>2. S \in SUBSET (1..num)
      BY <1>3
    <2> QED
      BY <2>1, <2>2, FS_Subset
  <1>5. \A x \in S : x \in 1..num /\ arr[x] = v /\ g[x] = f[x]
    BY <1>3
  <1>6. \A x \in 1..num : arr[x] = v => x \in S
    BY <1>3
  <1>7. g = [x \in S |-> g[x]]
    OBVIOUS
  <1>8. \A c : c \in T <=> c \in Cells /\ Part(c[1])[c[2]] = v
    OBVIOUS
  <1> HIDE DEF S, T, g
  <1>9. g \in Bijection(S, T)
    <2>1. \A x \in S : g[x] \in T
      BY <1>1, <1>2, <1>5, <1>8
    <2>2. g \in [S -> T]
      BY <1>7, <2>1
    <2>3. \A x, y \in S : g[x] = g[y] => x = y
      BY <1>2, <1>5
    <2>4. \A c \in T : \E x \in S : g[x] = c
      BY <1>1, <1>2, <1>5, <1>6, <1>8
    <2> QED
      BY <2>2, <2>3, <2>4, BijectionIs
  <1>10. ExistsBijection(S, T)
    BY <1>9 DEF ExistsBijection
  <1>11. Cardinality(T) = Cardinality(S)
    BY <1>4, <1>10, FS_Bijection
  <1> QED
    BY <1>11 DEF Occurrences, S, T

(* In every state of the sort, wherever the ranks and the messages are, the
   numbers of the array are those of the parts and messages, each as often;
   and the numbers a rank receives are as many as it was told. *)
THEOREM SortLosesNothing == SortSpec => []SortInv
  <1>1. SortIInv => SortInv
    <2> SUFFICES ASSUME Shape, Spread PROVE SortInv
      BY DEF SortIInv
    <2>1. LengthIsTold
      BY ReceivedIs DEF LengthIsTold
    <2> QED
      BY <2>1, SpreadLosesNothing DEF SortInv
  <1> QED
    BY <1>1, SortInitInv, SortNextInv, PTL DEF SortSpec

LEMMA RootHoldsAll ==
  ASSUME Shape, Spread, Done
  PROVE  /\ place[ROOT] = "success" /\ Len(war[ROOT]) = num /\ CheckSort(war[ROOT])
         /\ \A v \in Values : Occurrences(war[ROOT], v) = Occurrences(arr, v)
  <1>0. ROOT \in SortRank
    BY SizeAssumption DEF SortRank, ROOT
  <1>1. \A r \in SortRank : place[r] \in Ended
    BY DEF Done, Ended
  <1>2. \A r \in SortRank : numbers[r] = <<>> /\ place[r] = IF r = ROOT THEN "success" ELSE "exit"
    BY <1>1 DEF Shape, AtEnds
  <1> DEFINE w == <<"war", ROOT>>
             L == Len(war[ROOT])
  <1>3. \A r \in SortRank : Owns(r) <=> r = ROOT
    <2> TAKE r \in SortRank
    <2>1. CASE r = ROOT
      BY <1>2, <2>1 DEF Owns
    <2>2. CASE r # ROOT
      BY <1>1, <1>2, <2>2, OnlyRoot DEF Owns
    <2> QED
      BY <2>1, <2>2
  <1>4. Parts = {w}
    <2>1. \A p : p \in Parts <=> p = w
      BY <1>0, <1>2, <1>3, PartsAre
    <2> QED
      BY <2>1
  <1>5. L \in Nat /\ DOMAIN Part(w) = 1..L
    <2>1. war[ROOT] \in Seq(Values)
      BY <1>0 DEF Shape, SortTypes
    <2> QED
      BY <2>1, PartIsA, ValuesAreInts
  <1>6. Cells = {w} \X (1..L)
    <2>1. Cells = UNION {{p} \X DOMAIN Part(p) : p \in {w}}
      BY <1>4 DEF Cells
    <2>2. UNION {{p} \X DOMAIN Part(p) : p \in {w}} = {w} \X DOMAIN Part(w)
      OBVIOUS
    <2> QED
      BY <1>5, <2>1, <2>2
  <1>7. Cardinality(Cells) = L
    <2>1. IsFiniteSet({w}) /\ Cardinality({w}) = 1
      BY FS_Singleton
    <2>2. IsFiniteSet(1..L) /\ Cardinality(1..L) = L
      BY <1>5, FirstNumbers
    <2>3. Cardinality({w} \X (1..L)) = Cardinality({w}) * Cardinality(1..L)
      BY <2>1, <2>2, FS_Product
    <2>4. 1 * L = L
      BY <1>5
    <2> QED
      BY <1>6, <2>1, <2>2, <2>3, <2>4
  <1>8. Cardinality(Cells) = num
    <2>1. IsFiniteSet(1..num) /\ Cardinality(1..num) = num
      BY NumIs, FirstNumbers
    <2>2. ExistsBijection(1..num, Cells)
      BY DEF Spread, ExistsBijection
    <2> QED
      BY <2>1, <2>2, FS_Bijection
  <1>9. ASSUME NEW v \in Values PROVE Occurrences(war[ROOT], v) = Occurrences(arr, v)
    <2> DEFINE S == {k \in DOMAIN war[ROOT] : war[ROOT][k] = v}
               T == {c \in Cells : Part(c[1])[c[2]] = v}
               g == [k \in S |-> <<w, k>>]
    <2>1. Part(w) = war[ROOT] /\ DOMAIN war[ROOT] = 1..L
      BY <1>5, PartIsA
    <2>2. IsFiniteSet(S)
      <3>1. S \in SUBSET (1..L) /\ IsFiniteSet(1..L)
        BY <1>5, <2>1, FirstNumbers
      <3> QED
        BY <3>1, FS_Subset
    <2>3. \A k : k \in S <=> k \in 1..L /\ Part(w)[k] = v
      BY <2>1
    <2>4. \A c : c \in T <=> c \in Cells /\ Part(c[1])[c[2]] = v
      OBVIOUS
    <2>5. \A c : c \in Cells <=> \E k \in 1..L : c = <<w, k>>
      <3> HIDE DEF w, L
      <3> QED
        BY <1>6
    <2>6. g = [k \in S |-> g[k]] /\ \A k \in S : g[k] = <<w, k>>
      OBVIOUS
    <2>7. \A k : <<w, k>>[1] = w /\ <<w, k>>[2] = k
      OBVIOUS
    <2> HIDE DEF S, T, g, w, L
    <2>8. g \in Bijection(S, T)
      <3>1. \A k \in S : g[k] \in T
        BY <2>3, <2>4, <2>5, <2>6, <2>7
      <3>2. g \in [S -> T]
        BY <2>6, <3>1
      <3>3. \A k, l \in S : g[k] = g[l] => k = l
        BY <2>6, <2>7
      <3>4. ASSUME NEW c \in T PROVE \E k \in S : g[k] = c
        <4>1. PICK k \in 1..L : c = <<w, k>>
          BY <2>4, <2>5
        <4>2. k \in S
          BY <2>3, <2>4, <2>7, <4>1
        <4> QED
          BY <2>6, <4>1, <4>2
      <3> QED
        BY <3>2, <3>3, <3>4, BijectionIs
    <2>9. ExistsBijection(S, T)
      BY <2>8 DEF ExistsBijection
    <2>10. Cardinality(T) = Cardinality(S)
      BY <2>2, <2>9, FS_Bijection
    <2>11. Occurrences(arr, v) = Cardinality(T)
      BY SpreadLosesNothing DEF NothingLost, T
    <2> QED
      BY <2>10, <2>11 DEF Occurrences, S
  <1>10. CheckSort(war[ROOT])
    BY <1>0, <1>2 DEF Shape, Ordered
  <1> QED
    BY <1>0, <1>2, <1>7, <1>8, <1>9, <1>10

(* When the sort is over, ROOT has found the array sorted, and rightly: it holds
   every value as often as the array did, in order, and as many numbers as were
   asked for, rounded up to the ranks. *)
SortedWhole ==
  /\ place[ROOT] = "success" /\ Len(war[ROOT]) = num /\ CheckSort(war[ROOT])
  /\ \A v \in Values : Occurrences(war[ROOT], v) = Occurrences(arr, v)

THEOREM SortEndsSorted == SortSpec => [](Done => SortedWhole)
  <1>1. SortIInv => (Done => SortedWhole)
    BY RootHoldsAll DEF SortIInv, SortedWhole
  <1> QED
    BY <1>1, SortInitInv, SortNextInv, PTL DEF SortSpec

-----------------------------------------------------------------------------
(* The semaphore. *)
USE RankAssumption DEF Rank, Goto

LEMMA SemInitInv == ASSUME Init PROVE IInv
<1>0. 0 \in Rank
  OBVIOUS
<1>1. TypeOK
  BY DEF Init, TypeOK, Past, Location
<1>2. InOrder
  BY DEF Init, InOrder, Past, Location
<1>3. OneTurn
  BY DEF Init, OneTurn, Past, Location
<1>4. UndoIsOne
  BY DEF Init, UndoIsOne, Past, Location
<1>5. RemovedAfterUse
  BY <1>0 DEF Init, RemovedAfterUse, Past, Location
<1> QED
  BY <1>1, <1>2, <1>3, <1>4, <1>5 DEF IInv

LEMMA SemCreateInv == ASSUME IInv, Create PROVE IInv'
<1>1. TypeOK'
  BY DEF Create, IInv, TypeOK, Location
<1>2. InOrder'
  BY DEF Create, IInv, TypeOK, InOrder, Past
<1>3. OneTurn'
  BY DEF Create, IInv, TypeOK, OneTurn
<1>4. UndoIsOne'
  BY DEF Create, IInv, TypeOK, UndoIsOne
<1>5. RemovedAfterUse'
  BY DEF Create, IInv, TypeOK, RemovedAfterUse
<1> QED
  BY <1>1, <1>2, <1>3, <1>4, <1>5 DEF IInv

LEMMA SemAbortInv == ASSUME IInv, Abort PROVE IInv'
<1>0. 0 \in Rank
  OBVIOUS
<1>1. TypeOK'
  BY DEF Abort, IInv, TypeOK, Location
<1>b. Len(order) \in Nat /\ ~(0 < Len(order))
  BY <1>0 DEF Abort, IInv, TypeOK, InOrder, Past
<1>a. Len(order) = 0
  BY <1>b
<1>2. InOrder'
  BY <1>0, <1>a DEF Abort, IInv, TypeOK, InOrder, Past
<1>3. OneTurn'
  BY DEF Abort, IInv, TypeOK, OneTurn
<1>4. UndoIsOne'
  BY DEF Abort, IInv, TypeOK, UndoIsOne
<1>5. RemovedAfterUse'
  BY DEF Abort, IInv, TypeOK, RemovedAfterUse
<1> QED
  BY <1>1, <1>2, <1>3, <1>4, <1>5 DEF IInv

LEMMA SemBarrierInv == ASSUME NEW r \in Rank, IInv, Barrier(r) PROVE IInv'
<1>1. TypeOK'
  BY DEF Barrier, IInv, TypeOK, Location
<1>2. InOrder'
  BY DEF Barrier, IInv, TypeOK, InOrder, Past
<1>3. OneTurn'
  BY DEF Barrier, IInv, TypeOK, OneTurn
<1>4. UndoIsOne'
  BY DEF Barrier, IInv, TypeOK, UndoIsOne
<1>5. RemovedAfterUse'
  BY DEF Barrier, IInv, TypeOK, RemovedAfterUse
<1> QED
  BY <1>1, <1>2, <1>3, <1>4, <1>5 DEF IInv

LEMMA SemTakeInv == ASSUME NEW r \in Rank, IInv, Take(r) PROVE IInv'
<1>1. TypeOK'
  BY DEF Take, IInv, TypeOK, Location
<1>2. InOrder'
  BY DEF Take, IInv, TypeOK, InOrder, Past
<1>d. Len(order) \in Nat /\ ~(r < Len(order)) /\ sem <= Len(order) /\ sem \in Nat
  <2>1. pc[r] = "wait" /\ pc[r] \notin Past
    BY DEF Take, Past
  <2>2. ~(r < Len(order))
    BY <2>1 DEF IInv, InOrder
  <2>3. Len(order) \in Nat /\ sem \in Nat /\ sem <= Len(order)
    BY DEF IInv, TypeOK, OneTurn
  <2> QED
    BY <2>2, <2>3
<1>e. IF r = 0 THEN sem = 0 ELSE sem >= r
  BY DEF Take
<1>a. r = Len(order) /\ sem = r
  BY <1>d, <1>e
<1>b. \A s \in Rank : pc[s] \notin {"turn", "give"}
  <2> SUFFICES ASSUME NEW s \in Rank, pc[s] \in {"turn", "give"} PROVE FALSE
    OBVIOUS
  <2>1. CASE pc[s] = "turn"
    BY <1>a, <2>1 DEF Take, IInv, OneTurn
  <2>2. CASE pc[s] = "give"
    BY <1>a, <2>2 DEF IInv, OneTurn
  <2> QED
    BY <2>1, <2>2
<1>c. /\ sem' = 0 /\ order' = order
      /\ \A s \in Rank : s # r => pc'[s] = pc[s]
      /\ pc'[r] = "turn"
  BY <1>a DEF Take, IInv, TypeOK
<1>3. OneTurn'
  <2>1. sem' <= Len(order') /\ Len(order') = r
    BY <1>a, <1>c, <1>d
  <2>2. \A s \in Rank : pc'[s] \in {"turn", "give"} => s = r
    BY <1>b, <1>c
  <2> QED
    BY <2>1, <2>2, <1>a, <1>c DEF OneTurn
<1>4. UndoIsOne'
  BY DEF Take, IInv, TypeOK, UndoIsOne
<1>5. RemovedAfterUse'
  BY DEF Take, IInv, TypeOK, RemovedAfterUse
<1> QED
  BY <1>1, <1>2, <1>3, <1>4, <1>5 DEF IInv

LEMMA SemPrintInv == ASSUME NEW r \in Rank, IInv, PrintNumber(r) PROVE IInv'
<1>1. TypeOK'
  BY DEF PrintNumber, IInv, TypeOK, InOrder, OneTurn, UndoIsOne, RemovedAfterUse, Past, Location
<1>2. InOrder'
  BY DEF PrintNumber, IInv, TypeOK, InOrder, Past, OneTurn
<1>3. OneTurn'
  BY DEF PrintNumber, IInv, TypeOK, OneTurn
<1>4. UndoIsOne'
  BY DEF PrintNumber, IInv, TypeOK, UndoIsOne
<1>5. RemovedAfterUse'
  BY DEF PrintNumber, IInv, TypeOK, RemovedAfterUse
<1> QED
  BY <1>1, <1>2, <1>3, <1>4, <1>5 DEF IInv

LEMMA SemGiveInv == ASSUME NEW r \in Rank, IInv, Give(r) PROVE IInv'
<1>1. TypeOK'
  BY DEF Give, IInv, TypeOK, Location
<1>2. InOrder'
  BY DEF Give, IInv, TypeOK, InOrder, Past
<1>3. OneTurn'
  BY DEF Give, IInv, TypeOK, OneTurn
<1>4. UndoIsOne'
  BY DEF Give, IInv, TypeOK, UndoIsOne
<1>5. RemovedAfterUse'
  BY DEF Give, IInv, TypeOK, RemovedAfterUse
<1> QED
  BY <1>1, <1>2, <1>3, <1>4, <1>5 DEF IInv

LEMMA SemRemoveInv == ASSUME NEW r \in Rank, IInv, Remove(r) PROVE IInv'
<1>1. TypeOK'
  BY DEF Remove, IInv, TypeOK, Location
<1>2. InOrder'
  BY DEF Remove, IInv, TypeOK, InOrder, Past
<1>3. OneTurn'
  BY DEF Remove, IInv, TypeOK, OneTurn
<1>4. UndoIsOne'
  BY DEF Remove, IInv, TypeOK, UndoIsOne
<1>a. r = m_rank - 1 /\ r < Len(order)
  BY DEF Remove, IInv, RemovedAfterUse, InOrder, Past
<1>b. \A s \in Rank : pc[s] \in Past /\ pc[s] # "give"
  <2> TAKE s \in Rank
  <2>1. pc[s] \in Past
    BY <1>a DEF IInv, TypeOK, InOrder
  <2>2. ASSUME pc[s] = "give" PROVE FALSE
    <3>1. s = Len(order) - 1 /\ Len(order) \in Nat
      BY <2>2 DEF IInv, TypeOK, OneTurn
    <3>2. s = r
      BY <3>1, <1>a
    <3> QED
      BY <3>2, <2>2 DEF Remove
  <2> QED
    BY <2>1, <2>2
<1>c. \A s \in Rank : pc'[s] \in {"finalize", "exited"}
  BY <1>a, <1>b DEF Remove, IInv, TypeOK, RemovedAfterUse, Past
<1>5. RemovedAfterUse'
  BY <1>c DEF RemovedAfterUse
<1> QED
  BY <1>1, <1>2, <1>3, <1>4, <1>5 DEF IInv

LEMMA SemExitInv == ASSUME NEW r \in Rank, IInv, Exit(r) PROVE IInv'
<1>1. TypeOK'
  BY DEF Exit, IInv, TypeOK, Location
<1>2. InOrder'
  BY DEF Exit, IInv, TypeOK, InOrder, Past
<1>3. OneTurn'
  BY DEF Exit, IInv, TypeOK, InOrder, OneTurn, UndoIsOne, RemovedAfterUse, Past, Location
<1>4. UndoIsOne'
  BY DEF Exit, IInv, TypeOK, UndoIsOne
<1>5. RemovedAfterUse'
  BY DEF Exit, IInv, TypeOK, RemovedAfterUse
<1> QED
  BY <1>1, <1>2, <1>3, <1>4, <1>5 DEF IInv

LEMMA SemNextInv == IInv /\ [Next]_vars => IInv'
<1> SUFFICES ASSUME IInv, [Next]_vars PROVE IInv'
  OBVIOUS
<1>1. CASE Create
  BY <1>1, SemCreateInv
<1>2. CASE Abort
  BY <1>2, SemAbortInv
<1>3. CASE \E r \in Rank : RankStep(r) \/ Exit(r)
  BY <1>3, SemBarrierInv, SemTakeInv, SemPrintInv, SemGiveInv, SemRemoveInv, SemExitInv DEF RankStep
<1>4. CASE UNCHANGED vars
  BY <1>4 DEF vars, IInv, TypeOK, InOrder, OneTurn, UndoIsOne, RemovedAfterUse
<1> QED
  BY <1>1, <1>2, <1>3, <1>4 DEF Next

(* The invariant of the semaphore ring holds for every number of ranks: the
   ranks that printed are the first ones in order, a rank between its two
   semops is alone, and the semaphore is never removed under a rank that needs
   it. *)
THEOREM SemInvariantHolds == Spec => []IInv
BY SemInitInv, SemNextInv, PTL DEF Spec

-----------------------------------------------------------------------------
LEMMA SemInitRefines == Init => Abstract!TurnsInit
BY DEF Init, Abstract!TurnsInit

LEMMA SemNextRefines == IInv /\ [Next]_vars => [Abstract!Turn]_order
<1> SUFFICES ASSUME IInv, [Next]_vars PROVE [Abstract!Turn]_order
  OBVIOUS
<1>1. ASSUME NEW r \in Rank, PrintNumber(r) PROVE Abstract!Turn
  <2>1. r = Len(order) /\ Len(order) \in Nat
    BY <1>1 DEF PrintNumber, IInv, TypeOK, OneTurn
  <2>2. 0 + Len(order) = r /\ r <= m_rank - 1
    BY <2>1
  <2> QED
    BY <1>1, <2>2 DEF PrintNumber, Abstract!Turn
<1>2. ASSUME NEW r \in Rank, RankStep(r) \/ Exit(r) PROVE [Abstract!Turn]_order
  BY <1>1, <1>2 DEF RankStep, Barrier, Take, Give, Remove, Exit
<1>3. CASE Create \/ Abort \/ UNCHANGED vars
  BY <1>3 DEF Create, Abort, vars
<1> QED
  BY <1>2, <1>3 DEF Next

(* sem_mpi_ring.c and syn.c implement Turns: each rank prints once, after all
   ranks below it. *)
THEOREM SemImplements == Spec => ImplementsTurns
<1>1. Init => Abstract!TurnsInit
  BY SemInitRefines
<1>2. IInv /\ [Next]_vars => [Abstract!Turn]_order
  BY SemNextRefines
<1> QED
  BY <1>1, <1>2, SemInvariantHolds, PTL DEF Spec, ImplementsTurns, Abstract!TurnsSpec
HIDE RankAssumption DEF Rank, Goto

-----------------------------------------------------------------------------
(* The message queue. *)
USE ChildrenAssumption DEF Child

LEMMA MsgInitInv == MsgInit => MsgIInv
BY DEF MsgInit, MsgIInv, MsgTypeOK, PrintedInOrder, OneMessage, EndsLast

LEMMA MsgForkInv == ASSUME MsgIInv, Fork PROVE MsgIInv'
<1>1. MsgTypeOK'
  BY DEF Fork, MsgIInv, MsgTypeOK
<1>2. PrintedInOrder'
  BY DEF Fork, MsgIInv, MsgTypeOK, PrintedInOrder, OneMessage
<1>3. OneMessage'
  BY DEF Fork, MsgIInv, MsgTypeOK, OneMessage, PrintedInOrder
<1>4. EndsLast'
  BY DEF Fork, MsgIInv, MsgTypeOK, EndsLast, PrintedInOrder, OneMessage
<1> QED
  BY <1>1, <1>2, <1>3, <1>4 DEF MsgIInv

LEMMA MsgForkFailsInv == ASSUME MsgIInv, ForkFails PROVE MsgIInv'
<1>1. MsgTypeOK'
  BY DEF ForkFails, MsgIInv, MsgTypeOK
<1>2. PrintedInOrder'
  BY DEF ForkFails, MsgIInv, MsgTypeOK, PrintedInOrder, OneMessage
<1>3. OneMessage'
  BY DEF ForkFails, MsgIInv, MsgTypeOK, OneMessage, PrintedInOrder
<1>4. EndsLast'
  BY DEF ForkFails, MsgIInv, MsgTypeOK, EndsLast, PrintedInOrder, OneMessage
<1> QED
  BY <1>1, <1>2, <1>3, <1>4 DEF MsgIInv

LEMMA MsgForkedInv == ASSUME MsgIInv, Forked PROVE MsgIInv'
<1>1. MsgTypeOK'
  BY DEF Forked, MsgIInv, MsgTypeOK
<1>2. PrintedInOrder'
  BY DEF Forked, MsgIInv, MsgTypeOK, PrintedInOrder, OneMessage
<1>3. OneMessage'
  BY DEF Forked, MsgIInv, MsgTypeOK, OneMessage, PrintedInOrder
<1>4. EndsLast'
  BY DEF Forked, MsgIInv, MsgTypeOK, EndsLast, PrintedInOrder, OneMessage
<1> QED
  BY <1>1, <1>2, <1>3, <1>4 DEF MsgIInv

LEMMA MsgEndLineInv == ASSUME MsgIInv, EndLine PROVE MsgIInv'
<1>1. MsgTypeOK'
  BY DEF EndLine, MsgIInv, MsgTypeOK
<1>2. PrintedInOrder'
  BY DEF EndLine, MsgIInv, MsgTypeOK, PrintedInOrder, OneMessage
<1>3. OneMessage'
  BY DEF EndLine, MsgIInv, MsgTypeOK, OneMessage, PrintedInOrder
<1>4. EndsLast'
  BY DEF EndLine, MsgIInv, MsgTypeOK, EndsLast, PrintedInOrder, OneMessage
<1> QED
  BY <1>1, <1>2, <1>3, <1>4 DEF MsgIInv

LEMMA MsgReceiveInv == ASSUME NEW c \in Child, MsgIInv, Receive(c) PROVE MsgIInv'
<1>1. MsgTypeOK'
  BY DEF Receive, MsgIInv, MsgTypeOK
<1>2. PrintedInOrder'
  BY DEF Receive, MsgIInv, MsgTypeOK, PrintedInOrder, OneMessage
<1>3. OneMessage'
  BY DEF Receive, MsgIInv, MsgTypeOK, OneMessage, PrintedInOrder
<1>4. EndsLast'
  BY DEF Receive, MsgIInv, MsgTypeOK, EndsLast, PrintedInOrder, OneMessage
<1> QED
  BY <1>1, <1>2, <1>3, <1>4 DEF MsgIInv

LEMMA MsgPrintInv == ASSUME NEW c \in Child, MsgIInv, ChildPrints(c) PROVE MsgIInv'
<1>1. MsgTypeOK'
  BY DEF ChildPrints, MsgIInv, MsgTypeOK
<1>2. PrintedInOrder'
  BY DEF ChildPrints, MsgIInv, MsgTypeOK, PrintedInOrder, OneMessage
<1>3. OneMessage'
  BY DEF ChildPrints, MsgIInv, MsgTypeOK, OneMessage, PrintedInOrder
<1>4. EndsLast'
  BY DEF ChildPrints, MsgIInv, MsgTypeOK, EndsLast, PrintedInOrder, OneMessage
<1> QED
  BY <1>1, <1>2, <1>3, <1>4 DEF MsgIInv

LEMMA MsgSendInv == ASSUME NEW c \in Child, MsgIInv, Send(c) PROVE MsgIInv'
<1>1. MsgTypeOK'
  BY DEF Send, MsgIInv, MsgTypeOK
<1>2. PrintedInOrder'
  BY DEF Send, MsgIInv, MsgTypeOK, PrintedInOrder, OneMessage
<1>3. OneMessage'
  BY DEF Send, MsgIInv, MsgTypeOK, OneMessage, PrintedInOrder
<1>4. EndsLast'
  BY DEF Send, MsgIInv, MsgTypeOK, EndsLast, PrintedInOrder, OneMessage
<1> QED
  BY <1>1, <1>2, <1>3, <1>4 DEF MsgIInv

LEMMA MsgNextInv == MsgIInv /\ [MsgNext]_msgVars => MsgIInv'
<1> SUFFICES ASSUME MsgIInv, [MsgNext]_msgVars PROVE MsgIInv'
  OBVIOUS
<1>1. CASE ParentStep
  BY <1>1, MsgForkInv, MsgForkFailsInv, MsgForkedInv, MsgEndLineInv DEF ParentStep
<1>2. CASE \E c \in Child : ChildStep(c)
  BY <1>2, MsgReceiveInv, MsgPrintInv, MsgSendInv DEF ChildStep
<1>3. CASE UNCHANGED msgVars
  BY <1>3 DEF msgVars, MsgIInv, MsgTypeOK, PrintedInOrder, OneMessage, EndsLast
<1> QED
  BY <1>1, <1>2, <1>3 DEF MsgNext

(* The invariant of the message chain holds for every number of children: those
   that printed are the first ones in order, the turn is in one place, and the
   parent ends the line last. *)
THEOREM MsgInvariantHolds == MsgSpec => []MsgIInv
BY MsgInitInv, MsgNextInv, PTL DEF MsgSpec

-----------------------------------------------------------------------------
LEMMA MsgNextRefines == MsgIInv /\ [MsgNext]_msgVars => [MsgTurns!Turn]_printed
<1> SUFFICES ASSUME MsgIInv, [MsgNext]_msgVars PROVE [MsgTurns!Turn]_printed
  OBVIOUS
<1>1. ASSUME NEW c \in Child, ChildPrints(c) PROVE MsgTurns!Turn
  <2>1. c = 1 + Len(printed) /\ 1 + Len(printed) <= n
    BY <1>1 DEF ChildPrints, MsgIInv, MsgTypeOK, OneMessage
  <2> QED
    BY <1>1, <2>1 DEF ChildPrints, MsgTurns!Turn
<1>2. ASSUME NEW c \in Child, ChildStep(c) PROVE [MsgTurns!Turn]_printed
  BY <1>1, <1>2 DEF ChildStep, Receive, Send
<1>3. CASE ParentStep \/ UNCHANGED msgVars
  BY <1>3 DEF ParentStep, Fork, ForkFails, Forked, EndLine, msgVars
<1> QED
  BY <1>2, <1>3 DEF MsgNext

(* msg.c implements Turns: each child prints once, after all children with a
   lower number. *)
THEOREM MsgImplements == MsgSpec => MsgTakesTurns
<1>1. MsgInit => MsgTurns!TurnsInit
  BY DEF MsgInit, MsgTurns!TurnsInit
<1>2. MsgIInv /\ [MsgNext]_msgVars => [MsgTurns!Turn]_printed
  BY MsgNextRefines
<1> QED
  BY <1>1, <1>2, MsgInvariantHolds, PTL DEF MsgSpec, MsgTakesTurns, MsgTurns!TurnsSpec
HIDE ChildrenAssumption DEF Child

-----------------------------------------------------------------------------
(* The three programs with messages. *)
said == Len(told)

(* Who has had its turn: the ranks below said, the number of turns so far. *)
Places ==
  /\ ring \in BOOLEAN /\ copies \in BOOLEAN
  /\ at \in [Ranks -> {"says", "recv", "send", "sending", "done"}]
  /\ n_rank \in 1..last_rank + 1 /\ told \in Seq(Ranks)
  /\ \A k \in Ranks \ {MASTER} : (at[k] = "recv" <=> k >= said) /\ at[k] # "says"
  /\ at[MASTER] = "says" <=> said = 0
  /\ at[MASTER] = "recv" => ~ring
  /\ said <= last_rank + 1
  /\ said = 0 => n_rank = 1
  /\ ~ring /\ said > 0 => said \in {n_rank, n_rank + 1}

MasterTalks == at[MASTER] \in {"sending", "recv"}

(* A message on its way is the only one, and gives the next rank its turn or is
   the answer of the last one. *)
Letter ==
  \A e \in mail :
     /\ said > 0
     /\ \/ ring /\ e = [from |-> said - 1, to |-> said, mes |-> said - 1]
        \/ ~ring /\ MasterTalks /\ said = n_rank /\ e = [from |-> MASTER, to |-> said, mes |-> said]
        \/ ~ring /\ MasterTalks /\ said = n_rank + 1 /\ e = [from |-> n_rank, to |-> MASTER, mes |-> n_rank]

(* Nothing is on its way when a rank is about to send, and it is the one whose
   message is due. *)
Sender ==
  \A k \in Ranks : at[k] = "send" =>
     /\ mail = {} /\ said > 0
     /\ ring => k = said - 1
     /\ ~ring /\ k = MASTER => said = n_rank
     /\ ~ring /\ k # MASTER => k = n_rank /\ said = n_rank + 1 /\ MasterTalks

MpiIInv == Places /\ Letter /\ Sender

USE MpiAssumption DEF Ranks, MASTER, MovesTo

LEMMA MpiInitInv == MpiInit => MpiIInv
  <1> SUFFICES ASSUME MpiInit PROVE MpiIInv
    OBVIOUS
  <1>1. told = <<>> /\ <<>> \in Seq(Ranks) /\ said = 0 /\ 1 \in 1..last_rank + 1
    BY DEF MpiInit, said
  <1>2. Places
    BY <1>1 DEF MpiInit, Places
  <1>3. Letter /\ Sender
    BY DEF MpiInit, Letter, Sender
  <1> QED
    BY <1>2, <1>3 DEF MpiIInv

LEMMA SaysInv == ASSUME MpiIInv, Says PROVE MpiIInv' /\ told' = Append(told, said) /\ said <= last_rank
  <1>1. said = 0 /\ told \in Seq(Ranks) /\ 0 \in Ranks /\ n_rank = 1
    BY DEF Says, MpiIInv, Places
  <1>2. told' = Append(told, 0) /\ told' \in Seq(Ranks) /\ said' = 1
    BY <1>1 DEF Says, said
  <1>3. /\ at[0] = "says" /\ UNCHANGED <<ring, copies, n_rank, mail>>
        /\ at' = [at EXCEPT ![0] = IF HasTarget(0) THEN "send" ELSE "done"]
    BY DEF Says
  <1> HIDE DEF said
  <1>4. Places'
    BY <1>1, <1>2, <1>3 DEF MpiIInv, Places
  <1>5. mail = {} /\ \A k \in Ranks : at[k] # "send"
    BY <1>1 DEF MpiIInv, Letter, Sender
  <1>6. Letter' /\ Sender'
    BY <1>1, <1>2, <1>3, <1>5 DEF Letter, Sender, MpiIInv, Places
  <1> QED
    BY <1>1, <1>2, <1>4, <1>6 DEF MpiIInv

LEMMA MpiSendInv == ASSUME MpiIInv, NEW k \in Ranks, MpiSend(k) PROVE MpiIInv' /\ UNCHANGED told
  <1>1. /\ at[k] = "send" /\ at' = [at EXCEPT ![k] = "sending"]
        /\ mail' = mail \cup {[from |-> k, to |-> Target(k), mes |-> Number(k)]}
        /\ UNCHANGED <<ring, copies, n_rank, told>> /\ said' = said
    BY DEF MpiSend, said
  <1>2. said \in Nat
    BY DEF MpiIInv, Places, said
  <1> HIDE DEF said
  <1>3. Places'
    BY <1>1, <1>2 DEF MpiIInv, Places
  <1>4. /\ mail = {} /\ said > 0
        /\ ring => k = said - 1
        /\ ~ring /\ k = MASTER => said = n_rank
        /\ ~ring /\ k # MASTER => k = n_rank /\ said = n_rank + 1 /\ MasterTalks
    BY <1>1 DEF MpiIInv, Sender
  <1>5. Letter'
    <2> SUFFICES ASSUME NEW e \in mail'
                 PROVE  \/ ring /\ e = [from |-> said - 1, to |-> said, mes |-> said - 1]
                        \/ ~ring /\ MasterTalks' /\ said = n_rank /\ e = [from |-> MASTER, to |-> said, mes |-> said]
                        \/ ~ring /\ MasterTalks' /\ said = n_rank + 1 /\ e = [from |-> n_rank, to |-> MASTER, mes |-> n_rank]
      BY <1>1, <1>4 DEF Letter
    <2>1. e = [from |-> k, to |-> Target(k), mes |-> Number(k)]
      BY <1>1, <1>4
    <2>2. n_rank \in Nat /\ k \in Nat
      BY DEF MpiIInv, Places
    <2>3. CASE ring
      <3>1. k = said - 1 /\ Target(k) = said /\ Number(k) = said - 1
        BY <1>2, <1>4, <2>2, <2>3 DEF Target, Number
      <3> QED
        BY <2>1, <2>3, <3>1
    <2>4. CASE ~ring /\ k = MASTER
      <3>1. MasterTalks' /\ said = n_rank /\ Target(k) = said /\ Number(k) = said
        BY <1>1, <1>4, <2>4 DEF Target, Number, MasterTalks, MpiIInv, Places
      <3> QED
        BY <2>1, <2>4, <3>1
    <2>5. CASE ~ring /\ k # MASTER
      <3>1. MasterTalks' /\ said = n_rank + 1 /\ k = n_rank /\ Target(k) = MASTER /\ Number(k) = n_rank
        BY <1>1, <1>4, <2>5 DEF Target, Number, MasterTalks, MpiIInv, Places
      <3> QED
        BY <2>1, <2>5, <3>1
    <2> QED
      BY <2>3, <2>4, <2>5 DEF MpiIInv, Places
  <1>6. \A j \in Ranks : at'[j] # "send"
    <2>1. ASSUME NEW j \in Ranks, at[j] = "send" PROVE j = k
      BY <1>1, <1>2, <1>4, <2>1 DEF MpiIInv, Sender, Places, MasterTalks
    <2> QED
      BY <1>1, <2>1 DEF MpiIInv, Places
  <1>7. Sender'
    BY <1>6 DEF Sender
  <1> QED
    BY <1>1, <1>3, <1>5, <1>7 DEF MpiIInv

LEMMA SendReturnsInv == ASSUME MpiIInv, NEW k \in Ranks, SendReturns(k) PROVE MpiIInv' /\ UNCHANGED told
  <1>1. /\ at[k] = "sending" /\ at' = [at EXCEPT ![k] = IF ~ring /\ k = 0 THEN "recv" ELSE "done"]
        /\ UNCHANGED <<ring, copies, n_rank, mail, told>> /\ said' = said
    BY DEF SendReturns, said
  <1>2. said \in Nat
    BY DEF MpiIInv, Places, said
  <1> HIDE DEF said
  <1>3. Places'
    BY <1>1, <1>2 DEF MpiIInv, Places
  <1>4. ~ring /\ MasterTalks => MasterTalks'
    BY <1>1 DEF MpiIInv, Places, MasterTalks
  <1>5. Letter'
    BY <1>1, <1>4 DEF MpiIInv, Letter
  <1>6. \A j \in Ranks : at'[j] = "send" => at[j] = "send"
    BY <1>1 DEF MpiIInv, Places
  <1>7. Sender'
    BY <1>1, <1>4, <1>6 DEF MpiIInv, Sender
  <1> QED
    BY <1>1, <1>3, <1>5, <1>7 DEF MpiIInv

LEMMA RankRecvInv == ASSUME MpiIInv, NEW k \in Ranks, RankRecv(k)
                     PROVE  MpiIInv' /\ told' = Append(told, said) /\ said <= last_rank
  <1>1. PICK e \in mail : /\ e.from = Source(k) /\ e.to = k
                          /\ mail' = mail \ {e}
                          /\ told' = Append(told, IF ring THEN e.mes + 1 ELSE e.mes)
    BY DEF RankRecv
  <1>2. /\ at[k] = "recv" /\ k # 0 /\ UNCHANGED <<ring, copies, n_rank>>
        /\ at' = [at EXCEPT ![k] = IF HasTarget(k) THEN "send" ELSE "done"]
    BY DEF RankRecv
  <1>3. told \in Seq(Ranks) /\ said \in Nat /\ n_rank \in Nat /\ said = Len(told)
    BY DEF MpiIInv, Places, said
  <1>4. /\ said > 0 /\ k = said /\ (IF ring THEN e.mes + 1 ELSE e.mes) = said
        /\ ~ring => MasterTalks /\ said = n_rank
    BY <1>1, <1>2, <1>3 DEF MpiIInv, Letter
  <1>5. told' = Append(told, said) /\ told' \in Seq(Ranks) /\ said' = said + 1
    BY <1>1, <1>3, <1>4 DEF said
  <1> HIDE DEF said
  <1>6. mail' = {}
    <2>1. ASSUME NEW d \in mail PROVE d = e
      BY <1>1, <1>3, <1>4 DEF MpiIInv, Letter
    <2> QED
      BY <1>1, <2>1
  <1>7. \A j \in Ranks : at[j] # "send"
    BY <1>1 DEF MpiIInv, Sender
  <1>8. at'[k] \in {"send", "done"} /\ at'[0] = at[0] /\ \A j \in Ranks : j # k => at'[j] = at[j]
    BY <1>2 DEF MpiIInv, Places
  <1>9. Places'
    <2>1. \A j \in Ranks \ {MASTER} : (at'[j] = "recv" <=> j >= said') /\ at'[j] # "says"
      BY <1>3, <1>4, <1>5, <1>8 DEF MpiIInv, Places
    <2>2. at' \in [Ranks -> {"says", "recv", "send", "sending", "done"}]
      BY <1>2 DEF MpiIInv, Places
    <2> QED
      BY <1>2, <1>3, <1>4, <1>5, <1>8, <2>1, <2>2 DEF MpiIInv, Places
  <1>10. Letter'
    BY <1>6 DEF Letter
  <1>11. Sender'
    <2>1. MasterTalks => MasterTalks'
      BY <1>8 DEF MasterTalks
    <2> QED
      BY <1>2, <1>3, <1>4, <1>5, <1>6, <1>7, <1>8, <2>1 DEF Sender
  <1> QED
    BY <1>4, <1>5, <1>9, <1>10, <1>11 DEF MpiIInv

LEMMA MasterRecvInv == ASSUME MpiIInv, MasterRecv PROVE MpiIInv' /\ UNCHANGED told
  <1>1. PICK e \in mail : e.from = Source(0) /\ e.to = 0 /\ mail' = mail \ {e}
    BY DEF MasterRecv
  <1>2. /\ at[0] = "recv" /\ UNCHANGED <<ring, copies, told>> /\ n_rank' = n_rank + 1
        /\ at' = [at EXCEPT ![0] = IF n_rank' <= last_rank THEN "send" ELSE "done"] /\ said' = said
    BY DEF MasterRecv, said
  <1>3. said \in Nat /\ n_rank \in Nat /\ n_rank > 0 /\ ~ring
    BY <1>2 DEF MpiIInv, Places, said
  <1> HIDE DEF said
  <1>4. said > 0 /\ said = n_rank + 1
    BY <1>1, <1>2, <1>3 DEF MpiIInv, Letter
  <1>5. mail' = {}
    <2>1. ASSUME NEW d \in mail PROVE d = e
      BY <1>1, <1>3, <1>4 DEF MpiIInv, Letter
    <2> QED
      BY <1>1, <2>1
  <1>6. \A j \in Ranks : at[j] # "send"
    BY <1>1 DEF MpiIInv, Sender
  <1>7. at'[0] \in {"send", "done"} /\ \A j \in Ranks : j # 0 => at'[j] = at[j]
    BY <1>2 DEF MpiIInv, Places
  <1>8. Places'
    <2>1. at' \in [Ranks -> {"says", "recv", "send", "sending", "done"}]
      BY <1>2 DEF MpiIInv, Places
    <2> QED
      BY <1>2, <1>3, <1>4, <1>7, <2>1 DEF MpiIInv, Places
  <1>9. Letter'
    BY <1>5 DEF Letter
  <1>10. Sender'
    BY <1>2, <1>3, <1>4, <1>5, <1>6, <1>7 DEF Sender
  <1> QED
    BY <1>2, <1>8, <1>9, <1>10 DEF MpiIInv

LEMMA MpiNextInv ==
  ASSUME MpiIInv, [MpiNext]_mpiVars
  PROVE  MpiIInv' /\ [InTurn!Turn]_told
  <1>1. ASSUME told' = Append(told, said), said <= last_rank PROVE [InTurn!Turn]_told
    <2>1. said \in Nat /\ 0 + said = said
      BY DEF MpiIInv, Places, said
    <2> QED
      BY <1>1, <2>1 DEF InTurn!Turn, said
  <1>2. CASE Says
    BY <1>1, <1>2, SaysInv
  <1>3. CASE MasterRecv
    BY <1>3, MasterRecvInv
  <1>4. ASSUME NEW k \in Ranks, MpiRankStep(k) PROVE MpiIInv' /\ [InTurn!Turn]_told
    BY <1>1, <1>4, MpiSendInv, SendReturnsInv, RankRecvInv DEF MpiRankStep
  <1>5. CASE UNCHANGED mpiVars
    BY <1>5 DEF mpiVars, MpiIInv, Places, Letter, Sender, MasterTalks, said
  <1> QED
    BY <1>2, <1>3, <1>4, <1>5 DEF MpiNext, MpiStep, Finalized

(* mpi_ring.cpp and the two ping pongs: the turns are those of the ranks below said,
   and the one message on its way, or the one rank about to send it, belongs to
   the turn that is due. *)
THEOREM MpiInvariantHolds == MpiFairSpec => []MpiIInv
  <1>1. MpiIInv /\ [MpiNext]_mpiVars => MpiIInv'
    BY MpiNextInv
  <1> QED
    BY <1>1, MpiInitInv, PTL DEF MpiFairSpec

(* mpi_ring.cpp and the two ping pongs implement Turns, whether Send waits for the
   receiver or not: each rank is told its own number, once and in order. *)
THEOREM MpiImplements == MpiFairSpec => InTurn!TurnsSpec
  <1>1. MpiInit => InTurn!TurnsInit
    BY DEF MpiInit, InTurn!TurnsInit
  <1>2. MpiIInv /\ [MpiNext]_mpiVars => [InTurn!Turn]_told
    BY MpiNextInv
  <1> QED
    BY <1>1, <1>2, MpiInvariantHolds, PTL DEF MpiFairSpec, InTurn!TurnsSpec
=============================================================================
