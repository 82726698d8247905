--------------------------- MODULE SignalCopyProofs ---------------------------
(***************************************************************************)
(* Proofs about signal.c: a file of any length, bytes of any number of     *)
(* bits, any kills, and alarms that only go off when nobody would answer.  *)
(***************************************************************************)
EXTENDS SignalCopy, FiniteSetTheorems, TLAPS

-----------------------------------------------------------------------------

(* Powers of two, from the number of subsets of a set. *)
LEMMA PowerCounts ==
  ASSUME NEW k \in Nat
  PROVE  2^k = Cardinality(SUBSET (1..k)) /\ IsFiniteSet(SUBSET (1..k)) /\ 2^k \in Nat
  <1>1. IsFiniteSet(1..k) /\ Cardinality(1..k) = k
    BY FS_Interval
  <1>2. IsFiniteSet(SUBSET (1..k)) /\ Cardinality(SUBSET (1..k)) = 2^k
    BY <1>1, FS_SUBSET
  <1> QED
    BY <1>2, FS_CardinalityType

LEMMA PowerOfZero == 2^0 = 1
  <1>1. SUBSET (1..0) = {{}}
    OBVIOUS
  <1> QED
    BY <1>1, PowerCounts, FS_Singleton

LEMMA PowerDoubles ==
  ASSUME NEW k \in Nat
  PROVE  2^(k + 1) = 2 * 2^k
  <1> DEFINE Without == SUBSET (1..k)
             With == {X \union {k + 1} : X \in Without}
             adds == [X \in Without |-> X \union {k + 1}]
  <1>1. IsFiniteSet(Without) /\ Cardinality(Without) = 2^k /\ 2^k \in Nat
    BY PowerCounts
  <1>2. adds \in Bijection(Without, With)
    <2>1. \A X \in Without : k + 1 \notin X
      OBVIOUS
    <2>2. \A X, Y \in Without : X \union {k + 1} = Y \union {k + 1} => X = Y
      BY <2>1
    <2>3. adds \in [Without -> With]
      OBVIOUS
    <2>4. \A X \in Without : adds[X] = X \union {k + 1}
      OBVIOUS
    <2>5. \A Y \in With : \E X \in Without : adds[X] = Y
      OBVIOUS
    <2> HIDE DEF Without, With, adds
    <2> QED
      BY <2>2, <2>3, <2>4, <2>5 DEF Bijection, Injection, Surjection, IsInjective
  <1>3. IsFiniteSet(With) /\ Cardinality(With) = 2^k
    <2> HIDE DEF Without, With, adds
    <2>1. ExistsBijection(Without, With)
      BY <1>2 DEF ExistsBijection
    <2> QED
      BY <1>1, <2>1, FS_Bijection
  <1>4. Without \intersect With = {}
    OBVIOUS
  <1>5. SUBSET (1..k + 1) = Without \union With
    <2>1. ASSUME NEW X \in SUBSET (1..k + 1) PROVE X \in Without \union With
      <3>1. CASE k + 1 \in X
        <4>1. X \ {k + 1} \in Without /\ X = (X \ {k + 1}) \union {k + 1}
          BY <3>1
        <4> QED
          BY <4>1
      <3>2. CASE k + 1 \notin X
        BY <3>2
      <3> QED
        BY <3>1, <3>2
    <2>2. Without \subseteq SUBSET (1..k + 1) /\ With \subseteq SUBSET (1..k + 1)
      <3>1. 1..k \subseteq 1..k + 1 /\ k + 1 \in 1..k + 1
        OBVIOUS
      <3> QED
        BY <3>1
    <2> HIDE DEF Without, With
    <2> QED
      BY <2>1, <2>2
  <1>6. Cardinality(Without \union With) = 2^k + 2^k - 0
    <2> HIDE DEF Without, With
    <2> QED
      BY <1>1, <1>3, <1>4, FS_Union, FS_EmptySet
  <1> HIDE DEF Without, With
  <1>7. 2^(k + 1) = Cardinality(SUBSET (1..k + 1))
    BY PowerCounts
  <1>8. \A x \in Nat : x + x - 0 = 2 * x
    OBVIOUS
  <1>9. 2^(k + 1) = 2^k + 2^k - 0
    BY <1>5, <1>6, <1>7
  <1> QED
    BY <1>1, <1>8, <1>9

LEMMA PowerIsPositive ==
  ASSUME NEW k \in Nat
  PROVE  2^k \in Nat /\ 2^k >= 1
  <1>1. {} \in SUBSET (1..k)
    OBVIOUS
  <1>2. 2^k \in Nat /\ IsFiniteSet(SUBSET (1..k)) /\ 2^k = Cardinality(SUBSET (1..k))
    BY PowerCounts
  <1>3. Cardinality(SUBSET (1..k)) # 0
    BY <1>1, <1>2, FS_EmptySet
  <1> QED
    BY <1>2, <1>3

-----------------------------------------------------------------------------
(* The lowest c bits of a, and with one bit more. *)
LEMMA RemainderOf ==
  ASSUME NEW e \in Nat, e >= 1, NEW q \in Nat, NEW r \in Nat, r < e
  PROVE  (e * q + r) % e = r
  <1>1. e * q \in Nat
    OBVIOUS
  <1> DEFINE x == e * q + r
             z == x \div e
             w == x % e
  <1>2. x \in Nat /\ x = e * z + w /\ z \in Nat /\ w \in Nat /\ w < e
    BY <1>1
  <1> HIDE DEF x, z, w
  <1>3. e * z \in Nat
    BY <1>2
  <1>4. e * q + r = e * z + w
    BY <1>2 DEF x
  <1>5. ASSUME q < z PROVE FALSE
    <2>1. PICK d \in Nat : z = q + 1 + d
      BY <1>2, <1>5, z - q - 1 \in Nat
    <2>2. e * z = e * q + e + e * d /\ e * d \in Nat
      BY <2>1
    <2> QED
      BY <1>1, <1>2, <1>3, <1>4, <2>2
  <1>6. ASSUME z < q PROVE FALSE
    <2>1. PICK d \in Nat : q = z + 1 + d
      BY <1>2, <1>6, q - z - 1 \in Nat
    <2>2. e * q = e * z + e + e * d /\ e * d \in Nat
      BY <1>2, <2>1
    <2> QED
      BY <1>1, <1>2, <1>3, <1>4, <2>2
  <1>7. q = z
    BY <1>2, <1>5, <1>6
  <1>8. w = r
    BY <1>1, <1>2, <1>4, <1>7
  <1> QED
    BY <1>8 DEF w, x

LEMMA OneBitMore ==
  ASSUME NEW a \in Nat, NEW c \in Nat
  PROVE  /\ (a \div 2^c) % 2 \in {0, 1}
         /\ a % 2^(c + 1) = (a % 2^c) + (IF (a \div 2^c) % 2 = 1 THEN 2^c ELSE 0)
         /\ a % 2^c \in Nat /\ a % 2^c <= a
  <1> DEFINE e == 2^c
             q == a \div e
             r == a % e
             s == q \div 2
             b == q % 2
  <1>1. e \in Nat /\ e >= 1 /\ 2^(c + 1) = 2 * e
    BY PowerIsPositive, PowerDoubles
  <1> HIDE DEF e
  <1>2. a = e * q + r /\ q \in Nat /\ r \in Nat /\ r < e
    BY <1>1
  <1> HIDE DEF q, r
  <1>3. q = 2 * s + b /\ s \in Nat /\ b \in {0, 1}
    BY <1>2
  <1> HIDE DEF s, b
  <1>4. e * q = (2 * e) * s + e * b /\ e * q \in Nat /\ e * b \in Nat /\ (2 * e) * s \in Nat
    BY <1>1, <1>2, <1>3
  <1>5. e * b = IF b = 1 THEN e ELSE 0
    BY <1>1, <1>3
  <1>6. a = (2 * e) * s + (e * b + r) /\ e * b + r \in Nat /\ e * b + r < 2 * e
    BY <1>1, <1>2, <1>3, <1>4, <1>5
  <1>7. a % (2 * e) = e * b + r
    <2>1. 2 * e \in Nat /\ 2 * e >= 1
      BY <1>1
    <2> QED
      BY <1>3, <1>6, <2>1, RemainderOf
  <1>8. (a \div e) % 2 = b /\ a % e = r
    BY DEF q, b, r
  <1> QED
    BY <1>1, <1>2, <1>3, <1>4, <1>5, <1>7, <1>8 DEF e
-----------------------------------------------------------------------------
(* Where the parent may be, and where it goes from a wakeup to the next wait. *)
Asleep == {"unblock", "pause0", "paused0", "pause", "paused"}
Awake == {"loop", "test", "test8", "load", "store", "answer", "full", "recount", "write", "clear"}

BitSignals == {"SIGUSR1", "SIGUSR2"}
Carried == ppending \intersect BitSignals
Waits == cpc \in {"pause", "paused"}

(* What the two processes' own steps keep, and that a child dies once. *)
Steps ==
  /\ SignalTypeOK
  /\ ppc \in Asleep \union Awake \union {"exited", "killed"}
  /\ cpc \in {"read", "arm", "kill", "pause", "paused", "exited", "killed"}
  /\ reg \in Int /\ byte \in Byte
  /\ cpc \in {"arm", "kill", "pause", "paused"} => pos >= 1 /\ byte = File[pos] /\ bit < Bits
  /\ cpc = "read" => bit = Bits \/ (pos = 0 /\ bit = 0)
  /\ "SIGCHLD" \in ppending => ex_m = 0 /\ ~ChildLives
  /\ ex_m = 1 => ~ChildLives

(* One of the two has the bit under way: while a bit has not been delivered, the
   parent is busy with one, or the answer has not been heard, the child waits. *)
Turnwise ==
  ParentLives =>
    /\ Carried # {} => ppc \notin Awake /\ cpending = {} /\ (Waits \/ ~ChildLives)
    /\ ppc \in Awake \/ cpending # {} => Waits \/ ~ChildLives
    /\ cpending # {} /\ ChildLives => ppc \in {"pause", "paused"}
    /\ Carried # BitSignals

(* The bits that the parent has, of the byte it is at, and what it has written. *)
Place == Len(written) + 1
Had == IF ppc = "write" THEN Bits ELSE count_m

Counted ==
  /\ ppc = "recount" => count_m = Bits
  /\ ppc \in {"write", "clear"} => count_m = 0

BufferIsRight ==
  ParentLives /\ ppc # "clear" /\ Had <= Bits =>
    IF Had = 0 THEN buff_m = 0
    ELSE Place <= Len(File) /\ buff_m = File[Place] % 2^Had

BitIsRight ==
  ParentLives /\ Carried # {} /\ Had < Bits =>
    /\ Place <= Len(File)
    /\ Carried = {IF (File[Place] \div 2^Had) % 2 = 1 THEN "SIGUSR1" ELSE "SIGUSR2"}

(* The bits that the child has sent of its byte are those that the parent has and
   the one under way: of the same byte, of the one before or of the next. *)
Sent == IF Waits THEN bit + 1 ELSE bit
Arrived == IF Carried = {} THEN Had ELSE Had + 1
ChildIsAt ==
  ParentLives /\ ChildLives /\ Arrived <= Bits =>
    \/ pos = Place /\ Sent = Arrived
    \/ Arrived = 0 /\ pos = Len(written) /\ (Sent = Bits \/ pos = 0)
    \/ Arrived = Bits /\ pos = Place + 1 /\ Sent = 0

BIInv ==
  Steps /\ Turnwise /\ Counted /\ BufferIsRight /\ BitIsRight /\ ChildIsAt /\ OutputIsPrefix

-----------------------------------------------------------------------------
LEMMA Constants ==
  /\ Bits \in Nat /\ Bits >= 1 /\ File \in Seq(Byte) /\ Len(File) \in Nat
  /\ EOF \in Byte /\ 0 \in Byte /\ Byte \subseteq Nat
  /\ 2^Bits \in Nat /\ 2^Bits >= 1
  /\ \A x \in Nat : x % 2^Bits \in Byte
  <1>1. 2^Bits \in Nat /\ 2^Bits >= 1 /\ Bits \in Nat /\ Bits >= 1
    BY BitsAssumption, PowerIsPositive
  <1>2. \A d \in Nat : d >= 1 => \A x \in Nat : x % d \in 0..d - 1
    OBVIOUS
  <1> QED
    BY <1>1, <1>2, BitsAssumption DEF Byte, EOF

LEMMA BitsInit == SignalInit => BIInv
  <1> SUFFICES ASSUME SignalInit PROVE BIInv
    OBVIOUS
  <1>1. Steps
    BY Constants DEF SignalInit, Steps, SignalTypeOK, Asleep, Awake
  <1>2. Turnwise
    BY DEF SignalInit, Turnwise, Carried, Awake, BitSignals
  <1>3. Counted /\ BufferIsRight /\ BitIsRight
    BY DEF SignalInit, Counted, BufferIsRight, BitIsRight, Had, Carried
  <1>4. ChildIsAt
    BY DEF SignalInit, ChildIsAt, Sent, Arrived, Place, Waits, Had, Carried
  <1>5. OutputIsPrefix
    BY Constants DEF SignalInit, OutputIsPrefix, IsPrefixOf
  <1> QED
    BY <1>1, <1>2, <1>3, <1>4, <1>5 DEF BIInv

(* Steps of the parent that no invariant but its own place knows of. *)
Walk == Unblock \/ Suspend \/ Loop \/ Test \/ Load \/ Store \/ Full

LEMMA WalkIs ==
  ASSUME Steps, Turnwise, Walk
  PROVE  /\ ppc \in Asleep \union Awake
         /\ ppc' \in Asleep \union Awake \union {"exited"}
         /\ ppc' # "exited" => (ppc' \in Awake <=> ppc \in Awake)
         /\ ppc' = "recount" => count_m = Bits
         /\ ppc \notin {"write", "clear", "recount"} /\ ppc' \notin {"write", "clear"}
         /\ ppc \in {"pause", "paused"} => ppc' = "paused"
         /\ reg' \in Int /\ sig_m' \in Int
         /\ UNCHANGED <<buff_m, count_m, ex_m, ppending, written, cpc, sender, cpending, deaths>>
  <1>t. reg \in Int /\ sig_m \in Int
    BY DEF Steps, SignalTypeOK
  <1>1. CASE Unblock
    BY <1>1, <1>t DEF Unblock, ParentGoto, Asleep, Awake
  <1>2. CASE Suspend
    BY <1>2, <1>t DEF Suspend, ParentGoto, Asleep, Awake
  <1>3. CASE Loop
    BY <1>3, <1>t DEF Loop, ParentGoto, Asleep, Awake
  <1>4. CASE Test
    BY <1>4, <1>t DEF Test, ParentGoto, Asleep, Awake
  <1>5. CASE Load
    BY <1>5, <1>t DEF Load, ParentGoto, Asleep, Awake
  <1>6. CASE Store
    BY <1>6, <1>t DEF Store, ParentGoto, Asleep, Awake
  <1>7. CASE Full
    BY <1>7, <1>t DEF Full, ParentGoto, Asleep, Awake
  <1> QED
    BY <1>1, <1>2, <1>3, <1>4, <1>5, <1>6, <1>7 DEF Walk

LEMMA WalkInv == ASSUME BIInv, Walk PROVE BIInv'
  <1>a. Steps /\ Turnwise /\ Counted /\ BufferIsRight /\ BitIsRight /\ ChildIsAt /\ OutputIsPrefix
    BY DEF BIInv
  <1>b. /\ ppc \in Asleep \union Awake
        /\ ppc' \in Asleep \union Awake \union {"exited"}
        /\ ppc' # "exited" => (ppc' \in Awake <=> ppc \in Awake)
        /\ ppc' = "recount" => count_m = Bits
        /\ ppc \notin {"write", "clear", "recount"} /\ ppc' \notin {"write", "clear"}
        /\ ppc \in {"pause", "paused"} => ppc' = "paused"
        /\ reg' \in Int /\ sig_m' \in Int
    BY <1>a, WalkIs
  <1>c. /\ buff_m' = buff_m /\ count_m' = count_m /\ ex_m' = ex_m /\ ppending' = ppending
        /\ written' = written /\ cpc' = cpc /\ cpending' = cpending
        /\ byte' = byte /\ bit' = bit /\ pos' = pos /\ res_send' = res_send
    BY <1>a, WalkIs DEF sender
  <1>d. ParentLives /\ (ChildLives' <=> ChildLives) /\ (Waits' <=> Waits) /\ Carried' = Carried
        /\ Place' = Place /\ Had' = Had
    BY <1>b, <1>c DEF ParentLives, ChildLives, Asleep, Awake, Waits, Carried, Place, Had
  <1>1. Steps'
    BY <1>a, <1>b, <1>c, <1>d DEF Steps, SignalTypeOK
  <1>2. Turnwise'
    BY <1>a, <1>b, <1>c, <1>d DEF Turnwise, ParentLives
  <1>3. Counted'
    BY <1>b, <1>c DEF Counted
  <1>4. BufferIsRight' /\ BitIsRight'
    BY <1>a, <1>b, <1>c, <1>d DEF BufferIsRight, BitIsRight
  <1>5. ChildIsAt'
    BY <1>a, <1>c, <1>d DEF ChildIsAt, Sent, Arrived
  <1>6. OutputIsPrefix'
    BY <1>a, <1>c DEF OutputIsPrefix
  <1> QED
    BY <1>1, <1>2, <1>3, <1>4, <1>5, <1>6 DEF BIInv

LEMMA AnswerInv == ASSUME BIInv, AnswerBit PROVE BIInv'
  <1>a. Steps /\ Turnwise /\ Counted /\ BufferIsRight /\ BitIsRight /\ ChildIsAt /\ OutputIsPrefix
    BY DEF BIInv
  <1>b. /\ ppc = "answer" /\ ppc' = "pause" /\ reg' = reg /\ sig_m' = sig_m
        /\ cpending' = IF ChildLives THEN cpending \union {"SIGUSR1"} ELSE cpending
    BY DEF AnswerBit, ParentGoto
  <1>c. /\ buff_m' = buff_m /\ count_m' = count_m /\ ex_m' = ex_m /\ ppending' = ppending
        /\ written' = written /\ cpc' = cpc
        /\ byte' = byte /\ bit' = bit /\ pos' = pos /\ res_send' = res_send
    BY DEF AnswerBit, sender
  <1>d. ParentLives /\ (ChildLives' <=> ChildLives) /\ (Waits' <=> Waits) /\ Carried' = Carried
        /\ Place' = Place /\ Had' = Had
    BY <1>b, <1>c DEF ParentLives, ChildLives, Waits, Carried, Place, Had
  <1>1. Steps'
    BY <1>a, <1>b, <1>c, <1>d DEF Steps, SignalTypeOK, Asleep
  <1>2. Turnwise'
    BY <1>a, <1>b, <1>c, <1>d DEF Turnwise, Awake
  <1>3. Counted'
    BY <1>b, <1>c DEF Counted
  <1>4. BufferIsRight' /\ BitIsRight'
    BY <1>a, <1>b, <1>c, <1>d DEF BufferIsRight, BitIsRight
  <1>5. ChildIsAt'
    BY <1>a, <1>c, <1>d DEF ChildIsAt, Sent, Arrived
  <1>6. OutputIsPrefix'
    BY <1>a, <1>c DEF OutputIsPrefix
  <1> QED
    BY <1>1, <1>2, <1>3, <1>4, <1>5, <1>6 DEF BIInv

(* The byte is written when the parent has all its bits, and the next begins. *)
LEMMA RecountInv == ASSUME BIInv, Recount \/ Clear PROVE BIInv'
  <1>a. Steps /\ Turnwise /\ Counted /\ BufferIsRight /\ BitIsRight /\ ChildIsAt /\ OutputIsPrefix
    BY DEF BIInv
  <1>b. /\ \/ ppc = "recount" /\ ppc' = "write" /\ buff_m' = buff_m
           \/ ppc = "clear" /\ ppc' = "loop" /\ buff_m' = 0 /\ count_m' = count_m
        /\ count_m' = 0
    BY <1>a DEF Recount, Clear, ParentGoto, Counted
  <1>c. /\ reg' = reg /\ sig_m' = sig_m /\ ex_m' = ex_m /\ ppending' = ppending /\ cpending' = cpending
        /\ written' = written /\ cpc' = cpc
        /\ byte' = byte /\ bit' = bit /\ pos' = pos /\ res_send' = res_send
    BY DEF Recount, Clear, sender
  <1>d. ParentLives /\ (ChildLives' <=> ChildLives) /\ (Waits' <=> Waits) /\ Carried' = Carried
        /\ Place' = Place /\ Had' = Had
    BY <1>a, <1>b, <1>c DEF ParentLives, ChildLives, Waits, Carried, Place, Had, Counted
  <1>1. Steps'
    BY <1>a, <1>b, <1>c, <1>d, Constants DEF Steps, SignalTypeOK, Awake
  <1>2. Turnwise'
    BY <1>a, <1>b, <1>c, <1>d DEF Turnwise, Awake
  <1>3. Counted'
    BY <1>b, <1>c DEF Counted
  <1>4. BufferIsRight' /\ BitIsRight'
    BY <1>a, <1>b, <1>c, <1>d DEF BufferIsRight, BitIsRight, Had, Counted
  <1>5. ChildIsAt'
    BY <1>a, <1>c, <1>d DEF ChildIsAt, Sent, Arrived
  <1>6. OutputIsPrefix'
    BY <1>a, <1>c DEF OutputIsPrefix
  <1> QED
    BY <1>1, <1>2, <1>3, <1>4, <1>5, <1>6 DEF BIInv

LEMMA WriteInv == ASSUME BIInv, WriteByte PROVE BIInv'
  <1>a. Steps /\ Turnwise /\ Counted /\ BufferIsRight /\ BitIsRight /\ ChildIsAt /\ OutputIsPrefix
    BY DEF BIInv
  <1>b. /\ ppc = "write" /\ ppc' = "clear" /\ written' = Append(written, buff_m)
        /\ count_m = 0 /\ count_m' = 0
    BY <1>a DEF WriteByte, ParentGoto, Counted
  <1>c. /\ buff_m' = buff_m /\ reg' = reg /\ sig_m' = sig_m /\ ex_m' = ex_m /\ ppending' = ppending
        /\ cpending' = cpending /\ cpc' = cpc
        /\ byte' = byte /\ bit' = bit /\ pos' = pos /\ res_send' = res_send
    BY DEF WriteByte, sender
  <1>d. ParentLives /\ (ChildLives' <=> ChildLives) /\ (Waits' <=> Waits) /\ Carried' = Carried
        /\ Had = Bits /\ Had' = 0
    BY <1>a, <1>b, <1>c DEF ParentLives, ChildLives, Waits, Carried, Had
  <1>e. /\ written \in Seq(Byte) /\ buff_m \in Byte /\ Len(written) \in Nat
        /\ written' \in Seq(Byte) /\ Len(written') = Len(written) + 1
        /\ \A j \in 1..Len(written) : written'[j] = written[j]
        /\ written'[Len(written) + 1] = buff_m
    <2>1. written \in Seq(Byte) /\ buff_m \in Byte
      BY <1>a DEF Steps, SignalTypeOK
    <2> QED
      BY <1>b, <2>1
  <1>f. Place <= Len(File) /\ buff_m = File[Place]
    <2>1. Place <= Len(File) /\ buff_m = File[Place] % 2^Bits
      BY <1>a, <1>b, <1>d, Constants DEF BufferIsRight
    <2>2. Place \in 1..Len(File)
      BY <1>e, <2>1, Constants DEF Place
    <2>3. File[Place] \in 0..2^Bits - 1
      <3>1. File[Place] \in Byte
        BY <2>2, Constants
      <3> QED
        BY <3>1 DEF Byte
    <2>4. \A d \in Nat : \A x \in 0..d - 1 : x % d = x
      OBVIOUS
    <2> QED
      BY <2>1, <2>3, <2>4, Constants
  <1>1. Steps'
    BY <1>a, <1>b, <1>c, <1>d, <1>e DEF Steps, SignalTypeOK, Awake
  <1>g. Carried = {}
    BY <1>a, <1>b, <1>d DEF Turnwise, Awake
  <1>2. Turnwise'
    BY <1>a, <1>b, <1>c, <1>d DEF Turnwise, Awake
  <1>3. Counted'
    BY <1>b DEF Counted
  <1>4. BufferIsRight' /\ BitIsRight'
    BY <1>b, <1>d, <1>g DEF BufferIsRight, BitIsRight
  <1>5. ChildIsAt'
    <2> SUFFICES ASSUME ChildLives
                 PROVE  pos = Len(written') /\ Sent' = Bits
      BY <1>c, <1>d, <1>g DEF ChildIsAt, Arrived, Place
    <2>1. Waits /\ bit < Bits /\ bit \in Nat
      BY <1>a, <1>b, <1>d DEF Turnwise, Awake, Steps, Waits, SignalTypeOK
    <2>2. Arrived = Bits
      BY <1>d, <1>g DEF Arrived
    <2>3. pos = Place /\ Sent = Bits
      BY <1>a, <1>d, <2>1, <2>2, Constants DEF ChildIsAt, Sent
    <2> QED
      BY <1>c, <1>d, <1>e, <2>3 DEF Place, Sent
  <1>6. OutputIsPrefix'
    <2>1. \A j \in 1..Len(written') : j \in 1..Len(written) \/ j = Len(written) + 1
      BY <1>e
    <2> QED
      BY <1>a, <1>e, <1>f, <2>1 DEF OutputIsPrefix, IsPrefixOf, Place
  <1> QED
    BY <1>1, <1>2, <1>3, <1>4, <1>5, <1>6 DEF BIInv

(* A delivered bit is the one under way: the buffer gets it where it belongs. *)
LEMMA DeliverIs ==
  ASSUME Steps, Turnwise, NEW s \in BitSignals, Deliver(s)
  PROVE  /\ Carried = {s} /\ Carried' = {} /\ ppc \in Asleep /\ ppc # "unblock" /\ cpending = {}
         /\ ppc' = IF ppc = "paused0" THEN "loop" ELSE IF ppc = "paused" THEN "full" ELSE ppc
         /\ ParentLives /\ ParentLives' /\ (Waits \/ ~ChildLives)
         /\ "SIGCHLD" \in ppending' <=> "SIGCHLD" \in ppending
         /\ ppending' \subseteq {"SIGUSR1", "SIGUSR2", "SIGCHLD"}
         /\ UNCHANGED <<reg, written, cpc, sender, cpending, deaths>>
  <1>1. ParentLives /\ ppc # "unblock" /\ s \in ppending /\ ppending' = ppending \ {s}
        /\ UNCHANGED <<reg, written, cpc, sender, cpending, deaths>>
        /\ ppc' = CASE ppc = "paused0" -> "loop" [] ppc = "paused" -> "full" [] OTHER -> ppc
    BY DEF Deliver
  <1>2. s \in Carried /\ Carried \subseteq BitSignals /\ Carried # BitSignals
    BY <1>1 DEF Carried, Turnwise
  <1>3. Carried = {s}
    BY <1>2 DEF BitSignals
  <1>4. Carried' = {}
    BY <1>1, <1>3 DEF Carried
  <1>5. ppc \notin Awake /\ cpending = {} /\ (Waits \/ ~ChildLives)
    BY <1>1, <1>3 DEF Turnwise
  <1>6. ppc \in Asleep
    BY <1>1, <1>5 DEF Steps, ParentLives
  <1>7. /\ "SIGCHLD" \in ppending' <=> "SIGCHLD" \in ppending
        /\ ppending' \subseteq {"SIGUSR1", "SIGUSR2", "SIGCHLD"}
    BY <1>1 DEF BitSignals, Steps, SignalTypeOK
  <1>8. ppc' = IF ppc = "paused0" THEN "loop" ELSE IF ppc = "paused" THEN "full" ELSE ppc
    BY <1>1
  <1>9. ParentLives'
    BY <1>1, <1>8 DEF ParentLives
  <1> QED
    BY <1>1, <1>3, <1>4, <1>5, <1>6, <1>7, <1>8, <1>9

LEMMA BitInv == ASSUME BIInv, one \/ zero PROVE BIInv'
  <1>a. Steps /\ Turnwise /\ Counted /\ BufferIsRight /\ BitIsRight /\ ChildIsAt /\ OutputIsPrefix
    BY DEF BIInv
  <1>s. PICK s \in BitSignals : Deliver(s) /\ (s = "SIGUSR1" <=> one) /\ (s = "SIGUSR2" <=> zero)
    BY DEF one, zero, BitSignals, Deliver
  <1>b. /\ Carried = {s} /\ Carried' = {} /\ ppc \in Asleep /\ ppc # "unblock" /\ cpending = {}
        /\ ppc' = IF ppc = "paused0" THEN "loop" ELSE IF ppc = "paused" THEN "full" ELSE ppc
        /\ ParentLives /\ ParentLives' /\ (Waits \/ ~ChildLives)
        /\ "SIGCHLD" \in ppending' <=> "SIGCHLD" \in ppending
        /\ ppending' \subseteq {"SIGUSR1", "SIGUSR2", "SIGCHLD"}
    BY <1>a, <1>s, DeliverIs
  <1>c. /\ reg' = reg /\ written' = written /\ cpc' = cpc /\ cpending' = cpending
        /\ byte' = byte /\ bit' = bit /\ pos' = pos /\ res_send' = res_send
    BY <1>a, <1>s, DeliverIs DEF sender
  <1>t. buff_m \in Nat /\ count_m \in Nat /\ sig_m \in Int /\ Place \in Nat /\ Place >= 1
    <2>1. written \in Seq(Byte)
      BY <1>a DEF Steps, SignalTypeOK
    <2> QED
      BY <1>a, <2>1, Constants DEF Steps, SignalTypeOK, Place
  <1>e. /\ count_m' = count_m + 1 /\ sig_m' = sig_m + 1 /\ ex_m' = ex_m
        /\ buff_m' = IF s = "SIGUSR1" THEN (buff_m + 2^count_m) % 2^Bits ELSE buff_m
    BY <1>s DEF one, zero, BitSignals
  <1>d. (ChildLives' <=> ChildLives) /\ (Waits' <=> Waits) /\ Place' = Place
        /\ Had = count_m /\ Had' = count_m + 1 /\ ppc \notin {"write", "clear"} /\ ppc' \notin {"recount", "write", "clear"}
    BY <1>b, <1>c, <1>e DEF ChildLives, Waits, Place, Had, Asleep
  <1>1. Steps'
    <2>1. buff_m' \in Byte
      <3>1. buff_m + 2^count_m \in Nat
        BY <1>t, PowerIsPositive
      <3> QED
        BY <1>a, <1>e, <3>1, Constants DEF Steps, SignalTypeOK
    <2>2. ppc' \in Asleep \union Awake
      BY <1>b DEF Awake
    <2> QED
      BY <1>a, <1>b, <1>c, <1>d, <1>e, <1>t, <2>1, <2>2 DEF Steps, SignalTypeOK
  <1>2. Turnwise'
    BY <1>a, <1>b, <1>c, <1>d DEF Turnwise, BitSignals
  <1>3. Counted'
    BY <1>d DEF Counted
  <1>4. BufferIsRight'
    <2> SUFFICES ASSUME count_m < Bits
                 PROVE  Place <= Len(File) /\ buff_m' = File[Place] % 2^(count_m + 1)
      BY <1>d, <1>t, Constants DEF BufferIsRight
    <2> DEFINE a == File[Place]
    <2>1. Place <= Len(File) /\ {s} = {IF (a \div 2^count_m) % 2 = 1 THEN "SIGUSR1" ELSE "SIGUSR2"}
      BY <1>a, <1>b, <1>d DEF BitIsRight
    <2>2. a \in Nat /\ a < 2^Bits
      <3>1. Place \in 1..Len(File)
        BY <1>t, <2>1, Constants
      <3>2. a \in Byte
        BY <3>1, Constants
      <3> QED
        BY <3>2, Constants DEF Byte
    <2> HIDE DEF a
    <2>3. buff_m = a % 2^count_m
      <3>1. CASE count_m = 0
        <4>1. buff_m = 0
          BY <1>a, <1>b, <1>d, <3>1, Constants DEF BufferIsRight
        <4>2. a % 2^0 = 0
          BY <2>2, PowerOfZero
        <4> QED
          BY <3>1, <4>1, <4>2
      <3>2. CASE count_m # 0
        BY <1>a, <1>b, <1>d, <1>t, <3>2, Constants DEF BufferIsRight, a
      <3> QED
        BY <3>1, <3>2
    <2>4. /\ a % 2^(count_m + 1) = buff_m + (IF s = "SIGUSR1" THEN 2^count_m ELSE 0)
      <3>1. s = "SIGUSR1" <=> (a \div 2^count_m) % 2 = 1
        BY <2>1
      <3> QED
        BY <1>t, <2>2, <2>3, <3>1, OneBitMore
    <2>5. a % 2^(count_m + 1) \in Nat /\ a % 2^(count_m + 1) < 2^Bits
      <3>1. a % 2^(count_m + 1) <= a /\ a % 2^(count_m + 1) \in Nat
        BY <1>t, <2>2, OneBitMore
      <3> QED
        BY <2>2, <3>1, Constants
    <2>6. \A d \in Nat : \A x \in Nat : x < d => x % d = x
      OBVIOUS
    <2>7. buff_m' = a % 2^(count_m + 1)
      <3>1. CASE s = "SIGUSR1"
        BY <1>e, <2>4, <2>5, <2>6, <3>1, Constants
      <3>2. CASE s # "SIGUSR1"
        BY <1>e, <1>t, <2>4, <3>2
      <3> QED
        BY <3>1, <3>2
    <2> QED
      BY <2>1, <2>7 DEF a
  <1>5. BitIsRight'
    BY <1>b DEF BitIsRight
  <1>6. ChildIsAt'
    <2>1. Arrived = count_m + 1 /\ Arrived' = Arrived
      BY <1>b, <1>d DEF Arrived
    <2> QED
      BY <1>a, <1>b, <1>c, <1>d, <2>1 DEF ChildIsAt, Sent
  <1>7. OutputIsPrefix'
    BY <1>a, <1>c DEF OutputIsPrefix
  <1> QED
    BY <1>1, <1>2, <1>3, <1>4, <1>5, <1>6, <1>7 DEF BIInv

(* A dead child sends nothing more; the parent hears of it once. *)
LEMMA DeadInv == ASSUME BIInv, f_ex PROVE BIInv'
  <1>a. Steps /\ Turnwise /\ Counted /\ BufferIsRight /\ BitIsRight /\ ChildIsAt /\ OutputIsPrefix
    BY DEF BIInv
  <1>b. /\ ParentLives /\ ppc # "unblock" /\ ppending = {"SIGCHLD"} /\ ppending' = {} /\ ex_m' = ex_m + 1
        /\ ppc' = CASE ppc = "paused0" -> "loop" [] ppc = "paused" -> "full" [] OTHER -> ppc
    BY DEF f_ex, Deliver
  <1>c. /\ buff_m' = buff_m /\ count_m' = count_m /\ reg' = reg /\ sig_m' = sig_m
        /\ written' = written /\ cpc' = cpc /\ cpending' = cpending
        /\ byte' = byte /\ bit' = bit /\ pos' = pos /\ res_send' = res_send
    BY DEF f_ex, Deliver, sender
  <1>p. ppc' = ppc \/ (ppc = "paused0" /\ ppc' = "loop") \/ (ppc = "paused" /\ ppc' = "full")
    BY <1>b
  <1>d. /\ ParentLives' /\ ~ChildLives /\ ~ChildLives' /\ (Waits' <=> Waits) /\ Carried = {} /\ Carried' = {}
        /\ Place' = Place /\ Had' = Had /\ ex_m = 0
    BY <1>a, <1>b, <1>c, <1>p DEF ParentLives, ChildLives, Waits, Carried, BitSignals, Place, Had, Steps
  <1>1. Steps'
    BY <1>a, <1>b, <1>c, <1>d, <1>p DEF Steps, SignalTypeOK, Asleep, Awake
  <1>2. Turnwise'
    BY <1>a, <1>c, <1>d DEF Turnwise, BitSignals
  <1>3. Counted'
    BY <1>a, <1>c, <1>p DEF Counted
  <1>4. BufferIsRight' /\ BitIsRight'
    BY <1>a, <1>b, <1>c, <1>d, <1>p DEF BufferIsRight, BitIsRight
  <1>5. ChildIsAt'
    BY <1>d DEF ChildIsAt
  <1>6. OutputIsPrefix'
    BY <1>a, <1>c DEF OutputIsPrefix
  <1> QED
    BY <1>1, <1>2, <1>3, <1>4, <1>5, <1>6 DEF BIInv

-----------------------------------------------------------------------------
(* The child's steps leave the parent where it is. *)
LEMMA CopierRests ==
  ASSUME UNCHANGED copier
  PROVE  /\ buff_m' = buff_m /\ count_m' = count_m /\ sig_m' = sig_m /\ ex_m' = ex_m
         /\ ppc' = ppc /\ reg' = reg /\ written' = written
         /\ (ParentLives' <=> ParentLives) /\ Place' = Place /\ Had' = Had
         /\ (Counted => Counted') /\ (OutputIsPrefix => OutputIsPrefix')
         /\ (BufferIsRight => BufferIsRight')
  <1>1. /\ buff_m' = buff_m /\ count_m' = count_m /\ sig_m' = sig_m /\ ex_m' = ex_m
        /\ ppc' = ppc /\ reg' = reg /\ written' = written
    BY DEF copier
  <1>2. (ParentLives' <=> ParentLives) /\ Place' = Place /\ Had' = Had
    BY <1>1 DEF ParentLives, Place, Had
  <1>3. (Counted => Counted') /\ (OutputIsPrefix => OutputIsPrefix')
    BY <1>1 DEF Counted, OutputIsPrefix
  <1>4. BufferIsRight => BufferIsRight'
    BY <1>1, <1>2 DEF BufferIsRight
  <1> QED
    BY <1>1, <1>2, <1>3, <1>4

(* While the child does not wait, nothing is on its way and the parent sleeps. *)
LEMMA NothingUnderWay ==
  ASSUME Steps, Turnwise, ParentLives, ChildLives, ~Waits
  PROVE  Carried = {} /\ ppc \notin Awake /\ cpending = {} /\ Arrived = Had
  BY DEF Turnwise, Arrived

(* A child that ends, by itself or killed, leaves what it has sent. *)
LEMMA ChildEndsInv ==
  ASSUME BIInv, ChildLives, UNCHANGED copier, cpending' = cpending,
         cpc' \in {"exited", "killed"}, ppending' = ppending \union {"SIGCHLD"},
         byte' \in Byte, pos' \in 0..Len(File), bit' \in 0..Bits, res_send' \in {-1, 0}
  PROVE  BIInv'
  <1>a. Steps /\ Turnwise /\ Counted /\ BufferIsRight /\ BitIsRight /\ OutputIsPrefix
    BY DEF BIInv
  <1>b. ~ChildLives' /\ Carried' = Carried
    BY DEF ChildLives, Carried, BitSignals
  <1>1. Steps'
    BY <1>a, <1>b, CopierRests DEF Steps, SignalTypeOK
  <1>2. Turnwise'
    BY <1>a, <1>b, CopierRests DEF Turnwise
  <1>3. BitIsRight'
    BY <1>a, <1>b, CopierRests DEF BitIsRight
  <1>4. ChildIsAt'
    BY <1>b DEF ChildIsAt
  <1> QED
    BY <1>a, <1>1, <1>2, <1>3, <1>4, CopierRests DEF BIInv

LEMMA ReadByteInv == ASSUME BIInv, ReadByte PROVE BIInv'
  <1>a. Steps /\ Turnwise /\ Counted /\ BufferIsRight /\ BitIsRight /\ ChildIsAt /\ OutputIsPrefix
    BY DEF BIInv
  <1>b. cpc = "read" /\ UNCHANGED copier /\ cpending' = cpending /\ res_send' = res_send
        /\ ChildLives /\ ~Waits /\ Sent = bit
    BY DEF ReadByte, sender, ChildLives, Waits, Sent
  <1>t. /\ byte \in Byte /\ pos \in 0..Len(File) /\ bit \in 0..Bits /\ res_send \in {-1, 0}
        /\ bit = Bits \/ (pos = 0 /\ bit = 0)
    BY <1>a, <1>b DEF Steps, SignalTypeOK
  <1>1. CASE pos = Len(File)
    <2>1. cpc' = "exited" /\ ppending' = ppending \union {"SIGCHLD"}
          /\ byte' = byte /\ pos' = pos /\ bit' = bit
      BY <1>1 DEF ReadByte, Exits, sender
    <2> QED
      BY <1>b, <1>t, <2>1, ChildEndsInv
  <1>2. CASE pos # Len(File)
    <2>1. pos' = pos + 1 /\ byte' = File[pos + 1] /\ bit' = 0
          /\ (IF byte' = EOF THEN Exits ELSE cpc' = "arm" /\ UNCHANGED ppending)
      BY <1>2 DEF ReadByte
    <2>2. pos' \in 1..Len(File) /\ byte' \in Byte /\ bit' \in 0..Bits /\ bit' < Bits
      BY <1>t, <1>2, <2>1, Constants
    <2>3. CASE byte' = EOF
      <3>1. cpc' = "exited" /\ ppending' = ppending \union {"SIGCHLD"}
        BY <2>1, <2>3 DEF Exits
      <3> QED
        BY <1>b, <1>t, <2>2, <3>1, ChildEndsInv
    <2>4. CASE byte' # EOF
      <3>1. cpc' = "arm" /\ ppending' = ppending
        BY <2>1, <2>4
      <3>2. ChildLives' /\ ~Waits' /\ Carried' = Carried /\ Sent' = 0
        BY <2>1, <3>1 DEF ChildLives, Waits, Carried, Sent
      <3>3. Steps'
        BY <1>a, <1>b, <1>t, <2>1, <2>2, <3>1, <3>2, CopierRests DEF Steps, SignalTypeOK
      <3>4. Turnwise'
        BY <1>a, <1>b, <3>2, CopierRests DEF Turnwise
      <3>5. BitIsRight'
        BY <1>a, <1>b, <3>2, CopierRests DEF BitIsRight
      <3>6. ChildIsAt'
        <4> SUFFICES ASSUME ParentLives, Arrived <= Bits
                     PROVE  \/ pos + 1 = Place /\ 0 = Arrived
                            \/ Arrived = Bits /\ pos + 1 = Place + 1
          BY <1>b, <2>1, <3>2, CopierRests DEF ChildIsAt, Arrived
        <4>1. Len(written) \in Nat
          BY <1>a, Constants DEF Steps, SignalTypeOK
        <4>2. \/ pos = Place /\ bit = Arrived
              \/ Arrived = 0 /\ pos = Len(written)
              \/ Arrived = Bits /\ pos = Place + 1 /\ bit = 0
          BY <1>a, <1>b DEF ChildIsAt
        <4> QED
          BY <1>t, <4>1, <4>2, Constants DEF Place
      <3> QED
        BY <1>a, <1>b, <3>3, <3>4, <3>5, <3>6, CopierRests DEF BIInv
    <2> QED
      BY <2>3, <2>4
  <1> QED
    BY <1>1, <1>2

(* Setting the alarm and going to sleep change none of what is under way. *)
LEMMA ArmInv == ASSUME BIInv, Arm \/ ChildSuspend PROVE BIInv'
  <1>a. Steps /\ Turnwise /\ Counted /\ BufferIsRight /\ BitIsRight /\ ChildIsAt /\ OutputIsPrefix
    BY DEF BIInv
  <1>b. /\ UNCHANGED copier /\ ppending' = ppending /\ cpending' = cpending
        /\ byte' = byte /\ bit' = bit /\ pos' = pos /\ res_send' = res_send
        /\ (cpc = "arm" /\ cpc' = "kill") \/ (cpc = "pause" /\ cpc' = "paused")
    BY DEF Arm, ChildSuspend, sender
  <1>c. ChildLives /\ ChildLives' /\ (Waits' <=> Waits) /\ Carried' = Carried
    BY <1>b DEF ChildLives, Waits, Carried
  <1>1. Steps'
    BY <1>a, <1>b, <1>c, CopierRests DEF Steps, SignalTypeOK
  <1>2. Turnwise'
    BY <1>a, <1>b, <1>c, CopierRests DEF Turnwise
  <1>3. BitIsRight'
    BY <1>a, <1>b, <1>c, CopierRests DEF BitIsRight
  <1>4. ChildIsAt'
    BY <1>a, <1>b, <1>c, CopierRests DEF ChildIsAt, Sent, Arrived
  <1> QED
    BY <1>a, <1>b, <1>1, <1>2, <1>3, <1>4, CopierRests DEF BIInv

(* The bit sent is the one that the parent waits for. *)
LEMMA KillOneInv == ASSUME BIInv, KillOne PROVE BIInv'
  <1>a. Steps /\ Turnwise /\ Counted /\ BufferIsRight /\ BitIsRight /\ ChildIsAt /\ OutputIsPrefix
    BY DEF BIInv
  <1> DEFINE s == IF (byte \div 2^bit) % 2 = 1 THEN "SIGUSR1" ELSE "SIGUSR2"
  <1>b. /\ cpc = "kill" /\ cpc' = "pause" /\ UNCHANGED copier /\ cpending' = cpending
        /\ byte' = byte /\ bit' = bit /\ pos' = pos
        /\ res_send' = IF ParentLives THEN 0 ELSE -1
        /\ ppending' = IF ParentLives THEN ppending \union {s} ELSE ppending
    BY DEF KillOne
  <1>s. s \in BitSignals
    BY DEF BitSignals
  <1>c. ChildLives /\ ChildLives' /\ ~Waits /\ Waits' /\ Sent = bit /\ Sent' = bit + 1
    BY <1>b DEF ChildLives, Waits, Sent
  <1>t. pos >= 1 /\ byte = File[pos] /\ bit < Bits /\ bit \in Nat /\ pos \in 0..Len(File)
    BY <1>a, <1>b DEF Steps, SignalTypeOK
  <1>l. Len(written) \in Nat /\ count_m \in Nat
    BY <1>a, Constants DEF Steps, SignalTypeOK
  <1>n. ParentLives => Carried = {} /\ ppc \notin Awake /\ cpending = {} /\ Arrived = Had /\ Carried' = {s}
    BY <1>a, <1>b, <1>c, <1>s, NothingUnderWay DEF Carried
  <1>1. Steps'
    <2>1. ppending' \subseteq {"SIGUSR1", "SIGUSR2", "SIGCHLD"} /\ ("SIGCHLD" \in ppending' => "SIGCHLD" \in ppending)
      BY <1>a, <1>b, <1>s DEF Steps, SignalTypeOK, BitSignals
    <2> HIDE DEF s
    <2> QED
      BY <1>a, <1>b, <1>c, <1>t, <2>1, CopierRests DEF Steps, SignalTypeOK
  <1> HIDE DEF s
  <1>2. Turnwise'
    BY <1>a, <1>b, <1>c, <1>n, CopierRests DEF Turnwise, BitSignals
  <1>h. Had \in Nat
    BY <1>l, Constants DEF Had
  <1>p. ParentLives /\ Had < Bits => pos = Place /\ bit = Had
    <2> SUFFICES ASSUME ParentLives, Had < Bits PROVE pos = Place /\ bit = Had
      OBVIOUS
    <2>1. Arrived = Had /\ Arrived <= Bits
      BY <1>h, <1>n, Constants
    <2>2. \/ pos = Place /\ bit = Had
          \/ Had = 0 /\ (bit = Bits \/ pos = 0)
          \/ Had = Bits
      BY <1>a, <1>c, <2>1 DEF ChildIsAt
    <2> QED
      BY <1>t, <1>h, <2>2, Constants
  <1>3. BitIsRight'
    <2> SUFFICES ASSUME ParentLives, Had < Bits
                 PROVE  /\ Place <= Len(File)
                        /\ {s} = {IF (File[Place] \div 2^Had) % 2 = 1 THEN "SIGUSR1" ELSE "SIGUSR2"}
      BY <1>b, <1>n, CopierRests DEF BitIsRight
    <2> QED
      BY <1>p, <1>t, Constants DEF s
  <1>4. ChildIsAt'
    <2> SUFFICES ASSUME ParentLives, Had + 1 <= Bits
                 PROVE  pos = Place /\ bit + 1 = Had + 1
      BY <1>b, <1>c, <1>n, CopierRests DEF ChildIsAt, Arrived
    <2> QED
      BY <1>p, <1>h, Constants
  <1> QED
    BY <1>a, <1>b, <1>1, <1>2, <1>3, <1>4, CopierRests DEF BIInv

(* A child that wakes up has heard the answer, and the parent sleeps. *)
LEMMA ResumeInv ==
  ASSUME BIInv, ChildLives, Resume, UNCHANGED copier, ppending' = ppending, byte' = byte, pos' = pos,
         res_send' = res_send, cpending' = {},
         ParentLives => Carried = {} /\ ppc \notin Awake
  PROVE  BIInv'
  <1>a. Steps /\ Turnwise /\ Counted /\ BufferIsRight /\ BitIsRight /\ ChildIsAt /\ OutputIsPrefix
    BY DEF BIInv
  <1>c. Carried' = Carried
    BY DEF Carried
  <1>1. CASE cpc = "paused"
    <2>1. cpc' = NextBit /\ bit' = bit + 1
      BY <1>1 DEF Resume
    <2>2. bit \in Nat /\ bit < Bits /\ pos >= 1 /\ byte = File[pos]
      BY <1>a, <1>1 DEF Steps, SignalTypeOK
    <2>3. (cpc' = "read" /\ bit' = Bits) \/ (cpc' = "arm" /\ bit' < Bits)
      BY <2>1, <2>2, Constants DEF NextBit
    <2>4. ChildLives' /\ Waits /\ ~Waits' /\ Sent' = Sent
      BY <1>1, <2>1, <2>3 DEF ChildLives, Waits, Sent
    <2>5. Steps'
      BY <1>a, <1>1, <2>1, <2>2, <2>3, <2>4, CopierRests, Constants DEF Steps, SignalTypeOK
    <2>6. Turnwise'
      BY <1>a, <1>c, CopierRests DEF Turnwise, BitSignals
    <2>7. BitIsRight'
      BY <1>a, <1>c, CopierRests DEF BitIsRight
    <2>8. ChildIsAt'
      BY <1>a, <1>c, <2>4, CopierRests DEF ChildIsAt, Arrived
    <2> QED
      BY <1>a, <2>5, <2>6, <2>7, <2>8, CopierRests DEF BIInv
  <1>2. CASE cpc # "paused"
    <2>1. cpc' = cpc /\ bit' = bit
      BY <1>2 DEF Resume
    <2>2. (ChildLives' <=> ChildLives) /\ (Waits' <=> Waits) /\ Sent' = Sent
      BY <2>1 DEF ChildLives, Waits, Sent
    <2>3. Steps'
      BY <1>a, <2>1, <2>2, CopierRests DEF Steps, SignalTypeOK
    <2>4. Turnwise'
      BY <1>a, <1>c, CopierRests DEF Turnwise, BitSignals
    <2>5. BitIsRight'
      BY <1>a, <1>c, CopierRests DEF BitIsRight
    <2>6. ChildIsAt'
      BY <1>a, <1>c, <2>2, CopierRests DEF ChildIsAt, Arrived
    <2> QED
      BY <1>a, <2>3, <2>4, <2>5, <2>6, CopierRests DEF BIInv
  <1> QED
    BY <1>1, <1>2

LEMMA UpInv == ASSUME BIInv, up PROVE BIInv'
  <1>a. Steps /\ Turnwise
    BY DEF BIInv
  <1>b. /\ ChildLives /\ cpending # {} /\ cpending' = cpending \ {"SIGUSR1"} /\ Resume
        /\ UNCHANGED copier /\ ppending' = ppending /\ byte' = byte /\ pos' = pos /\ res_send' = res_send
    BY DEF up
  <1>1. cpending' = {}
    BY <1>a, <1>b DEF Steps, SignalTypeOK
  <1>2. ParentLives => Carried = {} /\ ppc \notin Awake
    BY <1>a, <1>b DEF Turnwise, Awake
  <1> QED
    BY <1>b, <1>1, <1>2, ResumeInv

(* An alarm that goes off when all is quiet: the answer went astray. *)
LEMMA AlarmInv == ASSUME Prompt, BIInv, al PROVE BIInv'
  <1>a. Steps /\ Turnwise
    BY DEF BIInv
  <1>b. /\ ChildLives /\ Quiet /\ UNCHANGED copier /\ cpending' = cpending
        /\ byte' = byte /\ pos' = pos /\ res_send' = res_send
    BY DEF al
  <1>1. CASE res_send = -1
    <2>1. cpc' = "exited" /\ ppending' = ppending \union {"SIGCHLD"} /\ bit' = bit
      BY <1>1 DEF al, Exits
    <2>2. byte \in Byte /\ pos \in 0..Len(File) /\ bit \in 0..Bits /\ res_send \in {-1, 0}
      BY <1>a DEF Steps, SignalTypeOK
    <2> QED
      BY <1>b, <2>1, <2>2, ChildEndsInv
  <1>2. CASE res_send # -1
    <2>1. Resume /\ ppending' = ppending
      BY <1>2 DEF al
    <2>2. cpending' = {} /\ (ParentLives => Carried = {} /\ ppc \notin Awake)
      BY <1>b DEF Quiet, Carried, Awake, ParentLives
    <2> QED
      BY <1>b, <2>1, <2>2, ResumeInv
  <1> QED
    BY <1>1, <1>2

LEMMA KilledInv == ASSUME BIInv, ParentKilled \/ ChildKilled PROVE BIInv'
  <1>a. Steps /\ Turnwise /\ Counted /\ BufferIsRight /\ BitIsRight /\ ChildIsAt /\ OutputIsPrefix
    BY DEF BIInv
  <1>1. CASE ParentKilled
    <2>1. /\ ppc' = "killed" /\ buff_m' = buff_m /\ count_m' = count_m /\ sig_m' = sig_m /\ ex_m' = ex_m
          /\ reg' = reg /\ written' = written /\ ppending' = ppending /\ cpc' = cpc /\ cpending' = cpending
          /\ byte' = byte /\ bit' = bit /\ pos' = pos /\ res_send' = res_send
      BY <1>1 DEF ParentKilled, sender
    <2>2. ~ParentLives' /\ (ChildLives' <=> ChildLives)
      BY <2>1 DEF ParentLives, ChildLives
    <2>3. Steps'
      BY <1>a, <2>1, <2>2 DEF Steps, SignalTypeOK
    <2>4. Turnwise' /\ BufferIsRight' /\ BitIsRight' /\ ChildIsAt'
      BY <2>2 DEF Turnwise, BufferIsRight, BitIsRight, ChildIsAt
    <2>5. Counted' /\ OutputIsPrefix'
      BY <1>a, <2>1 DEF Counted, OutputIsPrefix
    <2> QED
      BY <2>3, <2>4, <2>5 DEF BIInv
  <1>2. CASE ChildKilled
    <2>1. /\ ChildLives /\ cpc' = "killed" /\ ppending' = ppending \union {"SIGCHLD"} /\ UNCHANGED copier
          /\ cpending' = cpending /\ byte' = byte /\ bit' = bit /\ pos' = pos /\ res_send' = res_send
      BY <1>2 DEF ChildKilled, sender
    <2>2. byte \in Byte /\ pos \in 0..Len(File) /\ bit \in 0..Bits /\ res_send \in {-1, 0}
      BY <1>a DEF Steps, SignalTypeOK
    <2> QED
      BY <2>1, <2>2, ChildEndsInv
  <1> QED
    BY <1>1, <1>2

LEMMA SignalRestsInv == ASSUME BIInv, UNCHANGED signalVars PROVE BIInv'
  <1>a. Steps /\ Turnwise /\ Counted /\ BufferIsRight /\ BitIsRight /\ ChildIsAt /\ OutputIsPrefix
    BY DEF BIInv
  <1>b. /\ UNCHANGED copier /\ ppending' = ppending /\ cpc' = cpc /\ cpending' = cpending
        /\ byte' = byte /\ bit' = bit /\ pos' = pos /\ res_send' = res_send
    BY DEF signalVars, sender
  <1>c. (ChildLives' <=> ChildLives) /\ (Waits' <=> Waits) /\ Carried' = Carried /\ Sent' = Sent
    BY <1>b DEF ChildLives, Waits, Carried, Sent
  <1>1. Steps'
    BY <1>a, <1>b, <1>c, CopierRests DEF Steps, SignalTypeOK
  <1>2. Turnwise'
    BY <1>a, <1>b, <1>c, CopierRests DEF Turnwise
  <1>3. BitIsRight'
    BY <1>a, <1>b, <1>c, CopierRests DEF BitIsRight
  <1>4. ChildIsAt'
    BY <1>a, <1>b, <1>c, CopierRests DEF ChildIsAt, Arrived
  <1> QED
    BY <1>a, <1>b, <1>1, <1>2, <1>3, <1>4, CopierRests DEF BIInv

LEMMA BitsNext == ASSUME Prompt, BIInv, [SignalNext]_signalVars PROVE BIInv'
  <1>1. CASE CopierStep
    <2>1. Walk \/ AnswerBit \/ (Recount \/ Clear) \/ WriteByte \/ (one \/ zero) \/ f_ex
      BY <1>1 DEF CopierStep, Walk
    <2> QED
      BY <2>1, WalkInv, AnswerInv, RecountInv, WriteInv, BitInv, DeadInv
  <1>2. CASE SenderStep
    <2>1. ReadByte \/ (Arm \/ ChildSuspend) \/ KillOne \/ up
      BY <1>2 DEF SenderStep
    <2> QED
      BY <2>1, ReadByteInv, ArmInv, KillOneInv, UpInv
  <1>3. CASE al
    BY <1>3, AlarmInv
  <1>4. CASE ParentKilled \/ ChildKilled
    BY <1>4, KilledInv
  <1>5. CASE UNCHANGED signalVars
    BY <1>5, SignalRestsInv
  <1> QED
    BY <1>1, <1>2, <1>3, <1>4, <1>5 DEF SignalNext

-----------------------------------------------------------------------------
(* Where every process answers before the alarm goes off, the two processes take
   turns bit by bit, and each bit under way belongs where the parent puts it. *)
THEOREM BitsInTurn == ASSUME Prompt PROVE SignalSpec => []BIInv
  <1>1. SignalInit => BIInv
    BY BitsInit
  <1>2. BIInv /\ [SignalNext]_signalVars => BIInv'
    BY BitsNext
  <1> QED
    BY <1>1, <1>2, PTL DEF SignalSpec

(* Then the parent's output is the beginning of the file: a lost wakeup, a death
   or an alarm may cut it short, none makes a bit of it wrong. *)
THEOREM CopyIsPrefix == ASSUME Prompt PROVE SignalSpec => []SignalInv
  <1>1. BIInv => SignalInv
    BY DEF BIInv, Steps, SignalInv
  <1> QED
    BY <1>1, BitsInTurn, PTL

(* And no bit is sent while the one before is still pending at the parent, where
   it would be lost. *)
THEOREM BitsAreSentAlone == ASSUME Prompt PROVE SignalSpec => SentAlone
  <1>1. BIInv /\ [SignalNext]_signalVars =>
          [ParentLives /\ cpc = "kill" /\ cpc' = "pause" =>
             ppending \intersect {"SIGUSR1", "SIGUSR2"} = {}]_signalVars
    <2> SUFFICES ASSUME BIInv, ParentLives, cpc = "kill"
                 PROVE  ppending \intersect {"SIGUSR1", "SIGUSR2"} = {}
      OBVIOUS
    <2>1. Steps /\ Turnwise /\ ChildLives /\ ~Waits
      BY DEF BIInv, ChildLives, Waits
    <2> QED
      BY <2>1, NothingUnderWay DEF Carried, BitSignals
  <1> QED
    BY <1>1, BitsInTurn, PTL DEF SignalSpec, SentAlone
=============================================================================
