-------------------------- MODULE ProxyServerProofs --------------------------
(***************************************************************************)
(* Proofs about serv.c: any number of children, any sizes of pipes and     *)
(* buffers, any file, and any processes lost.                              *)
(***************************************************************************)
EXTENDS ProxyServer, SequenceTheorems, WellFoundedInduction, TLAPS

(* The bytes after the first a up to the first b of the file. *)
Segment(a, b) == SubSeq(Source, a + 1, b)
Places == 0..Len(Source)

-----------------------------------------------------------------------------
(* Induction: a set of numbers that is not empty has a least element. *)
LEMMA LeastElement ==
  ASSUME NEW T \in SUBSET Nat, T # {}
  PROVE  \E x \in T : \A y \in T : x <= y
  <1>1. IsWellFoundedOn(OpToRel(<, Nat), Nat)
    BY NatLessThanWellFounded
  <1>2. \E x \in T : \A y \in T : ~ (<<y, x>> \in OpToRel(<, Nat))
    BY <1>1, WFMin
  <1>3. PICK x \in T : \A y \in T : ~ (<<y, x>> \in OpToRel(<, Nat))
    BY <1>2
  <1>4. \A y \in T : ~(y < x)
    BY <1>3 DEF OpToRel
  <1> QED
    BY <1>4

LEMMA ConstantsAre ==
  /\ n \in Nat /\ n >= 1 /\ Unit \in Nat /\ Unit >= 1 /\ PipeSize \in Nat /\ PipeSize >= 1
  /\ Source \in Seq(Content) /\ Len(Source) \in Nat /\ MaxKills \in Nat
  BY nAssumption, SizesAssumption, SourceAssumption DEF Content

LEMMA SizeIsPositive ==
  ASSUME NEW k \in Buffer
  PROVE  size(k) \in Nat /\ size(k) >= 1
  <1>1. CASE k = n
    BY <1>1 DEF size
  <1>2. CASE k # n
    <2>1. n - k \in Nat /\ n - k >= 1
      BY <1>2, ConstantsAre DEF Buffer
    <2>2. \A x, y \in Nat : x >= 1 /\ y >= 1 => x * y \in Nat /\ x * y >= 1
      OBVIOUS
    <2> QED
      BY <1>2, <2>1, <2>2, ConstantsAre DEF size
  <1> QED
    BY <1>1, <1>2

(* What a read or a write takes off the front, and what stays. *)
LEMMA Taken ==
  ASSUME NEW S, NEW s \in Seq(S), NEW len \in Nat, len <= Len(s)
  PROVE  /\ First(s, len) \in Seq(S) /\ Len(First(s, len)) = len
         /\ SubSeq(s, len + 1, Len(s)) \in Seq(S) /\ Len(SubSeq(s, len + 1, Len(s))) = Len(s) - len
  BY DEF First

LEMMA TakenElements ==
  ASSUME NEW S, NEW s \in Seq(S), NEW len \in Nat, len <= Len(s)
  PROVE  /\ \A k \in 1..len : First(s, len)[k] = s[k]
         /\ \A k \in 1..Len(s) - len : SubSeq(s, len + 1, Len(s))[k] = s[len + k]
  BY DEF First

LEMMA Joined ==
  ASSUME NEW S, NEW s \in Seq(S), NEW t \in Seq(S)
  PROVE  s \o t \in Seq(S) /\ Len(s \o t) = Len(s) + Len(t)
  OBVIOUS

LEMMA JoinedElements ==
  ASSUME NEW S, NEW s \in Seq(S), NEW t \in Seq(S)
  PROVE  /\ \A k \in 1..Len(s) : (s \o t)[k] = s[k]
         /\ \A k \in 1..Len(t) : (s \o t)[Len(s) + k] = t[k]
  <1>1. /\ Len(s) \in Nat /\ Len(t) \in Nat
        /\ \A k \in 1..Len(s) + Len(t) : (s \o t)[k] = IF k <= Len(s) THEN s[k] ELSE t[k - Len(s)]
    BY ConcatProperties, LenProperties
  <1>2. ASSUME NEW k \in 1..Len(s) PROVE (s \o t)[k] = s[k]
    BY <1>1
  <1>3. ASSUME NEW k \in 1..Len(t) PROVE (s \o t)[Len(s) + k] = t[k]
    <2>1. Len(s) + k \in 1..Len(s) + Len(t) /\ ~(Len(s) + k <= Len(s)) /\ (Len(s) + k) - Len(s) = k
      BY <1>1
    <2> QED
      BY <1>1, <2>1
  <1> QED
    BY <1>2, <1>3

-----------------------------------------------------------------------------
(* Segments of the file. *)
LEMMA SegmentIs ==
  ASSUME NEW a \in Places, NEW b \in Places, a <= b
  PROVE  /\ Segment(a, b) \in Seq(Content) /\ Len(Segment(a, b)) = b - a
         /\ \A k \in 1..b - a : Segment(a, b)[k] = Source[a + k]
  BY ConstantsAre DEF Segment, Places

LEMMA SegmentJoin ==
  ASSUME NEW a \in Places, NEW b \in Places, NEW c \in Places, a <= b, b <= c
  PROVE  Segment(a, b) \o Segment(b, c) = Segment(a, c)
  <1> DEFINE s == Segment(a, b)
             u == Segment(b, c)
             v == Segment(a, c)
  <1>1. a \in Nat /\ b \in Nat /\ c \in Nat /\ a <= c
    BY ConstantsAre DEF Places
  <1>2. s \in Seq(Content) /\ Len(s) = b - a /\ \A k \in 1..b - a : s[k] = Source[a + k]
    BY SegmentIs
  <1>3. u \in Seq(Content) /\ Len(u) = c - b /\ \A k \in 1..c - b : u[k] = Source[b + k]
    BY SegmentIs
  <1>4. v \in Seq(Content) /\ Len(v) = c - a /\ \A k \in 1..c - a : v[k] = Source[a + k]
    BY <1>1, SegmentIs
  <1> HIDE DEF s, u, v
  <1>5. /\ s \o u \in Seq(Content) /\ Len(s \o u) = Len(v)
        /\ \A k \in 1..b - a : (s \o u)[k] = s[k]
        /\ \A k \in 1..c - b : (s \o u)[(b - a) + k] = u[k]
    <2>1. /\ s \o u \in Seq(Content) /\ Len(s \o u) = Len(s) + Len(u)
          /\ \A k \in 1..Len(s) : (s \o u)[k] = s[k]
          /\ \A k \in 1..Len(u) : (s \o u)[Len(s) + k] = u[k]
      <3>1. s \in Seq(Content) /\ u \in Seq(Content)
        BY <1>2, <1>3
      <3>2. \A v1, v2 \in Seq(Content) :
              /\ v1 \o v2 \in Seq(Content) /\ Len(v1 \o v2) = Len(v1) + Len(v2)
              /\ \A k \in 1..Len(v1) : (v1 \o v2)[k] = v1[k]
              /\ \A k \in 1..Len(v2) : (v1 \o v2)[Len(v1) + k] = v2[k]
        BY Joined, JoinedElements
      <3> QED
        BY <3>1, <3>2, Zenon
    <2>2. Len(s) + Len(u) = Len(v)
      BY <1>1, <1>2, <1>3, <1>4
    <2>3. \A k \in 1..b - a : (s \o u)[k] = s[k]
      BY <1>2, <2>1
    <2>4. \A k \in 1..c - b : (s \o u)[(b - a) + k] = u[k]
      <3>1. Len(s) = b - a /\ Len(u) = c - b
        BY <1>2, <1>3
      <3> QED
        BY <2>1, <3>1, Zenon
    <2> QED
      BY <2>1, <2>2, <2>3, <2>4, Zenon
  <1>6. ASSUME NEW k \in 1..Len(v) PROVE (s \o u)[k] = v[k]
    <2>1. k \in 1..c - a
      BY <1>4
    <2>2. CASE k <= b - a
      BY <1>1, <1>2, <1>4, <1>5, <2>1, <2>2
    <2>3. CASE ~(k <= b - a)
      <3>1. k - (b - a) \in 1..c - b /\ b + (k - (b - a)) = a + k /\ (b - a) + (k - (b - a)) = k
        BY <1>1, <2>1, <2>3
      <3>2. (s \o u)[(b - a) + (k - (b - a))] = u[k - (b - a)]
        BY <1>5, <3>1
      <3> QED
        BY <1>3, <1>4, <2>1, <3>1, <3>2
    <2> QED
      BY <2>2, <2>3
  <1>7. s \o u = v
    BY <1>4, <1>5, <1>6, SeqEqual
  <1> QED
    BY <1>7 DEF s, u, v

LEMMA SegmentCut ==
  ASSUME NEW a \in Places, NEW b \in Places, a <= b, NEW len \in 0..b - a
  PROVE  /\ a + len \in Places
         /\ SubSeq(Segment(a, b), 1, len) = Segment(a, a + len)
         /\ SubSeq(Segment(a, b), len + 1, Len(Segment(a, b))) = Segment(a + len, b)
  <1> DEFINE s == Segment(a, b)
             u == Segment(a, a + len)
             v == Segment(a + len, b)
             x == SubSeq(s, 1, len)
             y == SubSeq(s, len + 1, Len(s))
  <1>1. a + len \in Places /\ a \in Nat /\ b \in Nat /\ len \in Nat /\ len <= b - a
    BY ConstantsAre DEF Places
  <1>2. /\ s \in Seq(Content) /\ Len(s) = b - a /\ \A k \in 1..b - a : s[k] = Source[a + k]
        /\ u \in Seq(Content) /\ Len(u) = (a + len) - a /\ \A k \in 1..(a + len) - a : u[k] = Source[a + k]
        /\ v \in Seq(Content) /\ Len(v) = b - (a + len) /\ \A k \in 1..b - (a + len) : v[k] = Source[(a + len) + k]
    <2>1. a <= a + len /\ a + len <= b
      BY <1>1
    <2> QED
      BY <1>1, <2>1, SegmentIs
  <1> HIDE DEF s, u, v
  <1>3. /\ x \in Seq(Content) /\ Len(x) = len /\ \A k \in 1..len : x[k] = s[k]
        /\ y \in Seq(Content) /\ Len(y) = Len(s) - len /\ \A k \in 1..Len(s) - len : y[k] = s[len + k]
    <2>1. s \in Seq(Content) /\ len \in Nat /\ len <= Len(s)
      BY <1>1, <1>2
    <2>2. \A r \in Seq(Content), j \in Nat : j <= Len(r) =>
            /\ SubSeq(r, 1, j) \in Seq(Content) /\ Len(SubSeq(r, 1, j)) = j
            /\ \A k \in 1..j : SubSeq(r, 1, j)[k] = r[k]
            /\ SubSeq(r, j + 1, Len(r)) \in Seq(Content) /\ Len(SubSeq(r, j + 1, Len(r))) = Len(r) - j
            /\ \A k \in 1..Len(r) - j : SubSeq(r, j + 1, Len(r))[k] = r[j + k]
      BY Taken, TakenElements, Zenon DEF First
    <2> QED
      BY <2>1, <2>2, Zenon
  <1>4. Len(y) = b - a - len /\ \A k \in 1..b - a - len : y[k] = s[len + k]
    BY <1>1, <1>2, <1>3
  <1> HIDE DEF x, y
  <1>5. x = u
    <2>1. (a + len) - a = len
      BY <1>1
    <2>2. Len(x) = len /\ Len(u) = len
      BY <1>2, <1>3, <2>1
    <2>3. ASSUME NEW k \in 1..len PROVE x[k] = u[k]
      <3>1. u[k] = Source[a + k]
        BY <1>2, <2>1
      <3>2. x[k] = s[k] /\ k \in 1..b - a
        BY <1>1, <1>3
      <3> QED
        BY <1>2, <3>1, <3>2
    <2> QED
      BY <1>2, <1>3, <2>2, <2>3, SeqEqual
  <1>6. y = v
    <2>1. Len(y) = Len(v)
      BY <1>1, <1>2, <1>4
    <2>2. ASSUME NEW k \in 1..Len(y) PROVE y[k] = v[k]
      <3>1. k \in 1..b - a - len /\ len + k \in 1..b - a /\ k \in 1..b - (a + len) /\ a + (len + k) = (a + len) + k
        BY <1>1, <1>4
      <3> QED
        BY <1>2, <1>4, <3>1
    <2> QED
      BY <1>2, <1>3, <2>1, <2>2, SeqEqual
  <1> QED
    BY <1>1, <1>5, <1>6 DEF s, u, v, x, y

LEMMA SegmentEmpty ==
  ASSUME NEW a \in Places, NEW b \in Places, a <= b
  PROVE  Segment(a, b) = <<>> <=> a = b
  <1>1. a \in Nat /\ b \in Nat
    BY ConstantsAre DEF Places
  <1>2. Segment(a, b) \in Seq(Content) /\ Len(Segment(a, b)) = b - a
    BY SegmentIs
  <1>3. Segment(a, b) = <<>> <=> Len(Segment(a, b)) = 0
    BY <1>2
  <1> QED
    BY <1>1, <1>2, <1>3

-----------------------------------------------------------------------------
(* Line is what its definition says: the recursion has a solution. *)
Lowest == child[0].mem \o left
Behind(k) == child[k].mem \o to[k] \o buff[k] \o from[k - 1]

LEMMA RecursionHasSolution ==
  \E g : g = [k \in Child |-> IF k = 0 THEN Lowest ELSE Behind(k) \o g[k - 1]]
  <1> DEFINE Solves(m) == \E g : g = [k \in 0..m |-> IF k = 0 THEN Lowest ELSE Behind(k) \o g[k - 1]]
             T == {m \in Nat : ~Solves(m)}
  <1>1. Solves(0)
    <2> DEFINE h == [k \in 0..0 |-> Lowest]
    <2>1. ASSUME NEW k \in 0..0 PROVE h[k] = IF k = 0 THEN Lowest ELSE Behind(k) \o h[k - 1]
      OBVIOUS
    <2>2. h = [k \in 0..0 |-> h[k]]
      OBVIOUS
    <2> HIDE DEF h
    <2>3. h = [k \in 0..0 |-> IF k = 0 THEN Lowest ELSE Behind(k) \o h[k - 1]]
      BY <2>1, <2>2
    <2> QED
      BY <2>3
  <1>2. ASSUME NEW m \in Nat, Solves(m) PROVE Solves(m + 1)
    <2>1. PICK g : g = [k \in 0..m |-> IF k = 0 THEN Lowest ELSE Behind(k) \o g[k - 1]]
      BY <1>2
    <2> DEFINE h == [k \in 0..m + 1 |-> IF k <= m THEN g[k] ELSE Behind(m + 1) \o g[m]]
    <2>2. ASSUME NEW k \in 0..m + 1 PROVE h[k] = IF k = 0 THEN Lowest ELSE Behind(k) \o h[k - 1]
      <3>1. CASE k = 0
        BY <2>1, <3>1
      <3>2. CASE k # 0 /\ k <= m
        <4>1. k \in 0..m /\ k - 1 \in 0..m + 1 /\ k - 1 <= m
          BY <3>2
        <4>2. g[k] = Behind(k) \o g[k - 1] /\ h[k] = g[k] /\ h[k - 1] = g[k - 1]
          BY <2>1, <3>2, <4>1
        <4> QED
          BY <3>2, <4>2
      <3>3. CASE k = m + 1
        <4>1. k # 0 /\ k - 1 = m /\ m \in 0..m + 1 /\ ~(k <= m)
          BY <3>3
        <4>2. h[k] = Behind(m + 1) \o g[m] /\ h[k - 1] = g[m]
          BY <4>1
        <4> QED
          BY <3>3, <4>1, <4>2
      <3> QED
        BY <3>1, <3>2, <3>3
    <2>3. h = [k \in 0..m + 1 |-> h[k]]
      OBVIOUS
    <2> HIDE DEF h
    <2>4. h = [k \in 0..m + 1 |-> IF k = 0 THEN Lowest ELSE Behind(k) \o h[k - 1]]
      BY <2>2, <2>3
    <2> QED
      BY <2>4
  <1>3. T = {}
    <2> SUFFICES ASSUME T # {} PROVE FALSE
      OBVIOUS
    <2> HIDE DEF Solves
    <2>1. PICK m \in T : \A j \in T : m <= j
      BY LeastElement
    <2>2. m \in Nat /\ m # 0 /\ m - 1 \in Nat /\ m - 1 \notin T
      BY <1>1, <2>1
    <2>3. Solves((m - 1) + 1) /\ (m - 1) + 1 = m
      BY <1>2, <2>2
    <2> QED
      BY <2>1, <2>3
  <1>4. Solves(n - 1)
    <2>1. n - 1 \in Nat
      BY ConstantsAre
    <2> HIDE DEF Solves
    <2> QED
      BY <1>3, <2>1
  <1> QED
    BY <1>4 DEF Child

LEMMA LineIs ==
  /\ Line[0] = child[0].mem \o left
  /\ \A k \in Child \ {0} : Line[k] = Behind(k) \o Line[k - 1]
  <1>1. PICK g : g = [k \in Child |-> IF k = 0 THEN Lowest ELSE Behind(k) \o g[k - 1]]
    BY RecursionHasSolution
  <1>2. g = [k \in Child |-> IF k = 0 THEN child[0].mem \o left
               ELSE child[k].mem \o to[k] \o buff[k] \o from[k - 1] \o g[k - 1]]
    BY <1>1, Zenon DEF Behind, Lowest
  <1>3. Line = [k \in Child |-> IF k = 0 THEN child[0].mem \o left
               ELSE child[k].mem \o to[k] \o buff[k] \o from[k - 1] \o Line[k - 1]]
    BY <1>2, Zenon DEF Line
  <1>4. 0 \in Child
    BY ConstantsAre DEF Child
  <1> QED
    BY <1>3, <1>4, Zenon DEF Behind
-----------------------------------------------------------------------------
(* The inductive invariant.                                                *)

(* The shape of the state, with the domains of the functions. *)
Types ==
  /\ ProxyTypeOK
  /\ to \in [Child -> Seq(Content)] /\ from \in [Child -> Seq(Content)] /\ buff \in [Buffer -> Seq(Content)]
  /\ child \in [Child -> [pc : {"none", "read", "write", "gone"}, mem : Seq(Content)]]

(* The loop that forks the children has come to child i, and what is at the *)
(* two ends of the line and beyond them stays empty.                        *)
Forking ==
  /\ pc = "fork" => i < n /\ \A k \in Buffer : (w_fd[k] <=> k < i) /\ (r_fd[k] <=> 1 <= k /\ k <= i)
  /\ pc # "fork" => i = n
  /\ \A c \in Child : (child[c].pc = "none" <=> c >= i) /\ (child[c].pc # "write" => child[c].mem = <<>>)
  /\ ~r_fd[0] /\ ~w_fd[n] /\ buff[0] = <<>> /\ buff[n] = <<>> /\ from[n - 1] = <<>> /\ to[0] = <<>>
  /\ pc = "gone" => \A k \in Buffer : ~r_fd[k] /\ ~w_fd[k]

(* What select reported and is not handled yet is still so. *)
Reported ==
  /\ \A k \in rd_set : r_fd[k] /\ Len(buff[k]) < size(k) /\ Readable(k)
  /\ \A k \in wr_set : w_fd[k] /\ buff[k] # <<>> /\ Writable(k)
  /\ pc \in {"fork", "select", "close", "gone"} => rd_set = {} /\ wr_set = {}
  /\ pc = "read" => rd_set # {}
  /\ pc = "write" => rd_set = {} /\ wr_set # {}

(* A buffer's two ends are closed from the source to the destination, each  *)
(* when nothing can come any more.                                          *)
Closed ==
  pc # "fork" /\ (pc = "gone" => kills = 0) =>
    \A k \in 1..n - 1 :
      /\ ~r_fd[k] => ~Running(k - 1) /\ from[k - 1] = <<>>
      /\ ~w_fd[k] => ~r_fd[k] /\ buff[k] = <<>>
      /\ pc = "select" /\ w_fd[k] => ~Drained(k)

(* The cuts between what is at one place and at the next: child c holds the *)
(* bytes from m[c] to t[c], the pipe to it those up to b[c], the buffer in  *)
(* front of it those up to f[c] and the pipe to that one those up to        *)
(* m[c - 1].  What a lost child held is lost, but nobody else's bytes are,  *)
(* and a child that was not lost ends at the end of the file.               *)
Holds(c, m, t) ==
  /\ m[c] <= t[c]
  /\ child[c].pc # "gone" \/ kills = 0 => child[c].mem = Segment(m[c], t[c])
  /\ child[c].pc = "gone" /\ kills = 0 => m[c] = Len(Source)
Joins(c, m, t, b, f) ==
  /\ t[c] <= b[c] /\ b[c] <= f[c] /\ f[c] <= m[c - 1]
  /\ to[c] = Segment(t[c], b[c]) /\ buff[c] = Segment(b[c], f[c])
  /\ from[c - 1] = Segment(f[c], m[c - 1])
Ends(m, t) == dest = Segment(0, m[n - 1]) /\ left = Segment(t[0], Len(Source))
Cut(m, t, b, f) ==
  /\ Ends(m, t)
  /\ \A c \in Child : Holds(c, m, t)
  /\ \A c \in Child \ {0} : Joins(c, m, t, b, f)
Cuts == \E m, t, b, f \in [Child -> Places] : Cut(m, t, b, f)

Order == Types /\ Forking /\ Reported /\ Closed
PInv  == Order /\ Cuts

-----------------------------------------------------------------------------
(* Facts that many steps need. *)

(* Smallest chooses a member. *)
LEMMA SmallestIn ==
  ASSUME NEW T \in SUBSET Nat, T # {}
  PROVE  Smallest(T) \in T
  <1>1. \E x \in T : \A y \in T : x <= y
    BY LeastElement
  <1> QED
    BY <1>1 DEF Smallest

LEMMA Indexes ==
  /\ 0 \in Child /\ n - 1 \in Child /\ n \in Buffer /\ 0 \in Buffer
  /\ \A c \in Child : c \in Nat /\ c \in Buffer /\ c + 1 \in Buffer /\ (c # n - 1 => c + 1 \in Child \ {0})
  /\ \A c \in Child \ {0} : c - 1 \in Child /\ c \in 1..n - 1
  /\ \A k \in 1..n - 1 : k \in Child /\ k \in Buffer /\ k - 1 \in Child /\ k # 0
  /\ \A k \in Buffer : k \in Nat /\ (k # 0 => k - 1 \in Child) /\ (k # n => k \in Child)
  BY ConstantsAre DEF Child, Buffer

(* Only buffers with a child on each side are ever written, and only those  *)
(* and the one past the last are read.                                      *)
LEMMA ReportedBuffers ==
  ASSUME Types, Forking, Reported
  PROVE  /\ rd_set \in SUBSET Nat /\ wr_set \in SUBSET Nat
         /\ \A k \in rd_set : k \in Buffer /\ k # 0 /\ k - 1 \in Child
         /\ \A k \in wr_set : k \in Child \ {0}
  <1>1. rd_set \subseteq Buffer /\ wr_set \subseteq Buffer
    BY DEF Types, ProxyTypeOK
  <1>2. \A k \in rd_set : k # 0
    BY DEF Forking, Reported
  <1>3. \A k \in wr_set : k # 0 /\ k # n
    BY DEF Forking, Reported
  <1> QED
    BY <1>1, <1>2, <1>3, Indexes

LEMMA EmptyIs ==
  ASSUME NEW S, NEW s \in Seq(S)
  PROVE  Len(s) \in Nat /\ (s = <<>> <=> Len(s) = 0)
  OBVIOUS

LEMMA LeastIs ==
  ASSUME NEW a \in Nat, NEW b \in Nat
  PROVE  /\ least(a, b) \in Nat /\ least(a, b) <= a /\ least(a, b) <= b
         /\ least(a, b) = 0 <=> a = 0 \/ b = 0
  BY DEF least

-----------------------------------------------------------------------------
(* A step of a child or of somebody who kills it, as far as the order of    *)
(* what is closed goes.                                                     *)
LEMMA ChildMoves ==
  ASSUME Order, NEW c \in Child, Running(c),
         NEW st \in [pc : {"read", "write", "gone"}, mem : Seq(Content)],
         Len(st.mem) <= size(c), st.pc # "write" => st.mem = <<>>,
         child' = [child EXCEPT ![c] = st], UNCHANGED parent,
         kills' \in 0..MaxKills, kills' >= kills,
         left' \in Seq(Content), dest' \in Seq(Content),
         to' \in [Child -> Seq(Content)], from' \in [Child -> Seq(Content)],
         \A x \in Child : Len(to'[x]) <= Len(to[x]),
         \A x \in Child : x # c => from'[x] = from[x],
         Len(from'[c]) <= PipeSize, from[c] # <<>> => from'[c] # <<>>,
         from'[c] # from[c] => c # n - 1 /\ r_fd[c + 1]
  PROVE  Order'
  <1> USE DEF Order
  <1>1. /\ \A x \in Child : child'[x] = IF x = c THEN st ELSE child[x]
        /\ child' \in [Child -> [pc : {"none", "read", "write", "gone"}, mem : Seq(Content)]]
    BY DEF Types
  <1>2. UNCHANGED <<buff, r_fd, w_fd, rd_set, wr_set, pc, i>>
    BY DEF parent
  <1>3. Types'
    <2>1. \A x \in Child : /\ to'[x] \in Seq(Content) /\ Len(to'[x]) <= PipeSize
                           /\ from'[x] \in Seq(Content) /\ Len(from'[x]) <= PipeSize
      <3>1. ASSUME NEW x \in Child PROVE to'[x] \in Seq(Content) /\ Len(to'[x]) <= PipeSize
        <4>1. Len(to[x]) <= PipeSize /\ to[x] \in Seq(Content) /\ to'[x] \in Seq(Content)
          BY DEF Types, ProxyTypeOK
        <4>2. Len(to[x]) \in Nat /\ Len(to'[x]) \in Nat
          BY <4>1, EmptyIs
        <4> QED
          BY <4>1, <4>2, ConstantsAre
      <3>2. ASSUME NEW x \in Child PROVE from'[x] \in Seq(Content) /\ Len(from'[x]) <= PipeSize
        BY DEF Types, ProxyTypeOK
      <3> QED
        BY <3>1, <3>2
    <2>2. \A x \in Child : /\ child'[x].pc \in {"none", "read", "write", "gone"}
                           /\ child'[x].mem \in Seq(Content) /\ Len(child'[x].mem) <= size(x)
      BY <1>1 DEF Types, ProxyTypeOK
    <2> QED
      BY <1>1, <1>2, <2>1, <2>2 DEF Types, ProxyTypeOK
  <1>4. Forking'
    <2>1. \A x \in Child : /\ child'[x].pc = "none" <=> x >= i
                           /\ child'[x].pc # "write" => child'[x].mem = <<>>
      BY <1>1 DEF Forking, Running
    <2>2. to'[0] = <<>>
      <3>1. Len(to[0]) = 0 /\ Len(to'[0]) <= Len(to[0]) /\ to'[0] \in Seq(Content)
        BY Indexes DEF Forking
      <3> QED
        BY <3>1, EmptyIs
    <2>3. from'[n - 1] = <<>>
      BY Indexes DEF Forking
    <2> QED
      BY <1>2, <2>1, <2>2, <2>3 DEF Forking
  <1>5. \A x \in Child : Running(x)' => Running(x)
    BY <1>1 DEF Running
  <1>6. Reported'
    <2>1. ASSUME NEW k \in rd_set PROVE Readable(k)'
      <3>1. k - 1 \in Child /\ Readable(k)
        BY ReportedBuffers DEF Reported
      <3>2. from[k - 1] # <<>> => from'[k - 1] # <<>>
        BY <3>1
      <3> QED
        BY <1>5, <3>1, <3>2 DEF Readable, WritesToParent
    <2>2. ASSUME NEW k \in wr_set PROVE Writable(k)'
      <3>1. k \in Child /\ Writable(k)
        BY ReportedBuffers DEF Reported
      <3>2. Len(to'[k]) \in Nat /\ Len(to[k]) \in Nat /\ Len(to'[k]) <= Len(to[k])
        BY <3>1 DEF Types
      <3> QED
        BY <1>5, <3>1, <3>2, ConstantsAre DEF Writable, ReadsFromParent
    <2> QED
      BY <1>2, <2>1, <2>2 DEF Reported
  <1>7. Closed'
    <2> SUFFICES ASSUME pc # "fork" /\ (pc = "gone" => kills = 0), NEW k \in 1..n - 1
                 PROVE  /\ ~r_fd[k] => ~Running(k - 1)' /\ from'[k - 1] = <<>>
                        /\ ~w_fd[k] => ~r_fd[k] /\ buff[k] = <<>>
                        /\ pc = "select" /\ w_fd[k] => ~Drained(k)
      BY <1>2 DEF Closed, Drained, Types, ProxyTypeOK
    <2>1. k - 1 \in Child /\ k - 1 + 1 = k
      BY Indexes
    <2>2. /\ ~r_fd[k] => ~Running(k - 1) /\ from[k - 1] = <<>>
          /\ ~w_fd[k] => ~r_fd[k] /\ buff[k] = <<>>
          /\ pc = "select" /\ w_fd[k] => ~Drained(k)
      BY DEF Closed
    <2> QED
      BY <1>5, <2>1, <2>2
  <1> QED
    BY <1>3, <1>4, <1>6, <1>7

LEMMA OrderInit == ProxyInit => Order
  <1> SUFFICES ASSUME ProxyInit PROVE Order
    OBVIOUS
  <1>1. <<>> \in Seq(Content) /\ Len(<<>>) = 0
    OBVIOUS
  <1>2. Types
    <2>1. \A k \in Buffer : 0 <= size(k)
      BY SizeIsPositive
    <2>2. \A c \in Child : c \in Buffer
      BY Indexes
    <2>3. /\ \A c \in Child : to[c] = <<>> /\ from[c] = <<>> /\ child[c] = [pc |-> "none", mem |-> <<>>]
          /\ \A k \in Buffer : buff[k] = <<>>
      BY DEF ProxyInit
    <2>4. ProxyTypeOK
      <3>1. \A c \in Child : /\ to[c] \in Seq(Content) /\ Len(to[c]) <= PipeSize
                             /\ from[c] \in Seq(Content) /\ Len(from[c]) <= PipeSize
                             /\ child[c].mem \in Seq(Content) /\ Len(child[c].mem) <= size(c)
                             /\ child[c].pc \in {"none", "read", "write", "gone"}
        <4> TAKE c \in Child
        <4>1. to[c] = <<>> /\ from[c] = <<>> /\ child[c].pc = "none" /\ child[c].mem = <<>>
          BY <2>3
        <4>2. 0 <= size(c) /\ 0 <= PipeSize
          BY <2>1, <2>2, ConstantsAre
        <4> QED
          BY <1>1, <4>1, <4>2
      <3>2. \A k \in Buffer : buff[k] \in Seq(Content) /\ Len(buff[k]) <= size(k)
        BY <1>1, <2>1, <2>3
      <3> QED
        BY <1>1, <3>1, <3>2, ConstantsAre DEF ProxyInit, ProxyTypeOK
    <2>5. /\ to \in [Child -> Seq(Content)] /\ from \in [Child -> Seq(Content)]
          /\ buff \in [Buffer -> Seq(Content)]
          /\ child \in [Child -> [pc : {"none", "read", "write", "gone"}, mem : Seq(Content)]]
      BY <1>1 DEF ProxyInit
    <2> QED
      BY <2>4, <2>5 DEF Types
  <1>3. Forking
    BY ConstantsAre, Indexes DEF ProxyInit, Forking, Child, Buffer
  <1>4. Reported /\ Closed
    BY DEF ProxyInit, Reported, Closed
  <1> QED
    BY <1>2, <1>3, <1>4 DEF Order

LEMMA OrderPrepared ==
  ASSUME Order, Prepared, NEW st \in {"read", "gone"}, child' = [child EXCEPT ![i].pc = st],
         kills' \in 0..MaxKills
  PROVE  Order'
  <1> USE DEF Order
  <1>1. /\ i \in Child /\ i \in Buffer /\ i + 1 \in Buffer /\ i < n /\ i \in Nat /\ i' = i + 1
        /\ pc = "fork" /\ pc' = (IF i + 1 = n THEN "select" ELSE "fork")
    BY ConstantsAre DEF Prepared, Forking, Types, ProxyTypeOK, Child, Buffer
  <1>2. \A x \in Child : child'[x] = IF x = i THEN [pc |-> st, mem |-> child[i].mem] ELSE child[x]
    BY <1>1 DEF Types
  <1>3. \A k \in Buffer : /\ w_fd'[k] <=> k < i + 1
                          /\ r_fd'[k] <=> 1 <= k /\ k <= i + 1
    <2>1. \A k \in Buffer : /\ w_fd'[k] = (IF k = i THEN TRUE ELSE w_fd[k])
                            /\ r_fd'[k] = (IF k = i + 1 THEN TRUE ELSE r_fd[k])
                            /\ (w_fd[k] <=> k < i) /\ (r_fd[k] <=> 1 <= k /\ k <= i)
      BY <1>1 DEF Prepared, Types, ProxyTypeOK, Forking
    <2>2. ASSUME NEW k \in Buffer
          PROVE  (k = i \/ k < i <=> k < i + 1) /\ (k = i + 1 \/ (1 <= k /\ k <= i) <=> 1 <= k /\ k <= i + 1)
      BY <1>1 DEF Buffer
    <2> QED
      BY <2>1, <2>2
  <1>4. Types'
    <2>1. child' \in [Child -> [pc : {"none", "read", "write", "gone"}, mem : Seq(Content)]]
      BY <1>1 DEF Types
    <2>2. \A x \in Child : /\ child'[x].pc \in {"none", "read", "write", "gone"}
                           /\ child'[x].mem \in Seq(Content) /\ Len(child'[x].mem) <= size(x)
      BY <1>1, <1>2 DEF Types, ProxyTypeOK
    <2>3. w_fd' \in [Buffer -> BOOLEAN] /\ r_fd' \in [Buffer -> BOOLEAN] /\ i' \in 0..n
      BY <1>1 DEF Prepared, Types, ProxyTypeOK, Buffer
    <2> QED
      BY <1>1, <2>1, <2>2, <2>3 DEF Prepared, Types, ProxyTypeOK, pipes
  <1>5. Forking'
    <2>1. \A x \in Child : /\ child'[x].pc = "none" <=> x >= i + 1
                           /\ child'[x].pc # "write" => child'[x].mem = <<>>
      <3> SUFFICES ASSUME NEW x \in Child
                   PROVE  /\ child'[x].pc = "none" <=> x >= i + 1
                          /\ child'[x].pc # "write" => child'[x].mem = <<>>
        OBVIOUS
      <3>1. /\ x \in Nat /\ (child[x].pc = "none" <=> x >= i)
            /\ child[x].pc # "write" => child[x].mem = <<>>
            /\ child[i].pc = "none" /\ child[i].mem = <<>>
        BY <1>1, Indexes DEF Forking
      <3> QED
        BY <1>1, <1>2, <3>1
    <2>2. ~r_fd'[0] /\ ~w_fd'[n]
      BY <1>1, <1>3, ConstantsAre, Indexes
    <2>3. buff'[0] = <<>> /\ buff'[n] = <<>> /\ from'[n - 1] = <<>> /\ to'[0] = <<>>
      BY DEF Prepared, Forking, pipes
    <2>4. pc' = "fork" => i' < n
      BY <1>1, ConstantsAre
    <2>5. /\ pc' # "fork" => i' = n
          /\ pc' # "gone"
      BY <1>1
    <2> QED
      BY <1>1, <1>3, <2>1, <2>2, <2>3, <2>4, <2>5 DEF Forking
  <1>6. Reported'
    BY <1>1 DEF Prepared, Reported
  <1>7. Closed'
    <2> SUFFICES ASSUME pc' = "select", NEW k \in 1..n - 1 PROVE r_fd'[k] /\ w_fd'[k]
      BY <1>1 DEF Closed, Drained
    <2> QED
      BY <1>1, <1>3, Indexes
  <1> QED
    BY <1>4, <1>5, <1>6, <1>7

LEMMA OrderSelect == Order /\ Select => Order'
  <1> SUFFICES ASSUME Order, Select PROVE Order'
    OBVIOUS
  <1> USE DEF Order
  <1>1. /\ UNCHANGED <<left, dest, to, from, child, buff, r_fd, w_fd, i, kills>>
        /\ pc = "select" /\ pc' = Phase(rd_set', wr_set') /\ pc' \in {"read", "write"}
        /\ rd_set' = ReadReady /\ wr_set' = WriteReady
    BY DEF Select, pipes, Phase
  <1>2. Types'
    BY <1>1 DEF Types, ProxyTypeOK, ReadReady, WriteReady, WantsRead, WantsWrite
  <1>3. Forking'
    BY <1>1 DEF Forking
  <1>4. Reported'
    <2>1. ASSUME NEW k \in ReadReady PROVE r_fd[k] /\ Len(buff[k]) < size(k) /\ Readable(k)
      <3>1. k \in Buffer /\ r_fd[k] /\ Len(buff[k]) # size(k) /\ Readable(k)
        BY DEF ReadReady, WantsRead
      <3>2. Len(buff[k]) <= size(k) /\ buff[k] \in Seq(Content)
        BY <3>1 DEF Types, ProxyTypeOK
      <3> QED
        BY <3>1, <3>2, SizeIsPositive, EmptyIs
    <2>2. \A k \in WriteReady : w_fd[k] /\ buff[k] # <<>> /\ Writable(k)
      BY DEF WriteReady, WantsWrite
    <2>3. /\ \A k \in Buffer : Readable(k)' <=> Readable(k)
          /\ \A k \in Buffer : Writable(k)' <=> Writable(k)
      BY <1>1 DEF Readable, Writable, WritesToParent, ReadsFromParent, Running
    <2>4. ReadReady \subseteq Buffer /\ WriteReady \subseteq Buffer
      BY DEF ReadReady, WriteReady, WantsRead, WantsWrite
    <2>5. /\ pc' = "read" => rd_set' # {}
          /\ pc' = "write" => rd_set' = {} /\ wr_set' # {}
      BY <1>1 DEF Phase
    <2> QED
      BY <1>1, <2>1, <2>2, <2>3, <2>4, <2>5 DEF Reported
  <1>5. Closed'
    BY <1>1 DEF Closed, Running
  <1> QED
    BY <1>2, <1>3, <1>4, <1>5

(* The parent may end if somebody was lost, or if everything is drained. *)
LEMMA OrderParentGone ==
  ASSUME Order, ParentGone, pc # "fork", kills' \in 0..MaxKills,
         kills' = 0 => \A k \in 1..n - 1 : ~Running(k - 1) /\ from[k - 1] = <<>> /\ buff[k] = <<>>
  PROVE  Order'
  <1> USE DEF Order
  <1>1. /\ UNCHANGED <<left, dest, to, from, child, buff, i>>
        /\ pc' = "gone" /\ rd_set' = {} /\ wr_set' = {}
        /\ r_fd' \in [Buffer -> BOOLEAN] /\ w_fd' \in [Buffer -> BOOLEAN]
        /\ \A k \in Buffer : ~r_fd'[k] /\ ~w_fd'[k]
    BY DEF ParentGone, pipes
  <1>2. Types'
    BY <1>1 DEF Types, ProxyTypeOK
  <1>3. Forking'
    BY <1>1, Indexes DEF Forking
  <1>4. Reported'
    BY <1>1 DEF Reported
  <1>5. Closed'
    BY <1>1, Indexes DEF Closed, Running
  <1> QED
    BY <1>2, <1>3, <1>4, <1>5

(* When select has nothing to wait for, everything is closed and drained. *)
LEMMA OrderReturn == Order /\ Return => Order'
  <1> SUFFICES ASSUME Order, Return PROVE Order'
    OBVIOUS
  <1>1. pc = "select" /\ ParentGone /\ kills' = kills /\ kills \in 0..MaxKills
    BY DEF Order, Return, Types, ProxyTypeOK
  <1>2. ASSUME NEW k \in 1..n - 1 PROVE ~Running(k - 1) /\ from[k - 1] = <<>> /\ buff[k] = <<>>
    <2>1. /\ ~r_fd[k] => ~Running(k - 1) /\ from[k - 1] = <<>>
          /\ ~w_fd[k] => ~r_fd[k] /\ buff[k] = <<>>
          /\ w_fd[k] => r_fd[k] \/ buff[k] # <<>>
      BY <1>1 DEF Order, Closed, Drained
    <2>2. k \in Buffer /\ (r_fd[k] => Len(buff[k]) = size(k)) /\ (w_fd[k] => buff[k] = <<>>)
      BY Indexes DEF Return, WantsRead, WantsWrite
    <2>3. buff[k] # <<>> \/ Len(buff[k]) # size(k)
      BY <2>2, SizeIsPositive
    <2> QED
      BY <2>1, <2>2, <2>3
  <1> QED
    BY <1>1, <1>2, OrderParentGone

LEMMA OrderClose == Order /\ Close => Order'
  <1> SUFFICES ASSUME Order, Close PROVE Order'
    OBVIOUS
  <1> USE DEF Order
  <1>1. /\ UNCHANGED <<left, dest, to, from, child, buff, r_fd, rd_set, wr_set, i, kills>>
        /\ pc = "close" /\ pc' = "select"
        /\ w_fd' \in [Buffer -> BOOLEAN] /\ \A k \in Buffer : w_fd'[k] <=> w_fd[k] /\ ~Drained(k)
    BY DEF Close, pipes, Types, ProxyTypeOK
  <1>2. Types'
    BY <1>1 DEF Types, ProxyTypeOK
  <1>3. Forking'
    BY <1>1, Indexes DEF Forking
  <1>4. Reported'
    BY <1>1 DEF Reported
  <1>5. Closed'
    BY <1>1, Indexes DEF Closed, Running, Drained
  <1> QED
    BY <1>2, <1>3, <1>4, <1>5

(* What a read of the parent does: it takes len bytes, and none only if there *)
(* are none.                                                                *)
LEMMA ReadIs ==
  ASSUME Order, Read
  PROVE  \E k \in rd_set, len \in Nat :
           /\ k \in Buffer /\ k # 0 /\ k - 1 \in Child
           /\ r_fd[k] /\ Readable(k)
           /\ from[k - 1] \in Seq(Content) /\ buff[k] \in Seq(Content)
           /\ len <= Len(from[k - 1]) /\ len <= size(k) - Len(buff[k])
           /\ len = 0 => from[k - 1] = <<>>
           /\ buff' = [buff EXCEPT ![k] = buff[k] \o First(from[k - 1], len)]
           /\ from' = [from EXCEPT ![k - 1] = SubSeq(from[k - 1], len + 1, Len(from[k - 1]))]
           /\ r_fd' = [r_fd EXCEPT ![k] = len > 0]
           /\ rd_set' = rd_set \ {k}
           /\ pc' = Phase(rd_set \ {k}, wr_set)
  <1> USE DEF Order
  <1> DEFINE k   == Smallest(rd_set)
             len == least(Len(from[k - 1]), Room(k))
  <1>1. k \in rd_set
    BY ReportedBuffers, SmallestIn DEF Read, Reported
  <1>2. k \in Buffer /\ k # 0 /\ k - 1 \in Child /\ r_fd[k] /\ Readable(k) /\ Len(buff[k]) < size(k)
    BY <1>1, ReportedBuffers DEF Reported
  <1>3. from[k - 1] \in Seq(Content) /\ buff[k] \in Seq(Content)
    BY <1>2 DEF Types
  <1>4. Len(from[k - 1]) \in Nat /\ Room(k) \in Nat /\ Room(k) # 0 /\ Room(k) = size(k) - Len(buff[k])
    BY <1>2, <1>3, EmptyIs, SizeIsPositive DEF Room
  <1>5. len \in Nat /\ len <= Len(from[k - 1]) /\ len <= Room(k) /\ (len = 0 => Len(from[k - 1]) = 0)
    BY <1>4, LeastIs
  <1>6. /\ buff' = [buff EXCEPT ![k] = buff[k] \o First(from[k - 1], len)]
        /\ from' = [from EXCEPT ![k - 1] = SubSeq(from[k - 1], len + 1, Len(from[k - 1]))]
        /\ r_fd' = [r_fd EXCEPT ![k] = len > 0]
        /\ rd_set' = rd_set \ {k}
        /\ pc' = Phase(rd_set \ {k}, wr_set)
    BY DEF Read, StillOpen
  <1> HIDE DEF k, len
  <1>7. len = 0 => from[k - 1] = <<>>
    BY <1>3, <1>5, EmptyIs
  <1> QED
    BY <1>1, <1>2, <1>3, <1>4, <1>5, <1>6, <1>7

LEMMA OrderRead == Order /\ Read => Order'
  <1> SUFFICES ASSUME Order, Read PROVE Order'
    OBVIOUS
  <1> USE DEF Order
  <1>1. PICK k \in rd_set, len \in Nat :
           /\ k \in Buffer /\ k # 0 /\ k - 1 \in Child
           /\ r_fd[k] /\ Readable(k)
           /\ from[k - 1] \in Seq(Content) /\ buff[k] \in Seq(Content)
           /\ len <= Len(from[k - 1]) /\ len <= size(k) - Len(buff[k])
           /\ len = 0 => from[k - 1] = <<>>
           /\ buff' = [buff EXCEPT ![k] = buff[k] \o First(from[k - 1], len)]
           /\ from' = [from EXCEPT ![k - 1] = SubSeq(from[k - 1], len + 1, Len(from[k - 1]))]
           /\ r_fd' = [r_fd EXCEPT ![k] = len > 0]
           /\ rd_set' = rd_set \ {k}
           /\ pc' = Phase(rd_set \ {k}, wr_set)
    BY ReadIs
  <1>2. UNCHANGED <<left, dest, to, child, w_fd, wr_set, i, kills>> /\ pc = "read"
    BY DEF Read
  <1> DEFINE new  == buff[k] \o First(from[k - 1], len)
             rest == SubSeq(from[k - 1], len + 1, Len(from[k - 1]))
  <1>3. /\ new \in Seq(Content) /\ Len(new) = Len(buff[k]) + len
        /\ rest \in Seq(Content) /\ Len(rest) = Len(from[k - 1]) - len
        /\ Len(buff[k]) \in Nat /\ Len(from[k - 1]) \in Nat /\ size(k) \in Nat
    <2>1. First(from[k - 1], len) \in Seq(Content) /\ Len(First(from[k - 1], len)) = len
      BY <1>1, Taken
    <2>2. rest \in Seq(Content) /\ Len(rest) = Len(from[k - 1]) - len
      BY <1>1, Taken
    <2>3. new \in Seq(Content) /\ Len(new) = Len(buff[k]) + len
      <3>1. buff[k] \in Seq(Content)
        BY <1>1
      <3>2. \A s, t \in Seq(Content) : s \o t \in Seq(Content) /\ Len(s \o t) = Len(s) + Len(t)
        BY Joined
      <3> QED
        BY <2>1, <3>1, <3>2, Zenon
    <2>4. Len(buff[k]) \in Nat /\ Len(from[k - 1]) \in Nat /\ size(k) \in Nat
      BY <1>1, EmptyIs, SizeIsPositive
    <2> QED
      BY <2>2, <2>3, <2>4
  <1> HIDE DEF new, rest
  <1>4. /\ \A x \in Buffer : buff'[x] = IF x = k THEN new ELSE buff[x]
        /\ \A x \in Child : from'[x] = IF x = k - 1 THEN rest ELSE from[x]
        /\ \A x \in Buffer : r_fd'[x] <=> IF x = k THEN len > 0 ELSE r_fd[x]
        /\ buff' \in [Buffer -> Seq(Content)] /\ from' \in [Child -> Seq(Content)]
        /\ r_fd' \in [Buffer -> BOOLEAN]
    <2>1. buff \in [Buffer -> Seq(Content)] /\ from \in [Child -> Seq(Content)] /\ r_fd \in [Buffer -> BOOLEAN]
      BY DEF Types, ProxyTypeOK
    <2>2. /\ buff' = [buff EXCEPT ![k] = new] /\ from' = [from EXCEPT ![k - 1] = rest]
          /\ r_fd' = [r_fd EXCEPT ![k] = len > 0] /\ k \in Buffer /\ k - 1 \in Child
      BY <1>1 DEF new, rest
    <2>3. buff' \in [Buffer -> Seq(Content)] /\ \A x \in Buffer : buff'[x] = IF x = k THEN new ELSE buff[x]
      BY <1>3, <2>1, <2>2
    <2>4. from' \in [Child -> Seq(Content)] /\ \A x \in Child : from'[x] = IF x = k - 1 THEN rest ELSE from[x]
      BY <1>3, <2>1, <2>2
    <2>5. r_fd' \in [Buffer -> BOOLEAN] /\ \A x \in Buffer : r_fd'[x] <=> IF x = k THEN len > 0 ELSE r_fd[x]
      <3>1. (len > 0) \in BOOLEAN /\ k \in Buffer /\ r_fd' = [r_fd EXCEPT ![k] = len > 0]
        BY <2>2
      <3> QED
        BY <2>1, <3>1
    <2> QED
      BY <2>3, <2>4, <2>5
  <1>5. /\ rd_set' # {} => pc' = "read"
        /\ rd_set' = {} /\ wr_set # {} => pc' = "write"
        /\ rd_set' = {} /\ wr_set = {} => pc' = "close"
        /\ pc' \in {"read", "write", "close"}
    BY <1>1 DEF Phase
  <1>6. Types'
    <2>1. Len(new) <= size(k) /\ Len(rest) <= Len(from[k - 1])
      BY <1>1, <1>3
    <2>2. \A x \in Buffer : buff'[x] \in Seq(Content) /\ Len(buff'[x]) <= size(x)
      BY <1>3, <1>4, <2>1 DEF Types, ProxyTypeOK
    <2>3. \A x \in Child : from'[x] \in Seq(Content) /\ Len(from'[x]) <= PipeSize
      <3>1. Len(from[k - 1]) <= PipeSize
        BY <1>1 DEF Types, ProxyTypeOK
      <3>2. Len(rest) <= PipeSize
        BY <1>3, <2>1, <3>1, ConstantsAre
      <3> QED
        BY <1>3, <1>4, <3>2 DEF Types, ProxyTypeOK
    <2> QED
      BY <1>1, <1>2, <1>4, <1>5, <2>2, <2>3 DEF Types, ProxyTypeOK
  <1>7. Forking'
    <2>1. k = n => rest = <<>> /\ new = <<>>
      <3> SUFFICES ASSUME k = n PROVE rest = <<>> /\ new = <<>>
        OBVIOUS
      <3>1. from[n - 1] = <<>> /\ buff[n] = <<>>
        BY DEF Forking
      <3>2. len = 0 /\ Len(rest) = 0 /\ Len(new) = 0
        BY <1>1, <1>3, <3>1
      <3> QED
        BY <1>3, <3>2, EmptyIs
    <2>2. k - 1 = n - 1 => k = n
      BY <1>1, ConstantsAre, Indexes
    <2>3. buff'[0] = <<>> /\ buff'[n] = <<>> /\ from'[n - 1] = <<>>
      <3>1. buff[0] = <<>> /\ buff[n] = <<>> /\ from[n - 1] = <<>> /\ n - 1 \in Child /\ n \in Buffer /\ 0 \in Buffer
        BY Indexes DEF Forking
      <3>2. buff'[0] = <<>> /\ buff'[n] = <<>>
        BY <1>1, <1>4, <2>1, <3>1
      <3>3. from'[n - 1] = <<>>
        BY <1>4, <2>1, <2>2, <3>1
      <3> QED
        BY <3>2, <3>3
    <2>4. ~r_fd'[0]
      BY <1>1, <1>4, Indexes DEF Forking
    <2> QED
      BY <1>2, <1>5, <2>3, <2>4 DEF Forking
  <1>8. \A x \in Child : Running(x)' <=> Running(x)
    BY <1>2 DEF Running
  <1>9. Reported'
    <2>1. ASSUME NEW x \in rd_set' PROVE r_fd'[x] /\ Len(buff'[x]) < size(x) /\ Readable(x)'
      <3>1. x \in rd_set /\ x # k
        BY <1>1
      <3>2. x \in Buffer /\ x \in Nat /\ x - 1 \in Child /\ x - 1 # k - 1
        BY <1>1, <3>1, ReportedBuffers
      <3>3. r_fd[x] /\ Len(buff[x]) < size(x) /\ Readable(x)
        BY <3>1 DEF Reported
      <3> QED
        BY <1>4, <1>8, <3>1, <3>2, <3>3 DEF Readable, WritesToParent
    <2>2. ASSUME NEW x \in wr_set PROVE w_fd'[x] /\ buff'[x] # <<>> /\ Writable(x)'
      <3>1. w_fd[x] /\ buff[x] # <<>> /\ Writable(x) /\ x \in Child /\ x \in Buffer
        BY ReportedBuffers, Indexes DEF Reported
      <3>2. x = k => new # <<>>
        <4> SUFFICES ASSUME x = k PROVE new # <<>>
          OBVIOUS
        <4>1. Len(buff[k]) # 0
          BY <1>1, <3>1, EmptyIs
        <4>2. Len(new) # 0
          BY <1>3, <4>1
        <4> QED
          BY <1>3, <4>2, EmptyIs
      <3> QED
        BY <1>2, <1>4, <1>8, <3>1, <3>2 DEF Writable, ReadsFromParent
    <2> QED
      BY <1>2, <1>5, <2>1, <2>2 DEF Reported
  <1>10. Closed'
    <2> SUFFICES ASSUME NEW x \in 1..n - 1
                 PROVE  /\ ~r_fd'[x] => ~Running(x - 1)' /\ from'[x - 1] = <<>>
                        /\ ~w_fd[x] => ~r_fd'[x] /\ buff'[x] = <<>>
      BY <1>2, <1>5 DEF Closed
    <2>1. x \in Buffer /\ x \in Child /\ x - 1 \in Child /\ x \in Nat
      BY Indexes
    <2>2. /\ ~r_fd[x] => ~Running(x - 1) /\ from[x - 1] = <<>>
          /\ ~w_fd[x] => ~r_fd[x] /\ buff[x] = <<>>
      BY <1>2 DEF Closed
    <2>3. CASE x = k
      <3>1. ~r_fd'[k] => len = 0
        BY <1>1, <1>4
      <3>2. ~r_fd'[k] => from[k - 1] = <<>> /\ rest = <<>>
        BY <1>1, <1>3, <3>1, EmptyIs
      <3>3. from[k - 1] = <<>> => ~Running(k - 1)
        BY <1>1, <2>1, <2>3, ConstantsAre DEF Readable, WritesToParent
      <3> QED
        BY <1>1, <1>4, <1>8, <2>1, <2>2, <2>3, <3>2, <3>3
    <2>4. CASE x # k
      <3>1. x - 1 # k - 1
        BY <1>1, <2>1, <2>4, Indexes
      <3> QED
        BY <1>4, <1>8, <2>1, <2>2, <2>4, <3>1
    <2> QED
      BY <2>3, <2>4
  <1> QED
    BY <1>6, <1>7, <1>9, <1>10

(* What a write of the parent does. *)
LEMMA WriteIs ==
  ASSUME Order, Write
  PROVE  \E k \in wr_set, len \in Nat :
           /\ k \in Child \ {0} /\ k \in Buffer /\ w_fd[k]
           /\ buff[k] \in Seq(Content) /\ to[k] \in Seq(Content)
           /\ len <= Len(buff[k]) /\ len <= PipeSize - Len(to[k])
           /\ buff' = [buff EXCEPT ![k] = SubSeq(buff[k], len + 1, Len(buff[k]))]
           /\ to' = [to EXCEPT ![k] = to[k] \o First(buff[k], len)]
           /\ wr_set' = wr_set \ {k}
           /\ pc' = Phase(rd_set, wr_set \ {k})
  <1> USE DEF Order
  <1> DEFINE k   == Smallest(wr_set)
             len == least(Len(buff[k]), PipeSize - Len(to[k]))
  <1>1. k \in wr_set
    BY ReportedBuffers, SmallestIn DEF Write, Reported
  <1>2. k \in Child \ {0} /\ k \in Buffer /\ w_fd[k]
    BY <1>1, ReportedBuffers, Indexes DEF Reported
  <1>3. buff[k] \in Seq(Content) /\ to[k] \in Seq(Content) /\ Len(to[k]) <= PipeSize
    BY <1>2 DEF Types, ProxyTypeOK
  <1>4. Len(buff[k]) \in Nat /\ PipeSize - Len(to[k]) \in Nat
    BY <1>3, EmptyIs, ConstantsAre
  <1>5. len \in Nat /\ len <= Len(buff[k]) /\ len <= PipeSize - Len(to[k])
    BY <1>4, LeastIs
  <1>6. /\ buff' = [buff EXCEPT ![k] = SubSeq(buff[k], len + 1, Len(buff[k]))]
        /\ to' = [to EXCEPT ![k] = to[k] \o First(buff[k], len)]
        /\ wr_set' = wr_set \ {k}
        /\ pc' = Phase(rd_set, wr_set \ {k})
    BY DEF Write, shft_left
  <1> HIDE DEF k, len
  <1> QED
    BY <1>1, <1>2, <1>3, <1>5, <1>6

LEMMA OrderWrite == Order /\ Write => Order'
  <1> SUFFICES ASSUME Order, Write PROVE Order'
    OBVIOUS
  <1> USE DEF Order
  <1>1. PICK k \in wr_set, len \in Nat :
           /\ k \in Child \ {0} /\ k \in Buffer /\ w_fd[k]
           /\ buff[k] \in Seq(Content) /\ to[k] \in Seq(Content)
           /\ len <= Len(buff[k]) /\ len <= PipeSize - Len(to[k])
           /\ buff' = [buff EXCEPT ![k] = SubSeq(buff[k], len + 1, Len(buff[k]))]
           /\ to' = [to EXCEPT ![k] = to[k] \o First(buff[k], len)]
           /\ wr_set' = wr_set \ {k}
           /\ pc' = Phase(rd_set, wr_set \ {k})
    BY WriteIs
  <1>2. UNCHANGED <<left, dest, from, child, r_fd, w_fd, rd_set, i, kills>> /\ pc = "write" /\ rd_set = {}
    BY DEF Write, Reported
  <1> DEFINE rest == SubSeq(buff[k], len + 1, Len(buff[k]))
             new  == to[k] \o First(buff[k], len)
  <1>3. /\ new \in Seq(Content) /\ Len(new) = Len(to[k]) + len
        /\ rest \in Seq(Content) /\ Len(rest) = Len(buff[k]) - len
        /\ Len(buff[k]) \in Nat /\ Len(to[k]) \in Nat
    <2>1. First(buff[k], len) \in Seq(Content) /\ Len(First(buff[k], len)) = len
      BY <1>1, Taken
    <2>2. rest \in Seq(Content) /\ Len(rest) = Len(buff[k]) - len
      BY <1>1, Taken
    <2>3. new \in Seq(Content) /\ Len(new) = Len(to[k]) + len
      <3>1. to[k] \in Seq(Content)
        BY <1>1
      <3>2. \A s, t \in Seq(Content) : s \o t \in Seq(Content) /\ Len(s \o t) = Len(s) + Len(t)
        BY Joined
      <3> QED
        BY <2>1, <3>1, <3>2, Zenon
    <2>4. Len(buff[k]) \in Nat /\ Len(to[k]) \in Nat
      BY <1>1, EmptyIs
    <2> QED
      BY <2>2, <2>3, <2>4
  <1>4. /\ \A x \in Buffer : buff'[x] = IF x = k THEN rest ELSE buff[x]
        /\ \A x \in Child : to'[x] = IF x = k THEN new ELSE to[x]
        /\ buff' \in [Buffer -> Seq(Content)] /\ to' \in [Child -> Seq(Content)]
    <2>1. buff \in [Buffer -> Seq(Content)] /\ to \in [Child -> Seq(Content)]
      BY DEF Types
    <2>2. buff' = [buff EXCEPT ![k] = rest] /\ to' = [to EXCEPT ![k] = new] /\ k \in Buffer /\ k \in Child
      BY <1>1
    <2> HIDE DEF rest, new
    <2>3. buff' \in [Buffer -> Seq(Content)] /\ \A x \in Buffer : buff'[x] = IF x = k THEN rest ELSE buff[x]
      BY <1>3, <2>1, <2>2
    <2>4. to' \in [Child -> Seq(Content)] /\ \A x \in Child : to'[x] = IF x = k THEN new ELSE to[x]
      BY <1>3, <2>1, <2>2
    <2> QED
      BY <2>3, <2>4
  <1> HIDE DEF rest, new
  <1>5. /\ wr_set' # {} => pc' = "write"
        /\ wr_set' = {} => pc' = "close"
    BY <1>1, <1>2 DEF Phase
  <1>6. Types'
    <2>1. \A x \in Buffer : buff'[x] \in Seq(Content) /\ Len(buff'[x]) <= size(x)
      <3>1. Len(buff[k]) <= size(k) /\ size(k) \in Nat
        BY <1>1, SizeIsPositive DEF Types, ProxyTypeOK
      <3>2. Len(rest) <= size(k)
        BY <1>3, <3>1
      <3> QED
        BY <1>3, <1>4, <3>2 DEF Types, ProxyTypeOK
    <2>2. \A x \in Child : to'[x] \in Seq(Content) /\ Len(to'[x]) <= PipeSize
      <3>1. Len(new) <= PipeSize
        BY <1>1, <1>3, ConstantsAre
      <3> QED
        BY <1>3, <1>4, <3>1 DEF Types, ProxyTypeOK
    <2> QED
      BY <1>1, <1>2, <1>4, <1>5, <2>1, <2>2 DEF Types, ProxyTypeOK
  <1>7. Forking'
    <2>1. k # 0 /\ k # n
      BY <1>1, ConstantsAre DEF Child
    <2>2. buff'[0] = <<>> /\ buff'[n] = <<>> /\ to'[0] = <<>>
      BY <1>4, <2>1, Indexes DEF Forking
    <2> QED
      BY <1>2, <1>5, <2>2 DEF Forking
  <1>8. \A x \in Child : Running(x)' <=> Running(x)
    BY <1>2 DEF Running
  <1>9. Reported'
    <2>1. ASSUME NEW x \in wr_set' PROVE w_fd[x] /\ buff'[x] # <<>> /\ Writable(x)'
      <3>1. x \in wr_set /\ x # k
        BY <1>1
      <3>2. x \in Child /\ x \in Buffer /\ w_fd[x] /\ buff[x] # <<>> /\ Writable(x)
        BY <3>1, ReportedBuffers, Indexes DEF Reported
      <3> QED
        BY <1>4, <1>8, <3>1, <3>2 DEF Writable, ReadsFromParent
    <2> QED
      BY <1>2, <1>5, <2>1 DEF Reported
  <1>10. Closed'
    <2> SUFFICES ASSUME NEW x \in 1..n - 1
                 PROVE  /\ ~r_fd[x] => ~Running(x - 1)' /\ from[x - 1] = <<>>
                        /\ ~w_fd[x] => ~r_fd[x] /\ buff'[x] = <<>>
      BY <1>2, <1>5 DEF Closed
    <2>1. x \in Buffer /\ x \in Child /\ x - 1 \in Child
      BY Indexes
    <2>2. /\ ~r_fd[x] => ~Running(x - 1) /\ from[x - 1] = <<>>
          /\ ~w_fd[x] => ~r_fd[x] /\ buff[x] = <<>>
      BY <1>2 DEF Closed
    <2> QED
      BY <1>1, <1>4, <1>8, <2>1, <2>2
  <1> QED
    BY <1>6, <1>7, <1>9, <1>10

-----------------------------------------------------------------------------
(* What the cuts say of a child and of the pipes and the buffer behind it.  *)
LEMMA CutNumbers ==
  ASSUME NEW m \in [Child -> Places], NEW c \in Child
  PROVE  m[c] \in Places /\ m[c] \in Nat /\ m[c] <= Len(Source)
  BY ConstantsAre DEF Places

LEMMA FileEnd == Len(Source) \in Places /\ Len(Source) \in Nat /\ 0 \in Places
  BY ConstantsAre DEF Places

LEMMA ReaderIsEmpty ==
  ASSUME Order, NEW m \in [Child -> Places], NEW t \in [Child -> Places], NEW c \in Child,
         Holds(c, m, t), child[c].pc = "read"
  PROVE  m[c] = t[c]
  <1>1. child[c].mem = <<>>
    BY DEF Order, Forking
  <1>2. m[c] <= t[c] /\ Segment(m[c], t[c]) = <<>>
    BY <1>1 DEF Holds
  <1> QED
    BY <1>2, CutNumbers, SegmentEmpty

(* Reading the file: nothing is skipped, and who finds nothing has read it  *)
(* all.                                                                     *)
LEMMA ReadFileInv == PInv /\ ChildReadFile => PInv'
  <1> SUFFICES ASSUME PInv, ChildReadFile PROVE PInv'
    OBVIOUS
  <1>0. PICK m, t, b, f \in [Child -> Places] : Cut(m, t, b, f)
    BY DEF PInv, Cuts
  <1> DEFINE len == least(size(0), Len(left))
             st  == IF len > 0 THEN [pc |-> "write", mem |-> First(left, len)]
                    ELSE [pc |-> "gone", mem |-> <<>>]
  <1>1. Order /\ 0 \in Child /\ child[0].pc = "read" /\ left \in Seq(Content)
    BY Indexes DEF PInv, Order, Types, ProxyTypeOK, ChildReadFile
  <1>2. size(0) \in Nat /\ size(0) # 0 /\ Len(left) \in Nat
    BY <1>1, SizeIsPositive, EmptyIs, Indexes
  <1>3. len \in Nat /\ len <= size(0) /\ len <= Len(left) /\ (len = 0 => Len(left) = 0)
    BY <1>2, LeastIs
  <1>4. /\ child' = [child EXCEPT ![0] = st]
        /\ left' = SubSeq(left, len + 1, Len(left))
        /\ UNCHANGED <<dest, to, from, buff, r_fd, w_fd, rd_set, wr_set, pc, i, kills>>
    BY DEF ChildReadFile, Got, Gone, parent, pipes
  <1>5. UNCHANGED parent
    BY DEF ChildReadFile
  <1> HIDE DEF len
  <1>6. /\ First(left, len) \in Seq(Content) /\ Len(First(left, len)) = len
        /\ left' \in Seq(Content) /\ (len = 0 => First(left, len) = <<>>)
    <2>1. First(left, len) \in Seq(Content) /\ Len(First(left, len)) = len /\ left' \in Seq(Content)
      BY <1>1, <1>3, <1>4, Taken
    <2> QED
      BY <2>1, EmptyIs
  <1>7. /\ st \in [pc : {"read", "write", "gone"}, mem : Seq(Content)]
        /\ st.mem = First(left, len) /\ (st.pc # "write" => st.mem = <<>>)
        /\ st.pc = "gone" => len = 0
    BY <1>3, <1>6
  <1> HIDE DEF st
  <1>8. Order'
    <2>1. Running(0) /\ Len(st.mem) <= size(0)
      BY <1>1, <1>3, <1>6, <1>7 DEF Running
    <2>2. /\ kills' \in 0..MaxKills /\ kills' >= kills /\ dest' \in Seq(Content)
          /\ to' \in [Child -> Seq(Content)] /\ from' \in [Child -> Seq(Content)]
          /\ \A x \in Child : Len(to'[x]) <= Len(to[x])
          /\ Len(from'[0]) <= PipeSize
      <3>1. \A x \in Child : to[x] \in Seq(Content) /\ Len(to[x]) \in Nat
        BY <1>1, EmptyIs DEF Order, Types
      <3> QED
        BY <1>1, <1>4, <3>1 DEF Order, Types, ProxyTypeOK
    <2> QED
      BY <1>1, <1>4, <1>5, <1>6, <1>7, <2>1, <2>2, ChildMoves
  <1>9. PICK t2 : t2 = [t EXCEPT ![0] = t[0] + len]
    OBVIOUS
  <1>10. /\ m[0] = t[0] /\ t[0] \in Nat /\ m[n - 1] \in Nat
         /\ left = Segment(t[0], Len(Source)) /\ dest = Segment(0, m[n - 1])
    BY <1>0, <1>1, ReaderIsEmpty, CutNumbers, Indexes DEF Cut, Ends
  <1>11. /\ t[0] + len \in Places /\ First(left, len) = Segment(t[0], t[0] + len)
         /\ left' = Segment(t[0] + len, Len(Source))
         /\ len = 0 => t[0] = Len(Source)
    <2>1. t[0] \in Places /\ t[0] <= Len(Source) /\ Len(Source) \in Places /\ Len(Source) \in Nat
      BY <1>1, CutNumbers, FileEnd
    <2>2. Len(left) = Len(Source) - t[0]
      BY <1>10, <2>1, SegmentIs
    <2>3. len \in 0..Len(Source) - t[0]
      BY <1>3, <1>10, <2>1, <2>2
    <2>4. /\ SubSeq(Segment(t[0], Len(Source)), 1, len) = Segment(t[0], t[0] + len)
          /\ SubSeq(Segment(t[0], Len(Source)), len + 1, Len(Segment(t[0], Len(Source)))) = Segment(t[0] + len, Len(Source))
          /\ t[0] + len \in Places
      BY <2>1, <2>3, SegmentCut
    <2>5. len = 0 => t[0] = Len(Source)
      BY <1>3, <1>10, <2>1, <2>2
    <2> QED
      BY <1>4, <1>10, <2>4, <2>5 DEF First
  <1>12. t2 \in [Child -> Places] /\ t2[0] = t[0] + len /\ \A x \in Child \ {0} : t2[x] = t[x]
    BY <1>1, <1>9, <1>11
  <1>13. child'[0] = st /\ \A x \in Child \ {0} : child'[x] = child[x]
    BY <1>1, <1>4 DEF Order, Types
  <1>14. Cut(m, t2, b, f)'
    <2>1. Ends(m, t2)'
      BY <1>4, <1>10, <1>11, <1>12 DEF Ends
    <2>2. ASSUME NEW c \in Child PROVE Holds(c, m, t2)'
      <3>1. CASE c = 0
        BY <1>3, <1>7, <1>10, <1>11, <1>12, <1>13, <3>1 DEF Holds
      <3>2. CASE c # 0
        BY <1>0, <1>4, <1>12, <1>13, <3>2 DEF Cut, Holds
      <3> QED
        BY <3>1, <3>2
    <2>3. ASSUME NEW c \in Child \ {0} PROVE Joins(c, m, t2, b, f)'
      BY <1>0, <1>4, <1>12 DEF Cut, Joins
    <2> QED
      BY <2>1, <2>2, <2>3 DEF Cut
  <1> QED
    BY <1>0, <1>8, <1>12, <1>14 DEF PInv, Cuts

(* Lengths that a step leaves as they are. *)
LEMMA LengthsFit ==
  ASSUME Order
  PROVE  /\ \A x \in Child : /\ to[x] \in Seq(Content) /\ Len(to[x]) \in Nat /\ Len(to[x]) <= PipeSize
                             /\ from[x] \in Seq(Content) /\ Len(from[x]) \in Nat /\ Len(from[x]) <= PipeSize
                             /\ child[x].mem \in Seq(Content) /\ Len(child[x].mem) \in Nat
                             /\ Len(child[x].mem) <= size(x) /\ size(x) \in Nat /\ size(x) # 0
         /\ left \in Seq(Content) /\ dest \in Seq(Content) /\ kills \in 0..MaxKills
         /\ to \in [Child -> Seq(Content)] /\ from \in [Child -> Seq(Content)]
         /\ child \in [Child -> [pc : {"none", "read", "write", "gone"}, mem : Seq(Content)]]
  <1>1. /\ \A x \in Child : /\ to[x] \in Seq(Content) /\ Len(to[x]) <= PipeSize
                            /\ from[x] \in Seq(Content) /\ Len(from[x]) <= PipeSize
                            /\ child[x].mem \in Seq(Content) /\ Len(child[x].mem) <= size(x)
        /\ left \in Seq(Content) /\ dest \in Seq(Content) /\ kills \in 0..MaxKills
        /\ to \in [Child -> Seq(Content)] /\ from \in [Child -> Seq(Content)]
        /\ child \in [Child -> [pc : {"none", "read", "write", "gone"}, mem : Seq(Content)]]
    BY DEF Order, Types, ProxyTypeOK
  <1>2. ASSUME NEW x \in Child PROVE size(x) \in Nat /\ size(x) # 0
    <2>1. x \in Buffer
      BY Indexes
    <2> QED
      BY <2>1, SizeIsPositive
  <1> QED
    BY <1>1, <1>2, EmptyIs

(* Reading the pipe. *)
LEMMA ChildReadInv == ASSUME PInv, NEW c \in Child, ChildRead(c) PROVE PInv'
  <1>0. PICK m, t, b, f \in [Child -> Places] : Cut(m, t, b, f)
    BY DEF PInv, Cuts
  <1> DEFINE len == least(size(c), Len(to[c]))
             st  == [pc |-> "write", mem |-> First(to[c], len)]
  <1>1. Order /\ c # 0 /\ child[c].pc = "read" /\ to[c] \in Seq(Content)
    BY LengthsFit DEF PInv, ChildRead
  <1>2. len \in Nat /\ len <= size(c) /\ len <= Len(to[c]) /\ Len(to[c]) \in Nat
    BY <1>1, LengthsFit, LeastIs
  <1>3. /\ child' = [child EXCEPT ![c] = st]
        /\ to' = [to EXCEPT ![c] = SubSeq(to[c], len + 1, Len(to[c]))]
        /\ UNCHANGED <<left, dest, from, buff, r_fd, w_fd, rd_set, wr_set, pc, i, kills>>
    BY DEF ChildRead, Got, parent
  <1>4. UNCHANGED parent
    BY DEF ChildRead
  <1> HIDE DEF len
  <1>5. /\ First(to[c], len) \in Seq(Content) /\ Len(First(to[c], len)) = len
        /\ SubSeq(to[c], len + 1, Len(to[c])) \in Seq(Content)
        /\ Len(SubSeq(to[c], len + 1, Len(to[c]))) = Len(to[c]) - len
    BY <1>1, <1>2, Taken
  <1>6. /\ to' \in [Child -> Seq(Content)]
        /\ \A x \in Child : to'[x] = IF x = c THEN SubSeq(to[c], len + 1, Len(to[c])) ELSE to[x]
        /\ child'[c] = st /\ \A x \in Child \ {c} : child'[x] = child[x]
    BY <1>1, <1>3, <1>5, LengthsFit
  <1>7. Order'
    <2>1. /\ st \in [pc : {"read", "write", "gone"}, mem : Seq(Content)]
          /\ Running(c) /\ Len(st.mem) <= size(c) /\ (st.pc # "write" => st.mem = <<>>)
      BY <1>1, <1>2, <1>5 DEF Running
    <2> HIDE DEF st
    <2>2. \A x \in Child : Len(to'[x]) <= Len(to[x])
      BY <1>1, <1>2, <1>5, <1>6, LengthsFit
    <2>3. /\ kills' \in 0..MaxKills /\ kills' >= kills /\ dest' \in Seq(Content) /\ left' \in Seq(Content)
          /\ from' \in [Child -> Seq(Content)] /\ Len(from'[c]) <= PipeSize
      BY <1>1, <1>3, LengthsFit
    <2> QED
      BY <1>1, <1>3, <1>4, <1>6, <2>1, <2>2, <2>3, ChildMoves
  <1>8. PICK t2 : t2 = [t EXCEPT ![c] = t[c] + len]
    OBVIOUS
  <1>9. /\ m[c] = t[c] /\ t[c] \in Places /\ b[c] \in Places /\ t[c] \in Nat /\ b[c] \in Nat
        /\ t[c] <= b[c] /\ to[c] = Segment(t[c], b[c])
    BY <1>0, <1>1, ReaderIsEmpty, CutNumbers DEF Cut, Joins
  <1>10. /\ t[c] + len \in Places /\ t[c] + len <= b[c]
         /\ First(to[c], len) = Segment(t[c], t[c] + len)
         /\ SubSeq(to[c], len + 1, Len(to[c])) = Segment(t[c] + len, b[c])
    <2>1. Len(to[c]) = b[c] - t[c]
      BY <1>9, SegmentIs
    <2>2. len \in 0..b[c] - t[c]
      BY <1>2, <1>9, <2>1
    <2>3. /\ SubSeq(Segment(t[c], b[c]), 1, len) = Segment(t[c], t[c] + len)
          /\ SubSeq(Segment(t[c], b[c]), len + 1, Len(Segment(t[c], b[c]))) = Segment(t[c] + len, b[c])
          /\ t[c] + len \in Places
      BY <1>9, <2>2, SegmentCut
    <2> QED
      BY <1>9, <2>2, <2>3 DEF First
  <1>11. t2 \in [Child -> Places] /\ t2[c] = t[c] + len /\ \A x \in Child \ {c} : t2[x] = t[x]
    BY <1>8, <1>10
  <1>12. Cut(m, t2, b, f)'
    <2>1. Ends(m, t2)'
      BY <1>0, <1>1, <1>3, <1>11, Indexes DEF Cut, Ends
    <2>2. ASSUME NEW x \in Child PROVE Holds(x, m, t2)'
      <3>1. CASE x = c
        BY <1>2, <1>6, <1>9, <1>10, <1>11, <3>1 DEF Holds
      <3>2. CASE x # c
        BY <1>0, <1>3, <1>6, <1>11, <3>2 DEF Cut, Holds
      <3> QED
        BY <3>1, <3>2
    <2>3. ASSUME NEW x \in Child \ {0} PROVE Joins(x, m, t2, b, f)'
      <3>1. CASE x = c
        BY <1>0, <1>3, <1>6, <1>10, <1>11, <3>1 DEF Cut, Joins
      <3>2. CASE x # c
        BY <1>0, <1>3, <1>6, <1>11, <3>2 DEF Cut, Joins
      <3> QED
        BY <3>1, <3>2
    <2> QED
      BY <2>1, <2>2, <2>3 DEF Cut
  <1> QED
    BY <1>0, <1>7, <1>11, <1>12 DEF PInv, Cuts

(* Writing the destination. *)
LEMMA WriteFileInv == PInv /\ ChildWriteFile => PInv'
  <1> SUFFICES ASSUME PInv, ChildWriteFile PROVE PInv'
    OBVIOUS
  <1> DEFINE c  == n - 1
             st == [pc |-> "read", mem |-> <<>>]
  <1>0. PICK m, t, b, f \in [Child -> Places] : Cut(m, t, b, f)
    BY DEF PInv, Cuts
  <1>1. Order /\ c \in Child /\ child[c].pc = "write"
    BY Indexes DEF PInv, ChildWriteFile
  <1>2. /\ child' = [child EXCEPT ![c] = st]
        /\ dest' = dest \o child[c].mem
        /\ UNCHANGED <<left, to, from, buff, r_fd, w_fd, rd_set, wr_set, pc, i, kills>>
    BY DEF ChildWriteFile, parent, pipes
  <1>3. UNCHANGED parent
    BY DEF ChildWriteFile
  <1>4. child'[c] = st /\ \A x \in Child \ {c} : child'[x] = child[x]
    BY <1>1, <1>2, LengthsFit
  <1>5. Order'
    <2>1. <<>> \in Seq(Content) /\ Len(<<>>) = 0
      OBVIOUS
    <2>2. /\ st \in [pc : {"read", "write", "gone"}, mem : Seq(Content)]
          /\ Running(c) /\ Len(st.mem) <= size(c) /\ (st.pc # "write" => st.mem = <<>>)
      BY <1>1, <2>1, LengthsFit DEF Running
    <2>3. dest' \in Seq(Content)
      BY <1>1, <1>2, LengthsFit, Joined
    <2>4. /\ kills' \in 0..MaxKills /\ kills' >= kills /\ left' \in Seq(Content)
          /\ to' \in [Child -> Seq(Content)] /\ \A x \in Child : Len(to'[x]) <= Len(to[x])
          /\ from' \in [Child -> Seq(Content)] /\ Len(from'[c]) <= PipeSize
      BY <1>1, <1>2, LengthsFit
    <2> HIDE DEF st, c
    <2> QED
      BY <1>1, <1>2, <1>3, <2>2, <2>3, <2>4, ChildMoves
  <1>6. PICK m2 : m2 = [m EXCEPT ![c] = t[c]]
    OBVIOUS
  <1>7. /\ m2 \in [Child -> Places] /\ m2[c] = t[c] /\ \A x \in Child \ {c} : m2[x] = m[x]
        /\ m[c] \in Places /\ t[c] \in Places /\ m[c] \in Nat /\ t[c] \in Nat /\ m[c] <= t[c]
    BY <1>0, <1>1, <1>6, CutNumbers DEF Cut, Holds
  <1>8. dest' = Segment(0, t[c])
    <2>1. dest = Segment(0, m[c]) /\ child[c].mem = Segment(m[c], t[c])
      BY <1>0, <1>1 DEF Cut, Ends, Holds
    <2>2. 0 \in Places /\ 0 <= m[c]
      BY <1>7, FileEnd
    <2>3. Segment(0, m[c]) \o Segment(m[c], t[c]) = Segment(0, t[c])
      BY <1>7, <2>2, SegmentJoin
    <2> QED
      BY <1>2, <2>1, <2>3
  <1>9. <<>> = Segment(t[c], t[c])
    BY <1>7, SegmentEmpty
  <1>10. Cut(m2, t, b, f)'
    <2>1. Ends(m2, t)'
      BY <1>0, <1>2, <1>7, <1>8 DEF Cut, Ends
    <2>2. ASSUME NEW x \in Child PROVE Holds(x, m2, t)'
      <3>1. CASE x = c
        BY <1>4, <1>7, <1>9, <3>1 DEF Holds
      <3>2. CASE x # c
        BY <1>0, <1>2, <1>4, <1>7, <3>2 DEF Cut, Holds
      <3> QED
        BY <3>1, <3>2
    <2>3. ASSUME NEW x \in Child \ {0} PROVE Joins(x, m2, t, b, f)'
      <3>1. x - 1 \in Child /\ x - 1 # c
        BY Indexes
      <3> QED
        BY <1>0, <1>2, <1>7, <3>1 DEF Cut, Joins
    <2> QED
      BY <2>1, <2>2, <2>3 DEF Cut
  <1> QED
    BY <1>0, <1>5, <1>7, <1>10 DEF PInv, Cuts

(* Writing a pipe, in as many steps as it takes. *)
LEMMA ChildWriteInv == ASSUME PInv, NEW c \in Child, ChildWrite(c) PROVE PInv'
  <1>0. PICK m, t, b, f \in [Child -> Places] : Cut(m, t, b, f)
    BY DEF PInv, Cuts
  <1> DEFINE mem  == child[c].mem
             len  == least(Len(mem), PipeSize - Len(from[c]))
             rest == SubSeq(mem, len + 1, Len(mem))
             st   == [pc |-> IF rest = <<>> THEN "read" ELSE "write", mem |-> rest]
             new  == from[c] \o First(mem, len)
  <1>1. /\ Order /\ c # n - 1 /\ child[c].pc = "write" /\ r_fd[c + 1]
        /\ mem \in Seq(Content) /\ from[c] \in Seq(Content)
        /\ Len(from[c]) \in Nat /\ Len(mem) \in Nat /\ PipeSize - Len(from[c]) \in Nat /\ Len(mem) <= size(c)
        /\ Len(from[c]) < PipeSize /\ c + 1 \in Child \ {0} /\ c \in Nat
    <2>1. Order /\ c # n - 1 /\ child[c].pc = "write" /\ r_fd[c + 1] /\ Len(from[c]) < PipeSize
      BY DEF PInv, ChildWrite
    <2>2. /\ mem \in Seq(Content) /\ from[c] \in Seq(Content)
          /\ Len(from[c]) \in Nat /\ Len(mem) \in Nat /\ Len(mem) <= size(c)
      BY <2>1, LengthsFit
    <2>3. PipeSize - Len(from[c]) \in Nat
      BY <2>1, <2>2, ConstantsAre
    <2>4. c + 1 \in Child \ {0} /\ c \in Nat
      BY <2>1, Indexes
    <2> QED
      BY <2>1, <2>2, <2>3, <2>4
  <1>2. len \in Nat /\ len <= Len(mem) /\ len <= PipeSize - Len(from[c])
    BY <1>1, LeastIs
  <1>3. /\ child' = [child EXCEPT ![c] = st]
        /\ from' = [from EXCEPT ![c] = new]
        /\ UNCHANGED <<left, dest, to, buff, r_fd, w_fd, rd_set, wr_set, pc, i, kills>>
    BY DEF ChildWrite, parent
  <1>4. UNCHANGED parent
    BY DEF ChildWrite
  <1> HIDE DEF len
  <1>5. First(mem, len) \in Seq(Content) /\ Len(First(mem, len)) = len /\ rest \in Seq(Content) /\ Len(rest) = Len(mem) - len
    BY <1>1, <1>2, Taken
  <1>6. new \in Seq(Content) /\ Len(new) = Len(from[c]) + len
    <2>1. \A s, u \in Seq(Content) : s \o u \in Seq(Content) /\ Len(s \o u) = Len(s) + Len(u)
      BY Joined
    <2> QED
      BY <1>1, <1>5, <2>1, Zenon
  <1>7. st \in [pc : {"read", "write", "gone"}, mem : Seq(Content)] /\ st.mem = rest
        /\ (st.pc # "write" => st.mem = <<>>) /\ st.pc \in {"read", "write"}
    BY <1>5
  <1> HIDE DEF mem, rest, st, new
  <1>8. /\ child'[c] = st /\ \A x \in Child \ {c} : child'[x] = child[x]
        /\ from'[c] = new /\ (\A x \in Child \ {c} : from'[x] = from[x]) /\ from' \in [Child -> Seq(Content)]
    BY <1>1, <1>3, <1>6, LengthsFit
  <1>9. Order'
    <2>1. Running(c) /\ Len(st.mem) <= size(c)
      BY <1>1, <1>2, <1>5, <1>7, LengthsFit DEF Running
    <2>2. Len(new) <= PipeSize
      BY <1>1, <1>2, <1>6, ConstantsAre
    <2>3. from[c] # <<>> => new # <<>>
      <3> SUFFICES ASSUME from[c] # <<>> PROVE new # <<>>
        OBVIOUS
      <3>1. Len(from[c]) # 0
        BY <1>1, EmptyIs
      <3>2. Len(new) # 0
        BY <1>1, <1>2, <1>6, <3>1
      <3> QED
        BY <1>6, <3>2, EmptyIs
    <2>4. /\ kills' \in 0..MaxKills /\ kills' >= kills /\ left' \in Seq(Content) /\ dest' \in Seq(Content)
          /\ to' \in [Child -> Seq(Content)] /\ \A x \in Child : Len(to'[x]) <= Len(to[x])
      BY <1>1, <1>3, LengthsFit
    <2>5. \A x \in Child : x # c => from'[x] = from[x]
      BY <1>8
    <2> QED
      BY <1>1, <1>3, <1>4, <1>7, <1>8, <2>1, <2>2, <2>3, <2>4, <2>5, ChildMoves
  <1>10. PICK m2 : m2 = [m EXCEPT ![c] = m[c] + len]
    OBVIOUS
  <1>11. /\ m[c] \in Places /\ t[c] \in Places /\ m[c] \in Nat /\ t[c] \in Nat /\ m[c] <= t[c]
         /\ mem = Segment(m[c], t[c])
         /\ f[c + 1] \in Places /\ f[c + 1] \in Nat /\ f[c + 1] <= m[c] /\ from[c] = Segment(f[c + 1], m[c])
    <2>0. (c + 1) - 1 = c
      BY <1>1
    <2>1. Holds(c, m, t) /\ Joins(c + 1, m, t, b, f) /\ (c + 1) - 1 = c /\ c + 1 \in Child
      BY <1>0, <1>1, <2>0 DEF Cut
    <2>2. mem = Segment(m[c], t[c]) /\ m[c] <= t[c]
      BY <1>1, <2>1 DEF Holds, mem
    <2>3. f[c + 1] <= m[c] /\ from[c] = Segment(f[c + 1], m[c])
      BY <2>1 DEF Joins
    <2> QED
      BY <2>1, <2>2, <2>3, CutNumbers
  <1>12. /\ m[c] + len \in Places /\ m[c] + len <= t[c]
         /\ First(mem, len) = Segment(m[c], m[c] + len)
         /\ rest = Segment(m[c] + len, t[c])
    <2>1. Len(mem) = t[c] - m[c]
      BY <1>11, SegmentIs
    <2>2. len \in 0..t[c] - m[c]
      BY <1>2, <1>11, <2>1
    <2>3. /\ SubSeq(Segment(m[c], t[c]), 1, len) = Segment(m[c], m[c] + len)
          /\ SubSeq(Segment(m[c], t[c]), len + 1, Len(Segment(m[c], t[c]))) = Segment(m[c] + len, t[c])
          /\ m[c] + len \in Places
      BY <1>11, <2>2, SegmentCut
    <2> QED
      BY <1>11, <2>2, <2>3 DEF First, rest
  <1>13. new = Segment(f[c + 1], m[c] + len)
    <2>1. m[c] <= m[c] + len
      BY <1>2, <1>11
    <2>2. Segment(f[c + 1], m[c]) \o Segment(m[c], m[c] + len) = Segment(f[c + 1], m[c] + len)
      BY <1>11, <1>12, <2>1, SegmentJoin
    <2> QED
      BY <1>11, <1>12, <2>2 DEF new
  <1>14. m2 \in [Child -> Places] /\ m2[c] = m[c] + len /\ \A x \in Child \ {c} : m2[x] = m[x]
    BY <1>10, <1>12
  <1>15. Cut(m2, t, b, f)'
    <2>1. Ends(m2, t)'
      BY <1>0, <1>1, <1>3, <1>14, Indexes DEF Cut, Ends
    <2>2. ASSUME NEW x \in Child PROVE Holds(x, m2, t)'
      <3>1. CASE x = c
        BY <1>7, <1>8, <1>12, <1>14, <3>1 DEF Holds
      <3>2. CASE x # c
        BY <1>0, <1>3, <1>8, <1>14, <3>2 DEF Cut, Holds
      <3> QED
        BY <3>1, <3>2
    <2>3. ASSUME NEW x \in Child \ {0} PROVE Joins(x, m2, t, b, f)'
      <3>1. x - 1 \in Child /\ Joins(x, m, t, b, f)
        BY <1>0, Indexes DEF Cut
      <3>2. CASE x - 1 = c
        <4>1. x = c + 1
          BY <1>1, <3>2, Indexes
        <4>2. f[x] <= m[c] + len
          BY <1>2, <1>11, <4>1
        <4> QED
          BY <1>3, <1>8, <1>13, <1>14, <3>1, <3>2, <4>1, <4>2 DEF Joins
      <3>3. CASE x - 1 # c
        BY <1>3, <1>8, <1>14, <3>1, <3>3 DEF Joins
      <3> QED
        BY <3>2, <3>3
    <2> QED
      BY <2>1, <2>2, <2>3 DEF Cut
  <1> QED
    BY <1>0, <1>9, <1>14, <1>15 DEF PInv, Cuts

(* A child that ends without a step of its own on the data: at the end of   *)
(* the pipe, at a broken one, or killed.                                    *)
LEMMA ChildEnds ==
  ASSUME PInv, NEW c \in Child, Running(c), Gone(c),
         UNCHANGED <<left, dest, pipes, parent>>, kills' \in 0..MaxKills, kills' >= kills,
         kills' = 0 => /\ child[c].pc = "read"
                       /\ \A m, t, b, f \in [Child -> Places] : Cut(m, t, b, f) => m[c] = Len(Source)
  PROVE  PInv'
  <1>0. PICK m, t, b, f \in [Child -> Places] : Cut(m, t, b, f)
    BY DEF PInv, Cuts
  <1> DEFINE st == [pc |-> "gone", mem |-> <<>>]
  <1>1. /\ Order /\ child' = [child EXCEPT ![c] = st]
        /\ UNCHANGED <<left, dest, to, from, buff, r_fd, w_fd, rd_set, wr_set, pc, i>>
        /\ kills' = 0 => kills = 0
    BY LengthsFit DEF PInv, Gone, pipes, parent
  <1>2. child'[c] = st /\ \A x \in Child \ {c} : child'[x] = child[x]
    BY <1>1, LengthsFit
  <1>3. Order'
    <2>1. <<>> \in Seq(Content) /\ Len(<<>>) = 0
      OBVIOUS
    <2>2. /\ st \in [pc : {"read", "write", "gone"}, mem : Seq(Content)]
          /\ Len(st.mem) <= size(c) /\ (st.pc # "write" => st.mem = <<>>)
      BY <1>1, <2>1, LengthsFit
    <2>3. /\ left' \in Seq(Content) /\ dest' \in Seq(Content)
          /\ to' \in [Child -> Seq(Content)] /\ \A x \in Child : Len(to'[x]) <= Len(to[x])
          /\ from' \in [Child -> Seq(Content)] /\ Len(from'[c]) <= PipeSize
      BY <1>1, LengthsFit
    <2> HIDE DEF st
    <2> QED
      BY <1>1, <2>2, <2>3, ChildMoves
  <1>4. Holds(c, m, t)'
    <2>1. m[c] <= t[c]
      BY <1>0 DEF Cut, Holds
    <2>2. ASSUME kills' = 0 PROVE <<>> = Segment(m[c], t[c]) /\ m[c] = Len(Source)
      <3>1. m[c] = Len(Source) /\ m[c] = t[c]
        BY <1>0, <1>1, <2>2, ReaderIsEmpty DEF Cut
      <3> QED
        BY <3>1, CutNumbers, SegmentEmpty
    <2> QED
      BY <1>2, <2>1, <2>2 DEF Holds
  <1>5. Cut(m, t, b, f)'
    <2>1. Ends(m, t)'
      BY <1>0, <1>1 DEF Cut, Ends
    <2>2. ASSUME NEW x \in Child, x # c PROVE Holds(x, m, t)'
      BY <1>0, <1>1, <1>2, <2>2 DEF Cut, Holds
    <2>3. ASSUME NEW x \in Child \ {0} PROVE Joins(x, m, t, b, f)'
      BY <1>0, <1>1 DEF Cut, Joins
    <2> QED
      BY <1>4, <2>1, <2>2, <2>3 DEF Cut
  <1> QED
    BY <1>0, <1>3, <1>5 DEF PInv, Cuts

(* A pipe is at its end only if the children before were, and they have     *)
(* passed on the whole file.                                                *)
LEMMA EofInv == ASSUME PInv, NEW c \in Child, ChildEof(c) PROVE PInv'
  <1>1. /\ Order /\ c # 0 /\ child[c].pc = "read" /\ to[c] = <<>> /\ ~w_fd[c] /\ Gone(c)
        /\ UNCHANGED <<left, dest, pipes, parent, kills>>
    BY DEF PInv, ChildEof
  <1>2. ASSUME kills = 0, NEW m \in [Child -> Places], NEW t \in [Child -> Places],
               NEW b \in [Child -> Places], NEW f \in [Child -> Places], Cut(m, t, b, f)
        PROVE  m[c] = Len(Source)
    <2>1. c \in 1..n - 1 /\ c - 1 \in Child /\ c \in Buffer /\ c \in Nat /\ c - 1 \in Nat
      BY <1>1, Indexes
    <2>2. pc # "fork"
      <3> SUFFICES ASSUME pc = "fork" PROVE w_fd[c]
        BY <1>1
      <3>1. i \in Nat /\ ~(c >= i)
        BY <1>1 DEF Order, Forking, Types, ProxyTypeOK
      <3> QED
        BY <1>1, <2>1, <3>1 DEF Order, Forking
    <2>3. buff[c] = <<>> /\ ~Running(c - 1) /\ from[c - 1] = <<>>
      BY <1>1, <1>2, <2>1, <2>2 DEF Order, Closed
    <2>4. child[c - 1].pc = "gone"
      <3>1. i = n /\ ~(c - 1 >= n)
        BY <1>1, <2>1, <2>2, ConstantsAre DEF Order, Forking
      <3>2. child[c - 1].pc # "none" /\ child[c - 1].pc \in {"none", "read", "write", "gone"}
        BY <1>1, <2>1, <3>1 DEF Order, Forking, Types, ProxyTypeOK
      <3> QED
        BY <2>3, <3>2 DEF Running
    <2>5. m[c - 1] = Len(Source)
      BY <1>2, <2>1, <2>4 DEF Cut, Holds
    <2>6. f[c] = m[c - 1]
      BY <1>2, <2>1, <2>3, CutNumbers, SegmentEmpty DEF Cut, Joins
    <2>7. b[c] = f[c]
      BY <1>2, <2>1, <2>3, CutNumbers, SegmentEmpty DEF Cut, Joins
    <2>8. t[c] = b[c]
      BY <1>1, <1>2, <2>1, CutNumbers, SegmentEmpty DEF Cut, Joins
    <2>9. m[c] = t[c]
      BY <1>1, <1>2, ReaderIsEmpty DEF Cut
    <2> QED
      BY <2>5, <2>6, <2>7, <2>8, <2>9
  <1>3. kills' = kills /\ kills' \in 0..MaxKills /\ kills' >= kills /\ Running(c)
    BY <1>1, LengthsFit DEF Running
  <1> QED
    BY <1>1, <1>2, <1>3, ChildEnds DEF PInv

(* A child meets a broken pipe only if somebody was lost. *)
LEMMA BrokenInv == ASSUME PInv, NEW c \in Child, ChildWriteBroken(c) PROVE PInv'
  <1>1. /\ Order /\ c # n - 1 /\ child[c].pc = "write" /\ ~r_fd[c + 1] /\ Gone(c)
        /\ UNCHANGED <<left, dest, pipes, parent, kills>> /\ Running(c)
        /\ kills' = kills /\ kills' \in 0..MaxKills /\ kills' >= kills
    BY LengthsFit DEF PInv, ChildWriteBroken, Running
  <1>2. c \in Nat /\ c + 1 \in 1..n - 1 /\ c + 1 \in Buffer /\ (c + 1) - 1 = c
    BY <1>1, Indexes
  <1>3. kills # 0
    <2> SUFFICES ASSUME kills = 0 PROVE FALSE
      OBVIOUS
    <2>1. pc # "fork"
      <3> SUFFICES ASSUME pc = "fork" PROVE r_fd[c + 1]
        BY <1>1
      <3>1. i \in Nat /\ ~(c >= i)
        BY <1>1 DEF Order, Forking, Types, ProxyTypeOK
      <3> QED
        BY <1>1, <1>2, <3>1 DEF Order, Forking
    <2>2. ~Running((c + 1) - 1)
      BY <1>1, <1>2, <2>1, Zenon DEF Order, Closed
    <2> QED
      BY <1>1, <1>2, <2>2
  <1> QED
    BY <1>1, <1>3, ChildEnds

LEMMA KillChildInv == ASSUME PInv, NEW c \in Child, KillChild(c) PROVE PInv'
  <1>1. /\ Order /\ Running(c) /\ Gone(c)
        /\ UNCHANGED <<left, dest, pipes, parent>>
        /\ kills < MaxKills /\ kills' = kills + 1
    BY DEF PInv, KillChild
  <1>2. kills' \in 0..MaxKills /\ kills' >= kills /\ kills' # 0
    BY <1>1, LengthsFit, ConstantsAre
  <1> QED
    BY <1>1, <1>2, ChildEnds

-----------------------------------------------------------------------------
(* The parent's steps.  Most leave the cuts alone. *)
LEMMA CutsStay ==
  ASSUME Cuts, UNCHANGED <<left, dest, to, from, child, buff>>, kills' = 0 => kills = 0
  PROVE  Cuts'
  <1>1. PICK m, t, b, f \in [Child -> Places] : Cut(m, t, b, f)
    BY DEF Cuts
  <1>2. Cut(m, t, b, f)'
    BY <1>1 DEF Cut, Ends, Holds, Joins
  <1> QED
    BY <1>2 DEF Cuts

(* The buffer takes from one pipe, *)
LEMMA ReadCuts == PInv /\ Read => Cuts'
  <1> SUFFICES ASSUME PInv, Read PROVE Cuts'
    OBVIOUS
  <1>0. PICK m, t, b, f \in [Child -> Places] : Cut(m, t, b, f)
    BY DEF PInv, Cuts
  <1>1. PICK k \in rd_set, len \in Nat :
           /\ k \in Buffer /\ k # 0 /\ k - 1 \in Child
           /\ r_fd[k] /\ Readable(k)
           /\ from[k - 1] \in Seq(Content) /\ buff[k] \in Seq(Content)
           /\ len <= Len(from[k - 1]) /\ len <= size(k) - Len(buff[k])
           /\ len = 0 => from[k - 1] = <<>>
           /\ buff' = [buff EXCEPT ![k] = buff[k] \o First(from[k - 1], len)]
           /\ from' = [from EXCEPT ![k - 1] = SubSeq(from[k - 1], len + 1, Len(from[k - 1]))]
           /\ r_fd' = [r_fd EXCEPT ![k] = len > 0]
           /\ rd_set' = rd_set \ {k}
           /\ pc' = Phase(rd_set \ {k}, wr_set)
    BY ReadIs DEF PInv
  <1>2. UNCHANGED <<left, dest, to, child, kills>>
    BY DEF Read
  <1>3. /\ \A x \in Child \ {0} : x # k => buff'[x] = buff[x] /\ from'[x - 1] = from[x - 1]
        /\ buff'[k] = buff[k] \o First(from[k - 1], len)
        /\ from'[k - 1] = SubSeq(from[k - 1], len + 1, Len(from[k - 1]))
    <2>1. buff \in [Buffer -> Seq(Content)] /\ from \in [Child -> Seq(Content)]
      BY DEF PInv, Order, Types
    <2>2. ASSUME NEW x \in Child \ {0}, x # k PROVE buff'[x] = buff[x] /\ from'[x - 1] = from[x - 1]
      <3>1. x \in Buffer /\ x \in Nat /\ k \in Nat /\ x - 1 \in Child /\ x - 1 # k - 1
        BY <1>1, <2>2, Indexes
      <3> QED
        BY <1>1, <2>1, <2>2, <3>1
    <2> QED
      BY <1>1, <2>1, <2>2
  <1>4. CASE k = n
    <2>1. \A x \in Child \ {0} : x # k
      BY <1>4, ConstantsAre DEF Child
    <2>2. Cut(m, t, b, f)'
      BY <1>0, <1>2, <1>3, <2>1 DEF Cut, Ends, Holds, Joins
    <2> QED
      BY <2>2 DEF Cuts
  <1>5. CASE k # n
    <2>1. k \in Child \ {0}
      BY <1>1, <1>5, Indexes
    <2>2. /\ b[k] \in Places /\ f[k] \in Places /\ m[k - 1] \in Places
          /\ b[k] \in Nat /\ f[k] \in Nat /\ m[k - 1] \in Nat /\ b[k] <= f[k] /\ f[k] <= m[k - 1]
          /\ buff[k] = Segment(b[k], f[k]) /\ from[k - 1] = Segment(f[k], m[k - 1])
      BY <1>0, <1>1, <2>1, CutNumbers DEF Cut, Joins
    <2>3. /\ f[k] + len \in Places /\ f[k] + len <= m[k - 1]
          /\ First(from[k - 1], len) = Segment(f[k], f[k] + len)
          /\ SubSeq(from[k - 1], len + 1, Len(from[k - 1])) = Segment(f[k] + len, m[k - 1])
      <3>1. Len(from[k - 1]) = m[k - 1] - f[k]
        BY <2>2, SegmentIs
      <3>2. len \in 0..m[k - 1] - f[k]
        BY <1>1, <2>2, <3>1
      <3>3. /\ SubSeq(Segment(f[k], m[k - 1]), 1, len) = Segment(f[k], f[k] + len)
            /\ SubSeq(Segment(f[k], m[k - 1]), len + 1, Len(Segment(f[k], m[k - 1]))) = Segment(f[k] + len, m[k - 1])
            /\ f[k] + len \in Places
        BY <2>2, <3>2, SegmentCut
      <3> QED
        BY <2>2, <3>2, <3>3 DEF First
    <2>4. buff'[k] = Segment(b[k], f[k] + len)
      <3>1. f[k] <= f[k] + len
        BY <2>2
      <3>2. Segment(b[k], f[k]) \o Segment(f[k], f[k] + len) = Segment(b[k], f[k] + len)
        BY <2>2, <2>3, <3>1, SegmentJoin
      <3> QED
        BY <1>3, <2>2, <2>3, <3>2
    <2>5. PICK f2 : f2 = [f EXCEPT ![k] = f[k] + len]
      OBVIOUS
    <2>6. f2 \in [Child -> Places] /\ f2[k] = f[k] + len /\ \A x \in Child : x # k => f2[x] = f[x]
      BY <2>1, <2>3, <2>5
    <2>7. ASSUME NEW x \in Child \ {0} PROVE Joins(x, m, t, b, f2)'
      <3>1. Joins(x, m, t, b, f)
        BY <1>0 DEF Cut
      <3>2. CASE x = k
        <4>1. b[k] <= f[k] + len
          BY <2>2
        <4> QED
          BY <1>2, <1>3, <2>3, <2>4, <2>6, <3>1, <3>2, <4>1 DEF Joins
      <3>3. CASE x # k
        BY <1>2, <1>3, <2>6, <3>1, <3>3 DEF Joins
      <3> QED
        BY <3>2, <3>3
    <2>8. Cut(m, t, b, f2)'
      BY <1>0, <1>2, <2>7 DEF Cut, Ends, Holds
    <2> QED
      BY <2>6, <2>8 DEF Cuts
  <1> QED
    BY <1>4, <1>5

(* and gives to the other. *)
LEMMA WriteCuts == PInv /\ Write => Cuts'
  <1> SUFFICES ASSUME PInv, Write PROVE Cuts'
    OBVIOUS
  <1>0. PICK m, t, b, f \in [Child -> Places] : Cut(m, t, b, f)
    BY DEF PInv, Cuts
  <1>1. PICK k \in wr_set, len \in Nat :
           /\ k \in Child \ {0} /\ k \in Buffer /\ w_fd[k]
           /\ buff[k] \in Seq(Content) /\ to[k] \in Seq(Content)
           /\ len <= Len(buff[k]) /\ len <= PipeSize - Len(to[k])
           /\ buff' = [buff EXCEPT ![k] = SubSeq(buff[k], len + 1, Len(buff[k]))]
           /\ to' = [to EXCEPT ![k] = to[k] \o First(buff[k], len)]
           /\ wr_set' = wr_set \ {k}
           /\ pc' = Phase(rd_set, wr_set \ {k})
    BY WriteIs DEF PInv
  <1>2. UNCHANGED <<left, dest, from, child, kills>>
    BY DEF Write
  <1>3. /\ \A x \in Child : x # k => buff'[x] = buff[x] /\ to'[x] = to[x]
        /\ buff'[k] = SubSeq(buff[k], len + 1, Len(buff[k]))
        /\ to'[k] = to[k] \o First(buff[k], len)
    BY <1>1, Indexes DEF PInv, Order, Types
  <1>4. /\ t[k] \in Places /\ b[k] \in Places /\ f[k] \in Places
        /\ t[k] \in Nat /\ b[k] \in Nat /\ f[k] \in Nat /\ t[k] <= b[k] /\ b[k] <= f[k]
        /\ to[k] = Segment(t[k], b[k]) /\ buff[k] = Segment(b[k], f[k])
    BY <1>0, <1>1, CutNumbers DEF Cut, Joins
  <1>5. /\ b[k] + len \in Places /\ b[k] + len <= f[k]
        /\ First(buff[k], len) = Segment(b[k], b[k] + len)
        /\ SubSeq(buff[k], len + 1, Len(buff[k])) = Segment(b[k] + len, f[k])
    <2>1. Len(buff[k]) = f[k] - b[k]
      BY <1>4, SegmentIs
    <2>2. len \in 0..f[k] - b[k]
      BY <1>1, <1>4, <2>1
    <2>3. /\ SubSeq(Segment(b[k], f[k]), 1, len) = Segment(b[k], b[k] + len)
          /\ SubSeq(Segment(b[k], f[k]), len + 1, Len(Segment(b[k], f[k]))) = Segment(b[k] + len, f[k])
          /\ b[k] + len \in Places
      BY <1>4, <2>2, SegmentCut
    <2> QED
      BY <1>4, <2>2, <2>3 DEF First
  <1>6. to'[k] = Segment(t[k], b[k] + len)
    <2>1. b[k] <= b[k] + len
      BY <1>4
    <2>2. Segment(t[k], b[k]) \o Segment(b[k], b[k] + len) = Segment(t[k], b[k] + len)
      BY <1>4, <1>5, <2>1, SegmentJoin
    <2> QED
      BY <1>3, <1>4, <1>5, <2>2
  <1>7. PICK b2 : b2 = [b EXCEPT ![k] = b[k] + len]
    OBVIOUS
  <1>8. b2 \in [Child -> Places] /\ b2[k] = b[k] + len /\ \A x \in Child : x # k => b2[x] = b[x]
    BY <1>1, <1>5, <1>7
  <1>9. ASSUME NEW x \in Child \ {0} PROVE Joins(x, m, t, b2, f)'
    <2>1. Joins(x, m, t, b, f)
      BY <1>0 DEF Cut
    <2>2. CASE x = k
      <3>1. t[k] <= b[k] + len
        BY <1>4
      <3> QED
        BY <1>2, <1>3, <1>5, <1>6, <1>8, <2>1, <2>2, <3>1 DEF Joins
    <2>3. CASE x # k
      BY <1>2, <1>3, <1>8, <2>1, <2>3 DEF Joins
    <2> QED
      BY <2>2, <2>3
  <1>10. Cut(m, t, b2, f)'
    BY <1>0, <1>2, <1>9 DEF Cut, Ends, Holds
  <1> QED
    BY <1>8, <1>10 DEF Cuts

(* The parent meets a broken pipe only if somebody was lost: a child that   *)
(* was not lost has read all there was before it ended.                     *)
LEMMA WriteBrokenIsLoss ==
  ASSUME PInv, WriteBroken
  PROVE  kills # 0
  <1> SUFFICES ASSUME kills = 0 PROVE FALSE
    OBVIOUS
  <1>0. PICK m, t, b, f \in [Child -> Places] : Cut(m, t, b, f)
    BY DEF PInv, Cuts
  <1>1. PICK k \in wr_set : ~ReadsFromParent(k)
    BY ReportedBuffers, SmallestIn DEF WriteBroken, PInv, Order, Reported
  <1>2. Order /\ k \in Child \ {0} /\ buff[k] # <<>> /\ pc = "write" /\ k \in 1..n - 1 /\ k - 1 \in Child /\ k \in Nat
    BY ReportedBuffers, Indexes DEF PInv, Order, Reported, WriteBroken
  <1>3. child[k].pc = "gone"
    <2>1. i = n /\ ~(k >= n)
      BY <1>2, ConstantsAre DEF Order, Forking
    <2>2. child[k].pc # "none" /\ child[k].pc \in {"none", "read", "write", "gone"}
      BY <1>2, <2>1 DEF Order, Forking, Types, ProxyTypeOK
    <2> QED
      BY <1>1, <1>2, <2>2 DEF ReadsFromParent, Running
  <1>4. /\ m[k] = Len(Source) /\ m[k] <= t[k] /\ t[k] <= b[k] /\ b[k] <= f[k]
        /\ buff[k] = Segment(b[k], f[k])
    BY <1>0, <1>2, <1>3 DEF Cut, Holds, Joins
  <1>5. /\ t[k] \in Nat /\ b[k] \in Nat /\ f[k] \in Nat /\ f[k] <= Len(Source) /\ Len(Source) \in Nat
        /\ b[k] \in Places /\ f[k] \in Places
    BY <1>2, CutNumbers, FileEnd
  <1>6. b[k] = f[k]
    BY <1>4, <1>5
  <1> QED
    BY <1>2, <1>4, <1>5, <1>6, SegmentEmpty

LEMMA ParentStepInv == PInv /\ ParentStep => PInv'
  <1> SUFFICES ASSUME PInv, ParentStep PROVE PInv'
    OBVIOUS
  <1>0. Order /\ Cuts /\ kills \in 0..MaxKills
    BY LengthsFit DEF PInv
  <1>1. CASE Fork
    <2>1. Order'
      BY <1>0, <1>1, OrderPrepared DEF Fork
    <2>2. /\ i \in Child /\ child[i].pc = "none" /\ child[i].mem = <<>>
          /\ child' = [child EXCEPT ![i].pc = "read"]
          /\ UNCHANGED <<left, dest, to, from, buff, kills>>
      <3>1. i \in Child
        BY <1>0, <1>1, ConstantsAre DEF Fork, Prepared, Order, Types, ProxyTypeOK, Forking, Child
      <3> QED
        BY <1>0, <1>1, <3>1, Indexes DEF Fork, Prepared, Order, Forking, pipes
    <2>3. /\ child'[i].pc = "read" /\ child'[i].mem = <<>>
          /\ \A x \in Child \ {i} : child'[x] = child[x]
      BY <1>0, <2>2 DEF Order, Types
    <2>4. PICK m, t, b, f \in [Child -> Places] : Cut(m, t, b, f)
      BY <1>0 DEF Cuts
    <2>5. ASSUME NEW x \in Child PROVE Holds(x, m, t)'
      <3>1. Holds(x, m, t)
        BY <2>4 DEF Cut
      <3> QED
        BY <2>2, <2>3, <3>1 DEF Holds
    <2>6. Cut(m, t, b, f)'
      BY <2>2, <2>4, <2>5 DEF Cut, Ends, Joins
    <2> QED
      BY <2>1, <2>6 DEF PInv, Cuts
  <1>2. CASE Select
    BY <1>0, <1>2, OrderSelect, CutsStay DEF PInv, Select, pipes
  <1>3. CASE Return
    BY <1>0, <1>3, OrderReturn, CutsStay DEF PInv, Return, ParentGone, pipes
  <1>4. CASE Read
    BY <1>0, <1>4, OrderRead, ReadCuts DEF PInv
  <1>5. CASE Write
    BY <1>0, <1>5, OrderWrite, WriteCuts DEF PInv
  <1>6. CASE WriteBroken
    <2>1. kills' = kills /\ ParentGone /\ pc = "write" /\ kills # 0
      BY <1>6, WriteBrokenIsLoss DEF WriteBroken
    <2>2. Order'
      BY <1>0, <2>1, OrderParentGone
    <2>3. Cuts'
      BY <1>0, <2>1, CutsStay DEF ParentGone, pipes
    <2> QED
      BY <2>2, <2>3 DEF PInv
  <1>7. CASE Close
    BY <1>0, <1>7, OrderClose, CutsStay DEF PInv, Close, pipes
  <1> QED
    BY <1>1, <1>2, <1>3, <1>4, <1>5, <1>6, <1>7 DEF ParentStep

(* A fork that fails leaves a gap in the line. *)
LEMMA ForkFailsInv == PInv /\ ForkFails => PInv'
  <1> SUFFICES ASSUME PInv, ForkFails PROVE PInv'
    OBVIOUS
  <1>0. Order /\ Cuts /\ kills \in 0..MaxKills /\ MaxKills \in Nat /\ kills < MaxKills /\ kills' = kills + 1
    BY LengthsFit, ConstantsAre DEF PInv, ForkFails
  <1>1. kills' \in 0..MaxKills /\ kills' # 0
    BY <1>0
  <1>2. Order'
    BY <1>0, <1>1, OrderPrepared DEF ForkFails
  <1>3. /\ i \in Child /\ child[i].pc = "none"
        /\ child' = [child EXCEPT ![i].pc = "gone"]
        /\ UNCHANGED <<left, dest, to, from, buff>>
    <2>1. i \in Child
      BY <1>0, ConstantsAre DEF ForkFails, Prepared, Order, Types, ProxyTypeOK, Forking, Child
    <2> QED
      BY <1>0, <2>1, Indexes DEF ForkFails, Prepared, Order, Forking, pipes
  <1>4. /\ child'[i].pc = "gone" /\ \A x \in Child \ {i} : child'[x] = child[x]
    BY <1>0, <1>3 DEF Order, Types
  <1>5. PICK m, t, b, f \in [Child -> Places] : Cut(m, t, b, f)
    BY <1>0 DEF Cuts
  <1>6. ASSUME NEW x \in Child PROVE Holds(x, m, t)'
    <2>1. Holds(x, m, t)
      BY <1>5 DEF Cut
    <2> QED
      BY <1>1, <1>4, <2>1 DEF Holds
  <1>7. Cut(m, t, b, f)'
    BY <1>3, <1>5, <1>6 DEF Cut, Ends, Joins
  <1> QED
    BY <1>2, <1>7 DEF PInv, Cuts

LEMMA KillParentInv == PInv /\ KillParent => PInv'
  <1> SUFFICES ASSUME PInv, KillParent PROVE PInv'
    OBVIOUS
  <1>0. /\ Order /\ Cuts /\ kills \in 0..MaxKills /\ MaxKills \in Nat /\ kills < MaxKills /\ kills' = kills + 1
        /\ pc # "fork" /\ ParentGone
    BY LengthsFit, ConstantsAre DEF PInv, KillParent
  <1>1. kills' \in 0..MaxKills /\ kills' # 0
    BY <1>0
  <1>2. Order'
    BY <1>0, <1>1, OrderParentGone
  <1>3. Cuts'
    BY <1>0, <1>1, CutsStay DEF ParentGone, pipes
  <1> QED
    BY <1>2, <1>3 DEF PInv

LEMMA PStutter == PInv /\ UNCHANGED proxyVars => PInv'
  <1> SUFFICES ASSUME PInv, UNCHANGED proxyVars PROVE PInv'
    OBVIOUS
  <1>1. UNCHANGED <<left, dest, to, from, child, buff, r_fd, w_fd, rd_set, wr_set, pc, i, kills>>
    BY DEF proxyVars, pipes, parent
  <1>2. Types'
    BY <1>1 DEF PInv, Order, Types, ProxyTypeOK
  <1>3. Forking'
    BY <1>1 DEF PInv, Order, Forking
  <1>4. Reported'
    BY <1>1 DEF PInv, Order, Reported, Readable, Writable, WritesToParent, ReadsFromParent, Running
  <1>5. Closed'
    BY <1>1 DEF PInv, Order, Closed, Drained, Running
  <1>6. Cuts'
    BY <1>1, CutsStay DEF PInv
  <1> QED
    BY <1>2, <1>3, <1>4, <1>5, <1>6 DEF PInv, Order

LEMMA PInit == ProxyInit => PInv
  <1> SUFFICES ASSUME ProxyInit PROVE PInv
    OBVIOUS
  <1>1. PICK z \in [Child -> Places] : z = [c \in Child |-> 0]
    BY FileEnd
  <1>2. /\ left = Source /\ dest = <<>>
        /\ \A c \in Child : /\ to[c] = <<>> /\ from[c] = <<>> /\ buff[c] = <<>>
                            /\ child[c].pc = "none" /\ child[c].mem = <<>> /\ z[c] = 0
    BY <1>1, Indexes DEF ProxyInit
  <1>3. <<>> = Segment(0, 0)
    BY FileEnd, SegmentEmpty
  <1>4. Source = Segment(0, Len(Source))
    <2>1. Source \in Seq(Content)
      BY ConstantsAre
    <2> QED
      BY <2>1 DEF Segment
  <1>5. Cut(z, z, z, z)
    <2>1. Ends(z, z)
      BY <1>2, <1>3, <1>4, Indexes DEF Ends
    <2>2. ASSUME NEW c \in Child PROVE Holds(c, z, z)
      BY <1>2, <1>3 DEF Holds
    <2>3. ASSUME NEW c \in Child \ {0} PROVE Joins(c, z, z, z, z)
      <3>1. c - 1 \in Child
        BY Indexes
      <3> QED
        BY <1>2, <1>3, <3>1 DEF Joins
    <2> QED
      BY <2>1, <2>2, <2>3 DEF Cut
  <1> QED
    BY <1>1, <1>5, OrderInit DEF PInv, Cuts

LEMMA PNext == PInv /\ [ProxyNext]_proxyVars => PInv'
  <1> SUFFICES ASSUME PInv, [ProxyNext]_proxyVars PROVE PInv'
    OBVIOUS
  <1>1. CASE ParentStep
    BY <1>1, ParentStepInv
  <1>2. CASE ForkFails
    BY <1>2, ForkFailsInv
  <1>3. CASE ChildReadFile
    BY <1>3, ReadFileInv
  <1>4. CASE ChildWriteFile
    BY <1>4, WriteFileInv
  <1>5. ASSUME NEW c \in Child, ChildStep(c) PROVE PInv'
    BY <1>5, ChildReadInv, EofInv, ChildWriteInv, BrokenInv DEF ChildStep
  <1>6. ASSUME NEW c \in Child, KillChild(c) PROVE PInv'
    BY <1>6, KillChildInv
  <1>7. CASE KillParent
    BY <1>7, KillParentInv
  <1>8. CASE Ended \/ UNCHANGED proxyVars
    BY <1>8, PStutter DEF Ended
  <1> QED
    BY <1>1, <1>2, <1>3, <1>4, <1>5, <1>6, <1>7, <1>8 DEF ProxyNext

-----------------------------------------------------------------------------
(* What the invariant comes to.                                            *)

(* With nobody lost, the line above child k is the file from where child k  *)
(* has written to: by induction along the line.                             *)
LEMMA LineIsRest ==
  ASSUME PInv, kills = 0, NEW m \in [Child -> Places], NEW t \in [Child -> Places],
         NEW b \in [Child -> Places], NEW f \in [Child -> Places], Cut(m, t, b, f)
  PROVE  \A k \in Child : Line[k] = Segment(m[k], Len(Source))
  <1> DEFINE Wrong == {k \in Child : Line[k] # Segment(m[k], Len(Source))}
  <1> SUFFICES ASSUME Wrong # {} PROVE FALSE
    OBVIOUS
  <1>1. Wrong \in SUBSET Nat
    BY Indexes
  <1> HIDE DEF Wrong
  <1>2. PICK k \in Wrong : \A y \in Wrong : k <= y
    BY <1>1, LeastElement
  <1> USE DEF Wrong
  <1>3. k \in Child /\ Line[k] # Segment(m[k], Len(Source)) /\ k \in Nat
    BY <1>2, Indexes
  <1>4. /\ m[k] \in Places /\ t[k] \in Places /\ m[k] <= t[k] /\ Len(Source) \in Places
        /\ t[k] <= Len(Source) /\ child[k].mem = Segment(m[k], t[k])
    BY <1>3, CutNumbers, FileEnd DEF Cut, Holds
  <1>5. CASE k = 0
    <2>1. Line[0] = child[0].mem \o left /\ left = Segment(t[0], Len(Source))
      BY LineIs DEF Cut, Ends
    <2>2. Segment(m[k], t[k]) \o Segment(t[k], Len(Source)) = Segment(m[k], Len(Source))
      BY <1>4, SegmentJoin
    <2> QED
      BY <1>3, <1>4, <1>5, <2>1, <2>2
  <1>6. CASE k # 0
    <2>1. k \in Child \ {0} /\ k - 1 \in Child /\ k - 1 \notin Wrong
      <3>1. k \in Child \ {0} /\ k - 1 \in Child
        BY <1>3, <1>6, Indexes
      <3>2. ~(k <= k - 1)
        BY <1>3
      <3> HIDE DEF Wrong
      <3> QED
        BY <1>2, <3>1, <3>2
    <2>2. Line[k - 1] = Segment(m[k - 1], Len(Source))
      BY <2>1
    <2>3. /\ b[k] \in Places /\ f[k] \in Places /\ m[k - 1] \in Places
          /\ t[k] \in Nat /\ b[k] \in Nat /\ f[k] \in Nat /\ m[k - 1] \in Nat /\ m[k] \in Nat /\ Len(Source) \in Nat
          /\ t[k] <= b[k] /\ b[k] <= f[k] /\ f[k] <= m[k - 1] /\ m[k - 1] <= Len(Source)
          /\ to[k] = Segment(t[k], b[k]) /\ buff[k] = Segment(b[k], f[k])
          /\ from[k - 1] = Segment(f[k], m[k - 1])
      BY <2>1, CutNumbers, FileEnd DEF Cut, Joins
    <2>4. m[k] <= b[k] /\ m[k] <= f[k] /\ m[k] <= m[k - 1]
      BY <1>4, <2>3
    <2>5. /\ Segment(m[k], t[k]) \o Segment(t[k], b[k]) = Segment(m[k], b[k])
          /\ Segment(m[k], b[k]) \o Segment(b[k], f[k]) = Segment(m[k], f[k])
      BY <1>4, <2>3, <2>4, SegmentJoin
    <2>6. /\ Segment(m[k], f[k]) \o Segment(f[k], m[k - 1]) = Segment(m[k], m[k - 1])
          /\ Segment(m[k], m[k - 1]) \o Segment(m[k - 1], Len(Source)) = Segment(m[k], Len(Source))
      BY <1>4, <2>3, <2>4, SegmentJoin
    <2>7. Line[k] = Behind(k) \o Line[k - 1]
      BY <2>1, LineIs
    <2>8. Behind(k) = Segment(m[k], m[k - 1])
      BY <1>4, <2>3, <2>5, <2>6 DEF Behind
    <2> QED
      BY <1>3, <2>2, <2>6, <2>7, <2>8
  <1> QED
    BY <1>5, <1>6

LEMMA StreamWhole == PInv => StreamIsWhole
  <1> SUFFICES ASSUME PInv PROVE StreamIsWhole
    OBVIOUS
  <1>0. PICK m, t, b, f \in [Child -> Places] : Cut(m, t, b, f)
    BY DEF PInv, Cuts
  <1>1. /\ n - 1 \in Child /\ m[n - 1] \in Places /\ m[n - 1] \in Nat /\ 0 \in Places /\ Len(Source) \in Places
        /\ m[n - 1] <= Len(Source) /\ 0 <= m[n - 1] /\ dest = Segment(0, m[n - 1])
    <2>1. n - 1 \in Child /\ dest = Segment(0, m[n - 1])
      BY <1>0, Indexes DEF Cut, Ends
    <2>2. m[n - 1] \in Places /\ m[n - 1] \in Nat /\ m[n - 1] <= Len(Source)
      BY <2>1, CutNumbers
    <2> QED
      BY <2>1, <2>2, FileEnd
  <1>2. dest = SubSeq(Source, 1, Len(dest))
    <2>1. Len(dest) = m[n - 1]
      BY <1>1, SegmentIs
    <2> QED
      BY <1>1, <2>1 DEF Segment
  <1>3. ASSUME kills = 0 PROVE dest \o Line[n - 1] = Source
    <2>1. Line[n - 1] = Segment(m[n - 1], Len(Source))
      BY <1>0, <1>1, <1>3, LineIsRest
    <2>2. Segment(0, m[n - 1]) \o Segment(m[n - 1], Len(Source)) = Segment(0, Len(Source))
      BY <1>1, SegmentJoin
    <2>3. Segment(0, Len(Source)) = Source
      BY ConstantsAre DEF Segment
    <2> QED
      BY <1>1, <2>1, <2>2, <2>3
  <1> QED
    BY <1>2, <1>3 DEF StreamIsWhole

LEMMA ClosedInOrder == PInv => ClosedMeansDrained
  <1> SUFFICES ASSUME PInv, NEW k \in 1..n - 1, pc \notin {"fork", "gone"}, ~w_fd[k]
               PROVE  ~Running(k - 1) /\ from[k - 1] = <<>> /\ buff[k] = <<>>
    BY DEF ClosedMeansDrained
  <1>1. /\ ~r_fd[k] => ~Running(k - 1) /\ from[k - 1] = <<>>
        /\ ~w_fd[k] => ~r_fd[k] /\ buff[k] = <<>>
    BY DEF PInv, Order, Closed
  <1> QED
    BY <1>1

(* When everybody has returned and nobody was lost, the file is there.      *)
WholeAtEnd == AllGone /\ kills = 0 => dest = Source

LEMMA WholeWhenGone == PInv => WholeAtEnd
  <1> SUFFICES ASSUME PInv, AllGone, kills = 0 PROVE dest = Source
    BY DEF WholeAtEnd
  <1>0. PICK m, t, b, f \in [Child -> Places] : Cut(m, t, b, f)
    BY DEF PInv, Cuts
  <1>1. dest = Segment(0, m[n - 1]) /\ m[n - 1] = Len(Source)
    BY <1>0, Indexes DEF Cut, Ends, Holds, AllGone
  <1> QED
    BY <1>1, ConstantsAre DEF Segment

-----------------------------------------------------------------------------
(* The order of bytes and of closed ends above holds in every state. *)
THEOREM ProxyInvariantHolds == ProxySpec => []PInv
  <1> QED
    BY PInit, PNext, PTL DEF ProxySpec

(* ProxyInv of serv.c: whoever dies, what reached the destination is the    *)
(* beginning of the file; with nobody lost no byte is lost, repeated or     *)
(* swapped; end of file is told in order; and what select reported is still *)
(* so when it is used.                                                      *)
THEOREM ProxyIsSafe == ProxySpec => []ProxyInv
  <1>1. PInv => ProxyInv
    BY StreamWhole, ClosedInOrder DEF PInv, Order, Types, Reported, ReportedStaysReady, ProxyInv
  <1> QED
    BY <1>1, ProxyInvariantHolds, PTL

(* The safety half of FileCopied: when all processes have returned without  *)
(* a loss, the destination is the source.                                   *)
THEOREM ProxyCopiesFile == ProxySpec => []WholeAtEnd
  <1> QED
    BY WholeWhenGone, ProxyInvariantHolds, PTL
=============================================================================
