----------------------------- MODULE DriverProofs -----------------------------
(***************************************************************************)
(* Proofs about the two Windows drivers.  viponMouse.c: any reports of the *)
(* mouse, any size of the class driver's queue, arrays cut anyhow and a    *)
(* removal at any time.  kLogger: any finite set of writers, each at any   *)
(* level, any sizes, lengths and numbers of messages.                      *)
(***************************************************************************)
EXTENDS KLog, MouseFilter, SequenceTheorems, FiniteSetTheorems, TLAPS

-----------------------------------------------------------------------------
(* viponMouse.c *)
Entry == [no : 1..Len(Source), y : Int]

(* A report as the mouse made it, and with its Y axis turned around. *)
Raw(m) == [no |-> m, y |-> Source[m].y]
Turned(m) == Inverted(Raw(m))

(* What the reader is to get, what the class driver holds, and what waits in the
   port driver's queue: below the class driver each offer turns it once more. *)
Final(m) == IF place = "below" /\ refused[m] = 1 THEN Raw(m) ELSE Turned(m)
Given(m) == IF place = "above" THEN Raw(m) ELSE Final(m)
Waiting(m) == IF place = "below" /\ refused[m] = 1 THEN Turned(m) ELSE Raw(m)

(* The reports in the order of the mouse, over the four places where they are. *)
BeforeClass == Len(received) + Len(systemBuffer)
BeforePort == BeforeClass + Len(classQueue)

AllThere ==
  /\ BeforePort + Len(portQueue) = reported
  /\ \A k \in 1..Len(received) : received[k] = Final(k)
  /\ \A k \in 1..Len(systemBuffer) :
       systemBuffer[k] = IF read = "completing" THEN Given(Len(received) + k)
                         ELSE Final(Len(received) + k)
  /\ \A k \in 1..Len(classQueue) : classQueue[k] = Given(BeforeClass + k)
  /\ \A k \in 1..Len(portQueue) :
       portQueue[k] = IF dpc = "class" /\ k <= offered THEN Given(BeforePort + k)
                      ELSE Waiting(BeforePort + k)

(* The place in the stack decides who calls the filter, and from where. *)
Stack ==
  /\ place = "below" => service # "class" /\ read \notin {"entered", "routine", "completing", "lost"}
  /\ place = "above" => service # "filter" /\ dpc # "filter" /\ read # "plain"
  /\ service = "filter" => upperConnectData = "class"
  /\ dpc # "idle" => service # "none"
  /\ dpc = "idle" => offered = 0
  /\ read \notin {"completing", "complete"} => systemBuffer = <<>>

(* The removal: the device is deleted at its end, and nothing is below the filter
   from the lower drivers' return on. *)
Removal ==
  /\ remove = "done" <=> dev = "deleted"
  /\ remove # "none" => dev \in {"attached", "deleted"}
  /\ remove \in {"stopped", "done"} =>
       dpc = "idle" /\ read \notin {"routine", "completing"} /\ passing # "below"

History ==
  /\ refused \in [DOMAIN Source -> {0, 1}]
  /\ \A m \in DOMAIN Source : m > reported => refused[m] = 0

Fields ==
  /\ received \in Seq(Entry) /\ systemBuffer \in Seq(Entry)
  /\ classQueue \in Seq(Entry) /\ portQueue \in Seq(Entry)

States == MouseTypeOK /\ Fields
MInv == States /\ Stack /\ Removal /\ History /\ AllThere

-----------------------------------------------------------------------------
LEMMA Reports ==
  /\ MaxY \in Nat /\ Room \in Nat \ {0} /\ Len(Source) \in Nat /\ DOMAIN Source = 1..Len(Source)
  /\ \A m \in 1..Len(Source) : Source[m].absolute \in BOOLEAN /\ Source[m].y \in Int
  <1> DEFINE R == [absolute : BOOLEAN, y : Int]
  <1>1. Source \in Seq(R)
    BY ReportAssumption
  <1> HIDE DEF R
  <1>2. Len(Source) \in Nat /\ DOMAIN Source = 1..Len(Source) /\ \A m \in 1..Len(Source) : Source[m] \in R
    BY <1>1
  <1>3. \A m \in 1..Len(Source) : Source[m].absolute \in BOOLEAN /\ Source[m].y \in Int
    BY <1>2 DEF R
  <1> QED
    BY <1>2, <1>3, ReportAssumption

(* Turning is its own inverse, and keeps the number. *)
LEMMA TurnedTwice ==
  ASSUME NEW m \in 1..Len(Source)
  PROVE  /\ Raw(m) \in Entry /\ Turned(m) \in Entry
         /\ Raw(m).no = m /\ Turned(m).no = m
         /\ Inverted(Raw(m)) = Turned(m) /\ Inverted(Turned(m)) = Raw(m)
  <1> DEFINE y == Source[m].y
             flip == IF Source[m].absolute THEN MaxY - y ELSE -y
  <1>1. y \in Int /\ MaxY \in Int
    BY Reports
  <1>2. flip \in Int /\ (IF Source[m].absolute THEN MaxY - flip ELSE -flip) = y
    BY <1>1
  <1>3. Raw(m) = [no |-> m, y |-> y]
    BY DEF Raw
  <1> HIDE DEF y
  <1>4. Turned(m) = [no |-> m, y |-> flip] /\ Inverted(Raw(m)) = Turned(m)
    BY <1>3 DEF Turned, Inverted
  <1> HIDE DEF flip
  <1>5. Inverted(Turned(m)) = [no |-> m, y |-> IF Source[m].absolute THEN MaxY - flip ELSE -flip]
    BY <1>4 DEF Inverted
  <1> QED
    BY <1>1, <1>2, <1>3, <1>4, <1>5 DEF Entry

LEMMA InvertedAll ==
  ASSUME NEW s \in Seq(Entry), NEW c \in Int
  PROVE  /\ InvertAll(s, c) \in Seq(Entry) /\ Len(InvertAll(s, c)) = Len(s)
         /\ \A k \in 1..Len(s) : InvertAll(s, c)[k] = IF k <= c THEN Inverted(s[k]) ELSE s[k]
  <1>1. \A e \in Entry : Inverted(e) \in Entry
    BY Reports DEF Inverted, Entry
  <1>2. DOMAIN s = 1..Len(s) /\ \A k \in 1..Len(s) : s[k] \in Entry
    OBVIOUS
  <1> DEFINE t == [k \in 1..Len(s) |-> IF k <= c THEN Inverted(s[k]) ELSE s[k]]
  <1>3. \A k \in 1..Len(s) : t[k] \in Entry
    BY <1>1, <1>2
  <1>4. t \in Seq(Entry) /\ Len(t) = Len(s)
    BY <1>3
  <1> QED
    BY <1>2, <1>4 DEF InvertAll

LEMMA CutInTwo ==
  ASSUME NEW s \in Seq(Entry), NEW c \in 0..Len(s)
  PROVE  /\ SubSeq(s, 1, c) \in Seq(Entry) /\ Len(SubSeq(s, 1, c)) = c
         /\ \A k \in 1..c : SubSeq(s, 1, c)[k] = s[k]
         /\ SubSeq(s, c + 1, Len(s)) \in Seq(Entry) /\ Len(SubSeq(s, c + 1, Len(s))) = Len(s) - c
         /\ \A k \in 1..Len(s) - c : SubSeq(s, c + 1, Len(s))[k] = s[c + k]
  <1>1. \A k \in 1..Len(s) : s[k] \in Entry
    OBVIOUS
  <1>2. c \in Int /\ Len(s) \in Int /\ \A k \in 1..c : s[k] \in Entry
    BY <1>1
  <1>3. \A k \in c + 1..Len(s) : s[k] \in Entry
    BY <1>1
  <1>4. /\ SubSeq(s, 1, c) \in Seq(Entry) /\ Len(SubSeq(s, 1, c)) = IF 1 <= c THEN c - 1 + 1 ELSE 0
        /\ \A k \in 1..c - 1 + 1 : SubSeq(s, 1, c)[k] = s[1 + k - 1]
    BY <1>2, SubSeqProperties
  <1>5. /\ SubSeq(s, c + 1, Len(s)) \in Seq(Entry)
        /\ Len(SubSeq(s, c + 1, Len(s))) = IF c + 1 <= Len(s) THEN Len(s) - (c + 1) + 1 ELSE 0
        /\ \A k \in 1..Len(s) - (c + 1) + 1 : SubSeq(s, c + 1, Len(s))[k] = s[c + 1 + k - 1]
    BY <1>2, <1>3, SubSeqProperties
  <1> QED
    BY <1>2, <1>4, <1>5

LEMMA Joined ==
  ASSUME NEW s \in Seq(Entry), NEW t \in Seq(Entry)
  PROVE  /\ s \o t \in Seq(Entry) /\ Len(s \o t) = Len(s) + Len(t)
         /\ \A k \in 1..Len(s) : (s \o t)[k] = s[k]
         /\ \A k \in Len(s) + 1 .. Len(s) + Len(t) : (s \o t)[k] = t[k - Len(s)]
  BY ConcatProperties

(* Every value has its number; the filter makes what is to be got of what is
   given to it, at either place. *)
LEMMA ValuesAt ==
  ASSUME NEW m \in 1..Len(Source), place \in {"below", "above"}
  PROVE  /\ Final(m) \in Entry /\ Given(m) \in Entry /\ Waiting(m) \in Entry
         /\ Final(m).no = m /\ Given(m).no = m /\ Waiting(m).no = m
         /\ place = "below" => Given(m) = Final(m) /\ Inverted(Waiting(m)) = Given(m)
         /\ place = "above" => Given(m) = Raw(m) /\ Waiting(m) = Raw(m) /\ Inverted(Given(m)) = Final(m)
  BY TurnedTwice DEF Final, Given, Waiting

-----------------------------------------------------------------------------
LEMMA MouseInvInit == MouseInit => MInv
  <1> SUFFICES ASSUME MouseInit PROVE MInv
    OBVIOUS
  <1>1. States
    <2>1. MouseTypeOK
      BY Reports DEF MouseInit, MouseTypeOK
    <2>2. Fields
      <3>1. <<>> \in Seq(Entry)
        OBVIOUS
      <3> HIDE DEF Entry
      <3> QED
        BY <3>1 DEF MouseInit, Fields
    <2> QED
      BY <2>1, <2>2 DEF States
  <1>2. Stack /\ Removal
    BY DEF MouseInit, Stack, Removal
  <1>3. History
    BY DEF MouseInit, History
  <1>4. AllThere
    BY DEF MouseInit, AllThere, BeforePort, BeforeClass
  <1> QED
    BY <1>1, <1>2, <1>3, <1>4 DEF MInv

(* Actions that move no report. *)
StandStill ==
  UNCHANGED <<place, received, systemBuffer, classQueue, portQueue, reported, dpc, offered, refused>>

Lengths == Len(received) \in Nat /\ Len(systemBuffer) \in Nat /\ Len(classQueue) \in Nat
           /\ Len(portQueue) \in Nat /\ BeforeClass \in Nat /\ BeforePort \in Nat
           /\ reported \in Nat /\ reported <= Len(Source)

LEMMA LengthsKnown ==
  ASSUME MInv
  PROVE  Lengths
  BY Reports DEF MInv, States, MouseTypeOK, Fields, Lengths, BeforeClass, BeforePort

LEMMA StandStillKeeps ==
  ASSUME MInv, StandStill, read' = read \/ systemBuffer = <<>>
  PROVE  AllThere' /\ History'
  <1>1. History'
    BY DEF MInv, History, StandStill
  <1>2. AllThere'
    BY LengthsKnown DEF MInv, AllThere, StandStill, BeforePort, BeforeClass, Final, Given, Waiting, Lengths
  <1> QED
    BY <1>1, <1>2

(* The mouse moves: the report is the last in the port driver's queue. *)
LEMMA ReportKeeps ==
  ASSUME MInv, Report
  PROVE  States' /\ History' /\ AllThere'
  <1> DEFINE m == reported + 1
             e == [no |-> m, y |-> Source[m].y]
  <1>a. Lengths /\ m \in 1..Len(Source) /\ refused[m] = 0
    BY LengthsKnown, Reports DEF MInv, Lengths, History, Report
  <1>b. e = Raw(m) /\ e \in Entry /\ e = Waiting(m)
    BY <1>a, Reports DEF Raw, Entry, Waiting
  <1> HIDE DEF e
  <1>c. portQueue' = Append(portQueue, e) /\ portQueue \in Seq(Entry) /\ reported' = m
        /\ offered \in 0..Len(portQueue)
    BY DEF Report, MInv, States, Fields, MouseTypeOK, e
  <1>d. /\ portQueue' \in Seq(Entry) /\ Len(portQueue') = Len(portQueue) + 1
        /\ portQueue'[Len(portQueue) + 1] = e
        /\ \A k \in 1..Len(portQueue) : portQueue'[k] = portQueue[k]
    BY <1>b, <1>c
  <1>1. States'
    BY <1>a, <1>c, <1>d DEF MInv, States, Fields, MouseTypeOK, Report, class, reader, requests, Lengths
  <1>2. History'
    BY <1>a, <1>c DEF MInv, History, Report, class, Lengths
  <1>3. /\ BeforePort' = BeforePort /\ BeforeClass' = BeforeClass
        /\ \A k : Final(k)' = Final(k) /\ Given(k)' = Given(k) /\ Waiting(k)' = Waiting(k)
    BY DEF Report, class, reader, BeforePort, BeforeClass, Final, Given, Waiting
  <1>4. BeforePort + Len(portQueue) = reported /\ BeforePort + (Len(portQueue) + 1) = m
    BY <1>a DEF MInv, AllThere, Lengths
  <1>5. ASSUME NEW k \in 1..Len(portQueue')
        PROVE  portQueue'[k] = IF dpc' = "class" /\ k <= offered' THEN Given(BeforePort + k)
                               ELSE Waiting(BeforePort + k)
    <2>1. CASE k <= Len(portQueue)
      BY <1>a, <1>d, <2>1 DEF MInv, AllThere, Report, Lengths
    <2>2. CASE k = Len(portQueue) + 1
      BY <1>a, <1>b, <1>c, <1>d, <1>4, <2>2 DEF Report, Lengths
    <2> QED
      BY <1>a, <1>d, <2>1, <2>2 DEF Lengths
  <1>6. AllThere'
    BY <1>a, <1>c, <1>d, <1>3, <1>4, <1>5 DEF MInv, AllThere, Report, class, reader, Lengths
  <1> QED
    BY <1>1, <1>2, <1>6

(* A call of the callback: what was queued is offered. *)
LEMMA OfferKeeps ==
  ASSUME MInv, Offer
  PROVE  States' /\ History' /\ AllThere'
  <1>a. Lengths
    BY LengthsKnown
  <1>1. States'
    BY <1>a DEF MInv, States, Fields, MouseTypeOK, Offer, class, reader, requests, Lengths
  <1>2. History'
    BY DEF MInv, History, Offer, class
  <1>3. /\ BeforePort' = BeforePort /\ BeforeClass' = BeforeClass
        /\ \A k : Final(k)' = Final(k) /\ Given(k)' = Given(k) /\ Waiting(k)' = Waiting(k)
    BY DEF Offer, class, reader, BeforePort, BeforeClass, Final, Given, Waiting
  <1>4. ASSUME NEW k \in 1..Len(portQueue)
        PROVE  portQueue[k] = IF dpc' = "class" /\ k <= offered' THEN Given(BeforePort + k)
                              ELSE Waiting(BeforePort + k)
    <2>1. portQueue[k] = Waiting(BeforePort + k)
      BY DEF MInv, AllThere, Offer
    <2>2. dpc' = "class" => place = "above"
      BY DEF MInv, Stack, Offer, States, MouseTypeOK
    <2>3. BeforePort + k \in 1..Len(Source)
      BY <1>a DEF MInv, AllThere, Lengths
    <2> QED
      BY <2>1, <2>2, <2>3, ValuesAt DEF MInv, States, MouseTypeOK
  <1>5. AllThere'
    BY <1>a, <1>3, <1>4 DEF MInv, AllThere, Offer, class, reader
  <1> QED
    BY <1>1, <1>2, <1>5

(* The filter turns what is offered, where it lies. *)
LEMMA CallbackKeeps ==
  ASSUME MInv, FilterServiceCallback
  PROVE  States' /\ History' /\ AllThere'
  <1>a. Lengths /\ offered \in 0..Len(portQueue) /\ portQueue \in Seq(Entry) /\ place = "below"
        /\ upperConnectData = "class" /\ dpc = "filter"
    BY LengthsKnown DEF MInv, States, Fields, MouseTypeOK, Stack, FilterServiceCallback
  <1>b. /\ portQueue' \in Seq(Entry) /\ Len(portQueue') = Len(portQueue)
        /\ \A k \in 1..Len(portQueue) :
             portQueue'[k] = IF k <= offered THEN Inverted(portQueue[k]) ELSE portQueue[k]
    BY <1>a, InvertedAll DEF FilterServiceCallback
  <1>1. States'
    BY <1>a, <1>b DEF MInv, States, Fields, MouseTypeOK, FilterServiceCallback, class, reader, requests
  <1>2. History'
    BY DEF MInv, History, FilterServiceCallback, class
  <1>3. /\ BeforePort' = BeforePort /\ BeforeClass' = BeforeClass
        /\ \A k : Final(k)' = Final(k) /\ Given(k)' = Given(k) /\ Waiting(k)' = Waiting(k)
    BY DEF FilterServiceCallback, class, reader, BeforePort, BeforeClass, Final, Given, Waiting
  <1>4. ASSUME NEW k \in 1..Len(portQueue)
        PROVE  portQueue'[k] = IF k <= offered THEN Given(BeforePort + k) ELSE Waiting(BeforePort + k)
    <2>1. portQueue[k] = Waiting(BeforePort + k)
      BY <1>a DEF MInv, AllThere
    <2>2. BeforePort + k \in 1..Len(Source)
      BY <1>a DEF MInv, AllThere, Lengths
    <2>3. Inverted(Waiting(BeforePort + k)) = Given(BeforePort + k)
      BY <1>a, <2>2, ValuesAt
    <2> QED
      BY <1>b, <2>1, <2>3
  <1>5. AllThere'
    BY <1>a, <1>b, <1>3, <1>4 DEF MInv, AllThere, FilterServiceCallback, class, reader
  <1> QED
    BY <1>1, <1>2, <1>5

(* The class driver takes some of what is offered; the rest has been turned once
   more than it was given. *)
LEMMA ClassKeeps ==
  ASSUME MInv, ClassService
  PROVE  States' /\ History' /\ AllThere'
  <1> DEFINE free == Room - Len(classQueue)
             taken == IF free < offered THEN free ELSE offered
             base == BeforePort
             Left(m) == m \in base + taken + 1 .. base + offered
  <1>a. Lengths /\ offered \in 0..Len(portQueue) /\ portQueue \in Seq(Entry) /\ classQueue \in Seq(Entry)
        /\ dpc = "class" /\ Len(classQueue) <= Room /\ place \in {"below", "above"} /\ offered \in Nat
    BY LengthsKnown DEF MInv, States, Fields, MouseTypeOK, ClassService, Lengths
  <1>b. taken \in 0..Len(portQueue) /\ taken <= offered /\ Len(classQueue) + taken <= Room /\ taken \in Nat
    BY <1>a, Reports DEF Lengths
  <1>c. /\ classQueue' = classQueue \o SubSeq(portQueue, 1, taken)
        /\ portQueue' = SubSeq(portQueue, taken + 1, Len(portQueue))
        /\ refused' = [m \in DOMAIN Source |->
             IF \E j \in taken + 1 .. offered : portQueue[j].no = m THEN 1 - refused[m] ELSE refused[m]]
        /\ dpc' = "idle" /\ offered' = 0
        /\ UNCHANGED <<place, dev, upperConnectData, service, reported, reader, requests>>
    BY DEF ClassService
  <1> HIDE DEF taken
  <1>d. \A j \in 1..Len(portQueue) :
          /\ base + j \in 1..Len(Source)
          /\ portQueue[j] = IF j <= offered THEN Given(base + j) ELSE Waiting(base + j)
          /\ portQueue[j].no = base + j
    <2>1. \A j \in 1..Len(portQueue) : base + j \in 1..Len(Source)
      BY <1>a DEF MInv, AllThere, Lengths
    <2>2. \A j \in 1..Len(portQueue) :
            portQueue[j] = IF j <= offered THEN Given(base + j) ELSE Waiting(base + j)
      BY <1>a DEF MInv, AllThere
    <2> QED
      BY <1>a, <2>1, <2>2, ValuesAt
  <1>e. \A m \in 1..Len(Source) : refused'[m] = IF Left(m) THEN 1 - refused[m] ELSE refused[m]
    <2> SUFFICES ASSUME NEW m \in 1..Len(Source)
                 PROVE  (\E j \in taken + 1 .. offered : portQueue[j].no = m) <=> Left(m)
      BY <1>c, Reports
    <2>1. ASSUME NEW j \in taken + 1 .. offered PROVE portQueue[j].no = base + j
      BY <1>a, <1>b, <1>d
    <2>2. ASSUME Left(m) PROVE m - base \in taken + 1 .. offered /\ base + (m - base) = m
      BY <1>a, <1>b, <2>2 DEF Lengths
    <2>3. ASSUME NEW j \in taken + 1 .. offered, base + j = m PROVE Left(m)
      BY <1>a, <1>b, <2>3 DEF Lengths
    <2> QED
      BY <2>1, <2>2, <2>3
  <1>f. \A m \in 1..Len(Source) : refused[m] \in {0, 1}
    BY Reports DEF MInv, History
  <1>g. \A m \in 1..Len(Source) :
          /\ ~Left(m) => Final(m)' = Final(m) /\ Given(m)' = Given(m) /\ Waiting(m)' = Waiting(m)
          /\ Left(m) => Waiting(m)' = Given(m)
    <2> SUFFICES ASSUME NEW m \in 1..Len(Source)
                 PROVE  /\ ~Left(m) => Final(m)' = Final(m) /\ Given(m)' = Given(m) /\ Waiting(m)' = Waiting(m)
                        /\ Left(m) => Waiting(m)' = Given(m)
      OBVIOUS
    <2>1. place' = place /\ refused'[m] = (IF Left(m) THEN 1 - refused[m] ELSE refused[m]) /\ refused[m] \in {0, 1}
      BY <1>c, <1>e, <1>f
    <2> HIDE DEF Left
    <2> QED
      BY <1>a, <2>1 DEF Final, Given, Waiting
  <1>h. /\ Len(portQueue') = Len(portQueue) - taken /\ portQueue' \in Seq(Entry)
        /\ \A k \in 1..Len(portQueue) - taken : portQueue'[k] = portQueue[taken + k]
        /\ Len(classQueue') = Len(classQueue) + taken /\ classQueue' \in Seq(Entry)
        /\ \A k \in 1..Len(classQueue) : classQueue'[k] = classQueue[k]
        /\ \A k \in Len(classQueue) + 1 .. Len(classQueue) + taken : classQueue'[k] = portQueue[k - Len(classQueue)]
    <2>1. /\ SubSeq(portQueue, 1, taken) \in Seq(Entry) /\ Len(SubSeq(portQueue, 1, taken)) = taken
          /\ \A k \in 1..taken : SubSeq(portQueue, 1, taken)[k] = portQueue[k]
          /\ portQueue' \in Seq(Entry) /\ Len(portQueue') = Len(portQueue) - taken
          /\ \A k \in 1..Len(portQueue) - taken : portQueue'[k] = portQueue[taken + k]
      BY <1>a, <1>b, <1>c, CutInTwo
    <2> DEFINE cut == SubSeq(portQueue, 1, taken)
    <2> HIDE DEF cut
    <2>2. classQueue' = classQueue \o cut /\ cut \in Seq(Entry) /\ Len(cut) = taken
          /\ \A k \in 1..taken : cut[k] = portQueue[k]
      BY <1>c, <2>1 DEF cut
    <2>3. /\ Len(classQueue') = Len(classQueue) + taken /\ classQueue' \in Seq(Entry)
          /\ \A k \in 1..Len(classQueue) : classQueue'[k] = classQueue[k]
          /\ \A k \in Len(classQueue) + 1 .. Len(classQueue) + taken : classQueue'[k] = cut[k - Len(classQueue)]
      BY <1>a, <2>2, Joined
    <2>4. \A k \in Len(classQueue) + 1 .. Len(classQueue) + taken : k - Len(classQueue) \in 1..taken
      BY <1>a, <1>b DEF Lengths
    <2> QED
      BY <2>1, <2>2, <2>3, <2>4
  <1>m. Len(portQueue') = Len(portQueue) - taken /\ Len(classQueue') = Len(classQueue) + taken
    BY <1>h
  <1>p. /\ received' = received /\ systemBuffer' = systemBuffer /\ read' = read /\ reported' = reported
        /\ BeforeClass' = BeforeClass /\ BeforePort' = base + taken
    <2>1. received' = received /\ systemBuffer' = systemBuffer /\ read' = read /\ reported' = reported
      BY <1>c DEF reader
    <2>2. BeforeClass' = BeforeClass
      BY <2>1 DEF BeforeClass
    <2>3. BeforePort' = BeforeClass' + Len(classQueue') /\ BeforePort = BeforeClass + Len(classQueue)
      BY DEF BeforePort
    <2> QED
      BY <1>a, <1>b, <1>m, <2>1, <2>2, <2>3 DEF Lengths
  <1>j. BeforePort = BeforeClass + Len(classQueue) /\ BeforeClass = Len(received) + Len(systemBuffer)
        /\ base + Len(portQueue) = reported
    BY DEF BeforePort, BeforeClass, MInv, AllThere
  <1>1. States'
    BY <1>a, <1>b, <1>c, <1>h DEF MInv, States, Fields, MouseTypeOK, reader, requests, Lengths
  <1>2. History'
    <2>1. refused' \in [DOMAIN Source -> {0, 1}]
      BY <1>c, <1>f, Reports
    <2>2. ASSUME NEW m \in 1..Len(Source), m > reported PROVE refused'[m] = 0
      <3>1. ~Left(m)
        BY <1>a, <1>b, <1>j, <2>2 DEF Lengths
      <3> QED
        BY <1>e, <2>2, <3>1, Reports DEF MInv, History
    <2> QED
      BY <1>p, <2>1, <2>2, Reports DEF History
  <1> HIDE DEF base
  <1> USE DEF Lengths
  <1>3. \A k \in 1..Len(received) : received[k] = Final(k)'
    <2> SUFFICES ASSUME NEW k \in 1..Len(received) PROVE received[k] = Final(k)'
      OBVIOUS
    <2>1. k \in 1..Len(Source) /\ ~Left(k)
      BY <1>a, <1>b, <1>j DEF base
    <2> QED
      BY <1>g, <2>1 DEF MInv, AllThere
  <1>4. \A k \in 1..Len(systemBuffer) :
          systemBuffer[k] = IF read = "completing" THEN Given(Len(received) + k)' ELSE Final(Len(received) + k)'
    <2> SUFFICES ASSUME NEW k \in 1..Len(systemBuffer)
                 PROVE  systemBuffer[k] = IF read = "completing" THEN Given(Len(received) + k)'
                                          ELSE Final(Len(received) + k)'
      OBVIOUS
    <2>1. Len(received) + k \in 1..Len(Source) /\ ~Left(Len(received) + k)
      BY <1>a, <1>b, <1>j DEF base
    <2>2. Final(Len(received) + k)' = Final(Len(received) + k) /\ Given(Len(received) + k)' = Given(Len(received) + k)
      BY <1>g, <1>p, <2>1
    <2> QED
      BY <2>2 DEF MInv, AllThere
  <1>5. \A k \in 1..Len(classQueue') : classQueue'[k] = Given(BeforeClass + k)'
    <2> SUFFICES ASSUME NEW k \in 1..Len(classQueue') PROVE classQueue'[k] = Given(BeforeClass + k)'
      OBVIOUS
    <2>1. BeforeClass + k \in 1..Len(Source) /\ ~Left(BeforeClass + k) /\ k \in Nat
      BY <1>a, <1>b, <1>h, <1>j DEF base
    <2>2. Given(BeforeClass + k)' = Given(BeforeClass + k)
      BY <1>g, <1>p, <2>1
    <2>3. CASE k <= Len(classQueue)
      <3>1. k \in 1..Len(classQueue)
        BY <1>a, <2>1, <2>3
      <3>2. classQueue'[k] = classQueue[k] /\ classQueue[k] = Given(BeforeClass + k)
        BY <1>h, <3>1 DEF MInv, AllThere
      <3> QED
        BY <2>2, <3>2
    <2>4. CASE k > Len(classQueue)
      <3>1. k - Len(classQueue) \in 1..Len(portQueue) /\ k - Len(classQueue) <= offered
            /\ base + (k - Len(classQueue)) = BeforeClass + k
            /\ k \in Len(classQueue) + 1 .. Len(classQueue) + taken
        BY <1>a, <1>b, <1>m, <1>j, <2>1, <2>4 DEF base
      <3>2. classQueue'[k] = portQueue[k - Len(classQueue)]
        BY <1>h, <3>1
      <3> QED
        BY <1>d, <2>2, <3>1, <3>2
    <2> QED
      BY <1>a, <2>1, <2>3, <2>4
  <1>6. \A k \in 1..Len(portQueue') : portQueue'[k] = Waiting(BeforePort + k)'
    <2> SUFFICES ASSUME NEW k \in 1..Len(portQueue') PROVE portQueue'[k] = Waiting(BeforePort + k)'
      OBVIOUS
    <2>1. taken + k \in 1..Len(portQueue) /\ k \in 1..Len(portQueue) - taken /\ k \in Nat
      BY <1>a, <1>b, <1>m
    <2>2. portQueue'[k] = portQueue[taken + k]
      BY <1>h, <2>1
    <2>3. base + (taken + k) \in 1..Len(Source) /\ BeforePort' + k = base + (taken + k)
      <3>1. base \in Nat /\ taken \in Nat /\ k \in Nat /\ BeforePort' = base + taken
        BY <1>a, <1>b, <1>p, <2>1 DEF base
      <3>2. base + (taken + k) \in 1..Len(Source)
        BY <1>d, <2>1
      <3> HIDE DEF Lengths
      <3> QED
        BY <3>1, <3>2
    <2>4. Left(base + (taken + k)) <=> taken + k <= offered
      BY <1>a, <1>b, <2>1 DEF base
    <2>5. PICK m \in 1..Len(Source) : m = base + (taken + k)
      BY <2>3
    <2>6. portQueue[taken + k] = Waiting(m)'
      BY <1>d, <1>g, <2>1, <2>4, <2>5
    <2>7. Waiting(BeforePort + k)' = Waiting(m)'
      BY <2>3, <2>5
    <2> QED
      BY <2>2, <2>6, <2>7
  <1>7. AllThere'
    <2>1. BeforePort' + Len(portQueue') = reported'
      <3>1. base \in Nat /\ taken \in Nat /\ Len(portQueue) \in Nat
        BY <1>a, <1>b DEF base
      <3> QED
        BY <3>1, <1>m, <1>p, <1>j
    <2> QED
      BY <1>3, <1>4, <1>5, <1>6, <1>c, <1>p, <2>1 DEF AllThere
  <1> QED
    BY <1>1, <1>2, <1>7

(* A read is answered with what the class driver has had longest. *)
LEMMA CompleteKeeps ==
  ASSUME MInv, CompleteRead
  PROVE  States' /\ History' /\ AllThere'
  <1>a. Lengths /\ classQueue \in Seq(Entry) /\ systemBuffer = <<>> /\ place \in {"below", "above"}
        /\ received \in Seq(Entry)
        /\ (read = "routine" => place = "above") /\ (read = "plain" => place = "below")
        /\ Len(classQueue) <= Room /\ read \in {"routine", "plain"}
    BY LengthsKnown DEF MInv, States, Fields, MouseTypeOK, Stack, CompleteRead
  <1>b. PICK c \in 1..Len(classQueue) :
          systemBuffer' = SubSeq(classQueue, 1, c) /\ classQueue' = SubSeq(classQueue, c + 1, Len(classQueue))
    BY DEF CompleteRead
  <1>c. c \in 0..Len(classQueue)
    BY <1>b
  <1>d. /\ systemBuffer' \in Seq(Entry) /\ Len(systemBuffer') = c
        /\ \A k \in 1..c : systemBuffer'[k] = classQueue[k]
        /\ classQueue' \in Seq(Entry) /\ Len(classQueue') = Len(classQueue) - c
        /\ \A k \in 1..Len(classQueue) - c : classQueue'[k] = classQueue[c + k]
    BY <1>a, <1>b, <1>c, CutInTwo
  <1>e. /\ read' = (IF read = "routine" THEN "completing" ELSE "complete")
        /\ UNCHANGED <<place, received, portQueue, reported, dpc, offered, refused, dev, upperConnectData,
                       service, passing, remove>>
    BY DEF CompleteRead, port, requests
  <1>1. States'
    <2>1. Len(classQueue') <= Room
      BY <1>a, <1>c, <1>d, Reports DEF Lengths
    <2>2. MouseTypeOK'
      BY <1>a, <1>e, <2>1 DEF MInv, States, MouseTypeOK
    <2>3. Fields'
      BY <1>d, <1>e DEF MInv, States, Fields
    <2> QED
      BY <2>2, <2>3 DEF States
  <1>2. History'
    BY <1>e DEF MInv, History
  <1>3. \A k : Final(k)' = Final(k) /\ Given(k)' = Given(k) /\ Waiting(k)' = Waiting(k)
    BY <1>e DEF Final, Given, Waiting
  <1>m. Len(systemBuffer) = 0 /\ Len(systemBuffer') = c /\ Len(classQueue') = Len(classQueue) - c
        /\ c \in Nat /\ c <= Len(classQueue) /\ received' = received
    BY <1>a, <1>b, <1>d, <1>e
  <1>4. BeforeClass = Len(received) /\ BeforeClass' = BeforeClass + c /\ BeforePort' = BeforePort
    BY <1>a, <1>m DEF BeforeClass, BeforePort, Lengths
  <1>j. BeforePort = BeforeClass + Len(classQueue) /\ BeforePort + Len(portQueue) = reported
    BY DEF BeforePort, MInv, AllThere
  <1>5. ASSUME NEW k \in 1..Len(systemBuffer')
        PROVE  systemBuffer'[k] = IF read' = "completing" THEN Given(Len(received) + k) ELSE Final(Len(received) + k)
    <2>1. k \in 1..c /\ k \in 1..Len(classQueue) /\ Len(received) + k \in 1..Len(Source)
      BY <1>a, <1>m, <1>4, <1>j DEF Lengths
    <2>2. systemBuffer'[k] = Given(Len(received) + k)
      BY <1>d, <1>4, <2>1 DEF MInv, AllThere
    <2> QED
      BY <1>a, <1>e, <2>1, <2>2, ValuesAt
  <1>6. ASSUME NEW k \in 1..Len(classQueue')
        PROVE  classQueue'[k] = Given(BeforeClass + c + k)
    <2>1. k \in 1..Len(classQueue) - c /\ c + k \in 1..Len(classQueue) /\ BeforeClass + c + k = BeforeClass + (c + k)
      BY <1>a, <1>m DEF Lengths
    <2> QED
      BY <1>d, <2>1 DEF MInv, AllThere
  <1>7. AllThere'
    BY <1>3, <1>4, <1>5, <1>6, <1>e DEF MInv, AllThere
  <1> QED
    BY <1>1, <1>2, <1>7

(* The completion routine turns what comes up. *)
LEMMA CompletionKeeps ==
  ASSUME MInv, MouseFilterInvertorYCompletion
  PROVE  States' /\ History' /\ AllThere'
  <1>a. Lengths /\ systemBuffer \in Seq(Entry) /\ place = "above" /\ read = "completing"
        /\ read' = "complete" /\ place \in {"below", "above"}
        /\ UNCHANGED <<place, received, classQueue, portQueue, reported, dpc, offered, refused, dev,
                       upperConnectData, service, passing, remove>>
    BY LengthsKnown DEF MInv, States, Fields, MouseTypeOK, Stack, MouseFilterInvertorYCompletion,
                        port, class, requests
  <1>b. /\ systemBuffer' \in Seq(Entry) /\ Len(systemBuffer') = Len(systemBuffer)
        /\ \A k \in 1..Len(systemBuffer) : systemBuffer'[k] = Inverted(systemBuffer[k])
    <2>1. systemBuffer' = InvertAll(systemBuffer, Len(systemBuffer)) /\ Len(systemBuffer) \in Int
      BY <1>a DEF MouseFilterInvertorYCompletion
    <2> QED
      BY <1>a, <2>1, InvertedAll
  <1>1. States'
    BY <1>a, <1>b DEF MInv, States, Fields, MouseTypeOK
  <1>2. History'
    BY <1>a DEF MInv, History
  <1>3. /\ \A k : Final(k)' = Final(k) /\ Given(k)' = Given(k) /\ Waiting(k)' = Waiting(k)
        /\ BeforeClass' = BeforeClass /\ BeforePort' = BeforePort
    BY <1>a, <1>b DEF Final, Given, Waiting, BeforeClass, BeforePort
  <1>4. ASSUME NEW k \in 1..Len(systemBuffer)
        PROVE  systemBuffer'[k] = Final(Len(received) + k)
    <2>1. Len(received) + k \in 1..Len(Source)
      BY <1>a DEF MInv, AllThere, BeforePort, BeforeClass, Lengths
    <2>2. systemBuffer[k] = Given(Len(received) + k)
      BY <1>a DEF MInv, AllThere
    <2> QED
      BY <1>a, <1>b, <2>1, <2>2, ValuesAt
  <1>5. AllThere'
    BY <1>a, <1>b, <1>3, <1>4 DEF MInv, AllThere
  <1> QED
    BY <1>1, <1>2, <1>5

LEMMA ReceiveKeeps ==
  ASSUME MInv, Receive
  PROVE  States' /\ History' /\ AllThere'
  <1>a. Lengths /\ systemBuffer \in Seq(Entry) /\ received \in Seq(Entry)
        /\ read = "complete" /\ read' = "none" /\ systemBuffer' = <<>> /\ received' = received \o systemBuffer
        /\ UNCHANGED <<place, classQueue, portQueue, reported, dpc, offered, refused, dev,
                       upperConnectData, service, passing, remove>>
    BY LengthsKnown DEF MInv, States, Fields, MouseTypeOK, Receive, port, class, requests
  <1>b. /\ received' \in Seq(Entry) /\ Len(received') = Len(received) + Len(systemBuffer)
        /\ \A k \in 1..Len(received) : received'[k] = received[k]
        /\ \A k \in Len(received) + 1 .. Len(received) + Len(systemBuffer) :
             received'[k] = systemBuffer[k - Len(received)]
    BY <1>a, Joined
  <1>1. States'
    <2>1. <<>> \in Seq(Entry)
      OBVIOUS
    <2> HIDE DEF Entry
    <2> QED
      BY <1>a, <1>b, <2>1 DEF MInv, States, Fields, MouseTypeOK
  <1>2. History'
    BY <1>a DEF MInv, History
  <1>3. \A k : Final(k)' = Final(k) /\ Given(k)' = Given(k) /\ Waiting(k)' = Waiting(k)
    BY <1>a DEF Final, Given, Waiting
  <1>4. BeforeClass' = BeforeClass /\ BeforePort' = BeforePort
    <2>1. Len(systemBuffer') = 0 /\ Len(received') = Len(received) + Len(systemBuffer)
      BY <1>a, <1>b
    <2> QED
      BY <1>a, <2>1 DEF BeforeClass, BeforePort, Lengths
  <1>5. ASSUME NEW k \in 1..Len(received')
        PROVE  received'[k] = Final(k)
    <2>1. k \in Nat /\ Len(received') = Len(received) + Len(systemBuffer)
      BY <1>b
    <2>2. CASE k <= Len(received)
      BY <1>a, <1>b, <2>1, <2>2 DEF MInv, AllThere, Lengths
    <2>3. CASE k > Len(received)
      <3>1. k - Len(received) \in 1..Len(systemBuffer) /\ Len(received) + (k - Len(received)) = k
            /\ k \in Len(received) + 1 .. Len(received) + Len(systemBuffer)
        BY <1>a, <2>1, <2>3 DEF Lengths
      <3>2. systemBuffer[k - Len(received)] = Final(k)
        BY <1>a, <3>1 DEF MInv, AllThere
      <3> QED
        BY <1>b, <3>1, <3>2
    <2> QED
      BY <1>a, <2>1, <2>2, <2>3 DEF Lengths
  <1>6. \A k \in 1..Len(systemBuffer') : FALSE
    BY <1>a
  <1>7. AllThere'
    BY <1>a, <1>3, <1>4, <1>5, <1>6 DEF MInv, AllThere
  <1> QED
    BY <1>1, <1>2, <1>7

-----------------------------------------------------------------------------
LEMMA StackNext ==
  ASSUME States, Stack, [MouseNext]_mouseVars
  PROVE  Stack'
  BY DEF States, MouseTypeOK, Stack, MouseNext, mouseVars, port, class, reader, requests, AddDevice,
     Connect, DispatchInternalDeviceControl, Report, Offer, FilterServiceCallback, ClassService,
     ReadEnters, DispatchRead, PassedDown, CompleteRead, CancelRead, MouseFilterInvertorYCompletion,
     Receive, RequestEnters, DispatchThru, RequestReturns, DispatchPnp, LowerRemoves, DeleteDevice, Gone

LEMMA RemovalNext ==
  ASSUME States, Removal, [MouseNext]_mouseVars
  PROVE  Removal'
  BY DEF States, MouseTypeOK, Removal, MouseNext, mouseVars, port, class, reader, requests, AddDevice,
     Connect, DispatchInternalDeviceControl, Report, Offer, FilterServiceCallback, ClassService,
     ReadEnters, DispatchRead, PassedDown, CompleteRead, CancelRead, MouseFilterInvertorYCompletion,
     Receive, RequestEnters, DispatchThru, RequestReturns, DispatchPnp, LowerRemoves, DeleteDevice, Gone

(* The other actions move no report. *)
LEMMA OthersKeep ==
  ASSUME MInv, \/ AddDevice \/ Connect \/ ReadEnters \/ DispatchRead \/ CancelRead
               \/ RequestEnters \/ DispatchThru \/ RequestReturns
               \/ DispatchPnp \/ LowerRemoves \/ DeleteDevice \/ Gone \/ UNCHANGED mouseVars
  PROVE  States' /\ History' /\ AllThere'
  <1>1. StandStill /\ (read' = read \/ systemBuffer = <<>>)
    BY DEF StandStill, MInv, Stack, mouseVars, port, class, reader, requests, AddDevice, Connect,
       ReadEnters, DispatchRead, PassedDown, CancelRead, RequestEnters, DispatchThru, RequestReturns,
       DispatchPnp, LowerRemoves, DeleteDevice, Gone
  <1>2. States'
    <2>1. MouseTypeOK'
      BY DEF MInv, States, MouseTypeOK, mouseVars, port, class, reader, requests,
       DispatchInternalDeviceControl, AddDevice, Connect,
       ReadEnters, DispatchRead, PassedDown, CancelRead, RequestEnters, DispatchThru, RequestReturns,
       DispatchPnp, LowerRemoves, DeleteDevice, Gone
    <2>2. Fields'
      BY <1>1 DEF StandStill, MInv, States, Fields
    <2> QED
      BY <2>1, <2>2 DEF States
  <1> QED
    BY <1>1, <1>2, StandStillKeeps

LEMMA MouseInvNext == MInv /\ [MouseNext]_mouseVars => MInv'
  <1> SUFFICES ASSUME MInv, [MouseNext]_mouseVars PROVE MInv'
    OBVIOUS
  <1>1. Stack' /\ Removal'
    BY StackNext, RemovalNext DEF MInv
  <1>2. States' /\ History' /\ AllThere'
    BY ReportKeeps, OfferKeeps, CallbackKeeps, ClassKeeps, CompleteKeeps, CompletionKeeps, ReceiveKeeps,
       OthersKeep DEF MouseNext
  <1> QED
    BY <1>1, <1>2 DEF MInv

(* viponMouse.c: in which of the four queues and buffers every report is and how
   often it has been turned by then; who calls the filter at either place; and
   what can still be below it at each point of the removal.  This is the
   induction behind the two theorems below. *)
THEOREM MouseInvariantHolds == MouseSpec => []MInv
  BY MouseInvInit, MouseInvNext, PTL DEF MouseSpec

(* viponMouse.c, DispatchPnp: for any reports and any order of requests, a deleted
   device has no callback running, no read with its completion routine and no
   request below the filter; and the callback is called only when the class
   driver's own one has been saved.  Requests that are in the filter and not
   passed down yet are not spoken of. *)
THEOREM NothingRunsOnDeleted == MouseSpec => []MouseInv
  <1>1. MInv => MouseInv
    BY DEF MInv, States, Stack, Removal, MouseInv, MouseTypeOK, DeletedIsLeft, CallbackIsKnown
  <1> QED
    BY <1>1, MouseInvariantHolds, PTL

(* viponMouse.c, FilterServiceCallback and MouseFilterInvertorYCompletion: the
   reader gets every report once and in the order of the mouse.  Above the class
   driver each is turned once; below it each is turned once and again for every
   time that the class driver left it behind. *)
THEOREM ReportsAreUpsideDown == MouseSpec => []UpsideDown
  <1>1. MInv => UpsideDown
    <2> SUFFICES ASSUME MInv, NEW k \in DOMAIN received
                 PROVE  LET r == received[k]
                            raw == [no |-> r.no, y |-> Source[r.no].y]
                            again == place = "below" /\ refused[r.no] = 1
                        IN r.no = k /\ r = IF again THEN raw ELSE Inverted(raw)
      BY DEF UpsideDown
    <2>1. k \in 1..Len(received) /\ k \in 1..Len(Source) /\ place \in {"below", "above"}
      <3>1. received \in Seq(Entry) /\ place \in {"below", "above"} /\ Lengths
        BY LengthsKnown DEF MInv, States, Fields, MouseTypeOK
      <3>2. k \in 1..Len(received) /\ Len(received) \in Nat
        BY <3>1
      <3>3. Len(received) <= Len(Source)
        BY <3>1 DEF MInv, AllThere, BeforePort, BeforeClass, Lengths
      <3> QED
        BY <3>1, <3>2, <3>3, Reports
    <2>2. received[k] = Final(k) /\ received[k].no = k
      BY <2>1, ValuesAt DEF MInv, AllThere
    <2> QED
      BY <2>2 DEF Final, Turned, Raw
  <1> QED
    BY <1>1, MouseInvariantHolds, PTL

-----------------------------------------------------------------------------
(* kLogger.c *)
LEMMA Levels ==
  /\ WorkLevel \in Level /\ CallLevel \in [Writer -> Level] /\ PASSIVE \in Level
  /\ IsFiniteSet(Writer) /\ "flush" \notin Writer /\ "main" \notin Writer
  /\ PageSize \in Nat \ {0} /\ Size \in Nat \ {0}
  /\ Length \subseteq 1..Size
  BY LevelAssumption, WriterAssumption, SizeAssumption DEF Level, PASSIVE

USE Levels

Place == {"start", "wait", "called", "readwait", "looking", "unlockwait", "looked", "taken",
          "flushwait", "copying", "writewait", "write", "exited"}

LocalTypes ==
  /\ n \in [Writer -> 0..Size]
  /\ entry \in [Writer -> Level] /\ retried \in [Writer -> BOOLEAN]
  /\ fpc \in Place
  /\ fr \in 0..Size - 1

(* The level a writer is to copy at and to return with. *)
Due(w) == IF retried[w] THEN PASSIVE ELSE entry[w]

(* The level travels from irql to the thread, to saved and back. *)
LevelsKept ==
  /\ \A w \in Writer :
       /\ pc[w] = "stall" => retried[w]
       /\ pc[w] = "lockwait" => irql[w] = Due(w)
       /\ pc[w] = "copy" => level[w] = Due(w)
       /\ pc[w] = "leavewait" => saved[w] = Due(w)

(* destructKLog starts behind the last writer and ends behind the flush thread. *)
Ending ==
  /\ kExit => fpc = "exited"
  /\ mpc \in {"exitwait", "raise", "freed"} => \A w \in Writer : pc[w] = "done"
  /\ mpc \in {"join", "exitwait", "raise", "freed"}

KInv == Inv /\ LocalTypes /\ LevelsKept /\ Ending

-----------------------------------------------------------------------------
LEMMA KInit == Init => KInv
  <1> SUFFICES ASSUME Init PROVE KInv
    OBVIOUS
  <1>1. Inside = {}
    BY DEF Init, Inside
  <1>2. 0 \in 0..Size - 1 /\ 0 \in 0..Size /\ 0 \in 0..PageSize /\ 0 \in Nat
    OBVIOUS
  <1>3. level \in [Thread -> Level]
    BY DEF Init, Thread
  <1>4. level["flush"] = PASSIVE
    BY DEF Init, Thread
  <1>5. TypeOK
    BY <1>2, <1>3 DEF Init, TypeOK
  <1>6. WaitsAtPassive /\ OthersHaveLeft
    BY <1>4 DEF Init, WaitsAtPassive, OthersHaveLeft
  <1>7. LocalTypes /\ LevelsKept /\ Ending
    BY <1>2, <1>4 DEF Init, LocalTypes, LevelsKept, Ending, Place
  <1>8. FlushLockMirrorsWriters
    BY <1>1, FS_EmptySet DEF Init, FlushLockMirrorsWriters
  <1> QED
    BY <1>5, <1>6, <1>7, <1>8 DEF KInv, Inv

LEMMA CountInside ==
  /\ IsFiniteSet(Inside)
  /\ Cardinality(Inside) \in Nat
  /\ Cardinality(Inside) = 0 <=> Inside = {}
  /\ \A w : w \notin Inside => Cardinality(Inside \union {w}) = Cardinality(Inside) + 1
  /\ \A w \in Inside : Cardinality(Inside \ {w}) = Cardinality(Inside) - 1
  <1>1. IsFiniteSet(Inside)
    BY FS_Subset DEF Inside
  <1> QED
    BY <1>1, FS_CardinalityType, FS_EmptySet, FS_AddElement, FS_RemoveElement

(* The steps of a writer at its locked sections leave the buffer alone but for
   Reserve and Leave. *)
Between(w) == CallWrite(w) \/ AskFlush(w) \/ Retry(w) \/ Copied(w)

LEMMA BetweenInv ==
  ASSUME KInv, NEW w \in Writer, Between(w)
  PROVE  KInv'
  <1> USE DEF KInv, Inv
  <1>1. mpc = "join" /\ Inside' = Inside /\ UNCHANGED <<buffer, kFlushLock, kExit, flusher, mpc>>
    BY DEF Between, CallWrite, AskFlush, Retry, Copied, Ending, Inside, TypeOK
  <1>2. w \in Thread /\ "flush" \in Thread /\ "main" \in Thread /\ w # "flush" /\ w # "main"
    BY DEF Thread
  <1>3. level' \in [Thread -> Level] /\ level'["flush"] = level["flush"]
        /\ level'["main"] = level["main"]
        /\ \A t \in Writer \ {w} : level'[t] = level[t]
    BY <1>2 DEF Between, CallWrite, AskFlush, Retry, Copied, TypeOK, WaitForLock, Thread
  <1>4. TypeOK'
    BY <1>1, <1>2, <1>3 DEF Between, CallWrite, AskFlush, Retry, Copied, TypeOK, WaitForLock,
      buffer, flusher, Thread, Locker
  <1>5. LocalTypes'
    <2>1. level[w] \in Level /\ \A len \in Length : len \in 0..Size
      BY <1>2 DEF TypeOK
    <2>2. n' \in [Writer -> 0..Size]
      BY <2>1 DEF Between, CallWrite, AskFlush, Retry, Copied, LocalTypes
    <2>3. entry' \in [Writer -> Level] /\ retried' \in [Writer -> BOOLEAN]
      BY <2>1 DEF Between, CallWrite, AskFlush, Retry, Copied, LocalTypes
    <2> QED
      BY <1>1, <2>2, <2>3 DEF LocalTypes, flusher
  <1>6. WaitsAtPassive'
    <2>1. pc'[w] \in {"lockwait", "stall", "leavewait"} /\ level'[w] = PASSIVE
      BY <1>2 DEF Between, CallWrite, AskFlush, Retry, Copied, TypeOK, WaitForLock, WaitsAtPassive
    <2>2. \A t \in Writer \ {w} : pc'[t] = pc[t]
      BY DEF Between, CallWrite, AskFlush, Retry, Copied, TypeOK
    <2> QED
      BY <1>1, <1>3, <2>1, <2>2 DEF WaitsAtPassive, flusher
  <1>7. LevelsKept'
    <2>1. \A t \in Writer \ {w} : /\ pc'[t] = pc[t] /\ irql'[t] = irql[t] /\ saved'[t] = saved[t]
                                  /\ entry'[t] = entry[t] /\ retried'[t] = retried[t]
      BY DEF Between, CallWrite, AskFlush, Retry, Copied, TypeOK, LocalTypes, WaitForLock, Locker
    <2>2. CASE CallWrite(w)
      BY <1>1, <1>3, <2>1, <2>2 DEF CallWrite, LevelsKept, Due, TypeOK, LocalTypes, flusher
    <2>3. CASE AskFlush(w)
      BY <1>1, <1>3, <2>1, <2>3 DEF AskFlush, LevelsKept, Due, TypeOK, LocalTypes, flusher
    <2>4. CASE Retry(w)
      BY <1>1, <1>3, <2>1, <2>4 DEF Retry, LevelsKept, Due, TypeOK, LocalTypes, flusher
    <2>5. CASE Copied(w)
      BY <1>1, <1>3, <2>1, <2>5 DEF Copied, WaitForLock, LevelsKept, Due, TypeOK, LocalTypes, Locker,
        flusher
    <2> QED
      BY <2>2, <2>3, <2>4, <2>5 DEF Between
  <1>8. Ending' /\ OthersHaveLeft' /\ FlushLockMirrorsWriters'
    BY <1>1 DEF Ending, OthersHaveLeft, FlushLockMirrorsWriters, flusher, buffer
  <1> QED
    BY <1>4, <1>5, <1>6, <1>7, <1>8

(* Reserve and Leave raise the level again to what it has to be. *)
LEMMA BackAtLevel ==
  ASSUME KInv, NEW w \in Writer, Reserve(w) \/ Leave(w)
  PROVE  /\ level'[w] = Due(w) /\ level' \in [Thread -> Level]
         /\ \A t \in Thread \ {w} : level'[t] = level[t]
         /\ UNCHANGED <<entry, retried>>
  <1>1. w \in Thread
    BY DEF Thread
  <1>2. Due(w) \in Level
    BY DEF Due, KInv, LocalTypes
  <1> QED
    BY <1>1, <1>2 DEF KInv, Inv, TypeOK, LevelsKept, Reserve, Leave, BackToLevel

LEMMA ReserveInv ==
  ASSUME KInv, NEW w \in Writer, Reserve(w)
  PROVE  KInv'
  <1> USE DEF KInv, Inv
  <1>1. /\ level'[w] = Due(w) /\ level' \in [Thread -> Level]
        /\ \A t \in Thread \ {w} : level'[t] = level[t]
        /\ UNCHANGED <<entry, retried, flusher, mpc, kExit, saved, n, read_p>> /\ mpc = "join"
    BY BackAtLevel DEF Reserve, Ending
  <1>2. Inside' = Inside \union {w} /\ w \notin Inside
    BY DEF Reserve, Inside, TypeOK
  <1>3. FlushLockMirrorsWriters'
    BY <1>2, CountInside DEF FlushLockMirrorsWriters, Reserve
  <1>4. write_p' \in 0..Size - 1
    <2>1. write_p + n[w] \in Nat
      BY DEF TypeOK, LocalTypes
    <2> QED
      BY <2>1 DEF Reserve
  <1>5. TypeOK'
    BY <1>1, <1>4 DEF TypeOK, Reserve, flusher
  <1>6. LocalTypes' /\ Ending' /\ OthersHaveLeft'
    BY <1>1 DEF LocalTypes, Ending, OthersHaveLeft, flusher
  <1>7. \A t \in Writer \ {w} : /\ pc'[t] = pc[t] /\ irql'[t] = irql[t]
                                /\ level'[t] = level[t]
    BY <1>1 DEF Reserve, TypeOK, Thread
  <1>8. level'["flush"] = level["flush"] /\ level'["main"] = level["main"]
    BY <1>1 DEF Thread
  <1>9. pc'[w] = "copy"
    BY DEF Reserve, TypeOK
  <1>10. WaitsAtPassive'
    BY <1>1, <1>7, <1>8, <1>9 DEF WaitsAtPassive, flusher
  <1>11. LevelsKept'
    BY <1>1, <1>7, <1>8, <1>9 DEF LevelsKept, Due, flusher
  <1> QED
    BY <1>3, <1>5, <1>6, <1>10, <1>11

LEMMA LeaveInv ==
  ASSUME KInv, NEW w \in Writer, Leave(w)
  PROVE  KInv'
  <1> USE DEF KInv, Inv
  <1>1. /\ level'[w] = Due(w) /\ level' \in [Thread -> Level]
        /\ \A t \in Thread \ {w} : level'[t] = level[t]
        /\ UNCHANGED <<entry, retried, flusher, mpc, kExit, irql, saved, n, read_p, write_p, state>>
        /\ mpc = "join"
    BY BackAtLevel DEF Leave, Ending
  <1>2. Inside' = Inside \ {w} /\ w \in Inside
    BY DEF Leave, Inside, TypeOK
  <1>3. /\ lWriters' = Cardinality(Inside') /\ lWriters' \in Nat
        /\ lWriters' = 0 <=> Inside' = {}
    <2>1. lWriters' = Cardinality(Inside')
      BY <1>2, CountInside DEF FlushLockMirrorsWriters, Leave
    <2>2. IsFiniteSet(Inside')
      BY <1>2, CountInside, FS_RemoveElement
    <2> QED
      BY <2>1, <2>2, FS_CardinalityType, FS_EmptySet
  <1>4. FlushLockMirrorsWriters'
    BY <1>2, <1>3 DEF FlushLockMirrorsWriters, Leave
  <1>5. pc'[w] \in {"done", "loop"} /\ \A t \in Writer \ {w} : pc'[t] = pc[t]
    BY DEF Leave, TypeOK
  <1>6. TypeOK'
    BY <1>1, <1>3 DEF TypeOK, Leave, flusher
  <1>7. LocalTypes' /\ Ending' /\ OthersHaveLeft'
    BY <1>1 DEF LocalTypes, Ending, OthersHaveLeft, flusher
  <1>8. /\ level'["flush"] = level["flush"] /\ level'["main"] = level["main"]
        /\ \A t \in Writer \ {w} : level'[t] = level[t]
    BY <1>1 DEF Thread
  <1>9. WaitsAtPassive'
    BY <1>1, <1>5, <1>8 DEF WaitsAtPassive, flusher
  <1>10. LevelsKept'
    BY <1>1, <1>5, <1>8 DEF LevelsKept, Due, flusher
  <1> QED
    BY <1>4, <1>6, <1>7, <1>9, <1>10

(* The busy space is a number, whatever the state says. *)
LEMMA BusySpace ==
  ASSUME TypeOK
  PROVE  sizeBusySpaceInKLog \in Nat
  BY DEF TypeOK, sizeBusySpaceInKLog

FlushStep ==
  \/ StartTimer \/ TimerFires \/ (\E e \in Event : FlushWake(e))
  \/ ReadLock \/ Look \/ ReadUnLock \/ ReadUnLocked \/ Lower \/ Take
  \/ WriteLock \/ UpdateRead \/ WriteLog

(* What the steps of the flush thread leave alone; what its last one does. *)
LEMMA FlushFrame ==
  ASSUME KInv, FlushStep
  PROVE  /\ UNCHANGED <<write_p, lWriters, kFlushLock, irql, pc, i, n, entry, retried, mpc>>
         /\ level' \in [Thread -> Level] /\ saved' \in [Locker -> Level]
         /\ \A t \in Thread \ {"flush"} : level'[t] = level[t]
         /\ \A t \in Writer : saved'[t] = saved[t]
         /\ fpc' \in Place
         /\ kExit' => kExit \/ fpc' = "exited"
         /\ fpc = "exited" => fpc' = "exited"
  <1> USE DEF KInv, Inv
  <1> DEFINE Frame ==
        /\ UNCHANGED <<write_p, lWriters, kFlushLock, irql, pc, i, n, entry, retried, mpc>>
        /\ level' \in [Thread -> Level] /\ saved' \in [Locker -> Level]
        /\ \A t \in Thread \ {"flush"} : level'[t] = level[t]
        /\ \A t \in Writer : saved'[t] = saved[t]
        /\ fpc' \in Place
        /\ kExit' => kExit \/ fpc' = "exited"
        /\ fpc = "exited" => fpc' = "exited"
  <1>1. "flush" \in Thread /\ "flush" \in Locker /\ "flush" \notin Writer
    BY DEF Thread, Locker
  <1>2. level["flush"] \in Level /\ saved["flush"] \in Level
    BY <1>1 DEF TypeOK
  <1>3. CASE ReadLock \/ ReadUnLock \/ WriteLock
    <2>1. PICK from \in {"called", "looking", "copying"}, to \in {"readwait", "unlockwait", "writewait"} :
            FlushAsks(from, to)
      BY <1>3 DEF ReadLock, ReadUnLock, WriteLock
    <2>2. level' = [level EXCEPT !["flush"] = PASSIVE] /\ saved' = [saved EXCEPT !["flush"] = level["flush"]]
      BY <2>1 DEF FlushAsks, WaitForLock
    <2>3. /\ level' \in [Thread -> Level] /\ saved' \in [Locker -> Level]
          /\ \A t \in Thread \ {"flush"} : level'[t] = level[t]
      BY <1>1, <1>2, <2>2 DEF TypeOK
    <2>4. \A t \in Writer : saved'[t] = saved[t]
      BY <1>1, <2>2 DEF TypeOK, Locker
    <2>5. UNCHANGED <<write_p, lWriters, kFlushLock, irql, pc, i, n, entry, retried, mpc, kExit>>
      BY <2>1 DEF FlushAsks, buffer
    <2>6. fpc' \in Place /\ fpc # "exited"
      BY <2>1 DEF FlushAsks, Place
    <2> QED
      BY <2>3, <2>4, <2>5, <2>6
  <1>4. CASE StartTimer \/ TimerFires \/ (\E e \in Event : FlushWake(e)) \/ Lower \/ Take
    BY <1>1, <1>2, <1>4 DEF StartTimer, TimerFires, FlushWake, Lower, Take, buffer, writers, flusher,
      TypeOK, LocalTypes, Place
  <1>5. CASE Look \/ ReadUnLocked \/ UpdateRead
    BY <1>1, <1>2, <1>5 DEF Look, ReadUnLocked, UpdateRead, BackToLevel, buffer, writers, TypeOK,
      Place
  <1>6. CASE WriteLog
    BY <1>1, <1>2, <1>6 DEF WriteLog, buffer, writers, TypeOK, Place
  <1> QED
    BY <1>3, <1>4, <1>5, <1>6 DEF FlushStep

LEMMA FlushInv ==
  ASSUME KInv, FlushStep
  PROVE  KInv'
  <1> USE DEF KInv, Inv
  <1>1. UNCHANGED <<write_p, lWriters, kFlushLock, irql, pc, i, n, entry, retried, mpc>>
    BY FlushFrame
  <1>2. level' \in [Thread -> Level] /\ saved' \in [Locker -> Level] /\ fpc' \in Place
    BY FlushFrame
  <1>3. /\ level'["main"] = level["main"]
        /\ \A t \in Writer : level'[t] = level[t] /\ saved'[t] = saved[t]
    BY FlushFrame DEF Thread
  <1>4. num' \in 0..PageSize /\ fr' \in 0..Size - 1
    <2>1. CASE Look
      BY <2>1, BusySpace DEF Look, TypeOK, LocalTypes
    <2>2. CASE ~Look
      BY <2>2 DEF FlushStep, StartTimer, TimerFires, FlushWake, ReadLock, ReadUnLock, ReadUnLocked,
        Lower, Take, WriteLock, FlushAsks, UpdateRead, WriteLog, flusher, TypeOK, LocalTypes
    <2> QED
      BY <2>1, <2>2
  <1>5. read_p' \in 0..Size - 1 /\ state' \in {"EMPTY", "PART_FILL", "FULL"}
    <2>1. fr + num \in Nat
      BY DEF TypeOK, LocalTypes
    <2> QED
      BY <2>1 DEF FlushStep, StartTimer, TimerFires, FlushWake, ReadLock, Look, ReadUnLock,
        ReadUnLocked, Lower, Take, WriteLock, FlushAsks, UpdateRead, WriteLog, buffer, TypeOK
  <1>6. TypeOK'
    BY <1>1, <1>2, <1>4, <1>5 DEF TypeOK
  <1>7. LocalTypes'
    BY <1>1, <1>2, <1>4 DEF LocalTypes
  <1>8. fpc' \in {"start", "wait", "readwait", "unlockwait", "flushwait", "writewait", "write",
                   "exited"} => level'["flush"] = PASSIVE
    <2>1. "flush" \in Thread
      BY DEF Thread
    <2>2. CASE StartTimer \/ TimerFires \/ WriteLog
      BY <2>2 DEF StartTimer, TimerFires, WriteLog, flusher, WaitsAtPassive
    <2>3. CASE (\E e \in Event : FlushWake(e)) \/ Look \/ ReadUnLocked \/ Take \/ UpdateRead
      BY <2>3 DEF FlushWake, Look, ReadUnLocked, Take, UpdateRead
    <2>4. CASE ReadLock \/ ReadUnLock \/ WriteLock \/ Lower
      BY <2>1, <2>4 DEF ReadLock, ReadUnLock, WriteLock, FlushAsks, WaitForLock, Lower, TypeOK
    <2> QED
      BY <2>2, <2>3, <2>4 DEF FlushStep
  <1>9. WaitsAtPassive' /\ LevelsKept'
    BY <1>1, <1>3, <1>8 DEF WaitsAtPassive, LevelsKept, Due
  <1>10. Ending' /\ OthersHaveLeft'
    <2>1. (kExit' => kExit \/ fpc' = "exited") /\ (fpc = "exited" => fpc' = "exited")
      BY FlushFrame
    <2> QED
      BY <1>1, <2>1 DEF Ending, OthersHaveLeft
  <1>11. FlushLockMirrorsWriters'
    BY <1>1 DEF FlushLockMirrorsWriters, Inside
  <1> QED
    BY <1>6, <1>7, <1>9, <1>10, <1>11

LEMMA MainInv ==
  ASSUME KInv, Destruct \/ Free \/ RaiseFromFreed \/ UNCHANGED vars
  PROVE  KInv'
  <1> USE DEF KInv, Inv
  <1>1. /\ UNCHANGED <<kFlushLock, writers, flusher>>
        /\ (kExit' => kExit)
    BY DEF Destruct, Free, RaiseFromFreed, vars
  <1>2. Inside' = Inside
    BY <1>1 DEF Inside, writers
  <1>3. level' \in [Thread -> Level] /\ \A t \in Thread \ {"main"} : level'[t] = level[t]
    BY DEF Destruct, Free, RaiseFromFreed, vars, TypeOK
  <1>4. level'["flush"] = level["flush"] /\ \A t \in Writer : level'[t] = level[t]
    BY <1>3 DEF Thread
  <1>5. mpc' = "exitwait" => level'["main"] = PASSIVE
    <2>1. "main" \in Thread
      BY DEF Thread
    <2> QED
      BY <2>1 DEF Destruct, Free, RaiseFromFreed, vars, TypeOK, WaitsAtPassive
  <1>6. Free => lWriters = 0
    <2>1. Free => Inside = {}
      BY DEF Free, Inside, Ending
    <2> QED
      BY <2>1, FS_EmptySet DEF FlushLockMirrorsWriters
  <1>7. /\ lWriters' = lWriters
        /\ read_p' \in 0..Size - 1 /\ write_p' \in 0..Size - 1
        /\ state' \in {"EMPTY", "PART_FILL", "FULL"}
    BY <1>6 DEF Destruct, Free, RaiseFromFreed, vars, buffer, TypeOK
  <1>8. TypeOK' /\ LocalTypes'
    BY <1>1, <1>3, <1>7 DEF TypeOK, LocalTypes, writers, flusher
  <1>9. WaitsAtPassive' /\ LevelsKept'
    BY <1>1, <1>4, <1>5 DEF WaitsAtPassive, LevelsKept, Due, writers, flusher
  <1>10. Ending' /\ OthersHaveLeft'
    BY <1>1 DEF Destruct, Free, RaiseFromFreed, vars, Ending, OthersHaveLeft, writers, flusher
  <1>11. FlushLockMirrorsWriters'
    BY <1>1, <1>2, <1>7 DEF FlushLockMirrorsWriters
  <1> QED
    BY <1>8, <1>9, <1>10, <1>11

LEMMA KNext == KInv /\ [Next]_vars => KInv'
  <1> SUFFICES ASSUME KInv, [Next]_vars PROVE KInv'
    OBVIOUS
  <1> QED
    BY BetweenInv, ReserveInv, LeaveInv, FlushInv, MainInv DEF Next, Between, FlushStep, Terminated

(* The levels, the counter of writers and the order of the end agree in every
   state, for any writers at any levels. *)
THEOREM InvariantHolds == Spec => []KInv
  BY KInit, KNext, PTL DEF Spec

(* The driver waits, stalls and calls Zw functions only at PASSIVE_LEVEL, the
   flush lock is up when no writer is inside, and when destructKLog frees the
   structure every other thread has come to its end. *)
THEOREM KLogIsSafe == Spec => []Inv
  <1>1. KInv => Inv
    BY DEF KInv
  <1> QED
    BY <1>1, InvariantHolds, PTL

(* writeInKLog copies at and returns with the level it was called at, or with
   PASSIVE_LEVEL if it had to stall: no other order of the steps loses it. *)
THEOREM LevelIsKept == Spec => LevelLostOnlyByRetry
  <1>1. ASSUME KInv, [Next]_vars, NEW w \in Writer, pc'[w] # pc[w], pc'[w] \in {"copy", "loop", "done"}
        PROVE  level'[w] = IF retried[w] THEN PASSIVE ELSE entry[w]
    <2>1. Reserve(w) \/ Leave(w)
      BY <1>1 DEF KInv, Inv, TypeOK, Next, CallWrite, Reserve, AskFlush, Retry, Copied, Leave,
        StartTimer, TimerFires, FlushWake, ReadLock, Look, ReadUnLock, ReadUnLocked, Lower, Take,
        WriteLock, FlushAsks, UpdateRead, WriteLog, Destruct, Free, RaiseFromFreed, Terminated,
        vars, writers
    <2> QED
      BY <1>1, <2>1, BackAtLevel DEF Due
  <1>2. KInv /\ [Next]_vars =>
          \A w \in Writer : pc'[w] # pc[w] /\ pc'[w] \in {"copy", "loop", "done"} =>
            level'[w] = IF retried[w] THEN PASSIVE ELSE entry[w]
    BY <1>1
  <1> QED
    BY <1>2, InvariantHolds, PTL DEF Spec, LevelLostOnlyByRetry
=============================================================================
