------------------------------ MODULE FifoProofs ------------------------------
(***************************************************************************)
(* Proofs about the two programs of Linux/fifo_copy: any readers and       *)
(* writers, files and FIFOs of any length, any kills; for the smart copy   *)
(* naps of any length, for the simple one any answers at the prompt.       *)
(***************************************************************************)
EXTENDS SmartFifo, SimpleFifo, SequenceTheorems, FiniteSetTheorems, TLAPS

-----------------------------------------------------------------------------
(* smart_fifo_copy.c *)
Item == Writer \X Nat

(* A writer that has written its name to Fifo, and a reader that has taken one. *)
Announced == {"nap", "close", "copy", "gone"}
Early == {"start", "wait", "name"}
Late == {"check", "open", "nap", "copy"}

Types ==
  /\ spot \in [Process -> Early \union Late \union Announced \union {"announce"}]
  /\ SmartTypeOK
  /\ pipe \in [Writer -> Seq(Item)] /\ outputs \in [Reader -> Seq(Item)]

(* A name is written once, and then in Fifo or with one reader. *)
Names ==
  /\ \A i, j \in 1..Len(fifo) : fifo[i] = fifo[j] => i = j
  /\ \A r \in Reader : \A k \in 1..Len(fifo) : mine[r] # fifo[k]
  /\ \A r, s \in Reader : mine[r] = mine[s] /\ mine[r] # Nobody => r = s
  /\ \A w \in Writer : spot[w] \notin Announced =>
       /\ \A k \in 1..Len(fifo) : fifo[k] # w
       /\ \A r \in Reader : mine[r] # w
  /\ \A r \in Reader : (spot[r] \in Early => mine[r] = Nobody) /\ (spot[r] \in Late => mine[r] # Nobody)

(* An output o, then what the pipe p holds, are the first pieces of w's file,
   whose next is n. *)
Follows(o, p, n, w) ==
  /\ Len(o) + Len(p) = n - 1
  /\ \A k \in 1..Len(o) : o[k] = Piece(w, k)
  /\ \A k \in 1..Len(p) : p[k] = Piece(w, Len(o) + k)

(* A writer's file, in what its reader has written and in the pipe. *)
Streams ==
  /\ \A w \in Writer : (\A r \in Reader : mine[r] # w) => pipe[w] = <<>> /\ next[w] = 1
  /\ \A r \in Reader : mine[r] = Nobody => outputs[r] = <<>>
  /\ \A r \in Reader, w \in Writer : mine[r] = w => Follows(outputs[r], pipe[w], next[w], w)
  /\ \A w \in Writer : next[w] > 1 => spot[w] \in {"copy", "gone"}

(* Nobody killed: a writer past its nap has its reader, and one that is gone has
   copied all or nothing. *)
Served ==
  killed = 0 =>
    \A w \in Writer :
      /\ spot[w] \in {"close", "copy"} => ReadersOf(w) # {}
      /\ spot[w] = "gone" => next[w] \in {1, Pieces + 1}

(* And no nap too short: a reader past its nap has had its writer, and is gone
   only after it. *)
Waited ==
  killed = 0 /\ ~short =>
    \A r \in Reader, w \in Writer : mine[r] = w =>
      /\ spot[r] = "copy" => spot[w] \in {"close", "copy", "gone"}
      /\ spot[r] = "gone" => spot[w] = "gone" /\ pipe[w] = <<>>

FInv == Types /\ Names /\ Streams /\ Served /\ Waited

-----------------------------------------------------------------------------
LEMMA Sets ==
  /\ Reader \subseteq Process /\ Writer \subseteq Process /\ Process = Reader \union Writer
  /\ \A r \in Reader : r \notin Writer
  /\ \A w \in Writer : w # Nobody /\ w \notin Reader
  /\ Pieces \in Nat /\ MaxKilled \in Nat /\ OwnPipeSize \in Nat \ {0}
  BY SetsAssumption, BoundsAssumption DEF Process

USE Sets DEF Announced, Early, Late

(* Steps that only move processes: nobody comes back to a place before a name was
   written or taken, and Fifo keeps its names or forgets them all. *)
Moving ==
  /\ UNCHANGED <<mine, pipe, next, outputs>>
  /\ fifo' = fifo \/ fifo' = <<>>
  /\ \A w \in Writer : spot[w] \in Announced => spot'[w] \in Announced
  /\ \A r \in Reader : (spot'[r] \in Early => spot[r] \in Early) /\ (spot'[r] \in Late => spot[r] \in Late)

LEMMA GoesMoves ==
  ASSUME Types, NEW p \in Process, NEW at, Goes(p, at),
         p \in Writer => at \in Announced,
         p \in Reader => at \in {"open", "nap", "copy", "gone"} /\ (at # "gone" => spot[p] \in Late),
         UNCHANGED <<mine, pipe, next, outputs>>
  PROVE  /\ Moving /\ spot'[p] = at /\ \A q \in Process \ {p} : spot'[q] = spot[q]
         /\ spot' = [spot EXCEPT ![p] = at]
  BY DEF Types, Goes, FifoAfter, Moving

WriterMoves(w) ==
  \/ WriterOpensFifo(w) \/ AnnounceBroken(w) \/ WriterOpens(w) \/ WriterCloses(w)
  \/ WriterBroken(w) \/ WriterEnds(w)

ReaderMoves(r) ==
  \/ ReaderOpensFifo(r) \/ Check(r) \/ ReaderOpens(r) \/ ReaderWakes(r) \/ ReaderEnds(r)

LEMMA OpensFifoMoves ==
  ASSUME Types, (\E r \in Reader : ReaderOpensFifo(r)) \/ (\E w \in Writer : WriterOpensFifo(w))
  PROVE  /\ Moving
         /\ \A q \in Process : spot'[q] # spot[q] =>
              spot'[q] \in {"wait", "name", "announce"} /\ spot[q] \in {"start", "wait"}
         /\ UNCHANGED <<killed, short>>
         /\ spot' \in [Process -> Early \union Late \union Announced \union {"announce"}]
  BY DEF Types, ReaderOpensFifo, WriterOpensFifo, Moving

LEMMA StepsMove ==
  ASSUME Types, \/ \E w \in Writer : WriterMoves(w)
                \/ \E r \in Reader : ReaderMoves(r)
                \/ \E p \in Process : KillProcess(p)
                \/ UNCHANGED smartVars
  PROVE  Moving
  <1>1. ASSUME NEW w \in Writer, WriterMoves(w) PROVE Moving
    BY <1>1, GoesMoves, OpensFifoMoves
    DEF WriterMoves, AnnounceBroken, WriterOpens, WriterCloses, WriterBroken, WriterEnds
  <1>2. ASSUME NEW r \in Reader, ReaderMoves(r) PROVE Moving
    BY <1>2, GoesMoves, OpensFifoMoves DEF ReaderMoves, Check, ReaderOpens, ReaderWakes, ReaderEnds
  <1>3. ASSUME NEW p \in Process, KillProcess(p) PROVE Moving
    BY <1>3, GoesMoves DEF KillProcess
  <1>4. CASE UNCHANGED smartVars
    BY <1>4 DEF smartVars, Moving
  <1> QED
    BY <1>1, <1>2, <1>3, <1>4

(* Every step moves processes or does one thing with a name or a piece. *)
LEMMA StepKinds ==
  ASSUME Types, [SmartNext]_smartVars
  PROVE  \/ Moving
         \/ \E w \in Writer : Announce(w) \/ WriterCopies(w)
         \/ \E r \in Reader : ReadName(r) \/ ReaderCopies(r)
  BY StepsMove DEF SmartNext, WriterStep, ReaderStep, WriterMoves, ReaderMoves

-----------------------------------------------------------------------------
LEMMA SmartInit_ == SmartInit => FInv
  <1> SUFFICES ASSUME SmartInit PROVE FInv
    OBVIOUS
  <1>1. Types
    <2>1. <<>> \in Seq(Item) /\ <<>> \in Seq(Writer) /\ Len(<<>>) = 0
      OBVIOUS
    <2> HIDE DEF Item
    <2>2. /\ fifo \in Seq(Writer) /\ pipe \in [Writer -> Seq(Item)] /\ outputs \in [Reader -> Seq(Item)]
          /\ \A w \in Writer : Len(pipe[w]) <= OwnPipeSize
      BY <2>1 DEF SmartInit
    <2>3. next \in [Writer -> 1 .. Pieces + 1] /\ killed \in 0 .. MaxKilled /\ short \in BOOLEAN
          /\ mine \in [Reader -> Writer \cup {Nobody}]
      <3>1. 1 \in 1 .. Pieces + 1 /\ 0 \in 0 .. MaxKilled
        OBVIOUS
      <3> QED
        BY <3>1 DEF SmartInit
    <2>4. \A p \in Process : spot[p] = "start"
      BY DEF SmartInit
    <2>5. spot \in [Process -> Early \union Late \union Announced \union {"announce"}]
      BY DEF SmartInit
    <2> QED
      BY <2>2, <2>3, <2>4, <2>5 DEF Types, SmartTypeOK
  <1>2. Names
    BY DEF SmartInit, Names
  <1>3. Streams
    <2>1. \A w \in Writer : w # Nobody
      BY Sets
    <2> QED
      BY <2>1 DEF SmartInit, Streams
  <1>4. Served /\ Waited
    BY DEF SmartInit, Served, Waited
  <1> QED
    BY <1>1, <1>2, <1>3, <1>4 DEF FInv

(* Where a process may go. *)
LEMMA SpotsNext ==
  ASSUME Types, [SmartNext]_smartVars
  PROVE  /\ spot' \in [Process -> Early \union Late \union Announced \union {"announce"}]
         /\ \A r \in Reader : spot'[r] \in Early \union Late \union {"gone"}
         /\ \A w \in Writer : spot'[w] \in {"start", "wait", "announce"} \union Announced
         /\ killed' \in 0 .. MaxKilled /\ short' \in BOOLEAN /\ killed <= killed' /\ (short => short')
  <1>a. spot \in [Process -> Early \union Late \union Announced \union {"announce"}]
        /\ (\A r \in Reader : spot[r] \in Early \union Late \union {"gone"})
        /\ (\A w \in Writer : spot[w] \in {"start", "wait", "announce"} \union Announced)
        /\ killed \in 0 .. MaxKilled /\ short \in BOOLEAN
    BY DEF Types, SmartTypeOK
  <1>1. ASSUME NEW w \in Writer, WriterStep(w)
        PROVE  /\ \/ UNCHANGED spot \/ WriterOpensFifo(w)
                  \/ \E at \in Announced : spot' = [spot EXCEPT ![w] = at]
               /\ UNCHANGED killed /\ short' \in BOOLEAN /\ (short => short')
    BY <1>1, <1>a DEF WriterStep, Announce, AnnounceBroken, WriterOpens, WriterCloses, WriterCopies,
       WriterBroken, WriterEnds, WriterOpensFifo, Goes
  <1>2. ASSUME NEW r \in Reader, ReaderStep(r)
        PROVE  /\ \/ UNCHANGED spot \/ ReaderOpensFifo(r)
                  \/ \E at \in Late \union {"gone"} : spot' = [spot EXCEPT ![r] = at]
               /\ UNCHANGED killed /\ short' \in BOOLEAN /\ (short => short')
    BY <1>2, <1>a DEF ReaderStep, ReadName, Check, ReaderOpens, ReaderWakes, ReaderCopies, ReaderEnds,
       ReaderOpensFifo, Goes
  <1>3. ASSUME NEW p \in Process, KillProcess(p)
        PROVE  spot' = [spot EXCEPT ![p] = "gone"] /\ killed' = killed + 1 /\ killed < MaxKilled /\ UNCHANGED short
    BY <1>3 DEF KillProcess, Goes
  <1>4. ASSUME NEW w \in Writer, WriterOpensFifo(w)
        PROVE  /\ spot' \in [Process -> Early \union Late \union Announced \union {"announce"}]
               /\ \A r \in Reader : spot'[r] \in Early \union Late \union {"gone"}
               /\ \A v \in Writer : spot'[v] \in {"start", "wait", "announce"} \union Announced
    BY <1>a, <1>4 DEF WriterOpensFifo
  <1>5. ASSUME NEW r \in Reader, ReaderOpensFifo(r)
        PROVE  /\ spot' \in [Process -> Early \union Late \union Announced \union {"announce"}]
               /\ \A q \in Reader : spot'[q] \in Early \union Late \union {"gone"}
               /\ \A w \in Writer : spot'[w] \in {"start", "wait", "announce"} \union Announced
    BY <1>a, <1>5 DEF ReaderOpensFifo
  <1>6. CASE \E w \in Writer : WriterStep(w)
    BY <1>a, <1>1, <1>4, <1>6
  <1>7. CASE \E r \in Reader : ReaderStep(r)
    BY <1>a, <1>2, <1>5, <1>7
  <1>8. CASE \E p \in Process : KillProcess(p)
    BY <1>a, <1>3, <1>8
  <1>9. CASE UNCHANGED smartVars
    BY <1>a, <1>9 DEF smartVars
  <1> QED
    BY <1>6, <1>7, <1>8, <1>9 DEF SmartNext

(* A writer past its nap closes Fifo, copies and ends, and a process that is gone
   does not come back. *)
LEMMA CopyingStays ==
  ASSUME Types, [SmartNext]_smartVars
  PROVE  /\ \A w \in Writer : spot[w] \in {"copy", "gone"} => spot'[w] \in {"copy", "gone"}
         /\ \A w \in Writer : spot[w] \in {"close", "copy", "gone"} => spot'[w] \in {"close", "copy", "gone"}
         /\ \A p \in Process : spot[p] = "gone" => spot'[p] = "gone"
  <1> DEFINE Stays == /\ \A w \in Writer : spot[w] \in {"copy", "gone"} => spot'[w] \in {"copy", "gone"}
                      /\ \A w \in Writer : spot[w] \in {"close", "copy", "gone"} => spot'[w] \in {"close", "copy", "gone"}
                      /\ \A p \in Process : spot[p] = "gone" => spot'[p] = "gone"
  <1>a. spot \in [Process -> Early \union Late \union Announced \union {"announce"}]
    BY DEF Types
  <1>1. ASSUME NEW w \in Writer, WriterStep(w)
        PROVE  \/ UNCHANGED spot \/ WriterOpensFifo(w)
               \/ \E at \in Announced : /\ spot' = [spot EXCEPT ![w] = at] /\ spot[w] # "gone"
                                        /\ spot[w] = "close" => at = "copy"
                                        /\ spot[w] = "copy" => at = "gone"
    BY <1>1 DEF WriterStep, Announce, AnnounceBroken, WriterOpens, WriterCloses, WriterCopies,
       WriterBroken, WriterEnds, Goes
  <1>2. ASSUME NEW r \in Reader, ReaderStep(r)
        PROVE  \/ UNCHANGED spot \/ ReaderOpensFifo(r)
               \/ spot[r] # "gone" /\ \E at \in Late \union {"gone"} : spot' = [spot EXCEPT ![r] = at]
    BY <1>2 DEF ReaderStep, ReadName, Check, ReaderOpens, ReaderWakes, ReaderCopies, ReaderEnds, Goes
  <1>3. ASSUME UNCHANGED spot PROVE Stays
    BY <1>3
  <1>4. ASSUME NEW p \in Process, KillProcess(p) PROVE Stays
    BY <1>a, <1>4 DEF KillProcess, Goes
  <1>5. ASSUME (\E r \in Reader : ReaderOpensFifo(r)) \/ (\E w \in Writer : WriterOpensFifo(w)) PROVE Stays
    <2>1. \A q \in Process : spot[q] \in {"close", "copy", "gone"} => spot'[q] = spot[q]
      BY <1>5, OpensFifoMoves
    <2> QED
      BY <2>1
  <1>6. ASSUME NEW w \in Writer, NEW at \in Announced, spot' = [spot EXCEPT ![w] = at], spot[w] # "gone",
               spot[w] = "close" => at = "copy", spot[w] = "copy" => at = "gone"
        PROVE  Stays
    BY <1>a, <1>6
  <1>7. ASSUME NEW r \in Reader, NEW at \in Late \union {"gone"}, spot' = [spot EXCEPT ![r] = at],
               spot[r] # "gone"
        PROVE  Stays
    BY <1>a, <1>7
  <1> HIDE DEF Stays
  <1>8. ASSUME NEW w \in Writer, WriterStep(w) PROVE Stays
    BY <1>1, <1>3, <1>5, <1>6, <1>8
  <1>9. ASSUME NEW r \in Reader, ReaderStep(r) PROVE Stays
    BY <1>2, <1>3, <1>5, <1>7, <1>9
  <1>10. Stays
    BY <1>3, <1>4, <1>8, <1>9 DEF SmartNext, smartVars
  <1> QED
    BY <1>10 DEF Stays

LEMMA TypesNext ==
  ASSUME Types, Names, [SmartNext]_smartVars
  PROVE  Types'
  <1>s. /\ spot' \in [Process -> Early \union Late \union Announced \union {"announce"}]
        /\ \A r \in Reader : spot'[r] \in Early \union Late \union {"gone"}
        /\ \A w \in Writer : spot'[w] \in {"start", "wait", "announce"} \union Announced
        /\ killed' \in 0 .. MaxKilled /\ short' \in BOOLEAN
    BY SpotsNext
  <1>a. /\ fifo \in Seq(Writer) /\ mine \in [Reader -> Writer \cup {Nobody}]
        /\ \A w \in Writer : pipe[w] \in Seq(Item) /\ Len(pipe[w]) <= OwnPipeSize /\ Len(pipe[w]) \in Nat
        /\ next \in [Writer -> 1 .. Pieces + 1] /\ pipe \in [Writer -> Seq(Item)] /\ outputs \in [Reader -> Seq(Item)]
    BY DEF Types, SmartTypeOK
  <1>b. SUFFICES /\ fifo' \in Seq(Writer) /\ mine' \in [Reader -> Writer \cup {Nobody}]
                 /\ pipe' \in [Writer -> Seq(Item)] /\ outputs' \in [Reader -> Seq(Item)]
                 /\ \A w \in Writer : Len(pipe'[w]) <= OwnPipeSize
                 /\ next' \in [Writer -> 1 .. Pieces + 1]
    BY <1>s DEF Types, SmartTypeOK
  <1> HIDE DEF Item
  <1>1. CASE Moving
    <2>1. <<>> \in Seq(Writer)
      OBVIOUS
    <2> QED
      BY <1>1, <1>a, <2>1 DEF Moving
  <1>2. ASSUME NEW w \in Writer, Announce(w)
        PROVE  fifo' \in Seq(Writer) /\ UNCHANGED <<mine, pipe, outputs, next>>
    BY <1>2, <1>a DEF Announce
  <1>3. ASSUME NEW w \in Writer, WriterCopies(w)
        PROVE  /\ UNCHANGED <<fifo, mine, outputs>> /\ pipe' \in [Writer -> Seq(Item)]
               /\ \A v \in Writer : Len(pipe'[v]) <= OwnPipeSize
               /\ next' \in [Writer -> 1 .. Pieces + 1]
    <2>1. Piece(w, next[w]) \in Item /\ next[w] + 1 \in 1 .. Pieces + 1
      BY <1>3, <1>a DEF WriterCopies, Piece, Item
    <2>2. /\ Append(pipe[w], Piece(w, next[w])) \in Seq(Item)
          /\ Len(Append(pipe[w], Piece(w, next[w]))) = Len(pipe[w]) + 1
      BY <1>a, <2>1
    <2>3. Len(pipe[w]) + 1 <= OwnPipeSize
      BY <1>3, <1>a DEF WriterCopies
    <2> QED
      BY <1>3, <1>a, <2>1, <2>2, <2>3 DEF WriterCopies
  <1>4. ASSUME NEW r \in Reader, ReadName(r)
        PROVE  fifo' \in Seq(Writer) /\ mine' \in [Reader -> Writer \cup {Nobody}] /\ UNCHANGED <<pipe, outputs, next>>
    <2>1. Head(fifo) \in Writer /\ Tail(fifo) \in Seq(Writer)
      BY <1>4, <1>a, HeadTailProperties DEF ReadName
    <2> QED
      BY <1>4, <1>a, <2>1 DEF ReadName
  <1>5. ASSUME NEW r \in Reader, ReaderCopies(r)
        PROVE  /\ UNCHANGED <<fifo, mine, next>> /\ pipe' \in [Writer -> Seq(Item)]
               /\ outputs' \in [Reader -> Seq(Item)] /\ \A v \in Writer : Len(pipe'[v]) <= OwnPipeSize
    <2>1. mine[r] \in Writer
      BY <1>5, <1>a DEF Names, ReaderCopies
    <2>2. /\ Head(pipe[mine[r]]) \in Item /\ Tail(pipe[mine[r]]) \in Seq(Item)
          /\ Len(Tail(pipe[mine[r]])) = Len(pipe[mine[r]]) - 1
      BY <1>5, <1>a, <2>1, HeadTailProperties DEF ReaderCopies
    <2>3. Append(outputs[r], Head(pipe[mine[r]])) \in Seq(Item)
      BY <1>a, <2>2
    <2>4. Len(Tail(pipe[mine[r]])) <= OwnPipeSize
      BY <1>a, <2>1, <2>2
    <2> QED
      BY <1>5, <1>a, <2>1, <2>2, <2>3, <2>4 DEF ReaderCopies
  <1> QED
    BY <1>a, <1>1, <1>2, <1>3, <1>4, <1>5, StepKinds

-----------------------------------------------------------------------------
LEMMA NamesNext ==
  ASSUME Types, Names, [SmartNext]_smartVars
  PROVE  Names'
  <1>a. /\ fifo \in Seq(Writer) /\ mine \in [Reader -> Writer \cup {Nobody}]
        /\ \A k \in 1..Len(fifo) : fifo[k] \in Writer
        /\ Len(fifo) \in Nat /\ spot \in [Process -> Early \union Late \union Announced \union {"announce"}]
    BY DEF Types, SmartTypeOK
  <1>1. CASE Moving
    <2>1. Len(<<>>) = 0
      OBVIOUS
    <2>2. /\ \A k \in 1..Len(fifo') : k \in 1..Len(fifo) /\ fifo'[k] = fifo[k]
          /\ mine' = mine
      BY <1>1, <2>1 DEF Moving
    <2>3. /\ \A w \in Writer : spot'[w] \notin Announced => spot[w] \notin Announced
          /\ \A r \in Reader : (spot'[r] \in Early => spot[r] \in Early) /\ (spot'[r] \in Late => spot[r] \in Late)
      BY <1>1 DEF Moving
    <2> QED
      BY <2>2, <2>3 DEF Names
  <1>2. ASSUME NEW w \in Writer, Announce(w) PROVE Names'
    <2>1. /\ fifo' = Append(fifo, w) /\ mine' = mine /\ spot' = [spot EXCEPT ![w] = "nap"]
          /\ spot[w] = "announce"
      BY <1>2 DEF Announce
    <2>2. /\ Len(fifo') = Len(fifo) + 1 /\ fifo'[Len(fifo) + 1] = w
          /\ \A k \in 1..Len(fifo) : fifo'[k] = fifo[k]
      BY <1>a, <2>1
    <2>3. /\ \A k \in 1..Len(fifo) : fifo[k] # w
          /\ \A r \in Reader : mine[r] # w
      BY <2>1 DEF Names
    <2>4. \A k \in 1..Len(fifo') : k \in 1..Len(fifo) \/ k = Len(fifo) + 1
      BY <1>a, <2>2
    <2>5. \A i, j \in 1..Len(fifo') : fifo'[i] = fifo'[j] => i = j
      BY <2>2, <2>3, <2>4 DEF Names
    <2>6. \A r \in Reader : \A k \in 1..Len(fifo') : mine'[r] # fifo'[k]
      BY <2>1, <2>2, <2>3, <2>4 DEF Names
    <2>7. \A v \in Writer \ {w} : spot'[v] = spot[v] /\ \A k \in 1..Len(fifo') : fifo'[k] = v => k \in 1..Len(fifo)
      BY <1>a, <2>1, <2>2, <2>4
    <2>8. \A r \in Reader : spot'[r] = spot[r]
      BY <1>a, <2>1
    <2>9. spot'[w] \in Announced
      BY <1>a, <2>1
    <2> QED
      BY <2>1, <2>2, <2>5, <2>6, <2>7, <2>8, <2>9 DEF Names
  <1>3. ASSUME NEW r \in Reader, ReadName(r) PROVE Names'
    <2> DEFINE w == fifo[1]
    <2>1. /\ spot[r] = "name" /\ fifo # <<>> /\ fifo' = Tail(fifo) /\ spot' = [spot EXCEPT ![r] = "check"]
          /\ mine' = [mine EXCEPT ![r] = w] /\ 1 \in 1..Len(fifo)
      BY <1>3, <1>a DEF ReadName
    <2>2. Len(fifo') = Len(fifo) - 1 /\ \A k \in 1..Len(fifo') : fifo'[k] = fifo[k + 1] /\ k + 1 \in 1..Len(fifo)
      BY <1>a, <2>1, HeadTailProperties
    <2>3. mine[r] = Nobody /\ w \in Writer /\ mine'[r] = w /\ \A s \in Reader \ {r} : mine'[s] = mine[s]
      BY <1>a, <2>1 DEF Names
    <2>4. \A s \in Reader : mine[s] # w
      BY <2>1 DEF Names
    <2>5. \A k \in 1..Len(fifo') : fifo'[k] # w
      <3>1. ASSUME NEW k \in 1..Len(fifo') PROVE k + 1 # 1 /\ fifo'[k] = fifo[k + 1] /\ k + 1 \in 1..Len(fifo)
        BY <2>2
      <3> QED
        BY <2>1, <3>1 DEF Names
    <2>6. \A i, j \in 1..Len(fifo') : fifo'[i] = fifo'[j] => i = j
      <3>1. ASSUME NEW i \in 1..Len(fifo'), NEW j \in 1..Len(fifo'), fifo'[i] = fifo'[j]
            PROVE  i + 1 = j + 1
        BY <2>2, <3>1 DEF Names
      <3> QED
        BY <3>1
    <2>7. \A s \in Reader : \A k \in 1..Len(fifo') : mine'[s] # fifo'[k]
      BY <2>2, <2>3, <2>5 DEF Names
    <2>8. \A s, t \in Reader : mine'[s] = mine'[t] /\ mine'[s] # Nobody => s = t
      BY <2>3, <2>4 DEF Names
    <2>9. spot[w] \in Announced
      BY <2>1, <2>3 DEF Names
    <2>10. \A v \in Writer : spot'[v] = spot[v]
      BY <1>a, <2>1
    <2>11. \A v \in Writer : spot'[v] \notin Announced =>
             (\A k \in 1..Len(fifo') : fifo'[k] # v) /\ (\A s \in Reader : mine'[s] # v)
      BY <2>2, <2>3, <2>9, <2>10 DEF Names
    <2>12. spot'[r] = "check" /\ \A s \in Reader \ {r} : spot'[s] = spot[s]
      BY <1>a, <2>1
    <2>13. \A s \in Reader : (spot'[s] \in Early => mine'[s] = Nobody) /\ (spot'[s] \in Late => mine'[s] # Nobody)
      BY <2>3, <2>12 DEF Names
    <2> QED
      BY <2>6, <2>7, <2>8, <2>11, <2>13 DEF Names
  <1>4. CASE UNCHANGED <<spot, fifo, mine>>
    BY <1>4 DEF Names
  <1> QED
    BY <1>1, <1>2, <1>3, <1>4, StepKinds DEF WriterCopies, ReaderCopies

-----------------------------------------------------------------------------
(* One piece more in the pipe, and one piece from the pipe to the output. *)
LEMMA PipeGrows ==
  ASSUME NEW o \in Seq(Item), NEW p \in Seq(Item), NEW n \in Nat, NEW w \in Writer, Follows(o, p, n, w)
  PROVE  Follows(o, Append(p, Piece(w, n)), n + 1, w)
  <1> DEFINE e == Piece(w, n)
             q == Append(p, e)
  <1>1. e \in Item
    BY DEF Piece, Item
  <1>4. e = Piece(w, n)
    OBVIOUS
  <1> HIDE DEF e, Item
  <1>2. Len(q) = Len(p) + 1 /\ q[Len(p) + 1] = e /\ \A k \in 1..Len(p) : q[k] = p[k]
    BY <1>1
  <1>3. Len(o) \in Nat /\ Len(p) \in Nat
    OBVIOUS
  <1> HIDE DEF q
  <1>5. Len(o) + Len(q) = (n + 1) - 1 /\ Len(o) + (Len(p) + 1) = n
    <2>1. Len(o) + Len(p) = n - 1
      BY DEF Follows
    <2> QED
      BY <1>2, <1>3, <2>1
  <1>6. \A k \in 1..Len(q) : k \in 1..Len(p) \/ k = Len(p) + 1
    BY <1>2, <1>3
  <1>7. \A k \in 1..Len(q) : q[k] = Piece(w, Len(o) + k)
    BY <1>2, <1>4, <1>5, <1>6 DEF Follows
  <1>8. Follows(o, q, n + 1, w)
    BY <1>5, <1>7 DEF Follows
  <1> QED
    BY <1>8 DEF q, e

LEMMA PieceMoves ==
  ASSUME NEW o \in Seq(Item), NEW p \in Seq(Item), NEW n \in Nat, NEW w \in Writer, Follows(o, p, n, w),
         p # <<>>
  PROVE  Follows(Append(o, Head(p)), Tail(p), n, w)
  <1> DEFINE u == Append(o, Head(p))
             q == Tail(p)
  <1> HIDE DEF Item
  <1>1. Head(p) = p[1] /\ Head(p) \in Item /\ 1 \in 1..Len(p)
    OBVIOUS
  <1>2. Len(u) = Len(o) + 1 /\ u[Len(o) + 1] = p[1] /\ \A k \in 1..Len(o) : u[k] = o[k]
    BY <1>1
  <1>3. Len(q) = Len(p) - 1 /\ \A k \in 1..Len(q) : q[k] = p[k + 1]
    BY HeadTailProperties
  <1>4. Len(o) \in Nat /\ Len(p) \in Nat
    OBVIOUS
  <1> HIDE DEF u, q
  <1>5. Len(u) + Len(q) = n - 1
    <2>1. Len(o) + Len(p) = n - 1
      BY DEF Follows
    <2> QED
      BY <1>2, <1>3, <1>4, <2>1
  <1>6. \A k \in 1..Len(u) : k \in 1..Len(o) \/ k = Len(o) + 1
    BY <1>2, <1>4
  <1>7. p[1] = Piece(w, Len(o) + 1)
    BY <1>1 DEF Follows
  <1>8. \A k \in 1..Len(u) : u[k] = Piece(w, k)
    BY <1>2, <1>6, <1>7 DEF Follows
  <1>9. ASSUME NEW k \in 1..Len(q) PROVE q[k] = Piece(w, Len(u) + k)
    <2>1. k + 1 \in 1..Len(p) /\ Len(o) + (k + 1) = Len(u) + k
      BY <1>2, <1>3, <1>4
    <2>2. p[k + 1] = Piece(w, Len(o) + (k + 1))
      BY <2>1 DEF Follows
    <2> QED
      BY <1>3, <2>1, <2>2
  <1>10. Follows(u, q, n, w)
    BY <1>5, <1>8, <1>9 DEF Follows
  <1> QED
    BY <1>10 DEF u, q

LEMMA StreamsNext ==
  ASSUME Types, Names, Streams, [SmartNext]_smartVars
  PROVE  Streams'
  <1>a. /\ mine \in [Reader -> Writer \cup {Nobody}]
        /\ next \in [Writer -> 1 .. Pieces + 1] /\ pipe \in [Writer -> Seq(Item)] /\ outputs \in [Reader -> Seq(Item)]
        /\ fifo \in Seq(Writer) /\ spot \in [Process -> Early \union Late \union Announced \union {"announce"}]
    BY DEF Types, SmartTypeOK
  <1>b. \A w \in Writer : spot[w] \in {"copy", "gone"} => spot'[w] \in {"copy", "gone"}
    BY CopyingStays
  <1> HIDE DEF Item
  <1>1. CASE UNCHANGED <<mine, pipe, next, outputs>>
    <2>1. mine' = mine /\ pipe' = pipe /\ next' = next /\ outputs' = outputs
      BY <1>1
    <2> QED
      BY <2>1, <1>b DEF Streams
  <1>2. ASSUME NEW w \in Writer, WriterCopies(w) PROVE Streams'
    <2>1. /\ spot[w] = "copy" /\ pipe' = [pipe EXCEPT ![w] = Append(pipe[w], Piece(w, next[w]))]
          /\ next' = [next EXCEPT ![w] = next[w] + 1] /\ UNCHANGED <<spot, mine, outputs>>
      BY <1>2 DEF WriterCopies
    <2>2. PICK r \in Reader : mine[r] = w
      BY <1>2 DEF WriterCopies, ReadersOf
    <2>3. \A s \in Reader : mine[s] = w => s = r
      BY <2>2 DEF Names
    <2>4. /\ pipe'[w] = Append(pipe[w], Piece(w, next[w])) /\ next'[w] = next[w] + 1
          /\ \A v \in Writer \ {w} : pipe'[v] = pipe[v] /\ next'[v] = next[v]
      BY <1>a, <2>1
    <2>5. outputs[r] \in Seq(Item) /\ pipe[w] \in Seq(Item) /\ next[w] \in Nat
      BY <1>a
    <2>6. Follows(outputs[r], pipe'[w], next'[w], w)
      <3>1. Follows(outputs[r], pipe[w], next[w], w)
        BY <2>2 DEF Streams
      <3> QED
        BY <2>4, <2>5, <3>1, PipeGrows
    <2>9. ASSUME NEW s \in Reader, NEW v \in Writer, mine'[s] = v
          PROVE  Follows(outputs'[s], pipe'[v], next'[v], v)
      <3>0. mine[s] = v /\ outputs' = outputs
        BY <2>1, <2>9
      <3>1. CASE v = w
        BY <2>3, <2>6, <3>0, <3>1
      <3>2. CASE v # w
        BY <2>4, <3>0, <3>2 DEF Streams
      <3> QED
        BY <3>1, <3>2
    <2>10. \A v \in Writer : (\A s \in Reader : mine'[s] # v) => pipe'[v] = <<>> /\ next'[v] = 1
      BY <2>1, <2>2, <2>4 DEF Streams
    <2>11. \A v \in Writer : next'[v] > 1 => spot'[v] \in {"copy", "gone"}
      BY <2>1, <2>4 DEF Streams
    <2> QED
      BY <2>1, <2>9, <2>10, <2>11 DEF Streams
  <1>3. ASSUME NEW r \in Reader, ReadName(r) PROVE Streams'
    <2> DEFINE w == Head(fifo)
    <2>1. /\ spot[r] = "name" /\ fifo # <<>> /\ mine' = [mine EXCEPT ![r] = w]
          /\ UNCHANGED <<pipe, next, outputs>>
      BY <1>3 DEF ReadName
    <2>2. w \in Writer /\ \A s \in Reader : mine[s] # w
      <3>1. fifo[1] = w /\ 1 \in 1..Len(fifo) /\ w \in Writer
        BY <1>a, <2>1
      <3> QED
        BY <3>1 DEF Names
    <2> HIDE DEF w
    <2>3. mine[r] = Nobody /\ outputs[r] = <<>> /\ pipe[w] = <<>> /\ next[w] = 1
      BY <2>1, <2>2 DEF Names, Streams
    <2>4. mine'[r] = w /\ \A s \in Reader \ {r} : mine'[s] = mine[s]
      BY <1>a, <2>1
    <2>5. Follows(<<>>, <<>>, 1, w)
      <3>1. Len(<<>>) = 0
        OBVIOUS
      <3> QED
        BY <3>1 DEF Follows
    <2>6. ASSUME NEW s \in Reader, NEW v \in Writer, mine'[s] = v
          PROVE  Follows(outputs'[s], pipe'[v], next'[v], v)
      <3>0. outputs' = outputs /\ pipe' = pipe /\ next' = next
        BY <2>1
      <3>1. CASE s = r
        BY <2>3, <2>4, <2>5, <2>6, <3>0, <3>1
      <3>2. CASE s # r
        <4>1. mine[s] = v
          BY <2>4, <2>6, <3>2
        <4> QED
          BY <3>0, <4>1 DEF Streams
      <3> QED
        BY <3>1, <3>2
    <2>7. \A v \in Writer : (\A s \in Reader : mine'[s] # v) => \A s \in Reader : mine[s] # v
      BY <2>3, <2>4
    <2>8. \A s \in Reader : mine'[s] = Nobody => mine[s] = Nobody
      BY <2>2, <2>4
    <2>9. /\ \A v \in Writer : (\A s \in Reader : mine'[s] # v) => pipe'[v] = <<>> /\ next'[v] = 1
          /\ \A s \in Reader : mine'[s] = Nobody => outputs'[s] = <<>>
          /\ \A v \in Writer : next'[v] > 1 => spot'[v] \in {"copy", "gone"}
      <3>1. outputs' = outputs /\ pipe' = pipe /\ next' = next
        BY <2>1
      <3> QED
        BY <1>b, <2>7, <2>8, <3>1 DEF Streams
    <2> QED
      BY <2>6, <2>9 DEF Streams
  <1>4. ASSUME NEW r \in Reader, ReaderCopies(r) PROVE Streams'
    <2> DEFINE w == mine[r]
    <2>1. /\ spot[r] = "copy" /\ pipe[w] # <<>>
          /\ outputs' = [outputs EXCEPT ![r] = Append(outputs[r], Head(pipe[w]))]
          /\ pipe' = [pipe EXCEPT ![w] = Tail(pipe[w])] /\ UNCHANGED <<spot, mine, next>>
      BY <1>4 DEF ReaderCopies
    <2>2. w \in Writer /\ \A s \in Reader : mine[s] = w => s = r
      BY <1>a, <2>1 DEF Names
    <2>3. w = mine[r]
      OBVIOUS
    <2> HIDE DEF w
    <2>4. /\ pipe'[w] = Tail(pipe[w]) /\ \A v \in Writer \ {w} : pipe'[v] = pipe[v]
          /\ outputs'[r] = Append(outputs[r], Head(pipe[w])) /\ \A s \in Reader \ {r} : outputs'[s] = outputs[s]
      BY <1>a, <2>1, <2>2
    <2>5. outputs[r] \in Seq(Item) /\ pipe[w] \in Seq(Item) /\ next[w] \in Nat /\ next' = next /\ mine' = mine
      BY <1>a, <2>1, <2>2
    <2>6. Follows(outputs'[r], pipe'[w], next'[w], w)
      <3>1. Follows(outputs[r], pipe[w], next[w], w)
        BY <2>2, <2>3 DEF Streams
      <3> QED
        BY <2>1, <2>2, <2>4, <2>5, <3>1, PieceMoves
    <2>7. ASSUME NEW s \in Reader, NEW v \in Writer, mine'[s] = v
          PROVE  Follows(outputs'[s], pipe'[v], next'[v], v)
      <3>1. CASE s = r
        BY <2>3, <2>5, <2>6, <2>7, <3>1
      <3>2. CASE s # r
        <4>1. v # w /\ mine[s] = v
          BY <2>2, <2>5, <2>7, <3>2
        <4> QED
          BY <2>4, <2>5, <3>2, <4>1 DEF Streams
      <3> QED
        BY <3>1, <3>2
    <2>8. \A v \in Writer : (\A s \in Reader : mine'[s] # v) => pipe'[v] = <<>> /\ next'[v] = 1
      BY <2>3, <2>4, <2>5 DEF Streams
    <2>9. \A s \in Reader : mine'[s] = Nobody => outputs'[s] = <<>>
      BY <2>2, <2>3, <2>4, <2>5 DEF Streams
    <2>10. \A v \in Writer : next'[v] > 1 => spot'[v] \in {"copy", "gone"}
      BY <1>b, <2>5 DEF Streams
    <2> QED
      BY <2>7, <2>8, <2>9, <2>10 DEF Streams
  <1> QED
    BY <1>1, <1>2, <1>3, <1>4, StepKinds DEF Moving, Announce

-----------------------------------------------------------------------------
(* A reader that has opened a pipe keeps it while a writer has it open. *)
LEMMA ReaderKept ==
  ASSUME Types, [SmartNext]_smartVars, killed' = killed,
         NEW w \in Writer, HasWriter(w), NEW r \in ReadersOf(w)
  PROVE  r \in ReadersOf(w)'
  <1>a. spot \in [Process -> Early \union Late \union Announced \union {"announce"}]
        /\ mine \in [Reader -> Writer \cup {Nobody}] /\ killed \in Nat
        /\ r \in Reader /\ mine[r] = w /\ spot[r] \in {"nap", "copy"} /\ spot[w] \in {"close", "copy"}
    BY DEF Types, SmartTypeOK, ReadersOf, HasWriter
  <1>1. mine'[r] = mine[r]
    <2>1. ASSUME NEW s \in Reader, ReadName(s) PROVE mine'[r] = mine[r]
      BY <1>a, <2>1 DEF ReadName
    <2> QED
      BY <2>1, StepKinds DEF Moving, Announce, WriterCopies, ReaderCopies
  <1>2. spot'[r] \in {"nap", "copy"}
    <2>1. ASSUME NEW v \in Writer, WriterStep(v), ~WriterOpensFifo(v) PROVE spot'[r] = spot[r]
      BY <1>a, <2>1 DEF WriterStep, Announce, AnnounceBroken, WriterOpens, WriterCloses, WriterCopies,
         WriterBroken, WriterEnds, Goes
    <2>2. ASSUME NEW s \in Reader, ReaderStep(s), s # r, ~ReaderOpensFifo(s) PROVE spot'[r] = spot[r]
      BY <1>a, <2>2 DEF ReaderStep, ReadName, Check, ReaderOpens, ReaderWakes, ReaderCopies, ReaderEnds, Goes
    <2>3. ASSUME ReaderStep(r), ~ReaderOpensFifo(r) PROVE spot'[r] \in {"nap", "copy"}
      BY <1>a, <2>3 DEF ReaderStep, ReadName, Check, ReaderOpens, ReaderWakes, ReaderCopies, ReaderEnds,
         Goes, HasWriter
    <2>4. ASSUME (\E s \in Reader : ReaderOpensFifo(s)) \/ (\E v \in Writer : WriterOpensFifo(v))
          PROVE  spot'[r] = spot[r]
      BY <1>a, <2>4, OpensFifoMoves
    <2>5. ~\E p \in Process : KillProcess(p)
      BY <1>a DEF KillProcess
    <2>6. UNCHANGED smartVars => spot' = spot
      BY DEF smartVars
    <2> QED
      BY <1>a, <2>1, <2>2, <2>3, <2>4, <2>5, <2>6 DEF SmartNext
  <1> QED
    BY <1>a, <1>1, <1>2 DEF ReadersOf

(* How a writer gets past its nap, and how it ends, when nobody is killed. *)
LEMMA WriterComes ==
  ASSUME Types, [SmartNext]_smartVars, killed' = killed, NEW w \in Writer, spot'[w] # spot[w]
  PROVE  /\ spot'[w] \in {"close", "copy"} => WriterOpens(w) \/ WriterCloses(w)
         /\ spot'[w] = "gone" => AnnounceBroken(w) \/ WriterOpens(w) \/ WriterBroken(w) \/ WriterEnds(w)
  <1>a. spot \in [Process -> Early \union Late \union Announced \union {"announce"}] /\ killed \in Nat
    BY DEF Types, SmartTypeOK
  <1>1. ASSUME NEW v \in Writer, WriterStep(v), ~WriterOpensFifo(v) PROVE v = w
    BY <1>a, <1>1 DEF WriterStep, Announce, AnnounceBroken, WriterOpens, WriterCloses, WriterCopies,
       WriterBroken, WriterEnds, Goes
  <1>2. ASSUME NEW r \in Reader, ReaderStep(r) PROVE ReaderOpensFifo(r)
    BY <1>a, <1>2 DEF ReaderStep, ReadName, Check, ReaderOpens, ReaderWakes, ReaderCopies, ReaderEnds, Goes
  <1>3. ASSUME (\E r \in Reader : ReaderOpensFifo(r)) \/ (\E v \in Writer : WriterOpensFifo(v))
        PROVE  spot'[w] \notin {"close", "copy", "gone"}
    BY <1>3, OpensFifoMoves
  <1>4. ~\E p \in Process : KillProcess(p)
    BY <1>a DEF KillProcess
  <1>5. ~UNCHANGED smartVars
    BY DEF smartVars
  <1>6. ASSUME WriterStep(w), ~WriterOpensFifo(w)
        PROVE  /\ spot'[w] \in {"close", "copy"} => WriterOpens(w) \/ WriterCloses(w)
               /\ spot'[w] = "gone" => AnnounceBroken(w) \/ WriterOpens(w) \/ WriterBroken(w) \/ WriterEnds(w)
    BY <1>a, <1>6 DEF WriterStep, Announce, AnnounceBroken, WriterOpens, WriterCloses, WriterCopies,
       WriterBroken, WriterEnds, Goes
  <1> QED
    BY <1>1, <1>2, <1>3, <1>4, <1>5, <1>6 DEF SmartNext

LEMMA ServedNext ==
  ASSUME Types, Names, Streams, Served, [SmartNext]_smartVars
  PROVE  Served'
  <1> SUFFICES ASSUME killed' = 0, NEW w \in Writer
               PROVE  /\ spot'[w] \in {"close", "copy"} => ReadersOf(w)' # {}
                      /\ spot'[w] = "gone" => next'[w] \in {1, Pieces + 1}
    BY DEF Served
  <1>a. /\ spot \in [Process -> Early \union Late \union Announced \union {"announce"}]
        /\ next \in [Writer -> 1 .. Pieces + 1] /\ killed \in Nat
    BY DEF Types, SmartTypeOK
  <1>b. killed = 0
    BY <1>a, SpotsNext
  <1>c. /\ spot[w] \in {"close", "copy"} => ReadersOf(w) # {}
        /\ spot[w] = "gone" => next[w] \in {1, Pieces + 1}
    BY <1>b DEF Served
  <1>1. ASSUME spot'[w] \in {"close", "copy"} PROVE ReadersOf(w)' # {}
    <2>1. CASE spot[w] \in {"close", "copy"}
      <3>1. PICK r \in ReadersOf(w) : TRUE
        BY <1>c, <2>1
      <3>2. r \in ReadersOf(w)'
        BY <1>b, <2>1, <3>1, ReaderKept DEF HasWriter
      <3> QED
        BY <3>2
    <2>2. CASE spot[w] \notin {"close", "copy"}
      <3>1. WriterOpens(w) \/ WriterCloses(w)
        BY <1>1, <1>b, <2>2, WriterComes
      <3>2. WriterOpens(w)
        BY <2>2, <3>1 DEF WriterCloses
      <3>3. ReadersOf(w) # {} /\ mine' = mine /\ \A r \in Reader : spot'[r] = spot[r]
        BY <1>1, <1>a, <3>2 DEF WriterOpens, Goes
      <3> QED
        BY <3>3 DEF ReadersOf
    <2> QED
      BY <2>1, <2>2
  <1>2. ASSUME spot'[w] = "gone" PROVE next'[w] \in {1, Pieces + 1}
    <2>1. CASE spot[w] = "gone"
      <3>1. ASSUME NEW v \in Writer, WriterCopies(v) PROVE next'[w] = next[w]
        BY <1>a, <2>1, <3>1 DEF WriterCopies
      <3>2. next'[w] = next[w]
        BY <3>1, StepKinds DEF Moving, Announce, ReadName, ReaderCopies
      <3> QED
        BY <1>c, <2>1, <3>2
    <2>2. CASE spot[w] # "gone"
      <3>1. AnnounceBroken(w) \/ WriterOpens(w) \/ WriterBroken(w) \/ WriterEnds(w)
        BY <1>2, <1>b, <2>2, WriterComes
      <3>2. next[w] > 1 => spot[w] \in {"copy", "gone"}
        BY DEF Streams
      <3>3. next' = next
        BY <3>1 DEF AnnounceBroken, WriterOpens, WriterBroken, WriterEnds
      <3>4. next[w] \in 1 .. Pieces + 1
        BY <1>a
      <3>5. CASE AnnounceBroken(w) \/ WriterOpens(w)
        BY <3>2, <3>3, <3>4, <3>5 DEF AnnounceBroken, WriterOpens
      <3>6. CASE WriterBroken(w)
        BY <1>c, <3>6 DEF WriterBroken
      <3>7. CASE WriterEnds(w)
        BY <3>3, <3>4, <3>7 DEF WriterEnds
      <3> QED
        BY <3>1, <3>5, <3>6, <3>7
    <2> QED
      BY <2>1, <2>2
  <1> QED
    BY <1>1, <1>2

LEMMA WaitedNext ==
  ASSUME Types, Names, Waited, [SmartNext]_smartVars
  PROVE  Waited'
  <1> SUFFICES ASSUME killed' = 0, ~short', NEW r \in Reader, NEW w \in Writer, mine'[r] = w
               PROVE  /\ spot'[r] = "copy" => spot'[w] \in {"close", "copy", "gone"}
                      /\ spot'[r] = "gone" => spot'[w] = "gone" /\ pipe'[w] = <<>>
    BY DEF Waited
  <1>a. /\ spot \in [Process -> Early \union Late \union Announced \union {"announce"}]
        /\ mine \in [Reader -> Writer \cup {Nobody}] /\ pipe \in [Writer -> Seq(Item)]
        /\ killed \in Nat /\ short \in BOOLEAN
    BY DEF Types, SmartTypeOK
  <1>b. killed = 0 /\ ~short
    BY <1>a, SpotsNext
  <1>c. /\ spot[w] \in {"close", "copy", "gone"} => spot'[w] \in {"close", "copy", "gone"}
        /\ spot[w] = "gone" => spot'[w] = "gone"
    BY CopyingStays
  <1>0. CASE \E s \in Reader : ReadName(s)
    <2>1. PICK s \in Reader : ReadName(s)
      BY <1>0
    <2>2. CASE s = r
      BY <1>a, <2>1, <2>2 DEF ReadName
    <2>3. CASE s # r
      <3>1. mine[r] = w /\ spot'[r] = spot[r] /\ spot'[w] = spot[w] /\ pipe' = pipe
        BY <1>a, <2>1, <2>3 DEF ReadName
      <3> QED
        BY <1>b, <3>1 DEF Waited
    <2> QED
      BY <2>2, <2>3
  <1>1. CASE ~\E s \in Reader : ReadName(s)
    <2>1. mine' = mine /\ mine[r] = w
      BY <1>1, StepKinds DEF Moving, Announce, WriterCopies, ReaderCopies
    <2>2. \A s \in Reader : mine[s] = w => s = r
      BY <2>1 DEF Names
    <2>3. /\ spot[r] = "copy" => spot[w] \in {"close", "copy", "gone"}
          /\ spot[r] = "gone" => spot[w] = "gone" /\ pipe[w] = <<>>
      BY <1>b, <2>1 DEF Waited
    <2>4. spot[w] \in Announced
      BY <2>1 DEF Names
    <2>5. ASSUME spot'[r] \in {"copy", "gone"}, spot[r] # spot'[r]
          PROVE  ReaderWakes(r) \/ Check(r) \/ ReaderEnds(r)
      <3>1. ASSUME NEW v \in Writer, WriterStep(v) PROVE WriterOpensFifo(v)
        BY <1>a, <2>5, <3>1 DEF WriterStep, Announce, AnnounceBroken, WriterOpens, WriterCloses,
           WriterCopies, WriterBroken, WriterEnds, Goes
      <3>2. ASSUME NEW s \in Reader, ReaderStep(s), ~ReaderOpensFifo(s) PROVE s = r
        BY <1>a, <2>5, <3>2 DEF ReaderStep, ReadName, Check, ReaderOpens, ReaderWakes, ReaderCopies,
           ReaderEnds, Goes
      <3>3. ~((\E s \in Reader : ReaderOpensFifo(s)) \/ (\E v \in Writer : WriterOpensFifo(v)))
        BY <2>5, OpensFifoMoves
      <3>4. ~UNCHANGED smartVars /\ ~\E p \in Process : KillProcess(p)
        BY <1>a, <1>b, <2>5 DEF smartVars, KillProcess
      <3>5. ReaderStep(r)
        BY <3>1, <3>2, <3>3, <3>4 DEF SmartNext
      <3> QED
        BY <1>a, <2>5, <3>3, <3>5 DEF ReaderStep, ReadName, ReaderOpens, ReaderCopies, Goes
    <2>6. ASSUME spot'[r] = "copy" PROVE spot'[w] \in {"close", "copy", "gone"}
      <3>1. CASE spot[r] = "copy"
        BY <1>c, <2>3, <3>1
      <3>2. CASE ReaderWakes(r)
        BY <1>a, <1>b, <2>1, <2>4, <3>2 DEF ReaderWakes, WriterUp, Goes
      <3>3. CASE Check(r) \/ ReaderEnds(r)
        BY <1>a, <2>6, <3>3 DEF Check, ReaderEnds, Goes
      <3> QED
        BY <2>5, <2>6, <3>1, <3>2, <3>3
    <2>7. ASSUME spot'[r] = "gone" PROVE spot'[w] = "gone" /\ pipe'[w] = <<>>
      <3>1. CASE spot[r] = "gone"
        <4>1. spot[w] = "gone" /\ pipe[w] = <<>>
          BY <2>3, <3>1
        <4>2. ASSUME NEW v \in Writer, WriterCopies(v) PROVE pipe'[w] = pipe[w]
          BY <1>a, <4>1, <4>2 DEF WriterCopies
        <4>3. ASSUME NEW s \in Reader, ReaderCopies(s) PROVE pipe'[w] = pipe[w]
          BY <1>a, <2>2, <3>1, <4>3 DEF ReaderCopies
        <4>4. pipe'[w] = pipe[w]
          BY <1>1, <4>2, <4>3, StepKinds DEF Moving, Announce
        <4> QED
          BY <1>c, <4>1, <4>4
      <3>2. CASE ReaderWakes(r)
        BY <1>a, <2>7, <3>2 DEF ReaderWakes, Goes
      <3>3. CASE Check(r)
        <4>1. PICK s \in ReadersOf(w) : TRUE
          BY <1>a, <2>1, <2>7, <3>3 DEF Check, Goes
        <4>2. s = r /\ spot[s] \in {"nap", "copy"}
          BY <2>2, <4>1 DEF ReadersOf
        <4> QED
          BY <3>3, <4>2 DEF Check
      <3>4. CASE ReaderEnds(r)
        <4>1. pipe' = pipe /\ pipe[w] = <<>> /\ spot[w] = "gone"
          BY <2>1, <2>3, <3>4 DEF ReaderEnds, HasWriter
        <4> QED
          BY <1>c, <4>1
      <3> QED
        BY <2>5, <2>7, <3>1, <3>2, <3>3, <3>4
    <2> QED
      BY <2>6, <2>7
  <1> QED
    BY <1>0, <1>1

-----------------------------------------------------------------------------
LEMMA OneAtMost ==
  ASSUME NEW S, \A x, y \in S : x = y
  PROVE  Cardinality(S) \in {0, 1} /\ (S = {} => Cardinality(S) = 0)
  <1>1. CASE S = {}
    BY <1>1, FS_EmptySet
  <1>2. CASE S # {}
    <2>1. PICK x \in S : TRUE
      BY <1>2
    <2>2. S = {x}
      BY <2>1
    <2> QED
      BY <1>2, <2>2, FS_Singleton
  <1> QED
    BY <1>1, <1>2

LEMMA OnePlace ==
  ASSUME Types, Names
  PROVE  NameHasOnePlace
  <1> SUFFICES ASSUME NEW w \in Writer
               PROVE  Cardinality({k \in DOMAIN fifo : fifo[k] = w})
                        + Cardinality({r \in Reader : mine[r] = w}) <= 1
    BY DEF NameHasOnePlace
  <1> DEFINE A == {k \in DOMAIN fifo : fifo[k] = w}
             B == {r \in Reader : mine[r] = w}
  <1>1. DOMAIN fifo = 1..Len(fifo)
    BY DEF Types, SmartTypeOK
  <1>2. /\ \A i, j \in A : i = j
        /\ \A r, s \in B : r = s
        /\ A = {} \/ B = {}
    BY <1>1 DEF Names
  <1> HIDE DEF A, B
  <1>3. /\ Cardinality(A) \in {0, 1} /\ (A = {} => Cardinality(A) = 0)
        /\ Cardinality(B) \in {0, 1} /\ (B = {} => Cardinality(B) = 0)
    BY <1>2, OneAtMost
  <1>4. Cardinality(A) + Cardinality(B) <= 1
    BY <1>2, <1>3
  <1> QED
    BY <1>4 DEF A, B

(* An output that follows w's file is its beginning, and the file when it is as long. *)
LEMMA OutputIsPrefix ==
  ASSUME NEW o \in Seq(Item), NEW p \in Seq(Item), NEW n \in 1..Pieces + 1, NEW w \in Writer,
         Follows(o, p, n, w)
  PROVE  /\ o = SubSeq(FileOf(w), 1, Len(o))
         /\ p = <<>> /\ n = Pieces + 1 => o = FileOf(w)
  <1>1. \A k \in 1..Pieces : Piece(w, k) \in Item
    BY DEF Piece, Item
  <1> HIDE DEF Item
  <1>2. FileOf(w) \in Seq(Item) /\ Len(FileOf(w)) = Pieces /\ \A k \in 1..Pieces : FileOf(w)[k] = Piece(w, k)
    BY <1>1 DEF FileOf
  <1>3. Len(o) \in Nat /\ Len(p) \in Nat /\ (p = <<>> => Len(p) = 0)
    OBVIOUS
  <1>4. Len(o) + Len(p) = n - 1 /\ \A k \in 1..Len(o) : o[k] = Piece(w, k)
    BY DEF Follows
  <1>5. Len(o) <= Pieces
    BY <1>3, <1>4
  <1> DEFINE f == FileOf(w)
             u == SubSeq(f, 1, Len(o))
  <1> HIDE DEF f
  <1>6. f \in Seq(Item) /\ Len(f) = Pieces /\ \A k \in 1..Pieces : f[k] = Piece(w, k)
    BY <1>2 DEF f
  <1>7. u \in Seq(Item) /\ Len(u) = Len(o) /\ \A k \in 1..Len(o) : u[k] = f[k]
    BY <1>3, <1>5, <1>6
  <1> HIDE DEF u
  <1>8. \A k \in 1..Len(o) : u[k] = o[k]
    BY <1>3, <1>4, <1>5, <1>6, <1>7
  <1>9. o = u
    BY <1>7, <1>8, SeqEqual
  <1>10. ASSUME p = <<>>, n = Pieces + 1 PROVE o = f
    <2>1. Len(o) = Len(f)
      BY <1>3, <1>4, <1>6, <1>10
    <2>2. \A k \in 1..Len(o) : o[k] = f[k]
      BY <1>4, <1>6, <2>1
    <2> QED
      BY <1>6, <2>1, <2>2, SeqEqual
  <1> QED
    BY <1>9, <1>10 DEF f, u

LEMMA OutputsRight == FInv => OutputsAreRight
  <1> SUFFICES ASSUME FInv PROVE OutputsAreRight
    OBVIOUS
  <1>a. /\ mine \in [Reader -> Writer \cup {Nobody}] /\ outputs \in [Reader -> Seq(Item)]
        /\ pipe \in [Writer -> Seq(Item)] /\ next \in [Writer -> 1 .. Pieces + 1]
    BY DEF FInv, Types, SmartTypeOK
  <1>1. ASSUME NEW r \in Reader, outputs[r] # <<>>
        PROVE  outputs[r] = SubSeq(FileOf(mine[r]), 1, Len(outputs[r]))
    <2>1. mine[r] \in Writer
      BY <1>a, <1>1 DEF FInv, Streams
    <2>2. Follows(outputs[r], pipe[mine[r]], next[mine[r]], mine[r])
      BY <2>1 DEF FInv, Streams
    <2> HIDE DEF Item
    <2> QED
      BY <1>a, <2>1, <2>2, OutputIsPrefix
  <1>2. ASSUME ~short, killed = 0, NEW r \in Reader, spot[r] = "gone", mine[r] # Nobody, next[mine[r]] > 1
        PROVE  outputs[r] = FileOf(mine[r])
    <2> DEFINE w == mine[r]
    <2>1. w \in Writer
      BY <1>a, <1>2
    <2>2. Follows(outputs[r], pipe[w], next[w], w)
      BY <2>1 DEF FInv, Streams
    <2>3. spot[w] = "gone" /\ pipe[w] = <<>>
      BY <1>2, <2>1 DEF FInv, Waited
    <2>4. next[w] = Pieces + 1
      BY <1>2, <2>1, <2>3 DEF FInv, Served
    <2> HIDE DEF Item
    <2> QED
      BY <1>a, <2>1, <2>2, <2>3, <2>4, OutputIsPrefix
  <1> QED
    BY <1>1, <1>2 DEF OutputsAreRight, OutputFromOne, PairCopiesWhole

-----------------------------------------------------------------------------
(* The inductive invariant holds: where a name and the pieces of a file are, and
   what a nap that was long enough has made sure of. *)
THEOREM FifoInvariantHolds == SmartSpec => []FInv
  <1>1. SmartInit => FInv
    BY SmartInit_
  <1>2. FInv /\ [SmartNext]_smartVars => FInv'
    <2> SUFFICES ASSUME FInv, [SmartNext]_smartVars PROVE FInv'
      OBVIOUS
    <2>1. Types /\ Names /\ Streams /\ Served /\ Waited
      BY DEF FInv
    <2>2. Types' /\ Names' /\ Streams'
      BY <2>1, TypesNext, NamesNext, StreamsNext
    <2>3. Served' /\ Waited'
      BY <2>1, ServedNext, WaitedNext
    <2> QED
      BY <2>2, <2>3 DEF FInv
  <1> QED
    BY <1>1, <1>2, PTL DEF SmartSpec

(* However many readers and writers meet, a writer's name is in Fifo or with one
   reader: no pipe gets two readers. *)
THEOREM NameStaysOne == SmartSpec => []SmartInv
  <1>1. FInv => SmartInv
    BY OnePlace DEF FInv, SmartInv, Types
  <1> QED
    BY <1>1, FifoInvariantHolds, PTL

(* An output is the beginning of one writer's file, and the whole of it once its
   reader has ended, if nobody was killed and no nap was too short. *)
THEOREM OutputsStayRight == SmartSpec => []OutputsAreRight
  BY OutputsRight, FifoInvariantHolds, PTL

(* If nobody is killed and no nap is too short, a writer gives up after its nap
   only if no reader has its name. *)
THEOREM NapServesWhoeverIsTaken == SmartSpec => TakenIsServed
  <1> DEFINE Deed == (~short' /\ killed' = 0) => \A w \in Writer :
                       (spot[w] = "nap" /\ spot'[w] = "gone") => ~\E r \in Reader : mine[r] = w
  <1>1. ASSUME FInv, [SmartNext]_smartVars, ~short', killed' = 0, NEW w \in Writer,
               spot[w] = "nap", spot'[w] = "gone", NEW r \in Reader, mine[r] = w
        PROVE  FALSE
    <2>a. /\ spot \in [Process -> Early \union Late \union Announced \union {"announce"}]
          /\ killed \in Nat /\ short \in BOOLEAN /\ spot[r] \in Early \union Late \union {"gone"}
      BY <1>1 DEF FInv, Types, SmartTypeOK
    <2>b. Types /\ Names /\ Waited
      BY <1>1 DEF FInv
    <2>1. killed = 0 /\ ~short
      BY <1>1, <2>a, <2>b, SpotsNext
    <2>2. AnnounceBroken(w) \/ WriterOpens(w) \/ WriterBroken(w) \/ WriterEnds(w)
      BY <1>1, <2>1, <2>b, WriterComes
    <2>3. WriterOpens(w)
      BY <1>1, <2>2 DEF AnnounceBroken, WriterBroken, WriterEnds
    <2>4. ReadersOf(w) = {} /\ ReaderUp(w)
      BY <1>1, <2>a, <2>3 DEF WriterOpens, Goes
    <2>5. spot[r] \notin {"nap", "copy", "check", "open"}
      BY <1>1, <2>4 DEF ReadersOf, ReaderUp, OnItsWay
    <2>6. spot[r] \notin Early
      BY <1>1, <2>b DEF Names
    <2>7. spot[r] # "gone"
      BY <1>1, <2>b, <2>1 DEF Waited
    <2> QED
      BY <2>a, <2>5, <2>6, <2>7
  <1>2. FInv /\ [SmartNext]_smartVars => [Deed]_smartVars
    BY <1>1
  <1>3. SmartSpec => [][Deed]_smartVars
    <2> HIDE DEF Deed
    <2> QED
      BY <1>2, FifoInvariantHolds, PTL DEF SmartSpec
  <1> QED
    BY <1>3 DEF TakenIsServed, Deed

-----------------------------------------------------------------------------
(* simple_fifo_copy.c *)
(* Before a process has got to the FIFO, at it, and behind it. *)
Before == {"make", "ask", "unlink", "again", "open"}
At == {"wait", "copy", "end"}
Behind == {"unlinkend", "gone"}
Byte == Sender \X Nat

SimpleTypes ==
  /\ name \in Inode \union {0}
  /\ held \in [Party -> Inode \union {0}]
  /\ data \in [Inode -> Seq(Byte)]
  /\ met \in [Inode -> SUBSET Party]
  /\ stage \in [Party -> Before \union At \union Behind]
  /\ \A s \in Sender : stage[s] # "end"
  /\ sent \in [Sender -> 0..Bytes]
  /\ copied \in [Receiver -> Seq(Byte)]
  /\ lost \in Nat

(* A process opens one inode in its life and has it as long as it copies; who has
   not opened one has copied nothing. *)
OpenedOnce ==
  /\ \A p \in Party : held[p] # 0 <=> stage[p] \in At
  /\ \A p \in Party : held[p] # 0 => p \in met[held[p]]
  /\ \A i \in Inode : \A p \in met[i] : stage[p] \notin Before /\ held[p] \in {0, i}
  /\ \A s \in Sender : stage[s] \in Before => sent[s] = 0
  /\ \A r \in Receiver : stage[r] \in Before => copied[r] = <<>>

(* Nobody waits in open for a FIFO that one of the other side has. *)
WaitsAlone(p) ==
  stage[p] = "wait" => \A q \in Peers(p) : held[q] # held[p]
NobodyLeftWaiting == \A p \in Party : WaitsAlone(p)

(* As long as one side only has opened an inode, nothing has gone through it, and
   who is no longer there was killed. *)
StillWaits(p) == stage[p] = "wait" \/ (stage[p] = "gone" /\ lost > 0)
OneSidedAt(i) ==
  /\ met[i] \subseteq Sender =>
       data[i] = <<>> /\ \A s \in met[i] : sent[s] = 0 /\ StillWaits(s)
  /\ met[i] \subseteq Receiver =>
       data[i] = <<>> /\ \A r \in met[i] : copied[r] = <<>> /\ StillWaits(r)
OneSided == \A i \in Inode : OneSidedAt(i)

(* Between two that have an inode to themselves, what the reader has and what the
   FIFO holds are the bytes that the writer has read; the reader stops behind it. *)
Streamed(r, s) ==
  /\ copied[r] \o data[held[r]] = SubSeq(SimpleFile(s), 1, sent[s])
  /\ stage[s] \in Behind /\ sent[s] < Bytes => lost > 0
  /\ stage[r] = "end" => data[held[r]] = <<>> /\ stage[s] \in Behind

PairsStream ==
  \A r \in Receiver, s \in Sender : held[r] # 0 /\ met[held[r]] = {r, s} => Streamed(r, s)

SimpleIInv == SimpleTypes /\ OpenedOnce /\ NobodyLeftWaiting /\ OneSided /\ PairsStream

-----------------------------------------------------------------------------
LEMMA Parties ==
  /\ Party = Receiver \union Sender /\ Receiver \intersect Sender = {} /\ IsFiniteSet(Party)
  /\ Bytes \in Nat /\ MaxLost \in Nat /\ Capacity \in Nat /\ Inode \subseteq Nat /\ 0 \notin Inode
  BY PartyAssumption, SimpleBoundAssumption, FS_CardinalityType DEF Party, Inode

(* There is always an inode that nobody uses. *)
LEMMA FreeInodeIsFree ==
  ASSUME held \in [Party -> Inode \union {0}], name = 0
  PROVE  FreeInode \in Inode /\ \A p \in Party : held[p] # FreeInode
  <1> DEFINE Used == {held[p] : p \in Party}
  <1>1. Cardinality(Party) \in Nat /\ IsFiniteSet(Party)
    BY Parties, FS_CardinalityType
  <1>2. IsFiniteSet(Used) /\ Cardinality(Used) <= Cardinality(Party)
    <2>1. held \in Surjection(Party, Used)
      BY DEF Surjection
    <2> HIDE DEF Used
    <2> QED
      BY <1>1, <2>1, FS_Surjection
  <1>3. IsFiniteSet(Inode) /\ Cardinality(Inode) = Cardinality(Party) + 1
    BY <1>1, FS_Interval DEF Inode
  <1>4. ~(Inode \subseteq Used)
    <2>1. ASSUME Inode \subseteq Used PROVE FALSE
      <3> HIDE DEF Used
      <3>1. Cardinality(Inode) <= Cardinality(Used)
        BY <1>2, <2>1, FS_Subset
      <3>2. Cardinality(Used) \in Nat
        BY <1>2, FS_CardinalityType
      <3> QED
        BY <1>1, <1>2, <1>3, <3>1, <3>2
    <2> QED
      BY <2>1
  <1>5. \E i \in Inode : i # name /\ \A p \in Party : held[p] # i
    BY <1>4, Parties
  <1> QED
    BY <1>5 DEF FreeInode

-----------------------------------------------------------------------------
(* What the steps of a process do, as far as the invariant can tell them apart. *)
Files == <<sent, copied, lost>>

Renames ==
  /\ name' \in Inode \union {0}
  /\ \/ UNCHANGED <<data, met>>
     \/ \E j \in Inode :
          /\ \A q \in Party : held[q] # j
          /\ data' = [data EXCEPT ![j] = <<>>] /\ met' = [met EXCEPT ![j] = {}]

Comes(p) ==
  /\ stage[p] \in Before
  /\ \E x \in Before \union Behind : stage' = [stage EXCEPT ![p] = x]
  /\ Renames /\ UNCHANGED <<held, Files>>

Leaves(p) ==
  /\ \E x \in Behind :
       /\ stage' = [stage EXCEPT ![p] = x]
       /\ (x = "gone" /\ lost' > 0) \/ stage[p] \in {"copy", "end", "unlinkend"}
  /\ lost' \in Nat /\ lost' >= lost
  /\ p \in Sender /\ sent[p] < Bytes =>
       lost' > 0 \/ stage[p] = "unlinkend" \/ (stage[p] = "copy" /\ Readers(held[p]) = {})
  /\ Closes(p) /\ name' \in Inode \union {0}
  /\ UNCHANGED <<met, sent, copied>>

SimpleMove(p) ==
  \/ Comes(p) \/ Leaves(p) \/ Open(p)
  \/ p \in Sender /\ PutByte(p)
  \/ p \in Receiver /\ (GetByte(p) \/ ReadEnd(p))

LEMMA SimpleMoves ==
  ASSUME SimpleIInv, NEW p \in Party, Proceeds(p) \/ Lose(p)
  PROVE  SimpleMove(p)
  <1> USE Parties
  <1>a. SimpleTypes
    BY DEF SimpleIInv
  <1>n. ASSUME name = 0, NewFifo PROVE Renames
    BY <1>a, <1>n, FreeInodeIsFree DEF SimpleTypes, NewFifo, Renames
  <1>s. ASSUME UNCHANGED <<name, data, met>> \/ (name' = 0 /\ UNCHANGED <<data, met>>) PROVE Renames
    BY <1>a, <1>s DEF SimpleTypes, Renames
  <1>1. CASE p \in Sender /\ Mkfifo(p)
    BY <1>1, <1>n, <1>s DEF Mkfifo, Moves, SimpleMove, Comes, Files, Before
  <1>2. CASE p \in Sender /\ UnlinkFirst(p)
    BY <1>2, <1>s DEF UnlinkFirst, Moves, SimpleMove, Comes, Files, Before
  <1>3. CASE p \in Sender /\ MkfifoAgain(p)
    BY <1>3, <1>n, <1>s DEF MkfifoAgain, Moves, SimpleMove, Comes, Files, Before
  <1>4. CASE p \in Sender /\ PutByte(p)
    BY <1>4 DEF SimpleMove
  <1>5. CASE p \in Sender /\ WriteEndBroken(p)
    BY <1>5, <1>a DEF WriteEndBroken, Moves, SimpleMove, Leaves, SimpleTypes, Behind
  <1>6. CASE p \in Sender /\ CloseFifo(p)
    BY <1>6, <1>a DEF CloseFifo, Moves, SimpleMove, Leaves, SimpleTypes, Behind
  <1>7. CASE p \in Receiver /\ (GetByte(p) \/ ReadEnd(p))
    BY <1>7 DEF SimpleMove
  <1>8. CASE EnterY(p)
    BY <1>8, <1>s DEF EnterY, Moves, SimpleMove, Comes, Files, Before
  <1>9. CASE AnswerPrompt(p)
    BY <1>9, <1>s DEF AnswerPrompt, Moves, SimpleMove, Comes, Files, Before, Behind
  <1>10. CASE Open(p)
    BY <1>10 DEF SimpleMove
  <1>11. CASE OpenFails(p)
    BY <1>11, <1>s DEF OpenFails, Moves, SimpleMove, Comes, Files, Before, Behind
  <1>12. CASE UnlinkAtEnd(p)
    <2>1. p \in Sender => stage[p] # "end"
      BY <1>a DEF SimpleTypes
    <2> QED
      BY <1>12, <1>a, <2>1 DEF UnlinkAtEnd, SimpleMove, Leaves, SimpleTypes, Behind
  <1>13. CASE Lose(p)
    BY <1>13, <1>a DEF Lose, SimpleMove, Leaves, SimpleTypes, Behind
  <1> QED
    BY <1>1, <1>2, <1>3, <1>4, <1>5, <1>6, <1>7, <1>8, <1>9, <1>10, <1>11, <1>12, <1>13 DEF Proceeds

LEMMA SimpleInitInv == SimpleInit => SimpleIInv
  <1> USE Parties
  <1> SUFFICES ASSUME SimpleInit PROVE SimpleIInv
    OBVIOUS
  <1>1. stage \in [Party -> {"make", "open"}] /\ \A p \in Party : held[p] = 0
    BY DEF SimpleInit
  <1>2. SimpleTypes
    BY <1>1 DEF SimpleInit, SimpleTypes, Before, At, Behind
  <1>3. OpenedOnce
    BY <1>1 DEF SimpleInit, OpenedOnce, Before, At
  <1>4. NobodyLeftWaiting
    BY <1>1 DEF NobodyLeftWaiting, WaitsAlone
  <1>5. OneSided
    BY DEF SimpleInit, OneSided, OneSidedAt
  <1>6. PairsStream
    BY <1>1 DEF PairsStream
  <1> QED
    BY <1>2, <1>3, <1>4, <1>5, <1>6 DEF SimpleIInv

LEMMA SimpleTypesNext ==
  ASSUME SimpleIInv, NEW p \in Party, SimpleMove(p)
  PROVE  SimpleTypes'
  <1> USE Parties
  <1>a. SimpleTypes /\ OpenedOnce
    BY DEF SimpleIInv
  <1>1. CASE Comes(p)
    <2>1. data' \in [Inode -> Seq(Byte)] /\ met' \in [Inode -> SUBSET Party]
      <3>1. CASE UNCHANGED <<data, met>>
        BY <3>1, <1>a DEF SimpleTypes
      <3>2. ASSUME NEW j \in Inode, data' = [data EXCEPT ![j] = <<>>], met' = [met EXCEPT ![j] = {}]
            PROVE  data' \in [Inode -> Seq(Byte)] /\ met' \in [Inode -> SUBSET Party]
        BY <3>2, <1>a DEF SimpleTypes
      <3> QED
        BY <3>1, <3>2, <1>1 DEF Comes, Renames
    <2>2. stage' \in [Party -> Before \union At \union Behind] /\ \A s \in Sender : stage'[s] # "end"
      BY <1>1, <1>a DEF Comes, SimpleTypes, Before, Behind
    <2> QED
      BY <1>1, <1>a, <2>1, <2>2 DEF Comes, Renames, Files, SimpleTypes
  <1>2. CASE Leaves(p)
    BY <1>2, <1>a DEF Leaves, Closes, SimpleTypes, Behind
  <1>3. CASE Open(p)
    <2>1. stage' \in [Party -> Before \union At \union Behind]
      BY <1>3, <1>a DEF Open, SimpleTypes, At
    <2>2. \A s \in Sender : stage'[s] # "end"
      BY <1>3, <1>a DEF Open, SimpleTypes, Peers
    <2>3. held' \in [Party -> Inode \union {0}] /\ met' \in [Inode -> SUBSET Party]
      BY <1>3, <1>a DEF Open, SimpleTypes
    <2> QED
      BY <1>3, <1>a, <2>1, <2>2, <2>3 DEF Open, SimpleTypes
  <1>4. CASE p \in Sender /\ PutByte(p)
    <2>1. held[p] \in Inode /\ sent[p] + 1 \in 0..Bytes /\ <<p, sent[p] + 1>> \in Byte
      BY <1>4, <1>a DEF PutByte, SimpleTypes, OpenedOnce, At, Byte
    <2>2. Append(data[held[p]], <<p, sent[p] + 1>>) \in Seq(Byte)
      <3>1. data[held[p]] \in Seq(Byte)
        BY <1>a, <2>1 DEF SimpleTypes
      <3> QED
        BY <2>1, <3>1
    <2>3. data' \in [Inode -> Seq(Byte)]
      BY <1>4, <1>a, <2>1, <2>2 DEF PutByte, SimpleTypes
    <2> QED
      BY <1>4, <1>a, <2>1, <2>3 DEF PutByte, SimpleTypes
  <1>5. CASE p \in Receiver /\ GetByte(p)
    <2>1. held[p] \in Inode /\ data[held[p]] \in Seq(Byte) /\ data[held[p]] # <<>>
      <3>1. held[p] \in Inode
        BY <1>5, <1>a DEF GetByte, SimpleTypes, OpenedOnce, At
      <3> QED
        BY <1>5, <1>a, <3>1 DEF GetByte, SimpleTypes
    <2>2. Head(data[held[p]]) \in Byte /\ Tail(data[held[p]]) \in Seq(Byte)
      BY <2>1
    <2>3. data' \in [Inode -> Seq(Byte)] /\ copied' \in [Receiver -> Seq(Byte)]
      BY <1>5, <1>a, <2>1, <2>2 DEF GetByte, SimpleTypes
    <2> QED
      BY <1>5, <1>a, <2>3 DEF GetByte, SimpleTypes
  <1>6. CASE p \in Receiver /\ ReadEnd(p)
    BY <1>6, <1>a DEF ReadEnd, Moves, SimpleTypes, At
  <1> QED
    BY <1>1, <1>2, <1>3, <1>4, <1>5, <1>6 DEF SimpleMove

LEMMA OpenedOnceNext ==
  ASSUME SimpleIInv, NEW p \in Party, SimpleMove(p)
  PROVE  OpenedOnce'
  <1> USE Parties
  <1>a. SimpleTypes /\ OpenedOnce
    BY DEF SimpleIInv
  <1>1. CASE Comes(p)
    <2>1. \A i \in Inode : met'[i] \subseteq met[i]
      BY <1>1, <1>a DEF Comes, Renames, SimpleTypes
    <2>2. \A q \in Party : held[q] # 0 => met'[held[q]] = met[held[q]]
      BY <1>1, <1>a DEF Comes, Renames, SimpleTypes
    <2>3. held' = held /\ sent' = sent /\ copied' = copied
      BY <1>1 DEF Comes, Files
    <2>4. PICK x \in Before \union Behind : stage' = [stage EXCEPT ![p] = x]
      BY <1>1 DEF Comes
    <2>5. \A q \in Party : stage'[q] = IF q = p THEN x ELSE stage[q]
      BY <2>4, <1>a DEF SimpleTypes
    <2>6. stage[p] \in Before
      BY <1>1 DEF Comes
    <2>7. \A q \in Party : held[q] # 0 <=> stage'[q] \in At
      BY <2>5, <2>6, <1>a DEF OpenedOnce, Before, At, Behind
    <2>8. \A i \in Inode : \A q \in met'[i] : stage'[q] \notin Before /\ held[q] \in {0, i}
      BY <2>1, <2>5, <2>6, <1>a DEF OpenedOnce, SimpleTypes
    <2> QED
      BY <1>a, <2>2, <2>3, <2>5, <2>6, <2>7, <2>8 DEF OpenedOnce
  <1>2. CASE Leaves(p)
    <2>4. PICK x \in Behind : stage' = [stage EXCEPT ![p] = x]
      BY <1>2 DEF Leaves
    <2>5. \A q \in Party : stage'[q] = (IF q = p THEN x ELSE stage[q]) /\ held'[q] = (IF q = p THEN 0 ELSE held[q])
      BY <1>2, <2>4, <1>a DEF SimpleTypes, Leaves, Closes
    <2>6. met' = met /\ sent' = sent /\ copied' = copied
      BY <1>2 DEF Leaves
    <2> QED
      BY <1>a, <2>5, <2>6 DEF OpenedOnce, SimpleTypes, Before, At, Behind
  <1>3. CASE Open(p)
    <2>1. name \in Inode /\ stage[p] \in Before /\ sent' = sent /\ copied' = copied
      BY <1>3, <1>a DEF Open, SimpleTypes, Before
    <2>2. \A q \in Party : stage'[q] = stage[q] \/ (stage'[q] \in At /\ (q = p \/ stage[q] \in At))
      BY <1>3, <1>a DEF Open, SimpleTypes, At
    <2>3. \A q \in Party : held'[q] = IF q = p THEN name ELSE held[q]
      BY <1>3, <1>a DEF Open, SimpleTypes
    <2>4. \A i \in Inode : met'[i] = IF i = name THEN met[i] \union {p} ELSE met[i]
      BY <1>3, <1>a DEF Open, SimpleTypes
    <2>5. stage'[p] \in At /\ name # 0
      BY <1>3, <1>a DEF Open, SimpleTypes, At
    <2>6. \A q \in Party : held'[q] # 0 <=> stage'[q] \in At
      BY <1>a, <2>2, <2>3, <2>5 DEF OpenedOnce
    <2>7. \A q \in Party : held'[q] # 0 => q \in met'[held'[q]]
      <3>1. \A q \in Party : q # p /\ held[q] # 0 => held[q] \in Inode /\ q \in met[held[q]]
        BY <1>a DEF OpenedOnce, SimpleTypes
      <3> QED
        BY <2>1, <2>3, <2>4, <3>1
    <2>8. \A i \in Inode : \A q \in met'[i] : stage'[q] \notin Before /\ held'[q] \in {0, i}
      <3> SUFFICES ASSUME NEW i \in Inode, NEW q \in met'[i]
                   PROVE  stage'[q] \notin Before /\ held'[q] \in {0, i}
        OBVIOUS
      <3>1. CASE q = p
        <4>1. p \notin met[i]
          BY <1>a, <2>1 DEF OpenedOnce
        <4> QED
          BY <2>3, <2>4, <2>5, <3>1, <4>1 DEF Before, At
      <3>2. CASE q # p
        <4>1. q \in met[i] /\ q \in Party
          BY <1>a, <2>4, <3>2 DEF SimpleTypes
        <4> QED
          BY <1>a, <2>2, <2>3, <3>2, <4>1 DEF OpenedOnce, Before, At
      <3> QED
        BY <3>1, <3>2
    <2>9. \A q \in Party : stage'[q] \in Before => stage[q] \in Before
      BY <2>2 DEF Before, At
    <2> QED
      BY <1>a, <2>1, <2>6, <2>7, <2>8, <2>9 DEF OpenedOnce
  <1>4. CASE p \in Sender /\ PutByte(p)
    <2>1. /\ stage[p] \notin Before /\ stage' = stage /\ held' = held /\ met' = met /\ copied' = copied
          /\ \A s \in Sender : s # p => sent'[s] = sent[s]
      BY <1>4, <1>a DEF PutByte, SimpleTypes, Before
    <2> QED
      BY <1>a, <2>1 DEF OpenedOnce
  <1>5. CASE p \in Receiver /\ GetByte(p)
    <2>1. /\ stage[p] \notin Before /\ stage' = stage /\ held' = held /\ met' = met /\ sent' = sent
          /\ \A r \in Receiver : r # p => copied'[r] = copied[r]
      BY <1>5, <1>a DEF GetByte, SimpleTypes, Before
    <2> QED
      BY <1>a, <2>1 DEF OpenedOnce
  <1>6. CASE p \in Receiver /\ ReadEnd(p)
    <2>1. /\ stage[p] \in At /\ held' = held /\ met' = met /\ sent' = sent /\ copied' = copied
          /\ \A q \in Party : stage'[q] = IF q = p THEN "end" ELSE stage[q]
      BY <1>6, <1>a DEF ReadEnd, Moves, SimpleTypes, At
    <2> QED
      <3>1. \A q \in Party : (stage'[q] \in At <=> stage[q] \in At) /\ (stage'[q] \in Before <=> stage[q] \in Before)
        BY <2>1 DEF Before, At
      <3>2. \A i \in Inode : met[i] \subseteq Party
        BY <1>a DEF SimpleTypes
      <3> QED
        BY <1>a, <2>1, <3>1, <3>2 DEF OpenedOnce
  <1> QED
    BY <1>1, <1>2, <1>3, <1>4, <1>5, <1>6 DEF SimpleMove

(* Who opens is new at the inode, and lets go who waits for its side. *)
LEMMA OpenIs ==
  ASSUME SimpleIInv, NEW p \in Party, Open(p)
  PROVE  /\ name \in Inode /\ name # 0 /\ stage[p] \in Before /\ held[p] = 0
         /\ \A i \in Inode : p \notin met[i]
         /\ \A q \in Party : held'[q] = IF q = p THEN name ELSE held[q]
         /\ \A i \in Inode : met'[i] = IF i = name THEN met[i] \union {p} ELSE met[i]
         /\ \A q \in Party \ {p} : stage'[q] = stage[q] \/
              (stage[q] = "wait" /\ stage'[q] = "copy" /\ held[q] = name /\ q \in Peers(p))
         /\ \A q \in Peers(p) : held[q] = name => stage'[q] # "wait"
         /\ stage'[p] \in {"wait", "copy"}
         /\ stage'[p] = "wait" <=> \A q \in Peers(p) : held[q] # name
         /\ UNCHANGED <<data, sent, copied, lost>>
  <1> USE Parties
  <1>a. SimpleTypes /\ OpenedOnce
    BY DEF SimpleIInv
  <1> DEFINE peers == {q \in Peers(p) : held[q] = name /\ stage[q] \in {"wait", "copy", "end"}}
  <1>1. /\ name \in Inode /\ name # 0 /\ stage[p] = "open" /\ stage[p] \in Before
        /\ UNCHANGED <<data, sent, copied, lost>>
    BY <1>a DEF Open, SimpleTypes, Before
  <1>2. held[p] = 0 /\ \A i \in Inode : p \notin met[i]
    BY <1>a, <1>1 DEF OpenedOnce, Before, At
  <1>3. /\ \A q \in Party : held'[q] = IF q = p THEN name ELSE held[q]
        /\ \A i \in Inode : met'[i] = IF i = name THEN met[i] \union {p} ELSE met[i]
    BY <1>a DEF Open, SimpleTypes
  <1>4. Peers(p) \subseteq Party \ {p}
    BY DEF Peers
  <1>5. peers = {q \in Peers(p) : held[q] = name}
    BY <1>a, <1>1, <1>4 DEF OpenedOnce, At
  <1>6. stage' = [q \in Party |->
          CASE q = p -> IF peers = {} THEN "wait" ELSE "copy"
            [] q \in peers /\ stage[q] = "wait" -> "copy"
            [] OTHER -> stage[q]]
    BY DEF Open
  <1> HIDE DEF peers
  <1>7. /\ stage'[p] = IF peers = {} THEN "wait" ELSE "copy"
        /\ \A q \in Party \ {p} : stage'[q] = IF q \in peers /\ stage[q] = "wait" THEN "copy" ELSE stage[q]
    BY <1>6
  <1> QED
    BY <1>1, <1>2, <1>3, <1>4, <1>5, <1>7

LEMMA NobodyLeftWaitingNext ==
  ASSUME SimpleIInv, NEW p \in Party, SimpleMove(p)
  PROVE  NobodyLeftWaiting'
  <1> USE Parties
  <1>a. SimpleTypes /\ OpenedOnce /\ NobodyLeftWaiting
    BY DEF SimpleIInv
  <1>b. \A q \in Party : Peers(q) \subseteq Party \ {q}
    BY DEF Peers
  <1>w. \A q \in Party : stage[q] = "wait" => held[q] # 0 /\ \A x \in Peers(q) : held[x] # held[q]
    BY <1>a DEF OpenedOnce, At, NobodyLeftWaiting, WaitsAlone
  <1>q. ASSUME \A q \in Party : stage'[q] = "wait" => stage[q] = "wait" /\ held'[q] = held[q],
               \A q \in Party : held'[q] \in {0, held[q]}
        PROVE  NobodyLeftWaiting'
    <2> SUFFICES ASSUME NEW q \in Party, stage'[q] = "wait", NEW x \in Peers(q) PROVE held'[x] # held'[q]
      BY DEF NobodyLeftWaiting, WaitsAlone, Peers
    <2>1. x \in Party /\ stage[q] = "wait" /\ held'[q] = held[q] /\ held'[x] \in {0, held[x]}
      BY <1>b, <1>q
    <2> QED
      BY <1>w, <2>1
  <1>1. CASE Comes(p)
    <2>1. \A q \in Party : stage'[q] = "wait" => stage[q] = "wait"
      BY <1>1, <1>a DEF Comes, SimpleTypes, Before, Behind
    <2>2. held' = held
      BY <1>1 DEF Comes
    <2> QED
      BY <1>q, <2>1, <2>2
  <1>2. CASE Leaves(p)
    <2>1. \A q \in Party : stage'[q] = "wait" => stage[q] = "wait" /\ q # p
      BY <1>2, <1>a DEF Leaves, SimpleTypes, Behind
    <2>2. \A q \in Party : held'[q] = IF q = p THEN 0 ELSE held[q]
      BY <1>2, <1>a DEF Leaves, Closes, SimpleTypes
    <2> QED
      BY <1>q, <2>1, <2>2
  <1>3. CASE Open(p)
    <2> SUFFICES ASSUME NEW q \in Party, stage'[q] = "wait", NEW x \in Peers(q) PROVE held'[x] # held'[q]
      BY DEF NobodyLeftWaiting, WaitsAlone, Peers
    <2>1. x \in Party \ {q}
      BY <1>b
    <2>2. CASE q = p
      BY <1>3, <2>1, <2>2, OpenIs
    <2>3. CASE q # p /\ x # p
      <3>1. stage[q] = "wait"
        BY <1>3, <2>3, OpenIs
      <3> QED
        BY <1>3, <1>w, <2>1, <2>3, <3>1, OpenIs
    <2>4. CASE q # p /\ x = p
      <3>1. q \in Peers(p)
        BY <2>4 DEF Peers
      <3> QED
        BY <1>3, <2>1, <2>4, <3>1, OpenIs
    <2> QED
      BY <2>2, <2>3, <2>4
  <1>4. CASE (p \in Sender /\ PutByte(p)) \/ (p \in Receiver /\ GetByte(p))
    <2>1. stage' = stage /\ held' = held
      BY <1>4 DEF PutByte, GetByte
    <2> QED
      BY <1>q, <2>1
  <1>5. CASE p \in Receiver /\ ReadEnd(p)
    <2>1. held' = held /\ \A q \in Party : stage'[q] = IF q = p THEN "end" ELSE stage[q]
      BY <1>5, <1>a DEF ReadEnd, Moves, SimpleTypes
    <2> QED
      BY <1>q, <2>1
  <1> QED
    BY <1>1, <1>2, <1>3, <1>4, <1>5 DEF SimpleMove

-----------------------------------------------------------------------------
LEMMA OneSidedNext ==
  ASSUME SimpleIInv, NEW p \in Party, SimpleMove(p)
  PROVE  OneSided'
  <1> USE Parties
  <1>a. SimpleTypes /\ OpenedOnce /\ OneSided
    BY DEF SimpleIInv
  <1>l. lost' >= lost /\ lost \in Nat /\ lost' \in Nat
    BY <1>a, SimpleTypesNext DEF SimpleMove, Comes, Leaves, Open, PutByte, GetByte, ReadEnd, Files, SimpleTypes
  (* An inode is as it was when nobody who has opened it moves. *)
  <1>q. ASSUME NEW i \in Inode, met'[i] = met[i],
               met[i] \subseteq Sender \/ met[i] \subseteq Receiver => data'[i] = <<>>,
               \A q \in met[i] : StillWaits(q) => StillWaits(q)',
               \A s \in Sender \intersect met[i] : sent'[s] = sent[s],
               \A r \in Receiver \intersect met[i] : copied'[r] = copied[r]
        PROVE  OneSidedAt(i)'
    <2>1. OneSidedAt(i)
      BY <1>a DEF OneSided
    <2> QED
      BY <1>q, <2>1 DEF OneSidedAt
  <1>e. \A i \in Inode : met[i] \subseteq Sender \/ met[i] \subseteq Receiver => data[i] = <<>>
    BY <1>a DEF OneSided, OneSidedAt
  <1>1. CASE Comes(p)
    <2>1. ASSUME NEW q \in Party, StillWaits(q), q # p PROVE StillWaits(q)'
      BY <1>1, <1>a, <2>1 DEF Comes, Files, StillWaits, SimpleTypes
    <2>2. \A i \in Inode : p \notin met[i]
      BY <1>1, <1>a DEF Comes, OpenedOnce
    <2>3. \A i \in Inode : (met'[i] = {} /\ data'[i] = <<>>) \/ (met'[i] = met[i] /\ data'[i] = data[i])
      BY <1>1, <1>a DEF Comes, Renames, SimpleTypes
    <2>4. sent' = sent /\ copied' = copied /\ \A i \in Inode : met[i] \subseteq Party
      BY <1>1, <1>a DEF Comes, Files, SimpleTypes
    <2>5. \A i \in Inode : \A q \in met[i] : StillWaits(q) => StillWaits(q)'
      BY <2>1, <2>2, <2>4
    <2>6. ASSUME NEW i \in Inode PROVE OneSidedAt(i)'
      <3>1. CASE met'[i] = {} /\ data'[i] = <<>>
        BY <3>1 DEF OneSidedAt
      <3>2. CASE met'[i] = met[i] /\ data'[i] = data[i]
        BY <1>e, <1>q, <2>4, <2>5, <3>2
      <3> QED
        BY <2>3, <3>1, <3>2
    <2> QED
      BY <2>6 DEF OneSided
  <1>2. CASE Leaves(p)
    <2>1. met' = met /\ sent' = sent /\ copied' = copied
      BY <1>2 DEF Leaves
    <2>2. \A i \in Inode : data'[i] \in {<<>>, data[i]}
      BY <1>2, <1>a DEF Leaves, Closes
    <2>3. ASSUME NEW q \in Party, StillWaits(q) PROVE StillWaits(q)'
      BY <1>2, <1>a, <1>l, <2>3 DEF Leaves, StillWaits, SimpleTypes
    <2>4. \A i \in Inode : met[i] \subseteq Party
      BY <1>a DEF SimpleTypes
    <2>5. \A i \in Inode : \A q \in met[i] : StillWaits(q) => StillWaits(q)'
      BY <2>3, <2>4
    <2>6. \A i \in Inode : OneSidedAt(i)'
      BY <1>e, <1>q, <2>1, <2>2, <2>5
    <2> QED
      BY <2>6 DEF OneSided
  <1>3. CASE Open(p)
    <2>1. ASSUME NEW i \in Inode, i # name
          PROVE  OneSidedAt(i)'
      <3>1. met'[i] = met[i] /\ data' = data /\ sent' = sent /\ copied' = copied /\ lost' = lost /\ name # 0
        BY <1>3, <2>1, OpenIs
      <3>2. ASSUME NEW q \in met[i] PROVE stage'[q] = stage[q]
        <4>1. q \in Party \ {p} /\ held[q] \in {0, i}
          BY <1>3, <1>a, OpenIs DEF OpenedOnce, SimpleTypes
        <4> QED
          BY <1>3, <2>1, <3>1, <4>1, OpenIs
      <3>3. \A q \in met[i] : StillWaits(q) => StillWaits(q)'
        BY <3>1, <3>2 DEF StillWaits
      <3> QED
        BY <1>e, <1>q, <3>1, <3>3
    <2>2. /\ name \in Inode /\ met'[name] = met[name] \union {p} /\ stage[p] \in Before
          /\ p \notin met[name] /\ met[name] \subseteq Party
          /\ data' = data /\ sent' = sent /\ copied' = copied /\ lost' = lost
      BY <1>3, <1>a, OpenIs DEF SimpleTypes
    <2>3. ASSUME NEW i \in Inode, i = name, \A q \in Peers(p) : held[q] # name
          PROVE  stage'[p] = "wait" /\ \A q \in met[i] : stage'[q] = stage[q]
      <3>1. \A q \in met[i] : q \in Party \ {p} /\ ~(q \in Peers(p) /\ held[q] = name)
        BY <2>2, <2>3
      <3> QED
        BY <1>3, <2>3, <3>1, OpenIs
    <2>4. \A q \in Party : held[q] = name => q \in met[name]
      BY <1>3, <1>a, OpenIs DEF OpenedOnce
    <2>5. ASSUME NEW i \in Inode, i = name, met'[i] \subseteq Sender
          PROVE  data'[i] = <<>> /\ \A s \in met'[i] : sent'[s] = 0 /\ StillWaits(s)'
      <3>1. p \in Sender /\ met[i] \subseteq Sender /\ met'[i] = met[i] \union {p}
        BY <2>2, <2>5
      <3>2. \A q \in Peers(p) : held[q] # name
        BY <2>4, <2>5, <3>1 DEF Peers
      <3>3. stage'[p] = "wait" /\ \A q \in met[i] : stage'[q] = stage[q]
        BY <2>3, <2>5, <3>2
      <3>4. data[i] = <<>> /\ \A s \in met[i] : sent[s] = 0 /\ StillWaits(s)
        BY <1>a, <2>2, <3>1 DEF OneSided, OneSidedAt
      <3>5. sent[p] = 0
        BY <1>a, <2>2, <3>1 DEF OpenedOnce
      <3> QED
        BY <2>2, <3>1, <3>3, <3>4, <3>5 DEF StillWaits
    <2>6. ASSUME NEW i \in Inode, i = name, met'[i] \subseteq Receiver
          PROVE  data'[i] = <<>> /\ \A r \in met'[i] : copied'[r] = <<>> /\ StillWaits(r)'
      <3>1. p \in Receiver /\ met[i] \subseteq Receiver /\ met'[i] = met[i] \union {p}
        BY <2>2, <2>6
      <3>2. \A q \in Peers(p) : held[q] # name
        BY <2>4, <2>6, <3>1 DEF Peers
      <3>3. stage'[p] = "wait" /\ \A q \in met[i] : stage'[q] = stage[q]
        BY <2>3, <2>6, <3>2
      <3>4. data[i] = <<>> /\ \A r \in met[i] : copied[r] = <<>> /\ StillWaits(r)
        BY <1>a, <2>2, <3>1 DEF OneSided, OneSidedAt
      <3>5. copied[p] = <<>>
        BY <1>a, <2>2, <3>1 DEF OpenedOnce
      <3> QED
        BY <2>2, <3>1, <3>3, <3>4, <3>5 DEF StillWaits
    <2> QED
      BY <2>1, <2>5, <2>6 DEF OneSided, OneSidedAt
  <1>4. CASE (p \in Sender /\ PutByte(p)) \/ (p \in Receiver /\ (GetByte(p) \/ ReadEnd(p)))
    <2>1. /\ stage[p] = "copy" /\ held[p] \in Inode /\ met' = met /\ lost' = lost
          /\ \A i \in Inode : i # held[p] => data'[i] = data[i]
          /\ \A q \in Party \ {p} : stage'[q] = stage[q]
          /\ \A s \in Sender : s # p => sent'[s] = sent[s]
          /\ \A r \in Receiver : r # p => copied'[r] = copied[r]
      <3>1. stage[p] = "copy" /\ held[p] \in Inode
        BY <1>4, <1>a DEF PutByte, GetByte, ReadEnd, OpenedOnce, At, SimpleTypes
      <3>2. CASE p \in Sender /\ PutByte(p)
        BY <1>a, <3>1, <3>2 DEF PutByte, SimpleTypes
      <3>3. CASE p \in Receiver /\ GetByte(p)
        BY <1>a, <3>1, <3>3 DEF GetByte, SimpleTypes
      <3>4. CASE p \in Receiver /\ ReadEnd(p)
        BY <1>a, <3>1, <3>4 DEF ReadEnd, Moves, SimpleTypes
      <3> QED
        BY <1>4, <3>2, <3>3, <3>4
    <2>2. ~StillWaits(p)
      BY <2>1 DEF StillWaits
    <2>3. \A i \in Inode : met[i] \subseteq Party
      BY <1>a DEF SimpleTypes
    <2>4. \A q \in Party \ {p} : StillWaits(q) => StillWaits(q)'
      BY <2>1 DEF StillWaits
    <2>5. ASSUME NEW i \in Inode
          PROVE  OneSidedAt(i)'
      <3>1. CASE p \in met[i]
        <4>1. ~(met[i] \subseteq Sender) /\ ~(met[i] \subseteq Receiver)
          BY <1>a, <2>2, <3>1 DEF OneSided, OneSidedAt
        <4> QED
          BY <2>1, <4>1 DEF OneSidedAt
      <3>2. CASE p \notin met[i]
        <4>1. i # held[p]
          BY <1>a, <2>1, <3>2 DEF OpenedOnce
        <4>2. data'[i] = data[i] /\ met'[i] = met[i]
          BY <2>1, <4>1
        <4>3. \A q \in met[i] : StillWaits(q) => StillWaits(q)'
          BY <2>3, <2>4, <3>2
        <4>4. /\ \A s \in Sender \intersect met[i] : sent'[s] = sent[s]
              /\ \A r \in Receiver \intersect met[i] : copied'[r] = copied[r]
          BY <2>1, <3>2
        <4> QED
          BY <1>e, <1>q, <4>2, <4>3, <4>4
      <3> QED
        BY <3>1, <3>2
    <2> QED
      BY <2>5 DEF OneSided
  <1> QED
    BY <1>1, <1>2, <1>3, <1>4 DEF SimpleMove

-----------------------------------------------------------------------------
LEMMA FileIs ==
  ASSUME NEW s \in Sender
  PROVE  SimpleFile(s) \in Seq(Byte) /\ Len(SimpleFile(s)) = Bytes
         /\ \A k \in 1..Bytes : SimpleFile(s)[k] = <<s, k>>
  BY Parties DEF SimpleFile, Byte

LEMMA AppendIsLast ==
  ASSUME NEW a \in Seq(Byte), NEW b \in Seq(Byte), NEW e \in Byte
  PROVE  (a \o b) \o <<e>> = a \o Append(b, e)
  <1>1. <<e>> \in Seq(Byte) /\ Append(b, e) = b \o <<e>>
    BY AppendIsConcat
  <1> QED
    BY <1>1, ConcatAssociative

(* A byte put in, and a byte taken out, make the stream longer or leave it. *)
LEMMA ByteGoesIn ==
  ASSUME NEW s \in Sender, NEW k \in Nat, k < Bytes, NEW a \in Seq(Byte), NEW b \in Seq(Byte),
         a \o b = SubSeq(SimpleFile(s), 1, k)
  PROVE  a \o Append(b, <<s, k + 1>>) = SubSeq(SimpleFile(s), 1, k + 1)
  <1> DEFINE e == <<s, k + 1>>
  <1>1. e \in Byte /\ <<e>> \in Seq(Byte)
    BY DEF Byte
  <1>2. k + 1 \in 1..Len(SimpleFile(s)) /\ 1 \in 1..Len(SimpleFile(s)) /\ k + 1 \in 1..Len(SimpleFile(s))
        /\ SimpleFile(s) \in Seq(Byte) /\ SimpleFile(s)[k + 1] = e
    BY FileIs, Parties
  <1>3. SubSeq(SimpleFile(s), 1, k + 1) = SubSeq(SimpleFile(s), 1, (k + 1) - 1) \o <<e>>
    BY <1>2, SubSeqRecursiveSecond
  <1>4. (k + 1) - 1 = k
    OBVIOUS
  <1>5. (a \o b) \o <<e>> = a \o Append(b, e)
    BY <1>1, AppendIsLast
  <1> QED
    BY <1>3, <1>4, <1>5

LEMMA ByteComesOut ==
  ASSUME NEW a \in Seq(Byte), NEW b \in Seq(Byte), b # <<>>
  PROVE  Append(a, Head(b)) \o Tail(b) = a \o b
  <1>1. Head(b) \in Byte /\ Tail(b) \in Seq(Byte) /\ <<Head(b)>> \in Seq(Byte) /\ Head(b) = b[1]
    OBVIOUS
  <1>2. 1 \in 1..Len(b) /\ Len(b) \in 1..Len(b)
    OBVIOUS
  <1>3. SubSeq(b, 1, Len(b)) = <<b[1]>> \o SubSeq(b, 1 + 1, Len(b))
    BY <1>2, SubSeqRecursiveFirst
  <1>4. b = <<Head(b)>> \o Tail(b)
    BY <1>1, <1>3, SubSeqFull, TailIsSubSeq
  <1>5. Append(a, Head(b)) = a \o <<Head(b)>>
    BY <1>1, AppendIsConcat
  <1> QED
    BY <1>1, <1>4, <1>5, ConcatAssociative

LEMMA NothingStreamed ==
  ASSUME NEW s \in Sender PROVE <<>> \o <<>> = SubSeq(SimpleFile(s), 1, 0)
  BY FileIs

-----------------------------------------------------------------------------
LEMMA PairsStreamNext ==
  ASSUME SimpleIInv, NEW p \in Party, SimpleMove(p)
  PROVE  PairsStream'
  <1> USE Parties
  <1>a. SimpleTypes /\ OpenedOnce /\ NobodyLeftWaiting /\ OneSided /\ PairsStream
    BY DEF SimpleIInv
  <1>n. SimpleTypes' /\ OpenedOnce'
    BY SimpleTypesNext, OpenedOnceNext
  <1>l. lost' >= lost
    BY <1>a DEF SimpleMove, Comes, Leaves, Open, PutByte, GetByte, ReadEnd, Files, SimpleTypes
  <1> SUFFICES ASSUME NEW r \in Receiver, NEW s \in Sender, held'[r] # 0, met'[held'[r]] = {r, s}
               PROVE  Streamed(r, s)'
    BY DEF PairsStream
  <1> DEFINE i == held'[r]
  <1>b. r # s /\ r \in Party /\ s \in Party
    OBVIOUS
  (* As it was, but for what the other steps do to the stream. *)
  <1>q. ASSUME held[r] = i, met[i] = {r, s}, stage'[r] = "end" => stage[r] = "end" /\ data'[i] = data[i],
               stage[s] \in Behind => stage'[s] \in Behind,
               stage'[s] \in Behind /\ sent'[s] < Bytes => (stage[s] \in Behind /\ sent[s] < Bytes) \/ lost' > 0,
               copied[r] \o data[i] = SubSeq(SimpleFile(s), 1, sent[s]) =>
                 copied'[r] \o data'[i] = SubSeq(SimpleFile(s), 1, sent'[s])
        PROVE  Streamed(r, s)'
    <2>1. Streamed(r, s)
      BY <1>a, <1>q DEF PairsStream
    <2>2. lost' > 0 \/ ~(lost > 0)
      BY <1>a, <1>n, <1>l DEF SimpleTypes
    <2> QED
      BY <1>q, <2>1, <2>2 DEF Streamed
  <1>1. CASE Comes(p)
    <2>1. held' = held /\ sent' = sent /\ copied' = copied /\ stage[p] \in Before
      BY <1>1 DEF Comes, Files
    <2>2. met[i] = {r, s} /\ data'[i] = data[i] /\ i \in Inode
      <3>1. i = held[r] /\ i \in Inode
        BY <1>a, <2>1 DEF SimpleTypes
      <3>2. CASE UNCHANGED <<data, met>>
        BY <3>1, <3>2
      <3>3. ASSUME NEW j \in Inode, \A q \in Party : held[q] # j,
                   data' = [data EXCEPT ![j] = <<>>], met' = [met EXCEPT ![j] = {}]
            PROVE  met[i] = {r, s} /\ data'[i] = data[i]
        <4>1. i # j
          BY <3>1, <3>3
        <4> QED
          BY <1>a, <3>1, <3>3, <4>1 DEF SimpleTypes
      <3> QED
        BY <1>1, <3>1, <3>2, <3>3 DEF Comes, Renames
    <2>3. p # r /\ p # s
      BY <1>a, <2>1, <2>2 DEF OpenedOnce
    <2>4. stage'[r] = stage[r] /\ stage'[s] = stage[s]
      BY <1>1, <1>a, <2>3 DEF Comes, SimpleTypes
    <2> QED
      BY <1>q, <2>1, <2>2, <2>4
  <1>2. CASE Leaves(p)
    <2>1. met' = met /\ sent' = sent /\ copied' = copied
      BY <1>2 DEF Leaves
    <2>2. p # r /\ held[r] = i /\ i \in Inode /\ data'[i] = data[i]
      BY <1>2, <1>a DEF Leaves, Closes, SimpleTypes
    <2>3. stage'[r] = stage[r] /\ (stage'[s] = stage[s] \/ (p = s /\ stage'[s] \in Behind))
      BY <1>2, <1>a, <2>2 DEF Leaves, SimpleTypes
    <2>4. ASSUME p = s, sent[s] < Bytes PROVE lost' > 0 \/ stage[s] \in Behind
      <3>1. lost' > 0 \/ stage[s] = "unlinkend" \/ (stage[s] = "copy" /\ Readers(held[s]) = {})
        BY <1>2, <2>4 DEF Leaves
      <3>2. ASSUME stage[s] = "copy", Readers(held[s]) = {} PROVE FALSE
        <4>1. held[s] = held[r] /\ held[s] # 0
          BY <1>a, <2>1, <2>2, <3>2 DEF OpenedOnce, At
        <4>2. stage[r] = "wait"
          BY <1>a, <2>2, <3>2, <4>1 DEF Readers, OpenedOnce, At
        <4>3. s \in Peers(r)
          BY DEF Peers
        <4> QED
          BY <1>a, <4>1, <4>2, <4>3 DEF NobodyLeftWaiting, WaitsAlone
      <3> QED
        BY <3>1, <3>2 DEF Behind
    <2> QED
      BY <1>q, <2>1, <2>2, <2>3, <2>4
  <1>3. CASE Open(p)
    <2>a. /\ name \in Inode /\ name # 0 /\ stage[p] \in Before /\ held[p] = 0
          /\ \A j \in Inode : p \notin met[j]
          /\ \A q \in Party : held'[q] = IF q = p THEN name ELSE held[q]
          /\ \A j \in Inode : met'[j] = IF j = name THEN met[j] \union {p} ELSE met[j]
          /\ UNCHANGED <<data, sent, copied, lost>>
      BY <1>3, OpenIs
    <2>i. i \in Inode /\ held[r] \in Inode \union {0}
      BY <1>a, <2>a DEF SimpleTypes
    <2>1. CASE p # r /\ p # s
      <3>1. i = held[r] /\ i # name /\ met[i] = {r, s}
        BY <2>1, <2>a, <2>i
      <3>2. held[s] \in {0, i}
        BY <1>a, <2>i, <3>1 DEF OpenedOnce
      <3>3. stage'[r] = stage[r] /\ stage'[s] = stage[s]
        BY <1>3, <2>1, <2>a, <3>1, <3>2, OpenIs
      <3> QED
        BY <1>q, <2>a, <3>1, <3>3
    <2>2. CASE p = r
      <3>1. i = name /\ met[i] \subseteq Sender
        <4>1. i = name /\ met'[name] = met[name] \union {r} /\ r \notin met[name] /\ met'[name] = {r, s}
          BY <2>2, <2>a, <2>i
        <4> QED
          BY <4>1
      <3>2. s \in met[i]
        <4>1. met'[i] = met[i] \union {r} /\ met'[i] = {r, s}
          BY <2>2, <2>a, <2>i, <3>1
        <4> QED
          BY <1>b, <4>1
      <3>3. data[i] = <<>> /\ sent[s] = 0 /\ StillWaits(s) /\ copied[r] = <<>>
        BY <1>a, <2>2, <2>a, <2>i, <3>1, <3>2 DEF OneSided, OneSidedAt, OpenedOnce
      <3>4. stage[s] = "wait" => held[s] = name /\ s \in Peers(p) /\ s # p
        <4>1. stage[s] = "wait" => held[s] # 0
          BY <1>a DEF OpenedOnce, At
        <4>2. held[s] \in {0, i}
          BY <1>a, <2>i, <3>2 DEF OpenedOnce
        <4> QED
          BY <1>b, <2>2, <3>1, <4>1, <4>2 DEF Peers
      <3>5. stage'[s] = "copy" \/ lost > 0
        BY <1>3, <3>3, <3>4, OpenIs DEF StillWaits
      <3>6. stage'[r] \in {"wait", "copy"}
        BY <1>3, <2>2, OpenIs
      <3>7. copied'[r] \o data'[i] = SubSeq(SimpleFile(s), 1, sent'[s])
        BY <2>a, <3>3, NothingStreamed
      <3> QED
        BY <2>a, <3>5, <3>6, <3>7 DEF Streamed, Behind
    <2>3. CASE p = s
      <3>1. i = name /\ met[i] \subseteq Receiver /\ held[r] = i
        <4>1. i = held[r] /\ i # 0
          BY <1>b, <2>3, <2>a, <2>i
        <4>2. r \in met[i] /\ s \notin met[i] /\ (i # name => met'[i] = met[i])
          BY <1>a, <1>b, <2>3, <2>a, <2>i, <4>1 DEF OpenedOnce
        <4>3. i = name
          BY <4>2
        <4>4. met'[i] = met[i] \union {s}
          BY <2>3, <2>a, <2>i, <4>3
        <4> QED
          BY <4>1, <4>2, <4>3, <4>4
      <3>2. r \in met[i]
        BY <1>b, <2>3, <2>a, <3>1
      <3>3. data[i] = <<>> /\ copied[r] = <<>> /\ StillWaits(r) /\ sent[s] = 0
        BY <1>a, <2>3, <2>a, <2>i, <3>1, <3>2 DEF OneSided, OneSidedAt, OpenedOnce
      <3>4. stage[r] = "wait"
        BY <1>a, <2>a, <3>1, <3>3 DEF StillWaits, OpenedOnce, At
      <3>5. stage'[r] \in {"wait", "copy"}
        BY <1>3, <1>b, <2>3, <3>4, OpenIs
      <3>6. stage'[s] \in {"wait", "copy"}
        BY <1>3, <2>3, OpenIs
      <3>7. copied'[r] \o data'[i] = SubSeq(SimpleFile(s), 1, sent'[s])
        BY <2>a, <3>3, NothingStreamed
      <3> QED
        BY <3>5, <3>6, <3>7 DEF Streamed, Behind
    <2> QED
      BY <2>1, <2>2, <2>3
  <1>4. ASSUME stage[p] = "copy", held' = held, met' = met
        PROVE  /\ i = held[r] /\ i \in Inode /\ met[i] = {r, s} /\ held[p] \in Inode
               /\ held[p] = i <=> p \in {r, s}
    <2>1. i = held[r] /\ i \in Inode /\ met[i] = {r, s}
      BY <1>4, <1>a DEF SimpleTypes
    <2>2. held[p] \in Inode /\ p \in met[held[p]]
      BY <1>4, <1>a DEF SimpleTypes, OpenedOnce, At
    <2>3. p \in met[i] => held[p] \in {0, i}
      BY <1>a, <2>1 DEF OpenedOnce
    <2> QED
      BY <2>1, <2>2, <2>3
  <1>5. CASE p \in Sender /\ PutByte(p)
    <2>1. /\ stage[p] = "copy" /\ held' = held /\ met' = met /\ stage' = stage /\ copied' = copied
          /\ sent[p] < Bytes
      BY <1>5 DEF PutByte
    <2>2. /\ i = held[r] /\ i \in Inode /\ met[i] = {r, s} /\ held[p] \in Inode
          /\ held[p] = i <=> p \in {r, s}
      BY <1>4, <2>1
    <2>3. CASE p = s
      <3>1. /\ data'[i] = Append(data[i], <<s, sent[s] + 1>>) /\ sent'[s] = sent[s] + 1
            /\ data[i] \in Seq(Byte) /\ copied[r] \in Seq(Byte) /\ sent[s] \in Nat
        <4>1. held[p] = i /\ data \in [Inode -> Seq(Byte)] /\ sent \in [Sender -> 0..Bytes]
              /\ copied[r] \in Seq(Byte) /\ data[i] \in Seq(Byte)
          BY <1>a, <2>2, <2>3 DEF SimpleTypes
        <4>2. /\ sent' = [sent EXCEPT ![s] = @ + 1]
              /\ data' = [data EXCEPT ![i] = Append(@, <<s, sent[s] + 1>>)]
          BY <1>5, <2>3, <4>1 DEF PutByte
        <4> QED
          BY <2>2, <4>1, <4>2
      <3>2. copied[r] \o data[i] = SubSeq(SimpleFile(s), 1, sent[s]) =>
              copied'[r] \o data'[i] = SubSeq(SimpleFile(s), 1, sent'[s])
        <4>1. sent[s] \in Nat /\ sent[s] < Bytes /\ copied'[r] = copied[r]
          BY <2>1, <2>3, <3>1
        <4>2. copied[r] \o data[i] = SubSeq(SimpleFile(s), 1, sent[s]) =>
                copied[r] \o Append(data[i], <<s, sent[s] + 1>>) = SubSeq(SimpleFile(s), 1, sent[s] + 1)
          BY <3>1, <4>1, ByteGoesIn
        <4> QED
          BY <3>1, <4>1, <4>2
      <3>3. stage[s] \notin Behind
        BY <2>1, <2>3 DEF Behind
      <3>4. stage[r] # "end"
        BY <1>a, <2>2, <3>3 DEF PairsStream, Streamed, SimpleTypes, OpenedOnce, At
      <3> QED
        BY <1>q, <2>1, <2>2, <3>2, <3>3, <3>4
    <2>4. CASE p # s
      <3>1. held[p] # i
        BY <1>5, <2>2, <2>4
      <3>2. data'[i] = data[i] /\ sent'[s] = sent[s]
        BY <1>5, <1>a, <2>2, <2>4, <3>1 DEF PutByte, SimpleTypes
      <3> QED
        BY <1>q, <2>1, <2>2, <3>2
    <2> QED
      BY <2>3, <2>4
  <1>6. CASE p \in Receiver /\ GetByte(p)
    <2>1. /\ stage[p] = "copy" /\ held' = held /\ met' = met /\ stage' = stage /\ sent' = sent
          /\ data[held[p]] # <<>>
      BY <1>6 DEF GetByte
    <2>2. /\ i = held[r] /\ i \in Inode /\ met[i] = {r, s} /\ held[p] \in Inode
          /\ held[p] = i <=> p \in {r, s}
      BY <1>4, <2>1
    <2>3. CASE p = r
      <3>1. /\ data'[i] = Tail(data[i]) /\ copied'[r] = Append(copied[r], Head(data[i]))
            /\ data[i] \in Seq(Byte) /\ copied[r] \in Seq(Byte) /\ data[i] # <<>>
        BY <1>6, <1>a, <2>2, <2>3 DEF GetByte, SimpleTypes
      <3>2. copied'[r] \o data'[i] = copied[r] \o data[i]
        BY <3>1, ByteComesOut
      <3> QED
        BY <1>q, <2>1, <2>2, <2>3, <3>2
    <2>4. CASE p # r
      <3>1. held[p] # i
        BY <1>6, <2>2, <2>4
      <3>2. data'[i] = data[i] /\ copied'[r] = copied[r]
        BY <1>6, <1>a, <2>2, <2>4, <3>1 DEF GetByte, SimpleTypes
      <3> QED
        BY <1>q, <2>1, <2>2, <3>2
    <2> QED
      BY <2>3, <2>4
  <1>7. CASE p \in Receiver /\ ReadEnd(p)
    <2>1. /\ stage[p] = "copy" /\ held' = held /\ met' = met /\ sent' = sent /\ data' = data
          /\ copied' = copied /\ lost' = lost /\ Writers(held[p]) = {} /\ data[held[p]] = <<>>
          /\ \A q \in Party : stage'[q] = IF q = p THEN "end" ELSE stage[q]
      BY <1>7, <1>a DEF ReadEnd, Moves, SimpleTypes
    <2>2. /\ i = held[r] /\ i \in Inode /\ met[i] = {r, s} /\ held[p] \in Inode
          /\ held[p] = i <=> p \in {r, s}
      BY <1>4, <2>1
    <2>s. p # s /\ stage'[s] = stage[s]
      BY <1>7, <2>1
    <2>3. CASE p = r
      <3>1. stage[s] \in Behind
        <4>1. stage[s] # "end" /\ stage[s] \notin Before /\ stage[s] \in Before \union At \union Behind
          BY <1>a, <2>2 DEF SimpleTypes, OpenedOnce
        <4>2. stage[s] \in {"wait", "copy"} => held[s] = i
          BY <1>a, <2>2 DEF OpenedOnce, At
        <4>3. stage[s] # "copy"
          BY <2>1, <2>2, <2>3, <4>2 DEF Writers
        <4>4. stage[s] # "wait"
          <5>1. r \in Peers(s)
            BY <1>b DEF Peers
          <5> QED
            BY <1>a, <2>2, <4>2, <5>1 DEF NobodyLeftWaiting, WaitsAlone
        <4> QED
          BY <4>1, <4>3, <4>4 DEF At
      <3>2. Streamed(r, s)
        BY <1>a, <2>2 DEF PairsStream
      <3> QED
        BY <2>1, <2>2, <2>3, <2>s, <3>1, <3>2 DEF Streamed
    <2>4. CASE p # r
      BY <1>q, <2>1, <2>2, <2>4, <2>s
    <2> QED
      BY <2>3, <2>4
  <1> QED
    BY <1>1, <1>2, <1>3, <1>5, <1>6, <1>7 DEF SimpleMove

-----------------------------------------------------------------------------
LEMMA SimpleStutter == SimpleIInv /\ UNCHANGED simpleVars => SimpleIInv'
  <1> SUFFICES ASSUME SimpleIInv, UNCHANGED simpleVars PROVE SimpleIInv'
    OBVIOUS
  <1>1. /\ name' = name /\ held' = held /\ data' = data /\ met' = met /\ stage' = stage
        /\ sent' = sent /\ copied' = copied /\ lost' = lost
    BY DEF simpleVars
  <1>2. SimpleTypes' /\ OpenedOnce'
    BY <1>1 DEF SimpleIInv, SimpleTypes, OpenedOnce
  <1>3. NobodyLeftWaiting'
    BY <1>1 DEF SimpleIInv, NobodyLeftWaiting, WaitsAlone
  <1>4. OneSided' /\ PairsStream'
    BY <1>1 DEF SimpleIInv, OneSided, OneSidedAt, StillWaits, PairsStream, Streamed
  <1> QED
    BY <1>2, <1>3, <1>4 DEF SimpleIInv

LEMMA SimpleInvNext == SimpleIInv /\ [SimpleNext]_simpleVars => SimpleIInv'
  <1> SUFFICES ASSUME SimpleIInv, [SimpleNext]_simpleVars PROVE SimpleIInv'
    OBVIOUS
  <1>1. CASE UNCHANGED simpleVars
    BY <1>1, SimpleStutter
  <1>2. ASSUME NEW p \in Party, Proceeds(p) \/ Lose(p) PROVE SimpleIInv'
    <2>1. SimpleMove(p)
      BY <1>2, SimpleMoves
    <2> QED
      BY <2>1, SimpleTypesNext, OpenedOnceNext, NobodyLeftWaitingNext, OneSidedNext, PairsStreamNext
         DEF SimpleIInv
  <1> QED
    BY <1>1, <1>2 DEF SimpleNext

(* The inductive invariant of simple_fifo_copy holds: what processes that meet at
   an inode, and those that have it to themselves, know of each other. *)
THEOREM SimpleInvariantHolds == SimpleFairSpec => []SimpleIInv
  BY SimpleInitInv, SimpleInvNext, PTL DEF SimpleFairSpec

(* Whatever other processes do to the name, a reader and a writer that had an
   inode to themselves have copied the file when the reader is at its end, or what
   the writer wrote before it was killed. *)
THEOREM PairCopiesUndisturbed == SimpleFairSpec => []UndisturbedPairCopies
  <1>1. ASSUME SimpleIInv PROVE UndisturbedPairCopies
    <2> SUFFICES ASSUME NEW r \in Receiver, NEW s \in Sender, stage[r] = "end", met[held[r]] = {r, s}
                 PROVE  /\ copied[r] = SubSeq(SimpleFile(s), 1, sent[s])
                        /\ sent[s] < Bytes => lost > 0
      BY DEF UndisturbedPairCopies
    <2>1. held[r] # 0 /\ copied[r] \in Seq(Byte)
      BY <1>1, Parties DEF SimpleIInv, SimpleTypes, OpenedOnce, At
    <2>2. Streamed(r, s)
      BY <1>1, <2>1 DEF SimpleIInv, PairsStream
    <2>3. copied[r] \o data[held[r]] = copied[r]
      <3>1. data[held[r]] = <<>>
        BY <2>2 DEF Streamed
      <3> QED
        BY <2>1, <3>1, ConcatEmptySeq
    <2>4. sent[s] < Bytes => lost > 0
      BY <2>2 DEF Streamed
    <2> QED
      BY <2>2, <2>3, <2>4 DEF Streamed
  <1> QED
    BY <1>1, SimpleInvariantHolds, PTL

-----------------------------------------------------------------------------
(* While nobody was killed, a reader leaves the inode that has the name only by
   removing the name; and a writer that copies has had a reader. *)
ReadersStay ==
  name # 0 /\ lost = 0 => \A r \in Receiver : r \in met[name] => held[r] = name
HadReader ==
  \A s \in Sender : stage[s] = "copy" => \E r \in Receiver : r \in met[held[s]]

NameInv == StandingNameHasWriter /\ ReadersStay /\ HadReader

Coming(s) ==
  \/ stage[s] \in {"ask", "unlink", "again", "open", "unlinkend"}
  \/ stage[s] \in {"wait", "copy"} /\ held[s] = name

(* A step of p that leaves the name and the others alone, and after which p, if it
   is a writer, is coming. *)
LEMMA NameKept ==
  ASSUME SimpleIInv, NameInv, NEW p \in Party,
         name' = name, lost' = lost, met' = met,
         \A q \in Party \ {p} : stage'[q] = stage[q] /\ held'[q] = held[q],
         p \in Receiver => held'[p] = held[p],
         p \in Sender => Coming(p)' /\ stage'[p] # "copy"
  PROVE  NameInv'
  <1> USE Parties
  <1>1. StandingNameHasWriter'
    <2> SUFFICES ASSUME name # 0, lost = 0 PROVE \E s \in Sender : Coming(s)'
      BY DEF StandingNameHasWriter, Coming
    <2>1. PICK s \in Sender : Coming(s)
      BY DEF NameInv, StandingNameHasWriter, Coming
    <2>2. CASE s = p
      BY <2>2
    <2>3. CASE s # p
      BY <2>1, <2>3 DEF Coming
    <2> QED
      BY <2>2, <2>3
  <1>2. ReadersStay'
    BY DEF NameInv, ReadersStay
  <1>3. HadReader'
    BY DEF NameInv, HadReader
  <1> QED
    BY <1>1, <1>2, <1>3 DEF NameInv

LEMMA NameInvNext ==
  ASSUME SimpleIInv, NameInv, NEW p \in Party, Proceeds(p) \/ Lose(p)
  PROVE  NameInv'
  <1> USE Parties
  <1>a. /\ SimpleTypes /\ OpenedOnce /\ NobodyLeftWaiting
        /\ stage \in [Party -> Before \union At \union Behind] /\ held \in [Party -> Inode \union {0}]
        /\ met \in [Inode -> SUBSET Party] /\ name \in Inode \union {0} /\ lost \in Nat
    BY DEF SimpleIInv, SimpleTypes
  <1>c. \A s \in Sender : stage[s] = "copy" => held[s] \in Inode
    BY <1>a DEF OpenedOnce, At
  <1>1. CASE p \in Sender /\ (Mkfifo(p) \/ MkfifoAgain(p))
    <2>1. /\ held' = held /\ \A q \in Party \ {p} : stage'[q] = stage[q]
          /\ stage'[p] \in {"ask", "open"} /\ lost' = lost
      BY <1>1, <1>a DEF Mkfifo, MkfifoAgain, Moves
    <2>2. CASE name' = name /\ met' = met
      BY <1>1, <2>1, <2>2, NameKept DEF Coming
    <2>3. CASE name = 0 /\ NewFifo
      <3>1. /\ name' \in Inode /\ \A q \in Party : held[q] # name'
            /\ met' = [met EXCEPT ![name'] = {}]
        BY <2>3, <1>a, FreeInodeIsFree DEF NewFifo
      <3>2. StandingNameHasWriter'
        BY <1>1, <2>1 DEF StandingNameHasWriter
      <3>3. ReadersStay'
        BY <3>1, <1>a DEF ReadersStay
      <3>4. HadReader'
        BY <2>1, <3>1, <1>a, <1>c DEF NameInv, HadReader
      <3> QED
        BY <3>2, <3>3, <3>4 DEF NameInv
    <2> QED
      BY <1>1, <2>2, <2>3 DEF Mkfifo, MkfifoAgain
  <1>2. CASE UnlinkFirst(p) \/ UnlinkAtEnd(p)
    <2>1. /\ name' = 0 /\ met' = met /\ stage'[p] # "copy"
          /\ \A q \in Party \ {p} : stage'[q] = stage[q] /\ held'[q] = held[q]
      BY <1>2, <1>a DEF UnlinkFirst, UnlinkAtEnd, Moves, Closes
    <2> QED
      BY <2>1 DEF NameInv, StandingNameHasWriter, ReadersStay, HadReader
  <1>3. CASE EnterY(p)
    BY <1>3, <1>a, NameKept DEF EnterY, Moves, Coming
  <1>4. CASE AnswerPrompt(p)
    BY <1>4, <1>a, NameKept DEF AnswerPrompt, Moves
  <1>5. CASE OpenFails(p)
    <2>1. /\ name' = 0 /\ met' = met /\ stage'[p] # "copy" /\ held' = held
          /\ \A q \in Party \ {p} : stage'[q] = stage[q]
      BY <1>5, <1>a DEF OpenFails, Moves
    <2> QED
      BY <2>1 DEF NameInv, StandingNameHasWriter, ReadersStay, HadReader
  <1>6. CASE Open(p)
    <2>1. /\ name \in Inode /\ stage'[p] \in {"wait", "copy"} /\ held'[p] = name
          /\ \A q \in Party \ {p} : held'[q] = held[q]
          /\ \A i \in Inode : met'[i] = IF i = name THEN met[i] \union {p} ELSE met[i]
          /\ lost' = lost /\ name' = name
      <3>1. name' = name
        BY <1>6 DEF Open
      <3>2. \A q \in Party : held'[q] = IF q = p THEN name ELSE held[q]
        BY <1>6, OpenIs
      <3>3. /\ name \in Inode /\ stage'[p] \in {"wait", "copy"} /\ lost' = lost
            /\ \A i \in Inode : met'[i] = IF i = name THEN met[i] \union {p} ELSE met[i]
        BY <1>6, OpenIs
      <3> QED
        BY <3>1, <3>2, <3>3
    <2>2. \A q \in Party \ {p} : stage'[q] = stage[q] \/
            (stage[q] = "wait" /\ stage'[q] = "copy" /\ held[q] = name /\ q \in Peers(p))
      BY <1>6, OpenIs
    <2>3. StandingNameHasWriter'
      <3> SUFFICES ASSUME name # 0, lost = 0 PROVE \E s \in Sender : Coming(s)'
        BY <2>1 DEF StandingNameHasWriter, Coming
      <3>1. PICK s \in Sender : Coming(s)
        BY DEF NameInv, StandingNameHasWriter, Coming
      <3> QED
        BY <2>1, <2>2, <3>1 DEF Coming
    <2>4. ReadersStay'
      <3> SUFFICES ASSUME name # 0, lost = 0, NEW r \in Receiver, r \in met'[name] PROVE held'[r] = name
        BY <2>1 DEF ReadersStay
      <3>1. \A q \in Receiver : q \in met[name] => held[q] = name
        BY DEF NameInv, ReadersStay
      <3>2. CASE r = p
        BY <2>1, <3>2
      <3>3. CASE r # p
        <4>1. met'[name] = met[name] \union {p}
          BY <2>1
        <4>2. r \in met[name]
          BY <3>3, <4>1
        <4>3. r \in Party \ {p}
          BY <3>3
        <4> QED
          BY <2>1, <3>1, <4>2, <4>3
      <3> QED
        BY <3>2, <3>3
    <2>5. HadReader'
      <3> SUFFICES ASSUME NEW s \in Sender, stage'[s] = "copy"
                   PROVE  \E r \in Receiver : r \in met'[held'[s]]
        BY DEF HadReader
      <3>1. CASE s = p
        <4>1. PICK r \in Peers(p) : held[r] = name
          BY <1>6, <3>1, OpenIs
        <4>2. r \in Receiver /\ r \in met[name]
          BY <1>a, <2>1, <3>1, <4>1 DEF Peers, OpenedOnce
        <4> QED
          BY <2>1, <3>1, <4>2
      <3>2. CASE s # p /\ stage[s] = "copy"
        BY <2>1, <3>2, <1>c DEF NameInv, HadReader
      <3>3. CASE s # p /\ stage[s] # "copy"
        <4>1. held[s] = name /\ p \in Receiver
          BY <2>2, <3>3 DEF Peers
        <4> QED
          BY <2>1, <3>3, <4>1
      <3> QED
        BY <3>1, <3>2, <3>3
    <2> QED
      BY <2>3, <2>4, <2>5 DEF NameInv
  <1>7. CASE (p \in Sender /\ PutByte(p)) \/ (p \in Receiver /\ GetByte(p))
    <2>1. UNCHANGED <<name, lost, met, stage, held>>
      BY <1>7 DEF PutByte, GetByte
    <2> QED
      BY <2>1 DEF NameInv, StandingNameHasWriter, ReadersStay, HadReader
  <1>8. CASE p \in Receiver /\ ReadEnd(p)
    BY <1>8, <1>a, NameKept DEF ReadEnd, Moves
  <1>9. CASE p \in Sender /\ CloseFifo(p)
    BY <1>9, <1>a, NameKept DEF CloseFifo, Moves, Closes, Coming
  <1>10. CASE p \in Sender /\ WriteEndBroken(p)
    <2>1. /\ name' = name /\ lost' = lost /\ met' = met /\ stage[p] = "copy" /\ stage'[p] = "gone"
          /\ \A q \in Party \ {p} : stage'[q] = stage[q] /\ held'[q] = held[q]
          /\ Readers(held[p]) = {}
      BY <1>10, <1>a DEF WriteEndBroken, Moves, Closes
    <2>2. StandingNameHasWriter'
      <3> SUFFICES ASSUME name # 0, lost = 0 PROVE \E s \in Sender : Coming(s)'
        BY <2>1 DEF StandingNameHasWriter, Coming
      <3>1. PICK s \in Sender : Coming(s)
        BY DEF NameInv, StandingNameHasWriter, Coming
      <3>2. ASSUME held[p] = name PROVE FALSE
        <4>1. PICK r \in Receiver : r \in met[name] /\ held[r] = name
          BY <1>10, <2>1, <3>2 DEF NameInv, ReadersStay, HadReader
        <4>2. stage[r] \in At /\ stage[r] # "wait"
          BY <1>10, <1>a, <3>2, <4>1 DEF OpenedOnce, NobodyLeftWaiting, WaitsAlone, Peers
        <4> QED
          BY <2>1, <3>2, <4>1, <4>2 DEF Readers, At
      <3>3. s # p
        BY <2>1, <3>1, <3>2 DEF Coming
      <3> QED
        BY <2>1, <3>1, <3>3 DEF Coming
    <2> QED
      BY <1>10, <2>1, <2>2 DEF NameInv, ReadersStay, HadReader
  <1>11. CASE Lose(p)
    <2>1. /\ name' = name /\ lost' # 0 /\ met' = met /\ stage'[p] = "gone"
          /\ \A q \in Party \ {p} : stage'[q] = stage[q] /\ held'[q] = held[q]
      BY <1>11, <1>a DEF Lose, Closes
    <2> QED
      BY <2>1 DEF NameInv, StandingNameHasWriter, ReadersStay, HadReader
  <1> QED
    BY <1>1, <1>2, <1>3, <1>4, <1>5, <1>6, <1>7, <1>8, <1>9, <1>10, <1>11 DEF Proceeds

(* Whoever unlinks what, and whichever writers are killed by SIGPIPE: as long as
   nobody is killed from outside, no name of simple_fifo_copy stands without a
   writer that is still to come to its end, and so none is left for the next run. *)
THEOREM NoNameIsLeft == SimpleFairSpec => []StandingNameHasWriter
  <1>1. SimpleInit => NameInv
    BY Parties DEF SimpleInit, NameInv, StandingNameHasWriter, ReadersStay, HadReader
  <1>2. SimpleIInv /\ NameInv /\ [SimpleNext]_simpleVars => NameInv'
    <2> SUFFICES ASSUME SimpleIInv, NameInv, [SimpleNext]_simpleVars PROVE NameInv'
      OBVIOUS
    <2>1. CASE UNCHANGED simpleVars
      BY <2>1 DEF simpleVars, NameInv, StandingNameHasWriter, ReadersStay, HadReader
    <2>2. CASE SimpleNext
      BY <2>2, NameInvNext DEF SimpleNext
    <2> QED
      BY <2>1, <2>2
  <1>3. NameInv => StandingNameHasWriter
    BY DEF NameInv
  <1> QED
    BY <1>1, <1>2, <1>3, SimpleInvariantHolds, PTL DEF SimpleFairSpec
=============================================================================
