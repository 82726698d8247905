----------------------------- MODULE SmartFifo -----------------------------
(* Linux/fifo_copy/smart_fifo_copy.c.  Readers and writers started in one   *)
(* directory meet through the pipe "Fifo": a writer makes a pipe named      *)
(* after its pid and writes that name, of LEN_NUM bytes, to Fifo; a reader  *)
(* takes one name and opens that pipe.  What ties a reader to its writer is *)
(* two calls of sleep: the writer gives the reader one second to open the   *)
(* pipe and exits if nobody did, and the reader waits two seconds before    *)
(* its first read because it takes a pipe without a writer for a finished   *)
(* copy.  A name is a member of Writer (the code relies on My_Fifo being    *)
(* followed by a zero byte), a piece is one write of up to MAXLINE bytes.   *)
EXTENDS Integers, Sequences, FiniteSets

CONSTANTS Reader, Writer,
          Nobody,     \* My_Fifo before a name is read
          Pieces,     \* the length of every input file
          OwnPipeSize,   \* what a writer's own pipe holds
          MaxKilled    \* bound: processes lost to a signal

ASSUME SetsAssumption == Reader \cap Writer = {} /\ Nobody \notin Writer
ASSUME BoundsAssumption == {Pieces, MaxKilled} \subseteq Nat /\ OwnPipeSize \in Nat \ {0}

Process == Reader \cup Writer

VARIABLES spot,     \* where every process is
          fifo,   \* the names in Fifo
          mine,   \* My_Fifo of every reader
          pipe,   \* what every writer's own pipe holds
          next,   \* the next piece a writer reads
          outputs,    \* what every reader wrote to its output
          killed,
          short   \* history: a nap was over before what it waited for

smartVars == <<spot, fifo, mine, pipe, next, outputs, killed, short>>

Piece(w, k) == <<w, k>>
FileOf(w) == [k \in 1 .. Pieces |-> Piece(w, k)]

\* Who has Fifo open: a reader until its nap is over, a writer until it has
\* opened its own pipe.
ReadersOnFifo == {r \in Reader : spot[r] \in {"wait", "name", "check", "open", "nap"}}
WritersOnFifo == {w \in Writer : spot[w] \in {"wait", "announce", "nap", "close"}}

\* Who has the pipe of w open.
ReadersOf(w) == {r \in Reader : mine[r] = w /\ spot[r] \in {"nap", "copy"}}
HasWriter(w) == spot[w] \in {"close", "copy"}

SmartInit ==
    /\ spot = [p \in Process |-> "start"]
    /\ fifo = <<>>
    /\ mine = [r \in Reader |-> Nobody]
    /\ pipe = [w \in Writer |-> <<>>]
    /\ next = [w \in Writer |-> 1]
    /\ outputs = [r \in Reader |-> <<>>]
    /\ killed = 0 /\ short = FALSE

\* Fifo forgets its names when the last process that has it open closes it.
FifoAfter(names, pcs) ==
    IF \A p \in Process : pcs[p] \in {"start", "copy", "gone"} THEN <<>> ELSE names

Goes(p, at) ==
    /\ spot' = [spot EXCEPT ![p] = at]
    /\ fifo' = FifoAfter(fifo, spot')

-----------------------------------------------------------------------------
(* open("Fifo") blocks until the other side has it open too; who comes      *)
(* second lets everybody who waits on the other side go.                    *)
ReaderOpensFifo(r) ==
    /\ spot[r] = "start"
    /\ spot' = [p \in Process |->
                 IF p = r THEN IF WritersOnFifo = {} THEN "wait" ELSE "name"
                 ELSE IF p \in Writer /\ spot[p] = "wait" THEN "announce"
                 ELSE spot[p]]
    /\ UNCHANGED <<fifo, mine, pipe, next, outputs, killed, short>>

WriterOpensFifo(w) ==
    /\ spot[w] = "start"
    /\ spot' = [p \in Process |->
                 IF p = w THEN IF ReadersOnFifo = {} THEN "wait" ELSE "announce"
                 ELSE IF p \in Reader /\ spot[p] = "wait" THEN "name"
                 ELSE spot[p]]
    /\ UNCHANGED <<fifo, mine, pipe, next, outputs, killed, short>>

-----------------------------------------------------------------------------
(* The writer.                                                              *)
Announce(w) ==
    /\ spot[w] = "announce" /\ ReadersOnFifo # {}
    /\ fifo' = Append(fifo, w)
    /\ spot' = [spot EXCEPT ![w] = "nap"]
    /\ UNCHANGED <<mine, pipe, next, outputs, killed, short>>

\* SIGPIPE: the readers that let it in have left Fifo since.
AnnounceBroken(w) ==
    /\ spot[w] = "announce" /\ ReadersOnFifo = {}
    /\ Goes(w, "gone")
    /\ UNCHANGED <<mine, pipe, next, outputs, killed, short>>

\* A reader that needs no time but the scheduler's to have the pipe open.
OnItsWay(r, w) ==
    \/ spot[r] = "name" /\ fifo # <<>>
    \/ spot[r] \in {"check", "open"} /\ mine[r] = w

(* Mutant: the writer gives the reader no time, sleep(1) is left outputs.       *)
ReaderUpAlways(w) == TRUE
\* What the naps are for: after one second the reader has opened the pipe,
\* after two the writer has.
ReaderUp(w) == ~\E r \in Reader : OnItsWay(r, w)
WriterUp(w) == spot[w] # "nap"

WriterOpens(w) ==
    /\ spot[w] = "nap"
    /\ short' = (short \/ ~ReaderUp(w))
    /\ Goes(w, IF ReadersOf(w) = {} THEN "gone" ELSE "close")
    /\ UNCHANGED <<mine, pipe, next, outputs, killed>>

\* close(Fifo), and O_NONBLOCK is taken off the pipe.
WriterCloses(w) ==
    /\ spot[w] = "close"
    /\ Goes(w, "copy")
    /\ UNCHANGED <<mine, pipe, next, outputs, killed, short>>

WriterCopies(w) ==
    /\ spot[w] = "copy" /\ next[w] <= Pieces
    /\ ReadersOf(w) # {} /\ Len(pipe[w]) < OwnPipeSize
    /\ pipe' = [pipe EXCEPT ![w] = Append(@, Piece(w, next[w]))]
    /\ next' = [next EXCEPT ![w] = @ + 1]
    /\ UNCHANGED <<spot, fifo, mine, outputs, killed, short>>

WriterBroken(w) ==
    /\ spot[w] = "copy" /\ next[w] <= Pieces /\ ReadersOf(w) = {}
    /\ Goes(w, "gone")
    /\ UNCHANGED <<mine, pipe, next, outputs, killed, short>>

WriterEnds(w) ==
    /\ spot[w] = "copy" /\ next[w] > Pieces
    /\ Goes(w, "gone")
    /\ UNCHANGED <<mine, pipe, next, outputs, killed, short>>

WriterStep(w) ==
    \/ WriterOpensFifo(w) \/ Announce(w) \/ AnnounceBroken(w) \/ WriterOpens(w)
    \/ WriterCloses(w) \/ WriterCopies(w) \/ WriterBroken(w) \/ WriterEnds(w)

-----------------------------------------------------------------------------
(* The reader.                                                              *)
(* Mutant: the name is left in Fifo for the next reader.                    *)
ReadNameAgain(r) ==
    /\ spot[r] = "name" /\ fifo # <<>>
    /\ mine' = [mine EXCEPT ![r] = Head(fifo)]
    /\ spot' = [spot EXCEPT ![r] = "check"]
    /\ UNCHANGED <<fifo, pipe, next, outputs, killed, short>>
\* With an empty Fifo read() blocks, or returns 0 and the loop goes round.
ReadName(r) ==
    /\ spot[r] = "name" /\ fifo # <<>>
    /\ mine' = [mine EXCEPT ![r] = Head(fifo)]
    /\ fifo' = Tail(fifo)
    /\ spot' = [spot EXCEPT ![r] = "check"]
    /\ UNCHANGED <<pipe, next, outputs, killed, short>>

\* open for writing succeeds if this My_Fifo has already had a reader.
Check(r) ==
    /\ spot[r] = "check"
    /\ Goes(r, IF ReadersOf(mine[r]) = {} THEN "open" ELSE "gone")
    /\ UNCHANGED <<mine, pipe, next, outputs, killed, short>>

ReaderOpens(r) ==
    /\ spot[r] = "open"
    /\ Goes(r, "nap")
    /\ UNCHANGED <<mine, pipe, next, outputs, killed, short>>

\* sleep(2) is over; close(Fifo).
ReaderWakes(r) ==
    /\ spot[r] = "nap"
    /\ short' = (short \/ ~WriterUp(mine[r]))
    /\ Goes(r, "copy")
    /\ UNCHANGED <<mine, pipe, next, outputs, killed>>

ReaderCopies(r) ==
    /\ spot[r] = "copy" /\ pipe[mine[r]] # <<>>
    /\ outputs' = [outputs EXCEPT ![r] = Append(@, Head(pipe[mine[r]]))]
    /\ pipe' = [pipe EXCEPT ![mine[r]] = Tail(@)]
    /\ UNCHANGED <<spot, fifo, mine, next, killed, short>>

(* Mutant: an empty pipe is taken for the end of the copy.                  *)
ReaderEndsEmpty(r) ==
    /\ spot[r] = "copy" /\ pipe[mine[r]] = <<>>
    /\ Goes(r, "gone")
    /\ UNCHANGED <<mine, pipe, next, outputs, killed, short>>

\* The descriptor is still O_NDELAY: read() = -1 while a writer has the pipe
\* open and it is empty, which the loop repeats, and 0 when there is none.
ReaderEnds(r) ==
    /\ spot[r] = "copy" /\ pipe[mine[r]] = <<>> /\ ~HasWriter(mine[r])
    /\ Goes(r, "gone")
    /\ UNCHANGED <<mine, pipe, next, outputs, killed, short>>

ReaderStep(r) ==
    \/ ReaderOpensFifo(r) \/ ReadName(r) \/ Check(r) \/ ReaderOpens(r)
    \/ ReaderWakes(r) \/ ReaderCopies(r) \/ ReaderEnds(r)

-----------------------------------------------------------------------------
KillProcess(p) ==
    /\ killed < MaxKilled /\ spot[p] \notin {"start", "gone"}
    /\ killed' = killed + 1
    /\ Goes(p, "gone")
    /\ UNCHANGED <<mine, pipe, next, outputs, short>>

SmartNext ==
    \/ \E w \in Writer : WriterStep(w)
    \/ \E r \in Reader : ReaderStep(r)
    \/ \E p \in Process : KillProcess(p)

SmartSpec == SmartInit /\ [][SmartNext]_smartVars

\* A process that is not blocked goes on, and sleep returns.
SmartFairness ==
    /\ \A w \in Writer : WF_smartVars(WriterStep(w))
    /\ \A r \in Reader : WF_smartVars(ReaderStep(r))
SmartFairSpec == SmartSpec /\ SmartFairness

-----------------------------------------------------------------------------
(* The state has its shape.                                                 *)
SmartTypeOK ==
    /\ \A r \in Reader : spot[r] \in
          {"start", "wait", "name", "check", "open", "nap", "copy", "gone"}
    /\ \A w \in Writer : spot[w] \in
          {"start", "wait", "announce", "nap", "close", "copy", "gone"}
    /\ fifo \in Seq(Writer) /\ mine \in [Reader -> Writer \cup {Nobody}]
    /\ \A w \in Writer : Len(pipe[w]) <= OwnPipeSize
    /\ next \in [Writer -> 1 .. Pieces + 1] /\ killed \in 0 .. MaxKilled
    /\ short \in BOOLEAN

(* A writer's name is in one place: in Fifo once, or taken by one reader.   *)
(* It follows that a pipe never has two readers, between whom the file      *)
(* would be split, and that the check made before the pipe is opened never  *)
(* has to refuse.                                                           *)
NameHasOnePlace ==
    \A w \in Writer :
        Cardinality({k \in DOMAIN fifo : fifo[k] = w})
            + Cardinality({r \in Reader : mine[r] = w}) <= 1

(* The shape of the state, and one place for every name.                    *)
SmartInv == SmartTypeOK /\ NameHasOnePlace

(* However many readers and writers share the directory, an output is the   *)
(* beginning of one writer's file and nothing else.                         *)
OutputFromOne ==
    \A r \in Reader :
        outputs[r] # <<>> => outputs[r] = SubSeq(FileOf(mine[r]), 1, Len(outputs[r]))

(* When no nap was too short and nobody is killed, a reader whose       *)
(* writer found it ends with the whole file, and a writer that found its    *)
(* reader was not cut off.                                                  *)
PairCopiesWhole ==
    (~short /\ killed = 0) =>
        \A r \in Reader :
            (spot[r] = "gone" /\ mine[r] # Nobody /\ next[mine[r]] > 1)
                => outputs[r] = FileOf(mine[r])

(* Every output is right, and whole if the naps were long enough.           *)
OutputsAreRight == OutputFromOne /\ PairCopiesWhole

(* When no nap was too short and nobody is killed, a writer gives up   *)
(* after its nap only if no reader ever took its name: none has opened its  *)
(* pipe too late or has already left.                                       *)
TakenIsServed ==
    [][(~short' /\ killed' = 0) => \A w \in Writer :
          (spot[w] = "nap" /\ spot'[w] = "gone")
              => ~\E r \in Reader : mine[r] = w]_smartVars

(* Whoever has a name written or taken comes to an end: neither waits for a *)
(* partner that will not come.                                              *)
NapsEnd ==
    \A p \in Process : (spot[p] = "nap") ~> (spot[p] = "gone")

(* Who has met its partner is served, and who is to nap gets up and ends.   *)
NapsAreEnough == TakenIsServed /\ NapsEnd
=============================================================================
