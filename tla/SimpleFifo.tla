----------------------------- MODULE SimpleFifo -----------------------------
(***************************************************************************)
(* Linux/fifo_copy/simple_fifo_copy.c: a reader and a writer that meet at  *)
(* the name "Fifo".  The name is made by the writer and removed by both at *)
(* their end; a person at the keyboard is asked where it is missing (the   *)
(* reader) or there already (the writer).  The FIFO behind the name is an  *)
(* inode: it lives on without a name while somebody has it open, so that   *)
(* a name can go while a process waits behind it.                          *)
(* The errors of open on the files are left out.                           *)
(***************************************************************************)
EXTENDS Integers, Sequences, FiniteSets

CONSTANTS
  Receiver, Sender,    \* processes started with 'r' and with 'w'
  Bytes,               \* the length of every input file
  Capacity,            \* what a FIFO holds
  MaxLost              \* bound on killed processes

Party == Receiver \union Sender
Inode == 1 .. Cardinality(Party) + 1

ASSUME PartyAssumption == Receiver \intersect Sender = {} /\ IsFiniteSet(Party)
ASSUME SimpleBoundAssumption == {Bytes, MaxLost} \subseteq Nat /\ Capacity \in Nat \ {0}

VARIABLES
  name,     \* the inode that "Fifo" names, 0 when there is no such file
  held,     \* per process, the inode it has open or waits in open for, or 0
  data,     \* per inode, the bytes in it
  met,      \* history: per inode, who has opened it
  stage,    \* where every process is
  errno,    \* of every writer
  sent,     \* per writer, the bytes of its file that it read
  copied,   \* per reader, its output
  lost

simpleVars == <<name, held, data, met, stage, errno, sent, copied, lost>>

SimpleInit ==
  /\ name = 0
  /\ held = [p \in Party |-> 0]
  /\ data = [i \in Inode |-> <<>>] /\ met = [i \in Inode |-> {}]
  /\ stage = [p \in Party |-> IF p \in Sender THEN "make" ELSE "open"]
  /\ errno = [s \in Sender |-> "none"]
  /\ sent = [s \in Sender |-> 0]
  /\ copied = [r \in Receiver |-> <<>>]
  /\ lost = 0

Moves(p, from, to) == stage[p] = from /\ stage' = [stage EXCEPT ![p] = to]

(* An inode without name and user is free; mkfifo takes one. *)
FreeInode == CHOOSE i \in Inode : i # name /\ \A p \in Party : held[p] # i

NewFifo ==
  /\ name' = FreeInode
  /\ data' = [data EXCEPT ![FreeInode] = <<>>]
  /\ met' = [met EXCEPT ![FreeInode] = {}]

-----------------------------------------------------------------------------
(* The writer makes the name, or hears EEXIST. *)
Mkfifo(s) ==
  /\ IF name = 0 THEN NewFifo /\ UNCHANGED errno
     ELSE errno' = [errno EXCEPT ![s] = "EEXIST"] /\ UNCHANGED <<name, data, met>>
  /\ Moves(s, "make", IF name = 0 THEN "open" ELSE "ask")
  /\ UNCHANGED <<held, sent, copied, lost>>

(* The person enters 'y'; any other key is asked for again. *)
EnterY(s) ==
  /\ s \in Sender /\ Moves(s, "ask", "unlink")
  /\ UNCHANGED <<name, held, data, met, errno, sent, copied, lost>>

(* The name is removed, whoever uses it; unlink leaves errno alone unless it
   fails. *)
UnlinkFirst(s) ==
  /\ Moves(s, "unlink", "again")
  /\ name' = 0
  /\ errno' = IF name = 0 THEN [errno EXCEPT ![s] = "ENOENT"] ELSE errno
  /\ UNCHANGED <<held, data, met, sent, copied, lost>>

(* mkfifo once more; the loop then tests errno, which a successful mkfifo does
   not reset. *)
MkfifoAgain(s) ==
  /\ IF name = 0 THEN NewFifo /\ UNCHANGED errno
     ELSE errno' = [errno EXCEPT ![s] = "EEXIST"] /\ UNCHANGED <<name, data, met>>
  /\ Moves(s, "again", IF errno'[s] = "EEXIST" THEN "ask" ELSE "open")
  /\ UNCHANGED <<held, sent, copied, lost>>

-----------------------------------------------------------------------------
(* open blocks until the other side has the same inode open or waits for it;
   who comes second lets all of the other side go. *)
Peers(p) == IF p \in Sender THEN Receiver ELSE Sender

Open(p) ==
  /\ stage[p] = "open" /\ name # 0
  /\ held' = [held EXCEPT ![p] = name]
  /\ met' = [met EXCEPT ![name] = @ \union {p}]
  /\ LET peers == {q \in Peers(p) : held[q] = name /\ stage[q] \in {"wait", "copy", "end"}}
     IN stage' = [q \in Party |->
          CASE q = p -> IF peers = {} THEN "wait" ELSE "copy"
            [] q \in peers /\ stage[q] = "wait" -> "copy"
            [] OTHER -> stage[q]]
  /\ UNCHANGED <<name, data, errno, sent, copied, lost>>

(* No such name: the reader asks the person, who tries again or gives up; the
   writer only tests for descriptor 0 and copies its file to nowhere. *)
OpenFails(p) ==
  /\ name = 0
  /\ Moves(p, "open", IF p \in Receiver THEN "ask" ELSE "unlinkend")
  /\ UNCHANGED <<name, held, data, met, errno, sent, copied, lost>>

AnswerPrompt(r) ==
  /\ r \in Receiver
  /\ Moves(r, "ask", "open") \/ Moves(r, "ask", "gone")
  /\ UNCHANGED <<name, held, data, met, errno, sent, copied, lost>>

-----------------------------------------------------------------------------
Readers(i) == {r \in Receiver : held[r] = i /\ stage[r] \in {"copy", "end"}}
Writers(i) == {s \in Sender : held[s] = i /\ stage[s] = "copy"}

(* One byte from the writer's file to the FIFO. *)
PutByte(s) ==
  /\ stage[s] = "copy" /\ sent[s] < Bytes
  /\ Readers(held[s]) # {} /\ Len(data[held[s]]) < Capacity
  /\ sent' = [sent EXCEPT ![s] = @ + 1]
  /\ data' = [data EXCEPT ![held[s]] = Append(@, <<s, sent[s] + 1>>)]
  /\ UNCHANGED <<name, held, met, stage, errno, copied, lost>>

(* A FIFO that nobody has open any more forgets its bytes. *)
Closes(p) ==
  /\ held' = [held EXCEPT ![p] = 0]
  /\ data' = [i \in Inode |-> IF \A q \in Party : held'[q] # i THEN <<>> ELSE data[i]]

(* SIGPIPE when its readers are gone. *)
WriteEndBroken(s) ==
  /\ sent[s] < Bytes /\ Moves(s, "copy", "gone")
  /\ Readers(held[s]) = {}
  /\ Closes(s)
  /\ UNCHANGED <<name, met, errno, sent, copied, lost>>

(* The end of the writer's file: it closes both. *)
CloseFifo(s) ==
  /\ sent[s] = Bytes /\ Moves(s, "copy", "unlinkend")
  /\ Closes(s)
  /\ UNCHANGED <<name, met, errno, sent, copied, lost>>

GetByte(r) ==
  /\ stage[r] = "copy" /\ data[held[r]] # <<>>
  /\ copied' = [copied EXCEPT ![r] = Append(@, Head(data[held[r]]))]
  /\ data' = [data EXCEPT ![held[r]] = Tail(@)]
  /\ UNCHANGED <<name, held, met, stage, errno, sent, lost>>

(* Mutant: an empty FIFO is taken for the end of the file. *)
ReadEndEarly(r) ==
  /\ Moves(r, "copy", "end") /\ data[held[r]] = <<>>
  /\ UNCHANGED <<name, held, data, met, errno, sent, copied, lost>>

(* read gives 0: nothing left and no writer. *)
ReadEnd(r) ==
  /\ stage[r] = "copy" /\ data[held[r]] = <<>> /\ Writers(held[r]) = {}
  /\ Moves(r, "copy", "end")
  /\ UNCHANGED <<name, held, data, met, errno, sent, copied, lost>>

(* Mutant: the writer leaves the name to its reader. *)
UnlinkByReader(p) ==
  /\ stage[p] \in {"end", "unlinkend"}
  /\ stage' = [stage EXCEPT ![p] = "gone"]
  /\ name' = IF p \in Sender THEN name ELSE 0
  /\ Closes(p)
  /\ UNCHANGED <<met, errno, sent, copied, lost>>

(* The name goes, whatever it names by now, and the process exits. *)
UnlinkAtEnd(p) ==
  /\ stage[p] \in {"end", "unlinkend"}
  /\ stage' = [stage EXCEPT ![p] = "gone"]
  /\ name' = 0
  /\ Closes(p)
  /\ UNCHANGED <<met, errno, sent, copied, lost>>

Lose(p) ==
  /\ lost < MaxLost /\ stage[p] # "gone"
  /\ lost' = lost + 1
  /\ stage' = [stage EXCEPT ![p] = "gone"]
  /\ Closes(p)
  /\ UNCHANGED <<name, met, errno, sent, copied>>

Proceeds(p) ==
  \/ p \in Sender /\ (Mkfifo(p) \/ UnlinkFirst(p) \/ MkfifoAgain(p) \/ PutByte(p)
                      \/ WriteEndBroken(p) \/ CloseFifo(p))
  \/ p \in Receiver /\ (GetByte(p) \/ ReadEnd(p))
  \/ EnterY(p) \/ AnswerPrompt(p) \/ Open(p) \/ OpenFails(p) \/ UnlinkAtEnd(p)

SimpleNext == \E p \in Party : Proceeds(p) \/ Lose(p)

(* Processes run, and the person answers. *)
SimpleFairness == \A p \in Party : WF_simpleVars(Proceeds(p))

SimpleFairSpec == SimpleInit /\ [][SimpleNext]_simpleVars /\ SimpleFairness
-----------------------------------------------------------------------------
SimpleFile(s) == [k \in 1..Bytes |-> <<s, k>>]

(* A reader at the end of its FIFO, which nobody but it and one writer ever
   opened, has the writer's file, or as much of it as the writer wrote before
   it was killed: neither another pair's unlink nor a new FIFO under the same
   name cuts it short. *)
UndisturbedPairCopies ==
  \A r \in Receiver, s \in Sender :
    stage[r] = "end" /\ met[held[r]] = {r, s} =>
      /\ copied[r] = SubSeq(SimpleFile(s), 1, sent[s])
      /\ sent[s] < Bytes => lost > 0

(* A name that is left behind costs the next writer its run: it is asked, and
   cannot get in (YGetsIn).  Both unlinks at the end may take the name of another
   pair, and a writer whose reader goes first is killed by SIGPIPE before its own;
   but while nobody is killed from outside, a name only stands as long as some
   writer is on its way to it, at the FIFO that it names, or about to remove it. *)
StandingNameHasWriter ==
  name # 0 /\ lost = 0 =>
    \E s \in Sender :
      \/ stage[s] \in {"ask", "unlink", "again", "open", "unlinkend"}
      \/ stage[s] \in {"wait", "copy"} /\ held[s] = name

(* The promise of line 66, "please wait, and enter 'y'": who answers with 'y'
   gets into the FIFO. *)
YGetsIn == \A s \in Sender : stage[s] = "ask" ~> stage[s] \in {"wait", "copy", "gone"}
=============================================================================
