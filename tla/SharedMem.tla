------------------------------ MODULE SharedMem ------------------------------
(***************************************************************************)
(* Linux/shared_mem/mem.c: a reader process hands a file, one buffer at a  *)
(* time, to a writer process through a System V shared segment.  Five      *)
(* semaphores carry the protocol:                                          *)
(*   0  the buffer: +2 when it is filled, -1 when the writer starts and -1 *)
(*      when it ends copying it, 0 when it may be filled again             *)
(*   1  not 0 while the reader lives        3  1 while a reader exists     *)
(*   2  not 0 while the writer lives        4  1 while a writer exists     *)
(* Processes may be killed at any point; the kernel then applies their     *)
(* SEM_UNDO adjustments, and that is how the partner finds out.            *)
(*                                                                         *)
(* One action per system call.  The name of the key file is taken to give  *)
(* the same keys in every run (its inode is reused); a run that gets other *)
(* keys starts again from Init.                                            *)
(***************************************************************************)
EXTENDS Integers, Sequences, FiniteSets

CONSTANTS
  Reader, Writer,   \* processes started with 'r' and with 'w'
  Chunks,           \* buffers in the input file
  MaxCrashes,       \* bound on killed processes
  MaxErrors,        \* bound on failing read calls
  OpenMayFail       \* may the open of the input or the output file fail

Process == Reader \union Writer
Sem == 0..4

ASSUME ProcessAssumption == Reader \intersect Writer = {} /\ IsFiniteSet(Process)
ASSUME BoundAssumption ==
  Chunks \in Nat /\ MaxCrashes \in Nat /\ MaxErrors \in Nat /\ OpenMayFail \in BOOLEAN

VARIABLES
  sem,          \* the values of the five semaphores
  undo,         \* per process and semaphore, the kernel's pending adjustment
  key,          \* the segment that shmget finds or makes
  att,          \* per process, the segment it attached
  mem,          \* per segment, the buffer in it
  pc,
  chunk,        \* per process, the buffer it read last
  next,         \* per reader, the buffers read so far
  fd,           \* per writer, whether its output file is open
  out,          \* per writer, what it has written
  crashes, errors,
  stranded      \* history: was a writer killed between its two steps down of
                \* semaphore 0, when a later reader's SETVAL had dropped its
                \* adjustment

vars == <<sem, undo, key, att, mem, pc, chunk, next, fd, out, crashes, errors, stranded>>

(* A buffer is the process it came from and its number in the file; number 0
   stands for length 0, the end of the file, and a new segment holds zeros.
   A failed read gives -1, which the unsigned char turns into length 255.  A torn
   buffer has the length of one and bytes of it and of the one before. *)
Zero == [from |-> "nobody", no |-> 0]
Garbage(p) == [from |-> p, no |-> -1]
Torn(p) == [from |-> p, no |-> -2]
Segment == 0..Cardinality(Process)

Init ==
  /\ sem = [s \in Sem |-> 0]
  /\ undo = [p \in Process |-> [s \in Sem |-> 0]]
  /\ key = 0
  /\ att = [p \in Process |-> 0]
  /\ mem = [g \in Segment |-> Zero]
  /\ pc = [p \in Process |-> "off"]
  /\ chunk = [p \in Process |-> Zero]
  /\ next = [p \in Reader |-> 0]
  /\ fd = [p \in Writer |-> FALSE]
  /\ out = [p \in Writer |-> <<>>]
  /\ crashes = 0 /\ errors = 0 /\ stranded = FALSE

Goto(p, from, to) == pc[p] = from /\ pc' = [pc EXCEPT ![p] = to]

(* semop with one operation: it blocks rather than go below 0. *)
SemOp(p, s, op, flag) ==
  /\ sem[s] + op >= 0
  /\ sem' = [sem EXCEPT ![s] = @ + op]
  /\ undo' = IF flag = "SEM_UNDO" THEN [undo EXCEPT ![p][s] = @ - op] ELSE undo

(* What the kernel does with the adjustments of a process that ends. *)
ApplyUndo(p) ==
  /\ sem' = [s \in Sem |-> IF sem[s] + undo[p][s] < 0 THEN 0 ELSE sem[s] + undo[p][s]]
  /\ undo' = [undo EXCEPT ![p] = [s \in Sem |-> 0]]

(* Both kinds of process attach the segment and take their place. *)
Start(p) ==
  /\ Goto(p, "off", "claim")
  /\ att' = [att EXCEPT ![p] = key]
  /\ UNCHANGED <<sem, undo, key, mem, chunk, next, fd, out, crashes, errors, stranded>>

Place(p) == IF p \in Reader THEN 3 ELSE 4

(* Mutant: the place is taken without a look whether it is free. *)
ClaimAnyway(p) ==
  /\ Goto(p, "claim", IF p \in Reader THEN "clear0" ELSE "meet")
  /\ SemOp(p, Place(p), 1, "SEM_UNDO")
  /\ UNCHANGED <<key, att, mem, chunk, next, fd, out, crashes, errors, stranded>>

Claim(p) ==
  /\ Goto(p, "claim", IF p \in Reader THEN "clear0" ELSE "meet")
  /\ sem[Place(p)] = 0
  /\ SemOp(p, Place(p), 1, "SEM_UNDO")
  /\ UNCHANGED <<key, att, mem, chunk, next, fd, out, crashes, errors, stranded>>

Refused(p) ==
  /\ Goto(p, "claim", "refused")
  /\ sem[Place(p)] # 0
  /\ UNCHANGED <<sem, undo, key, att, mem, chunk, next, fd, out, crashes, errors, stranded>>

(* SETVAL also drops every process's adjustment of the semaphore. *)
SetVal(p, s, from, to) ==
  /\ Goto(p, from, to)
  /\ sem' = [sem EXCEPT ![s] = 0]
  /\ undo' = [q \in Process |-> [undo[q] EXCEPT ![s] = 0]]
  /\ UNCHANGED <<key, att, mem, chunk, next, fd, out, crashes, errors, stranded>>

Call(p, from, to, s, op, flag) ==
  /\ Goto(p, from, to)
  /\ SemOp(p, s, op, flag)
  /\ UNCHANGED <<key, att, mem, chunk, next, fd, out, crashes, errors, stranded>>

(* What makes the kernel release a writer whose reader is killed. *)
ReaderDoesNotArm(r) == Call(r, "arm", "alive", 0, -2, "0")     \* mutant

ReaderArms(r) == Call(r, "arm", "alive", 0, -2, "SEM_UNDO")

(* The writer is alive: 2, so that the reader's -1 leaves a 1. *)
WriterAlive(w) == Call(w, "alive", "open", 2, 2, "SEM_UNDO")

(* The reader's and the writer's meeting. *)
ReaderMeets(r) ==
  \/ SetVal(r, 0, "clear0", "clear1")
  \/ SetVal(r, 1, "clear1", "clear2")
  \/ SetVal(r, 2, "clear2", "raise")
  \/ Call(r, "raise", "arm", 0, 2, "0")
  \/ ReaderArms(r)
  \/ Call(r, "alive", "meet", 1, 2, "SEM_UNDO")
  \/ Call(r, "meet", "input", 2, -1, "0")

WriterMeets(w) ==
  \/ Call(w, "meet", "arm", 1, -1, "0")
  \/ Call(w, "arm", "disarm", 0, 2, "SEM_UNDO")
  \/ Call(w, "disarm", "alive", 0, -2, "0")
  \/ WriterAlive(w)

(* The reader opens its file, or returns at once: the kernel undoes, and nothing
   is removed. *)
OpenInput(r) ==
  /\ Goto(r, "input", "read")
  /\ UNCHANGED <<sem, undo, key, att, mem, chunk, next, fd, out, crashes, errors, stranded>>

OpenFails(r) ==
  /\ OpenMayFail
  /\ Goto(r, "input", "failed")
  /\ ApplyUndo(r)
  /\ UNCHANGED <<key, att, mem, chunk, next, fd, out, crashes, errors, stranded>>

(* The reader reads the next part of the file, its end, or what a failed read
   leaves, since Read_Res < 0 is never true. *)
Read(r) ==
  /\ Goto(r, "read", "fill")
  /\ \/ /\ next[r] < Chunks
        /\ next' = [next EXCEPT ![r] = @ + 1]
        /\ chunk' = [chunk EXCEPT ![r] = [from |-> r, no |-> next[r] + 1]]
        /\ UNCHANGED errors
     \/ /\ next[r] = Chunks
        /\ chunk' = [chunk EXCEPT ![r] = [from |-> r, no |-> 0]]
        /\ UNCHANGED <<next, errors>>
     \/ /\ errors < MaxErrors
        /\ errors' = errors + 1
        /\ chunk' = [chunk EXCEPT ![r] = Garbage(r)]
        /\ UNCHANGED next
  /\ UNCHANGED <<sem, undo, key, att, mem, fd, out, crashes, stranded>>

(* It stores the length and then the bytes one at a time: the segment holds
   neither buffer until the last one is there.  The end has no bytes. *)
FillStarts(r) ==
  /\ Goto(r, "fill", "filling")
  /\ chunk[r].no # 0
  /\ mem' = [mem EXCEPT ![att[r]] = Torn(r)]
  /\ UNCHANGED <<sem, undo, key, att, chunk, next, fd, out, crashes, errors, stranded>>

FillEnds(r) ==
  /\ Goto(r, IF chunk[r].no = 0 THEN "fill" ELSE "filling", "filled")
  /\ mem' = [mem EXCEPT ![att[r]] = chunk[r]]
  /\ UNCHANGED <<sem, undo, key, att, chunk, next, fd, out, crashes, errors, stranded>>

Filled(r) == Call(r, "filled", "check1", 0, 2, "0")

(* semctl GETVAL on the partner's semaphore: 0 means that it is dead. *)
Check(p, s, from, to) ==
  /\ Goto(p, from, IF sem[s] = 0 THEN "bye" ELSE to)
  /\ UNCHANGED <<sem, undo, key, att, mem, chunk, next, fd, out, crashes, errors, stranded>>

(* Mutant: the reader does not wait for its buffer to be copied. *)
WaitCopiedNot(r) ==
  /\ Goto(r, "waitzero", "check2")
  /\ UNCHANGED <<sem, undo, key, att, mem, chunk, next, fd, out, crashes, errors, stranded>>

WaitCopied(r) ==
  /\ sem[0] = 0
  /\ Goto(r, "waitzero", "check2")
  /\ UNCHANGED <<sem, undo, key, att, mem, chunk, next, fd, out, crashes, errors, stranded>>

More(p) == IF chunk[p].no = 0 THEN "leave" ELSE IF p \in Reader THEN "read" ELSE "take"

(* The writer opens its file, but tests the wrong descriptor. *)
Open(w) ==
  /\ Goto(w, "open", "take")
  /\ \E ok \in {TRUE} \union {~OpenMayFail} : fd' = [fd EXCEPT ![w] = ok]
  /\ UNCHANGED <<sem, undo, key, att, mem, chunk, next, out, crashes, errors, stranded>>

Take(w) == Call(w, "take", "copy", 0, -1, "0")

Copy(w) ==
  /\ Goto(w, "copy", "release")
  /\ chunk' = [chunk EXCEPT ![w] = mem[att[w]]]
  /\ out' = IF fd[w] /\ mem[att[w]].no # 0
            THEN [out EXCEPT ![w] = Append(@, mem[att[w]])] ELSE out
  /\ UNCHANGED <<sem, undo, key, att, mem, next, fd, crashes, errors, stranded>>

Release(w) == Call(w, "release", "check", 0, -1, "0")

(* The end: the segment is removed, unless another one has its key by now,
   and the process exits. *)
Leave(p) ==
  /\ pc[p] \in {"leave", "bye"}
  /\ pc' = [pc EXCEPT ![p] = "done"]
  /\ key' = IF att[p] = key THEN key + 1 ELSE key
  /\ ApplyUndo(p)
  /\ UNCHANGED <<att, mem, chunk, next, fd, out, crashes, errors, stranded>>

Crash(p) ==
  /\ crashes < MaxCrashes
  /\ pc[p] \notin {"off", "refused", "failed", "done", "killed"}
  /\ pc' = [pc EXCEPT ![p] = "killed"]
  /\ crashes' = crashes + 1
  /\ ApplyUndo(p)
  /\ stranded' = (stranded \/ (pc[p] \in {"copy", "release"} /\ undo[p][0] = 0))
  /\ UNCHANGED <<key, att, mem, chunk, next, fd, out, errors>>

ReaderStep(r) ==
  \/ Start(r) \/ Claim(r) \/ Refused(r) \/ ReaderMeets(r)
  \/ OpenInput(r) \/ OpenFails(r)
  \/ Read(r) \/ FillStarts(r) \/ FillEnds(r) \/ Filled(r)
  \/ Check(r, 2, "check1", "waitzero")
  \/ WaitCopied(r)
  \/ Check(r, 2, "check2", More(r))
  \/ Leave(r)

WriterStep(w) ==
  \/ Start(w) \/ Claim(w) \/ Refused(w) \/ WriterMeets(w) \/ Open(w)
  \/ Take(w) \/ Copy(w) \/ Release(w)
  \/ Check(w, 1, "check", More(w))
  \/ Leave(w)

Next ==
  \/ \E r \in Reader : ReaderStep(r)
  \/ \E w \in Writer : WriterStep(w)
  \/ \E p \in Process : Crash(p)

Spec == Init /\ [][Next]_vars

(* Processes that can run do; nothing makes one crash. *)
FairSpec ==
  /\ Spec
  /\ \A r \in Reader : WF_vars(ReaderStep(r))
  /\ \A w \in Writer : WF_vars(WriterStep(w))
-----------------------------------------------------------------------------
(* Types of the semaphores, the kernel's adjustments and the processes. *)
TypeOK ==
  /\ sem \in [Sem -> Nat]
  /\ undo \in [Process -> [Sem -> -2..2]]
  /\ key \in Segment /\ att \in [Process -> Segment]
  /\ next \in [Reader -> 0..Chunks]
  /\ \A w \in Writer : \A j \in 1..Len(out[w]) : out[w][j].from \in Reader

Left(p) == pc[p] \in {"failed", "done", "killed"}
Inside(p) == ~Left(p) /\ pc[p] \notin {"off", "claim", "refused"}

(* Never two readers or two writers past their claim, whatever was killed
   before: the SEM_UNDO of semaphores 3 and 4 gives the place back exactly
   once. *)
OneOfEachKind ==
  /\ \A p, q \in Reader : Inside(p) /\ Inside(q) => p = q
  /\ \A p, q \in Writer : Inside(p) /\ Inside(q) => p = q

(* The reader does not fill the segment while a writer is copying from it, also
   when processes have been killed and started again.  The exception takes a
   reader that sets semaphore 0 under an old writer, which the kernel then no
   longer cleans up after: when it is killed with the buffer half released, the
   next writer finds one step too many. *)
NoCopyWhileFilling ==
  ~stranded => \A r \in Reader, w \in Writer : 
                 ~(pc[r] \in {"read", "fill", "filling"} /\ pc[w] = "copy")

(* One reader and one writer at most have ever been let in: nobody has taken
   the place of a process that was killed or has ended. *)
NoSuccessor ==
  \A P \in {Reader, Writer} :
    \A p, q \in P : {pc[p], pc[q]} \intersect {"off", "claim", "refused"} = {} => p = q

(* Where a sequence of buffers holds what was read, not what failed reads left. *)
Real(s) == {j \in 1..Len(s) : s[j].no > 0}

Faithful(s) ==
  /\ \A j \in Real(s) : s[j].no = Cardinality({i \in Real(s) : i <= j})
  /\ \A i, j \in 1..Len(s) : s[i].from = s[j].from
  /\ \A j \in 1..Len(s) : s[j] # Torn(s[j].from)

(* Before the first restart what a writer has written is, but for what failed
   reads left, a prefix of its reader's file, and the whole of it if the writer
   ended by itself, nobody was killed and the reader could open the file.  One
   more buffer can follow a prefix, and only when the reader was killed: its
   SEM_UNDO releases the writer once more, which finds the last buffer again or
   the next one half stored. *)
IsPrefix(w) ==
  \/ Faithful(out[w])
  \/ LET m == Len(out[w]) IN
       /\ m > 0 /\ pc[out[w][m].from] = "killed"
       /\ \/ m > 1 /\ out[w][m] = out[w][m - 1]
          \/ out[w][m] = Torn(out[w][m].from)
       /\ Faithful(SubSeq(out[w], 1, m - 1))

Undisturbed == crashes = 0 /\ \A r \in Reader : pc[r] # "failed"

IsWhole(w) == pc[w] = "done" /\ fd[w] /\ Undisturbed => Cardinality(Real(out[w])) = Chunks

OutputFaithful == NoSuccessor => \A w \in Writer : IsPrefix(w) /\ IsWhole(w)

(* Before the first restart the messages "My freand is die" and "My friend is
   die" (mem.c:122, 133 and 179) are true: the partner is gone. *)
ByeMeansGone ==
  NoSuccessor =>
    /\ \A r \in Reader : pc[r] = "bye" => \E w \in Writer : Left(w)
    /\ \A w \in Writer : pc[w] = "bye" => \E r \in Reader : Left(r)

(* The types, one process of each kind inside, no two of them at the buffer, also
   when a new reader has set the semaphores to 0 under an old writer, and true
   messages. *)
Inv == TypeOK /\ OneOfEachKind /\ NoCopyWhileFilling /\ ByeMeansGone

(* Before the first restart a process that was past the meeting when its
   partner went does not stay: it is never left alone for good. *)
LeftAlone(P, Q, past) ==
  NoSuccessor /\ (\E p \in P : pc[p] \in past) /\ (\E q \in Q : Left(q))

SurvivorEnds ==
  /\ []<>~LeftAlone(Reader, Writer, {"input", "read", "fill", "filling", "filled",
                                   "check1", "waitzero", "check2"})
  /\ []<>~LeftAlone(Writer, Reader, {"open", "take", "copy", "release", "check"})
=============================================================================
