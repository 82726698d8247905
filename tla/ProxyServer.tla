---------------------------- MODULE ProxyServer ----------------------------
(* Linux/proxi_server/serv.c.  The parent forks n children in a line: child *)
(* 0 reads the source file, child n-1 writes the destination, and between   *)
(* child k-1 and child k the bytes go through a pipe to the parent, the     *)
(* parent's buffer buf[k], and a pipe from the parent.  The parent moves    *)
(* them with select() and non-blocking descriptors; the children block.     *)
(*                                                                          *)
(* The array buf has n elements and the code reads and writes buf[n]: with  *)
(* glibc's layout of a 32-byte structure buf[n].w_fd and buf[n].r_fd fall   *)
(* in the slack of the chunk (w_fd reads 0, r_fd holds what main stored)    *)
(* and buf[n].size in the next chunk's size field, which is not 0.  So      *)
(* buf[n] is a buffer that is read once, at end of file, and never written. *)
(* One element of a sequence stands for the bytes of one slot of a pipe.    *)
EXTENDS Integers, Sequences, FiniteSets

CONSTANTS n,          \* number of children
          Unit,       \* 3000: the step of the buffer sizes
          PipeSize,   \* what a pipe holds
          Source,     \* the file, as a sequence
          MaxKills    \* bound: children or parents lost to a signal or a failed fork

ASSUME nAssumption == n \in Nat \ {0}
ASSUME SizesAssumption == {Unit, PipeSize} \subseteq Nat \ {0}
ASSUME SourceAssumption == Source \in Seq({Source[k] : k \in DOMAIN Source}) /\ MaxKills \in Nat

Child  == 0 .. n - 1
Buffer == 0 .. n

VARIABLES left,      \* what child 0 has not read of the source
          dest,      \* what child n-1 wrote
          to, from,  \* pipefd1 and pipefd2 of every child
          child,     \* per child: where it is, and its array buff
          buff,      \* buf[k].buff up to l_tran
          r_fd, w_fd, \* whether buf[k].r_fd, buf[k].w_fd is open
          rd_set, wr_set, \* what select returned and is not yet handled
          pc, i, kills

pipes == <<to, from>>
parent == <<buff, r_fd, w_fd, rd_set, wr_set, pc, i>>
proxyVars == <<left, dest, pipes, child, parent, kills>>

size(k) == IF k = n THEN 1 ELSE (n - k) * Unit

least(a, b) == IF a < b THEN a ELSE b
First(s, len) == SubSeq(s, 1, len)
shft_left(s, len) == SubSeq(s, len + 1, Len(s))
Smallest(S) == CHOOSE k \in S : \A l \in S : k <= l

Running(c) == child[c].pc \in {"read", "write"}

\* The ends of the pipes.  Child 0 closed the pipe from the parent, child
\* n-1 the one to it, and each opened its file instead.
ReadsFromParent(c) == Running(c) /\ c # 0
WritesToParent(c)  == Running(c) /\ c # n - 1

ProxyInit ==
    /\ left = Source /\ dest = <<>>
    /\ to = [c \in Child |-> <<>>] /\ from = [c \in Child |-> <<>>]
    /\ child = [c \in Child |-> [pc |-> "none", mem |-> <<>>]]
    /\ buff = [k \in Buffer |-> <<>>]
    /\ r_fd = [k \in Buffer |-> FALSE] /\ w_fd = [k \in Buffer |-> FALSE]
    /\ rd_set = {} /\ wr_set = {}
    /\ pc = "fork" /\ i = 0 /\ kills = 0

\* The parent's part of one turn of the preparation loop.
Prepared ==
    /\ pc = "fork"
    /\ w_fd' = [w_fd EXCEPT ![i] = TRUE]
    /\ r_fd' = [r_fd EXCEPT ![i + 1] = TRUE]
    /\ i' = i + 1
    /\ pc' = IF i + 1 = n THEN "select" ELSE "fork"
    /\ UNCHANGED <<left, dest, pipes, buff, rd_set, wr_set>>

\* The child closes the descriptors of the others before it reads anything.
Fork ==
    /\ Prepared
    /\ child' = [child EXCEPT ![i].pc = "read"]
    /\ UNCHANGED kills

\* status = -1 is taken for the parent's side: the line has a gap.
ForkFails ==
    /\ kills < MaxKills
    /\ Prepared
    /\ child' = [child EXCEPT ![i].pc = "gone"]
    /\ kills' = kills + 1

-----------------------------------------------------------------------------
(* The parent's loop.                                                       *)
Readable(k)  == from[k - 1] # <<>> \/ ~WritesToParent(k - 1)
Writable(k)  == Len(to[k]) < PipeSize \/ ~ReadsFromParent(k)
WantsRead    == {k \in Buffer : r_fd[k] /\ Len(buff[k]) # size(k)}
WantsWrite   == {k \in Buffer : w_fd[k] /\ buff[k] # <<>>}
ReadReady    == {k \in WantsRead : Readable(k)}
WriteReady   == {k \in WantsWrite : Writable(k)}

Phase(rd, wr) == IF rd # {} THEN "read" ELSE IF wr # {} THEN "write" ELSE "close"

\* A process that ends, however it ends, loses its descriptors.
ParentGone ==
    /\ pc' = "gone"
    /\ r_fd' = [k \in Buffer |-> FALSE] /\ w_fd' = [k \in Buffer |-> FALSE]
    /\ rd_set' = {} /\ wr_set' = {}
    /\ UNCHANGED <<left, dest, pipes, child, buff, i>>

Select ==
    /\ pc = "select"
    /\ ReadReady \cup WriteReady # {}
    /\ rd_set' = ReadReady /\ wr_set' = WriteReady
    /\ pc' = Phase(ReadReady, WriteReady)
    /\ UNCHANGED <<left, dest, pipes, child, buff, r_fd, w_fd, i, kills>>

Return ==
    /\ pc = "select"
    /\ WantsRead \cup WantsWrite = {}
    /\ ParentGone
    /\ UNCHANGED kills

Room(k) == size(k) - Len(buff[k])

(* Mutant: end of file is not told from a read.                             *)
StillOpenAtEof(len) == len >= 0
StillOpen(len) == len > 0

\* length < 1 closes the buffer's reading end: at end of file, and also if
\* the pipe should be empty while its writer lives (EAGAIN).
Read ==
    /\ pc = "read"
    /\ LET k   == Smallest(rd_set)
           len == least(Len(from[k - 1]), Room(k))
       IN  /\ buff' = [buff EXCEPT ![k] = @ \o First(from[k - 1], len)]
           /\ from' = [from EXCEPT ![k - 1] = SubSeq(@, len + 1, Len(@))]
           /\ r_fd' = [r_fd EXCEPT ![k] = StillOpen(len)]
           /\ rd_set' = rd_set \ {k}
           /\ pc' = Phase(rd_set \ {k}, wr_set)
    /\ UNCHANGED <<left, dest, to, child, w_fd, wr_set, i, kills>>

Write ==
    /\ pc = "write"
    /\ LET k   == Smallest(wr_set)
           len == least(Len(buff[k]), PipeSize - Len(to[k]))
       IN  /\ ReadsFromParent(k)
           /\ to' = [to EXCEPT ![k] = @ \o First(buff[k], len)]
           /\ buff' = [buff EXCEPT ![k] = shft_left(@, len)]
           /\ wr_set' = wr_set \ {k}
           /\ pc' = Phase(rd_set, wr_set \ {k})
    /\ UNCHANGED <<left, dest, from, child, r_fd, w_fd, rd_set, i, kills>>

\* SIGPIPE: the child that read this pipe is gone.
WriteBroken ==
    /\ pc = "write"
    /\ ~ReadsFromParent(Smallest(wr_set))
    /\ ParentGone
    /\ UNCHANGED kills

(* The last loop: a buffer whose source ended and which is drained. *)
Drained(k) == ~r_fd[k] /\ buff[k] = <<>>

Close ==
    /\ pc = "close"
    /\ w_fd' = [k \in Buffer |-> w_fd[k] /\ ~Drained(k)]
    /\ pc' = "select"
    /\ UNCHANGED <<left, dest, pipes, child, buff, r_fd, rd_set, wr_set, i, kills>>

-----------------------------------------------------------------------------
(* The children.                                                            *)
Got(c, s) == child' = [child EXCEPT ![c] = [pc |-> "write", mem |-> s]]
Gone(c)   == child' = [child EXCEPT ![c] = [pc |-> "gone", mem |-> <<>>]]

ChildReadFile ==
    /\ child[0].pc = "read"
    /\ LET len == least(size(0), Len(left))
       IN  /\ IF len > 0 THEN Got(0, First(left, len)) ELSE Gone(0)
           /\ left' = SubSeq(left, len + 1, Len(left))
    /\ UNCHANGED <<dest, pipes, parent, kills>>

ChildRead(c) ==
    /\ c # 0 /\ child[c].pc = "read" /\ to[c] # <<>>
    /\ LET len == least(size(c), Len(to[c]))
       IN  /\ Got(c, First(to[c], len))
           /\ to' = [to EXCEPT ![c] = SubSeq(@, len + 1, Len(@))]
    /\ UNCHANGED <<left, dest, from, parent, kills>>

ChildEof(c) ==
    /\ c # 0 /\ child[c].pc = "read" /\ to[c] = <<>> /\ ~w_fd[c]
    /\ Gone(c)
    /\ UNCHANGED <<left, dest, pipes, parent, kills>>

ChildWriteFile ==
    /\ child[n - 1].pc = "write"
    /\ dest' = dest \o child[n - 1].mem
    /\ child' = [child EXCEPT ![n - 1] = [pc |-> "read", mem |-> <<>>]]
    /\ UNCHANGED <<left, pipes, parent, kills>>

(* Mutant: the child does not go on with a write that was cut short.        *)
ChildWriteOnce(c) ==
    /\ c # n - 1 /\ child[c].pc = "write" /\ r_fd[c + 1]
    /\ Len(from[c]) < PipeSize
    /\ LET len == least(Len(child[c].mem), PipeSize - Len(from[c]))
       IN  from' = [from EXCEPT ![c] = @ \o First(child[c].mem, len)]
    /\ child' = [child EXCEPT ![c] = [pc |-> "read", mem |-> <<>>]]
    /\ UNCHANGED <<left, dest, to, parent, kills>>

\* A blocking write(): it fills the pipe as room appears and returns when
\* all is written.
ChildWrite(c) ==
    /\ c # n - 1 /\ child[c].pc = "write" /\ r_fd[c + 1]
    /\ Len(from[c]) < PipeSize
    /\ LET len  == least(Len(child[c].mem), PipeSize - Len(from[c]))
           rest == SubSeq(child[c].mem, len + 1, Len(child[c].mem))
       IN  /\ from' = [from EXCEPT ![c] = @ \o First(child[c].mem, len)]
           /\ child' = [child EXCEPT ![c] =
                  [pc |-> IF rest = <<>> THEN "read" ELSE "write", mem |-> rest]]
    /\ UNCHANGED <<left, dest, to, parent, kills>>

ChildWriteBroken(c) ==
    /\ c # n - 1 /\ child[c].pc = "write" /\ ~r_fd[c + 1]
    /\ Gone(c)
    /\ UNCHANGED <<left, dest, pipes, parent, kills>>

ChildStep(c) ==
    ChildRead(c) \/ ChildEof(c) \/ ChildWrite(c) \/ ChildWriteBroken(c)

-----------------------------------------------------------------------------
KillChild(c) ==
    /\ kills < MaxKills /\ Running(c)
    /\ kills' = kills + 1
    /\ Gone(c)
    /\ UNCHANGED <<left, dest, pipes, parent>>

KillParent ==
    /\ kills < MaxKills /\ pc \notin {"fork", "gone"}
    /\ kills' = kills + 1
    /\ ParentGone

ParentStep == Fork \/ Select \/ Return \/ Read \/ Write \/ WriteBroken \/ Close

AllGone == pc = "gone" /\ \A c \in Child : child[c].pc = "gone"
Ended   == AllGone /\ UNCHANGED proxyVars

ProxyNext ==
    \/ ParentStep
    \/ ForkFails
    \/ ChildReadFile
    \/ ChildWriteFile
    \/ \E c \in Child : ChildStep(c) \/ KillChild(c)
    \/ KillParent
    \/ Ended

ProxySpec == ProxyInit /\ [][ProxyNext]_proxyVars

\* Every process that can run is scheduled; nobody is made to be killed.
ProxyFairness ==
    /\ WF_proxyVars(ParentStep)
    /\ WF_proxyVars(ChildReadFile)
    /\ WF_proxyVars(ChildWriteFile)
    /\ \A c \in Child : WF_proxyVars(ChildStep(c))
ProxyFairSpec == ProxySpec /\ ProxyFairness

-----------------------------------------------------------------------------
Content == {Source[k] : k \in DOMAIN Source}

(* The state has its shape, and neither a buffer nor a pipe ever holds more *)
(* than its size.                                                           *)
ProxyTypeOK ==
    /\ left \in Seq(Content) /\ dest \in Seq(Content)
    /\ \A c \in Child :
          /\ to[c] \in Seq(Content) /\ Len(to[c]) <= PipeSize
          /\ from[c] \in Seq(Content) /\ Len(from[c]) <= PipeSize
          /\ child[c].pc \in {"none", "read", "write", "gone"}
          /\ child[c].mem \in Seq(Content) /\ Len(child[c].mem) <= size(c)
    /\ \A k \in Buffer : buff[k] \in Seq(Content) /\ Len(buff[k]) <= size(k)
    /\ r_fd \in [Buffer -> BOOLEAN] /\ w_fd \in [Buffer -> BOOLEAN]
    /\ rd_set \subseteq Buffer /\ wr_set \subseteq Buffer
    /\ pc \in {"fork", "select", "read", "write", "close", "gone"}
    /\ i \in 0 .. n /\ kills \in 0 .. MaxKills

\* What is under way above child k's write, nearest the destination first.
Line[k \in Child] ==
    IF k = 0 THEN child[0].mem \o left
    ELSE child[k].mem \o to[k] \o buff[k] \o from[k - 1] \o Line[k - 1]

(* Whoever dies, what reached the destination is the beginning of the       *)
(* source: a gap in the line never lets later bytes overtake.  As long as   *)
(* nobody is lost, the destination and everything on its way to it are the  *)
(* source: neither a short write, a full buffer nor a closed descriptor     *)
(* loses, repeats or swaps a byte.                                          *)
StreamIsWhole ==
    /\ dest = SubSeq(Source, 1, Len(dest))
    /\ kills = 0 => dest \o Line[n - 1] = Source

(* A running parent closes a child's pipe only when everything before the   *)
(* child has ended and is empty, so end of file is told once, in order.     *)
ClosedMeansDrained ==
    \A k \in 1 .. n - 1 :
        (pc \notin {"fork", "gone"} /\ ~w_fd[k])
            => /\ ~Running(k - 1)
               /\ from[k - 1] = <<>> /\ buff[k] = <<>>

(* A descriptor that select reported is still ready when its turn comes, so *)
(* read() never answers EAGAIN, which the code would take for end of file.  *)
ReportedStaysReady ==
    /\ \A k \in rd_set : Readable(k)
    /\ \A k \in wr_set : Writable(k)

(* The shape of the state, the whole stream, end of file told in order, and no  *)
(* answer of select that is no longer true.                                     *)
ProxyInv == ProxyTypeOK /\ StreamIsWhole /\ ClosedMeansDrained /\ ReportedStaysReady

(* The parent and all children return, whoever is lost: a lost one takes the  *)
(* line down with it and nobody stays blocked on a pipe whose other end has   *)
(* died.  With nobody lost the destination is then the source.                *)
FileCopied == <>(AllGone /\ (kills = 0 => dest = Source))
=============================================================================
