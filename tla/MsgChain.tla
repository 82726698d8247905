------------------------------ MODULE MsgChain ------------------------------
(***************************************************************************)
(* Linux/message/msg.c: a parent forks n children; child 1 prints and      *)
(* sends a message of type 2, child k waits for type k, prints and sends   *)
(* type k + 1; the parent waits for type n + 1 and ends the line.          *)
(***************************************************************************)
EXTENDS Integers, Sequences

CONSTANT n
ASSUME ChildrenAssumption == n \in Nat \ {0}

Child == 1..n

VARIABLES
  i,          \* the parent's loop variable: children 1..i - 1 are forked
  parent,     \* "fork", "wait", "done", "failed"
  state,         \* per child
  queue,      \* the types of the messages in the queue
  printed       \* the children that printed

msgVars == <<i, parent, state, queue, printed>>

MsgInit ==
  /\ i = 1 /\ parent = "fork"
  /\ state = [c \in Child |-> "none"]
  /\ queue = {} /\ printed = <<>>

(* Mutant: no child waits for a message before it prints. *)
ForkUnordered ==
  /\ parent = "fork" /\ i <= n
  /\ i' = i + 1
  /\ state' = [state EXCEPT ![i] = "print"]
  /\ UNCHANGED <<parent, queue, printed>>

Fork ==
  /\ parent = "fork" /\ i <= n
  /\ i' = i + 1
  /\ state' = [state EXCEPT ![i] = IF i = 1 THEN "print" ELSE "receive"]
  /\ UNCHANGED <<parent, queue, printed>>

ForkFails ==
  /\ parent = "fork" /\ i <= n
  /\ parent' = "failed"
  /\ UNCHANGED <<i, state, queue, printed>>

Forked ==
  /\ parent = "fork" /\ i = n + 1
  /\ parent' = "wait"
  /\ UNCHANGED <<i, state, queue, printed>>

(* msgrcv of one's own type, or of n + 1 in the parent. *)
Receive(c) ==
  /\ state[c] = "receive" /\ c \in queue
  /\ queue' = queue \ {c}
  /\ state' = [state EXCEPT ![c] = "print"]
  /\ UNCHANGED <<i, parent, printed>>

EndLine ==
  /\ parent = "wait" /\ n + 1 \in queue
  /\ queue' = queue \ {n + 1}
  /\ parent' = "done"
  /\ UNCHANGED <<i, state, printed>>

ChildPrints(c) ==
  /\ state[c] = "print"
  /\ printed' = Append(printed, c)
  /\ state' = [state EXCEPT ![c] = "send"]
  /\ UNCHANGED <<i, parent, queue>>

(* Mutant: the message goes to the child after the next. *)
SendFar(c) ==
  /\ state[c] = "send"
  /\ queue' = queue \union {c + 2}
  /\ state' = [state EXCEPT ![c] = "exited"]
  /\ UNCHANGED <<i, parent, printed>>

Send(c) ==
  /\ state[c] = "send"
  /\ queue' = queue \union {c + 1}
  /\ state' = [state EXCEPT ![c] = "exited"]
  /\ UNCHANGED <<i, parent, printed>>

ParentStep == Fork \/ ForkFails \/ Forked \/ EndLine
ChildStep(c) == Receive(c) \/ ChildPrints(c) \/ Send(c)

MsgNext == ParentStep \/ \E c \in Child : ChildStep(c)

MsgSpec == MsgInit /\ [][MsgNext]_msgVars

MsgFairSpec == MsgSpec /\ WF_msgVars(ParentStep) /\ \A c \in Child : WF_msgVars(ChildStep(c))
-----------------------------------------------------------------------------
(* Types of the queue and of the processes' positions. *)
MsgTypeOK ==
  /\ i \in 1..n + 1 /\ parent \in {"fork", "wait", "done", "failed"}
  /\ state \in [Child -> {"none", "receive", "print", "send", "exited"}]
  /\ queue \subseteq 2..n + 1
  /\ printed \in Seq(Child)

(* The children that exist are the first ones, and so are, in order, those that
   printed. *)
PrintedInOrder ==
  /\ \A c \in Child : state[c] = "none" <=> c >= i
  /\ \A j \in 1..Len(printed) : printed[j] = j
  /\ \A c \in Child : state[c] \in {"send", "exited"} <=> c <= Len(printed)

(* The turn is in one place: with the child that prints or sends, or in the only
   message of the queue, so the queue never fills up. *)
OneMessage ==
  /\ \A c \in Child : state[c] = "print" => c = Len(printed) + 1 /\ queue = {}
  /\ \A c \in Child : state[c] = "send" => c = Len(printed) /\ queue = {}
  /\ \A c, d \in Child : {state[c], state[d]} \subseteq {"print", "send"} => c = d
  /\ \A t \in queue : t = Len(printed) + 1
  /\ \A c \in Child : state[c] = "receive" => c # 1

(* The line ends after the last child's number. *)
EndsLast == parent = "done" => Len(printed) = n

MsgIInv == MsgTypeOK /\ PrintedInOrder /\ OneMessage /\ EndsLast

(* The children take turns. *)
MsgTurns == INSTANCE Turns WITH First <- 1, Last <- n, order <- printed

MsgTakesTurns == MsgTurns!TurnsSpec

(* The parent ends the line, or a fork failed; and also then the children that
   exist have their turns and end: nobody is left waiting for the missing ones
   but the message to them. *)
LineEnds ==
  /\ parent \in {"done", "failed"}
  /\ \A c \in Child : c < i => state[c] = "exited"
=============================================================================
