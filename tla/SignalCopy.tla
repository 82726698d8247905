----------------------------- MODULE SignalCopy -----------------------------
(***************************************************************************)
(* Linux/signal/signal.c: a child reads a file and sends it to its parent  *)
(* bit by bit, SIGUSR1 for a one and SIGUSR2 for a zero; the parent        *)
(* answers every bit with SIGUSR1 and writes a byte when it has its bits.  *)
(*                                                                         *)
(* Pending signals are a set: a second SIGUSR1 sent before the first was   *)
(* delivered is lost.  Handlers run with all signals blocked, at any point *)
(* of the interrupted main program, and the parent's --sig_m is a load and *)
(* a store that a handler can come between.  sigsuspend is called with all *)
(* signals already unblocked, so it is no more than pause().               *)
(***************************************************************************)
EXTENDS Integers, Sequences

CONSTANTS
  Bits,       \* bits in a byte (8)
  File,       \* the bytes of the input file
  Prompt,     \* does every process answer before the 10 seconds of alarm end
  MaxDeaths   \* bound on processes killed from outside

Byte == 0..2^Bits - 1
EOF == 2^Bits - 1           \* (char) -1

ASSUME BitsAssumption == Bits \in Nat \ {0} /\ File \in Seq(Byte)
ASSUME BoundAssumption == Prompt \in BOOLEAN /\ MaxDeaths \in Nat

VARIABLES
  buff_m, count_m, sig_m, ex_m,     \* the parent's globals
  ppc, reg, ppending, written,      \* the parent: where, the loaded sig_m,
                                    \* its pending signals, what it wrote
  cpc, byte, bit, pos, res_send,    \* the child
  alarm, cpending,
  deaths

copier == <<buff_m, count_m, sig_m, ex_m, ppc, reg, written>>
sender == <<byte, bit, pos, res_send, alarm>>
signalVars == <<copier, ppending, cpc, sender, cpending, deaths>>

SignalInit ==
  /\ buff_m = 0 /\ count_m = 0 /\ sig_m = 0 /\ ex_m = 0
  /\ ppc = "unblock" /\ reg = 0 /\ ppending = {} /\ written = <<>>
  /\ cpc = "read" /\ byte = 0 /\ bit = 0 /\ pos = 0 /\ res_send = 0
  /\ alarm = FALSE /\ cpending = {}
  /\ deaths = 0

ParentLives == ppc \notin {"exited", "killed"}
ChildLives == cpc \notin {"exited", "killed"}

-----------------------------------------------------------------------------
(* The parent's main program. *)
ParentGoto(from, to) == ppc = from /\ ppc' = to

Unblock ==
  /\ ParentGoto("unblock", "pause0")
  /\ UNCHANGED <<buff_m, count_m, sig_m, ex_m, reg, ppending, written, cpc, sender, cpending, deaths>>

(* sigsuspend, before the loop and in it. *)
Suspend ==
  /\ ParentGoto("pause0", "paused0") \/ ParentGoto("pause", "paused")
  /\ UNCHANGED <<buff_m, count_m, sig_m, ex_m, reg, ppending, written, cpc, sender, cpending, deaths>>

Loop ==
  /\ ParentGoto("loop", IF ex_m # 1 THEN "test" ELSE "exited")
  /\ UNCHANGED <<buff_m, count_m, sig_m, ex_m, reg, ppending, written, cpc, sender, cpending, deaths>>

(* The two operands of && in turn, then the load of --sig_m. *)
Test ==
  /\ \/ ParentGoto("test", IF sig_m # 0 THEN "test8" ELSE "full")
     \/ ParentGoto("test8", IF count_m # Bits THEN "load" ELSE "full")
  /\ UNCHANGED <<buff_m, count_m, sig_m, ex_m, reg, ppending, written, cpc, sender, cpending, deaths>>

Load ==
  /\ ParentGoto("load", "store")
  /\ reg' = sig_m
  /\ UNCHANGED <<buff_m, count_m, sig_m, ex_m, ppending, written, cpc, sender, cpending, deaths>>

Store ==
  /\ ParentGoto("store", "answer")
  /\ sig_m' = reg - 1
  /\ UNCHANGED <<buff_m, count_m, ex_m, reg, ppending, written, cpc, sender, cpending, deaths>>

AnswerBit ==
  /\ ParentGoto("answer", "pause")
  /\ cpending' = IF ChildLives THEN cpending \union {"SIGUSR1"} ELSE cpending
  /\ UNCHANGED <<buff_m, count_m, sig_m, ex_m, reg, ppending, written, cpc, sender, deaths>>

Full ==
  /\ ParentGoto("full", IF count_m = Bits THEN "recount" ELSE "loop")
  /\ UNCHANGED <<buff_m, count_m, sig_m, ex_m, reg, ppending, written, cpc, sender, cpending, deaths>>

Recount ==
  /\ ParentGoto("recount", "write")
  /\ count_m' = 0
  /\ UNCHANGED <<buff_m, sig_m, ex_m, reg, ppending, written, cpc, sender, cpending, deaths>>

WriteByte ==
  /\ ParentGoto("write", "clear")
  /\ written' = Append(written, buff_m)
  /\ UNCHANGED <<buff_m, count_m, sig_m, ex_m, reg, ppending, cpc, sender, cpending, deaths>>

(* Mutant: the byte is not cleared. *)
ClearNot ==
  /\ ParentGoto("clear", "loop")
  /\ UNCHANGED <<buff_m, count_m, sig_m, ex_m, reg, ppending, written, cpc, sender, cpending, deaths>>

Clear ==
  /\ ParentGoto("clear", "loop")
  /\ buff_m' = 0
  /\ UNCHANGED <<count_m, sig_m, ex_m, reg, ppending, written, cpc, sender, cpending, deaths>>

(* The parent's handlers.  A handler that finds the parent in sigsuspend ends
   it.  Of several pending signals the kernel delivers the lowest number. *)
Deliver(s) ==
  /\ ParentLives /\ ppc # "unblock"
  /\ s \in ppending
  /\ s = "SIGUSR2" => "SIGUSR1" \notin ppending
  /\ s = "SIGCHLD" => ppending = {"SIGCHLD"}
  /\ ppending' = ppending \ {s}
  /\ ppc' = CASE ppc = "paused0" -> "loop" [] ppc = "paused" -> "full" [] OTHER -> ppc
  /\ UNCHANGED <<reg, written, cpc, sender, cpending, deaths>>

one ==
  /\ Deliver("SIGUSR1")
  /\ buff_m' = (buff_m + 2^count_m) % 2^Bits
  /\ count_m' = count_m + 1
  /\ sig_m' = sig_m + 1
  /\ UNCHANGED ex_m

zero ==
  /\ Deliver("SIGUSR2")
  /\ count_m' = count_m + 1
  /\ sig_m' = sig_m + 1
  /\ UNCHANGED <<buff_m, ex_m>>

f_ex ==
  /\ Deliver("SIGCHLD")
  /\ ex_m' = ex_m + 1
  /\ UNCHANGED <<buff_m, count_m, sig_m>>

CopierStep ==
  \/ Unblock \/ Suspend \/ Loop \/ Test \/ Load \/ Store \/ AnswerBit
  \/ Full \/ Recount \/ WriteByte \/ Clear
  \/ one \/ zero \/ f_ex

-----------------------------------------------------------------------------
(* The child.  Reading byte EOF ends the loop as the end of the file does. *)
Exits ==
  /\ cpc' = "exited"
  /\ ppending' = ppending \union {"SIGCHLD"}

ReadByte ==
  /\ cpc = "read"
  /\ IF pos = Len(File)
     THEN Exits /\ UNCHANGED sender
     ELSE /\ pos' = pos + 1
          /\ byte' = File[pos + 1]
          /\ bit' = 0
          /\ IF byte' = EOF THEN Exits ELSE cpc' = "arm" /\ UNCHANGED ppending
          /\ UNCHANGED <<res_send, alarm>>
  /\ UNCHANGED <<copier, cpending, deaths>>

(* Mutant: alarm is not called. *)
ArmNot ==
  /\ cpc = "arm"
  /\ cpc' = "kill"
  /\ UNCHANGED <<copier, ppending, byte, bit, pos, res_send, alarm, cpending, deaths>>

Arm ==
  /\ cpc = "arm"
  /\ cpc' = "kill"
  /\ alarm' = TRUE
  /\ UNCHANGED <<copier, ppending, byte, bit, pos, res_send, cpending, deaths>>

KillOne ==
  /\ cpc = "kill"
  /\ cpc' = "pause"
  /\ res_send' = IF ParentLives THEN 0 ELSE -1
  /\ ppending' = IF ParentLives
                 THEN ppending \union {IF (byte \div 2^bit) % 2 = 1 THEN "SIGUSR1" ELSE "SIGUSR2"}
                 ELSE ppending
  /\ UNCHANGED <<copier, byte, bit, pos, alarm, cpending, deaths>>

(* Mutant: the child does not wait for the answer. *)
ChildSuspendNot ==
  /\ cpc = "pause"
  /\ cpc' = IF bit + 1 = Bits THEN "read" ELSE "arm"
  /\ bit' = bit + 1
  /\ UNCHANGED <<copier, ppending, byte, pos, res_send, alarm, cpending, deaths>>

ChildSuspend ==
  /\ cpc = "pause"
  /\ cpc' = "paused"
  /\ UNCHANGED <<copier, ppending, sender, cpending, deaths>>

(* What follows sigsuspend: the next bit, or the next byte. *)

NextBit == IF bit + 1 = Bits THEN "read" ELSE "arm"

Resume ==
  /\ cpc' = IF cpc = "paused" THEN NextBit ELSE cpc
  /\ bit' = IF cpc = "paused" THEN bit + 1 ELSE bit

(* The child's handlers: up, and al, which ends a child without parent. *)
up ==
  /\ ChildLives /\ "SIGUSR1" \in cpending
  /\ cpending' = cpending \ {"SIGUSR1"}
  /\ Resume
  /\ UNCHANGED <<copier, ppending, byte, pos, res_send, alarm, deaths>>

Quiet ==
  /\ ppc \in {"paused0", "paused", "exited", "killed"} /\ (ParentLives => ppending = {})
  /\ cpc = "paused" /\ cpending = {}

al ==
  /\ ChildLives /\ alarm
  /\ Prompt => Quiet
  /\ alarm' = FALSE
  /\ IF res_send = -1
     THEN Exits /\ UNCHANGED bit
     ELSE Resume /\ UNCHANGED ppending
  /\ UNCHANGED <<copier, byte, pos, res_send, cpending, deaths>>

SenderStep == ReadByte \/ Arm \/ KillOne \/ ChildSuspend \/ up

(* Either process may be killed from outside. *)
ParentKilled ==
  /\ deaths < MaxDeaths /\ ParentLives
  /\ ppc' = "killed" /\ deaths' = deaths + 1
  /\ UNCHANGED <<buff_m, count_m, sig_m, ex_m, reg, written, ppending, cpc, sender, cpending>>

ChildKilled ==
  /\ deaths < MaxDeaths /\ ChildLives
  /\ cpc' = "killed" /\ deaths' = deaths + 1
  /\ ppending' = ppending \union {"SIGCHLD"}
  /\ UNCHANGED <<copier, sender, cpending>>

SignalNext == CopierStep \/ SenderStep \/ al \/ ParentKilled \/ ChildKilled

SignalSpec == SignalInit /\ [][SignalNext]_signalVars

(* Processes that can run do, and an alarm that is set goes off. *)
SignalFairSpec == SignalSpec /\ WF_signalVars(CopierStep) /\ WF_signalVars(SenderStep) /\ WF_signalVars(al)
-----------------------------------------------------------------------------
(* Types of both processes' variables. *)
SignalTypeOK ==
  /\ buff_m \in Byte /\ count_m \in Nat /\ sig_m \in Int /\ ex_m \in {0, 1}
  /\ ppending \subseteq {"SIGUSR1", "SIGUSR2", "SIGCHLD"} /\ cpending \subseteq {"SIGUSR1"}
  /\ written \in Seq(Byte) /\ pos \in 0..Len(File) /\ bit \in 0..Bits
  /\ res_send \in {-1, 0}

IsPrefixOf(s, t) == Len(s) <= Len(t) /\ \A j \in 1..Len(s) : s[j] = t[j]

(* What the parent has written is the beginning of the file: where the answers
   are prompt a lost wakeup can cost the rest of the file, never a wrong bit. *)
OutputIsPrefix == IsPrefixOf(written, File)

(* The types, and an output that is right as far as it goes. *)
SignalInv == SignalTypeOK /\ OutputIsPrefix

(* Pending signals do not count, so a bit may only be sent when the one before
   has been delivered; alarm must not make the child run ahead. *)
SentAlone ==
  [][ParentLives /\ cpc = "kill" /\ cpc' = "pause" =>
       ppending \intersect {"SIGUSR1", "SIGUSR2"} = {}]_signalVars

(* The child ends whatever happens to its parent or to an answer: alarm gets it
   written of sigsuspend. *)
ChildEnds == <>~ChildLives

(* The parent ends too, except that a SIGCHLD handled between kill and
   sigsuspend is never waited for again: the only way it hangs. *)
ParentEndsOrMissesChild ==
  <>~ParentLives \/ <>[](ppc \in {"paused0", "paused"} /\ ex_m = 1)

-----------------------------------------------------------------------------
(* The claim of README.md of Linux/signal, "This program copies file by bit". *)

(* A parent that ends, its child having ended by itself, has written the file. *)
CopiesFile == ppc = "exited" /\ cpc = "exited" /\ deaths = 0 => written = File
=============================================================================
