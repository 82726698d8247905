------------------------------- MODULE MCLinux -------------------------------
(* The programs of Linux/ that copy a file from one process to another, one of *)
(* them at a time; shared_mem and message have runs of their own.              *)
EXTENDS SignalCopy, ProxyServer, SmartFifo, SimpleFifo

VARIABLE program

allVars == <<program, signalVars, proxyVars, smartVars, simpleVars>>

MCFile == <<1, 2, 0>>            \* two bits stand for the eight of a byte
MCSource == <<1, 2, 3, 4>>

MCInit ==
  /\ program \in {"signal", "proxy", "smart", "simple"}
  /\ SignalInit /\ ProxyInit /\ SmartInit /\ SimpleInit

SignalSteps == program = "signal" /\ UNCHANGED <<program, proxyVars, smartVars, simpleVars>>
ProxySteps == program = "proxy" /\ UNCHANGED <<program, signalVars, smartVars, simpleVars>>
SmartSteps == program = "smart" /\ UNCHANGED <<program, signalVars, proxyVars, simpleVars>>
SimpleSteps == program = "simple" /\ UNCHANGED <<program, signalVars, proxyVars, smartVars>>

(* Only serv.c always comes to its end: a process of the others may be left
   without a partner. *)
Stops == program # "proxy" /\ UNCHANGED allVars

MCNext ==
  \/ SignalSteps /\ SignalNext
  \/ ProxySteps /\ ProxyNext
  \/ SmartSteps /\ SmartNext
  \/ SimpleSteps /\ SimpleNext
  \/ Stops

(* The fairness of each program. *)
MCSpec ==
  /\ MCInit /\ [][MCNext]_allVars
  /\ WF_allVars(SignalSteps /\ CopierStep)
  /\ WF_allVars(SignalSteps /\ SenderStep)
  /\ WF_allVars(SignalSteps /\ al)
  /\ WF_allVars(ProxySteps /\ ParentStep)
  /\ WF_allVars(ProxySteps /\ ChildReadFile)
  /\ WF_allVars(ProxySteps /\ ChildWriteFile)
  /\ \A c \in Child : WF_allVars(ProxySteps /\ ChildStep(c))
  /\ \A w \in Writer : WF_allVars(SmartSteps /\ WriterStep(w))
  /\ \A r \in Reader : WF_allVars(SmartSteps /\ ReaderStep(r))
  /\ \A p \in Party : WF_allVars(SimpleSteps /\ Proceeds(p))

(* What the programs come to, each if it is the one that runs.  signal.c: both
   processes end, but for the parent's missed SIGCHLD. *)
SignalEnds == program = "signal" => ChildEnds /\ ParentEndsOrMissesChild

(* serv.c: everybody returns and, nobody being lost, the file is copied. *)
ProxyEnds == program = "proxy" => FileCopied
=============================================================================
