---------------------------- MODULE MCSharedMem ----------------------------
(* mem.c with two things going wrong: kills, failed reads, and an input or an *)
(* output that does not open.                                                *)
EXTENDS SharedMem

CONSTANT MaxFaults      \* bound on the faults below together

(* A writer without an output is a fault until somebody kills it.           *)
WithoutOutput(w) ==
  ~fd[w] /\ pc[w] \in {"take", "copy", "release", "check", "leave", "bye", "done"}
Faults ==
  crashes + errors + Cardinality({w \in Writer : WithoutOutput(w)})
    + Cardinality({r \in Reader : pc[r] = "failed"})

(* Processes of one kind differ in nothing but when they start: one of them, *)
(* always the same, is called the first to do so.  Two of them at their claim *)
(* differ from one that has made it before the other came in nothing that    *)
(* anybody sees.                                                             *)
InOrder(P) ==
  /\ (\E p \in P : pc[p] # "off") => pc[CHOOSE p \in P : TRUE] # "off"
  /\ \A p, q \in P : pc[p] = "claim" /\ pc[q] = "claim" => p = q

MCNext == Next /\ Faults' <= MaxFaults /\ InOrder(Reader)' /\ InOrder(Writer)'

MCSpec ==
  /\ Init /\ [][MCNext]_vars
  /\ \A r \in Reader : WF_vars(ReaderStep(r))
  /\ \A w \in Writer : WF_vars(WriterStep(w))
=============================================================================
