----------------------------- MODULE MCDrivers -----------------------------
(* The two drivers for TLC.  They share nothing: a behaviour is one of the
   logger, with the threads of kLogger/test.c, or one of the mouse filter. *)
EXTENDS KLog, MouseFilter, TLC

CONSTANTS high, low
VARIABLE driver

MCWriter == {high, low}
MCCallLevel == high :> 2 @@ low :> PASSIVE

MCSource == <<[absolute |-> FALSE, y |-> 1], [absolute |-> TRUE, y |-> 0],
              [absolute |-> TRUE, y |-> 2]>>

MCInit == driver \in {"kLogger", "mouse"} /\ Init /\ MouseInit

MCNext ==
  /\ UNCHANGED driver
  /\ \/ driver = "kLogger" /\ Next /\ UNCHANGED mouseVars
     \/ driver = "mouse" /\ MouseNext /\ UNCHANGED vars

MCSpec == MCInit /\ [][MCNext]_<<driver, vars, mouseVars>>
=============================================================================
