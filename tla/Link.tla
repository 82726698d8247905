-------------------------------- MODULE Link --------------------------------
(* What a serial link of the labs in tku/ promises: a word that the sender   *)
(* has taken from its inputs appears at the receiver's outputs, and no other *)
(* word ever does.  A link has room for one word.                            *)
CONSTANTS Word, None      \* None is not a word

VARIABLES sent,    \* the word on its way, or None
          last     \* the outputs of the receiver

linkVars == <<sent, last>>

LinkInit == sent = None

Send == sent = None /\ sent' \in Word /\ UNCHANGED last

Deliver == sent # None /\ last' = sent /\ sent' = None

LinkSpec == LinkInit /\ [][Send \/ Deliver]_linkVars
LinkFairSpec == LinkSpec /\ WF_linkVars(Deliver)
=============================================================================
