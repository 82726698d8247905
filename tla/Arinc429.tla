------------------------------ MODULE Arinc429 ------------------------------
(***************************************************************************)
(* tku/ARINC_429: the transmitter AR_TXD and the receiver AR_RXD of a word *)
(* made of an address, highest bit first, data, lowest bit first, and a    *)
(* bit that makes the number of ones odd.  There are two wires: a pulse on *)
(* one of them is a 1, on the other one a 0.  Both sides have one clock.   *)
(* In the receiver glitch is the same as not sig (each x # a or x # b in   *)
(* it is always true), so that its mode, err and clock counter never reach *)
(* what it gives out and are left out.                                     *)
(***************************************************************************)
EXTENDS Integers, Sequences, FiniteSets

CONSTANTS
  AdrBits, DatBits,    \* 8 and 23
  AR_Nt                \* clocks of half a bit: 25 to 2000, by Nvel

ASSUME ArincAssumption == {AdrBits, DatBits, AR_Nt} \subseteq Nat \ {0}

VARIABLES
  txd,      \* cb_tce, QM, cb_bit, en_tx_word, en_tx, FT_cp, sr_adr, sr_dat
  rxd,      \* data, cb, new_bit
  st,       \* the button
  word      \* history: ADR and DAT at the start, or <<>>

arincVars == <<txd, rxd, st, word>>

AllBits == AdrBits + DatBits + 1
Bits(k) == [1..k -> {0, 1}]
AllZero(k) == [j \in 1..k |-> 0]

(* new_bit is 0 when the power comes on: the first clock counts a bit. *)
ArincInit ==
  /\ txd = [tce |-> 0, QM |-> FALSE, bit |-> 0, enWord |-> FALSE, en |-> FALSE,
            FT |-> FALSE, adr |-> AllZero(AdrBits), dat |-> AllZero(DatBits)]
  /\ rxd = [data |-> AllZero(AllBits), cb |-> 0, new |-> 0]
  /\ st = FALSE /\ word = <<>>

-----------------------------------------------------------------------------
ArTact == txd.tce = AR_Nt
ArCe   == ArTact /\ txd.QM
T_cp   == txd.bit = AllBits - 1
CeEndWord == txd.bit = AllBits + 3 /\ ArCe
SDAT   == txd.adr[1] = 1 \/ (T_cp /\ txd.FT)
TXD1   == txd.en /\ txd.QM /\ SDAT
TXD0   == txd.en /\ txd.QM /\ ~SDAT

(* Mutant: the sum of the ones is not kept after the address. *)
ParityShort == txd.adr[1] = 1 /\ txd.bit < AdrBits
ParityFlips == txd.adr[1] = 1 /\ txd.en /\ ~T_cp

Transmit(adr, dat) ==
  LET start == st /\ ~txd.enWord IN
  txd' =
    IF start
    THEN [tce |-> 1, QM |-> FALSE, bit |-> 0, enWord |-> TRUE, en |-> TRUE, FT |-> TRUE,
          adr |-> adr, dat |-> dat]
    ELSE [tce |-> IF ArTact THEN 1 ELSE txd.tce + 1,
          QM  |-> IF txd.en /\ ArTact THEN ~txd.QM ELSE txd.QM,
          bit |-> IF txd.enWord /\ ArCe THEN txd.bit + 1 ELSE txd.bit,
          enWord |-> txd.enWord /\ ~CeEndWord,
          en  |-> txd.en /\ ~(T_cp /\ ArCe),
          FT  |-> (T_cp /\ ArCe) \/ (txd.FT # (ParityFlips /\ ArCe)),
          adr |-> IF ArCe /\ txd.en THEN Append(Tail(txd.adr), txd.dat[1]) ELSE txd.adr,
          dat |-> IF ArCe /\ txd.en THEN Append(Tail(txd.dat), 0) ELSE txd.dat]

(* A bit counts when its pulse is over. *)
Receive ==
  LET over == ~TXD1 /\ ~TXD0 /\ rxd.new # 2 IN
  rxd' = [data |-> IF over THEN Append(Tail(rxd.data), rxd.new) ELSE rxd.data,
          cb   |-> IF over /\ rxd.cb # AllBits THEN rxd.cb + 1 ELSE rxd.cb,
          new  |-> IF TXD1 THEN 1 ELSE IF TXD0 THEN 0 ELSE 2]

(* One edge of the clock.  External: somebody presses and releases the button. *)
ArincEdge ==
  \E adr \in Bits(AdrBits), dat \in Bits(DatBits) :
    LET start == st /\ ~txd.enWord IN
    /\ Transmit(adr, dat) /\ Receive
    /\ st' \in BOOLEAN
    /\ word' = IF start THEN adr \o dat ELSE word
    /\ ~start => adr = AllZero(AdrBits) /\ dat = AllZero(DatBits)

ArincFairSpec == ArincInit /\ [][ArincEdge]_arincVars /\ WF_arincVars(ArincEdge)
-----------------------------------------------------------------------------
Ones(s) == Cardinality({k \in DOMAIN s : s[k] = 1})

(* ce_wr: the word is complete and its parity right. *)
ce_wr == rxd.cb = AllBits /\ Ones(rxd.data) % 2 = 1

(* sr_adr and sr_dat together, as they were given to the transmitter. *)
Received == SubSeq(rxd.data, 1, AllBits - 1)

WordReceived == word # <<>> /\ Received = word

(* The word but for its last bit, behind a bit that nobody sent. *)
OneBitEarly == word # <<>> /\ Received = <<0>> \o SubSeq(word, 1, AllBits - 2)

(* The word that is given when the button is pressed arrives and stays, with
   ce_wr.  Before that ce_wr may be up with one wrong word and no other: the bit
   counted at power-up makes AllBits of them one bit early, with the register
   shifted by one bit, and the parity may be right by chance. *)
WordArrives ==
  /\ word # <<>> ~> [](ce_wr /\ WordReceived)
  /\ [](ce_wr => WordReceived \/ OneBitEarly)

(* What AR_RXD.v:27 says of ce_wr, "receive completed correctly": the outputs
   then hold the word that was sent. *)
ReceiveCompletedCorrectly == ce_wr => WordReceived

(* "The interval of the transmission with a pause" of en_tx_word
   (AR_TXD.v:69): it comes to an end, and another word may be sent. *)
WordEnds == txd.enWord ~> ~txd.enWord
=============================================================================
