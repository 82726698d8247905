-------------------------------- MODULE Uart --------------------------------
(***************************************************************************)
(* tku/Lab_4041B: the transmitter UTXD1B and the receiver URXD1B, each a   *)
(* set of registers that change at the edges of its clock, and the         *)
(* register FD8RE behind the receiver.  A byte is a start bit 0, the bits  *)
(* from the lowest up, and a stop bit 1, each Nt clocks long.  The two     *)
(* clocks need not be one: either may now and then miss an edge.           *)
(* External: st comes when the transmitter is idle (ce1ms is four bytes    *)
(* apart), dat may be anything at any time; the buttons are not pressed.   *)
(***************************************************************************)
EXTENDS Integers, Sequences

CONSTANTS
  UartBits,       \* bits of a byte: 8
  Nt,             \* clocks of a bit: Fclk / VEL
  Byte,           \* the bytes that are sent
  MaxSlip         \* bound: edges missed by one clock or the other in a byte

ASSUME UartAssumption ==
  /\ UartBits \in Nat \ {0} /\ Nt \in Nat \ {0} /\ MaxSlip \in Nat
  /\ Byte \subseteq [1..UartBits -> {0, 1}]

VARIABLES
  tx,      \* the transmitter's cb_tact, en_tx_byte, cb_bit, sr_dat
  rx,      \* the receiver's RXD, aRXD, cb_tact, cb_bit, en_rx_byte, ok_rx_byte, sr_dat
  RX_DAT,  \* the register FD8RE
  slips,   \* edges missed since the last start bit
  byteSent      \* history: the byte on its way, or <<>>

uartVars == <<tx, rx, RX_DAT, slips, byteSent>>

NoByte == [k \in 1..UartBits |-> 0]

UartInit ==
  /\ tx = [tact |-> 0, en |-> FALSE, bit |-> 0, sr |-> NoByte]
  /\ rx = [RXD |-> 0, aRXD |-> <<0, 0>>, tact |-> 0, bit |-> 0, en |-> FALSE,
           ok |-> FALSE, sr |-> NoByte]
  /\ RX_DAT = NoByte /\ slips = 0 /\ byteSent = <<>>

-----------------------------------------------------------------------------
(* The wires of the transmitter. *)
TxStart == tx.bit = 0 /\ tx.en
TxData  == tx.bit \in 1..UartBits
TxStop  == tx.bit = UartBits + 1 /\ tx.en
TxTact  == tx.tact = Nt
TXD     == IF TxStart THEN 0 ELSE IF TxData THEN tx.sr[1] ELSE 1

(* The byte is taken from the inputs at the end of the start bit. *)
Samples == TxStart /\ TxTact

TxEdge(st, d) ==
  LET start == st /\ ~tx.en IN
  tx' = [tact |-> IF start \/ TxTact THEN 1 ELSE tx.tact + 1,
         en   |-> st \/ (tx.en /\ ~(TxStop /\ TxTact)),
         bit  |-> IF start THEN 0 ELSE IF TxTact /\ tx.en THEN tx.bit + 1 ELSE tx.bit,
         sr   |-> IF Samples THEN d
                  ELSE IF TxData /\ TxTact THEN Append(Tail(tx.sr), 0) ELSE tx.sr]

-----------------------------------------------------------------------------
(* The wires of the receiver; the start bit is looked for while no byte is
   received, and each bit is read in its middle. *)
RxFalls == rx.aRXD[2] = 1 /\ rx.RXD = 0 /\ ~rx.en
RxTact  == rx.tact = Nt
RxEdgeBit == rx.tact = 1          \* mutant: the bit is read at its edge
RxBit   == rx.tact = Nt \div 2
RxData  == rx.bit \in 1..UartBits
RxStop  == rx.bit = UartBits + 1

RxEdge(Inp) ==
  /\ rx' = [RXD  |-> Inp,
            aRXD |-> <<Inp, rx.aRXD[1]>>,
            tact |-> IF RxFalls \/ RxTact THEN 0 ELSE rx.tact + 1,
            bit  |-> IF RxFalls \/ (RxStop /\ RxTact) THEN 0
                     ELSE IF rx.en /\ RxTact THEN rx.bit + 1 ELSE rx.bit,
            en   |-> (rx.bit = 0 /\ Inp = 0 /\ RxBit /\ rx.RXD = 0) \/ (rx.en /\ ~rx.ok),
            ok   |-> RxBit /\ RxStop /\ rx.RXD = 1 /\ rx.en,
            sr   |-> IF RxData /\ RxBit THEN Append(Tail(rx.sr), rx.RXD) ELSE rx.sr]
  /\ RX_DAT' = IF rx.ok THEN rx.sr ELSE RX_DAT

-----------------------------------------------------------------------------
(* One edge of both clocks, or of one only. *)
Idle == byteSent' = IF rx.ok THEN <<>> ELSE byteSent

Edge ==
  \E st \in {FALSE, ~tx.en}, d \in IF Samples THEN Byte ELSE {NoByte} :
    /\ TxEdge(st, d) /\ RxEdge(TXD)
    /\ IF Samples THEN byteSent' = d ELSE Idle
    /\ slips' = IF RxFalls THEN 0 ELSE slips

RxMisses ==
  /\ slips < MaxSlip /\ ~Samples
  /\ TxEdge(FALSE, NoByte)
  /\ slips' = slips + 1 /\ UNCHANGED <<rx, RX_DAT, byteSent>>

TxMisses ==
  /\ slips < MaxSlip /\ ~RxFalls
  /\ RxEdge(TXD) /\ Idle
  /\ slips' = slips + 1 /\ UNCHANGED tx

UartNext == Edge \/ RxMisses \/ TxMisses

(* The clocks run. *)
UartFairSpec == UartInit /\ [][UartNext]_uartVars /\ WF_uartVars(Edge)
-----------------------------------------------------------------------------
(* Every byte sampled is received, unchanged and in time for the next one,
   although the receiver's bits are one clock longer than the transmitter's
   (cb_tact counts from 0 there and from 1 here) and the clocks slip: it is in
   step again with each start bit. *)
UartLink == INSTANCE Link WITH Word <- Byte, None <- <<>>, sent <- byteSent, last <- RX_DAT

UartIsLink == UartLink!LinkFairSpec
=============================================================================
