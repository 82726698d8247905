------------------------------- MODULE Mil1553 -------------------------------
(***************************************************************************)
(* tku/MIL-STD-1553: the transmitter MIL_TXD, the receiver MIL_RXD and the *)
(* buffer BUF_RX_DAT behind it, on one clock.  A word is a sync pattern of *)
(* three bits' length, high then low before a command word and low then    *)
(* high before a data word, the bits from the highest down and a parity    *)
(* bit, in Manchester code: each bit has an edge in its middle.  The       *)
(* receiver compares the line with itself three half bits ago to see the   *)
(* pattern, and then takes a bit at each edge near where it expects one.   *)
(* External: txen rises when the transmitter is idle and falls during a    *)
(* word (Gen_txen_DAT holds it for 2201 clocks), dat may change at any     *)
(* time.                                                                   *)
(***************************************************************************)
EXTENDS Integers, Sequences

CONSTANTS
  MilBits,      \* bits of a word: 16
  HalfBit,      \* clocks of half a bit: 25
  MilWord       \* the words that are sent

ASSUME MilAssumption ==
  /\ MilBits \in Nat \ {0} /\ HalfBit \in Nat \ {0}
  /\ MilWord \subseteq [1..MilBits -> {0, 1}]

(* The receiver's constants, in the code for half a bit of 25 clocks. *)
Delay  == 3 * HalfBit            \* of bufN and bufP: 75
ref_SY == 3 * HalfBit - 5        \* 70
set_M  == HalfBit                \* 25
refL   == HalfBit - 4            \* 21
refH   == HalfBit + 3            \* 28

VARIABLES
  mtx,          \* cb_ce, QM, bf_SY1, bf_SY2, CW_DW, ttxen, en_tx, cb_bit, T_dat, sr_dat, FT_cp
  mrx,          \* cbTact, cbBit, cb_SY_CW, cb_SY_DW, _cw_dw, data, tDat, FP, OK
  line,         \* bufP and bufN: what the two wires were in the last Delay clocks, newest
                \* first, as a sequence of values and for how many clocks each held
  txen,
  DAT_CW, DAT_DW,
  transit       \* history: the word on its way and whether it is a command, or <<>>

milVars == <<mtx, mrx, line, txen, DAT_CW, DAT_DW, transit>>

NoWord == [k \in 1..MilBits |-> 0]

MilInit ==
  /\ mtx = [ce |-> 0, QM |-> FALSE, SY1 |-> FALSE, SY2 |-> FALSE, CW |-> FALSE,
            ttxen |-> FALSE, en |-> FALSE, bit |-> 0, Tdat |-> FALSE, sr |-> NoWord,
            FT |-> FALSE]
  /\ mrx = [tact |-> 0, bit |-> 0, cw |-> 0, dw |-> 0, CW |-> FALSE, data |-> NoWord,
            Tdat |-> FALSE, FP |-> FALSE, OK |-> FALSE]
  /\ line = <<[wires |-> <<FALSE, FALSE>>, clocks |-> Delay]>>
  /\ txen = FALSE
  /\ DAT_CW = NoWord /\ DAT_DW = NoWord
  /\ transit = <<>>

-----------------------------------------------------------------------------
HalfEnds == mtx.ce = HalfBit               \* ce
BitEnds  == HalfEnds /\ mtx.QM             \* ce_tact
MilStart == mtx.ttxen /\ ~mtx.en
At(k)    == mtx.bit = k /\ mtx.en          \* st1, st2, st18, T_end
T_end    == At(MilBits + 3)

(* The two wires, in turn for each part of a word; at the last clock of a bit
   or of half a bit the code turns them over once more. *)
High(first) ==
  mtx.en /\ \/ (mtx.CW = first) /\ mtx.SY1
            \/ (mtx.CW # first) /\ mtx.SY2
            \/ mtx.Tdat /\ ((mtx.sr[1] = 1) # (mtx.QM = first))
            \/ T_end /\ (mtx.FT # (mtx.QM = first))
TXP == High(TRUE) # ((mtx.Tdat \/ T_end) /\ BitEnds)
TXN == High(FALSE) # ((mtx.Tdat \/ T_end) /\ HalfEnds)

(* Mutant: the parity is not started anew with each word. *)
ParityRuns == IF At(2) THEN mtx.FT ELSE mtx.FT # (mtx.Tdat /\ mtx.sr[1] = 1)
ParityNext == At(2) \/ (mtx.FT # (mtx.Tdat /\ mtx.sr[1] = 1))

MilTransmit(dat) ==
  mtx' =
    [ce  |-> IF HalfEnds THEN 1 ELSE mtx.ce + 1,
     QM  |-> mtx.QM # (HalfEnds \/ MilStart),
     SY1 |-> IF ~HalfEnds THEN mtx.SY1
             ELSE ~(At(1) /\ ~mtx.QM) /\ ((T_end /\ mtx.QM) \/ (txen /\ ~mtx.en) \/ mtx.SY1),
     SY2 |-> IF ~HalfEnds THEN mtx.SY2
             ELSE (At(1) /\ ~mtx.QM) \/ (~(At(2) /\ mtx.QM) /\ mtx.SY2),
     CW    |-> IF BitEnds THEN MilStart \/ (~T_end /\ mtx.CW) ELSE mtx.CW,
     ttxen |-> IF BitEnds THEN txen ELSE mtx.ttxen,
     en    |-> IF BitEnds THEN mtx.ttxen \/ (~(~txen /\ T_end) /\ mtx.en) ELSE mtx.en,
     bit   |-> IF ~BitEnds THEN mtx.bit ELSE IF ~mtx.en \/ T_end THEN 0 ELSE mtx.bit + 1,
     Tdat  |-> IF BitEnds THEN At(2) \/ (~At(MilBits + 2) /\ mtx.Tdat) ELSE mtx.Tdat,
     sr    |-> IF ~BitEnds THEN mtx.sr
               ELSE IF At(2) THEN dat
               ELSE IF mtx.Tdat THEN Append(Tail(mtx.sr), 0) ELSE mtx.sr,
     FT    |-> IF BitEnds THEN ParityNext ELSE mtx.FT]

-----------------------------------------------------------------------------
ok_SY_CW == mrx.cw >= ref_SY
ok_SY_DW == mrx.dw >= ref_SY
ok_SY    == ok_SY_CW \/ ok_SY_DW
dRXP     == line[1].clocks = 1 /\ line[1].wires[1] # line[2].wires[1]

(* Mutant: an edge counts wherever it is. *)
AnyEdge  == dRXP
ce_bit   == dRXP /\ mrx.tact \in refL..refH
RxBitEnds == mrx.tact = 2 * HalfBit - 1
RxEnd    == mrx.bit = MilBits

(* The wires Delay clocks ago, and the line one clock later. *)
Delayed == line[Len(line)]

Shifted(P, N) ==
  LET in == IF line[1].wires = <<P, N>> THEN [line EXCEPT ![1].clocks = @ + 1]
            ELSE <<[wires |-> <<P, N>>, clocks |-> 1]>> \o line
      k == Len(in)
  IN IF in[k].clocks = 1 THEN SubSeq(in, 1, k - 1) ELSE [in EXCEPT ![k].clocks = @ - 1]

MilReceive(P, N) ==
  /\ line' = Shifted(P, N)
  /\ mrx' =
      [cw   |-> IF N /\ Delayed.wires[1] THEN mrx.cw + 1 ELSE 0,
       dw   |-> IF P /\ Delayed.wires[2] THEN mrx.dw + 1 ELSE 0,
       CW   |-> ~mrx.OK /\ (ok_SY_CW \/ (~ok_SY_DW /\ mrx.CW)),
       Tdat |-> ok_SY \/ (~RxEnd /\ mrx.Tdat),
       tact |-> IF ce_bit THEN set_M ELSE IF RxBitEnds \/ ok_SY THEN 0 ELSE mrx.tact + 1,
       bit  |-> IF ok_SY THEN 0 ELSE IF RxBitEnds THEN mrx.bit + 1
                ELSE IF mrx.bit = MilBits + 1 THEN 0 ELSE mrx.bit,
       data |-> IF ok_SY THEN NoWord
                ELSE IF ce_bit /\ mrx.Tdat
                THEN Append(Tail(mrx.data), IF N THEN 1 ELSE 0) ELSE mrx.data,
       FP   |-> ~ok_SY /\ (mrx.FP # (ce_bit /\ mrx.Tdat /\ N)),
       OK   |-> ~ok_SY /\ ~mrx.OK /\ RxEnd /\ ce_bit /\ (mrx.FP = P)]
  /\ DAT_CW' = IF mrx.OK /\ mrx.CW THEN mrx.data ELSE DAT_CW
  /\ DAT_DW' = IF mrx.OK /\ ~mrx.CW THEN mrx.data ELSE DAT_DW

-----------------------------------------------------------------------------
(* One edge of the clock. *)
MilSamples == BitEnds /\ At(2)

MilEdge ==
  \E dat \in IF MilSamples THEN MilWord ELSE {NoWord} :
    /\ MilTransmit(dat) /\ MilReceive(TXP, TXN)
    /\ transit' = IF MilSamples THEN [cw |-> mtx.CW, dat |-> dat]
                  ELSE IF mrx.OK THEN <<>> ELSE transit
    /\ txen' \in IF txen THEN {TRUE, ~mtx.en}
                 ELSE {FALSE, ~mtx.en /\ ~mtx.ttxen /\ transit = <<>>}

MilFairSpec == MilInit /\ [][MilEdge]_milVars /\ WF_milVars(MilEdge)
-----------------------------------------------------------------------------
(* Every command word and every data word reaches its own register unchanged,
   one after the other without a pause as well, and no other word gets there;
   only that the data register may take once more the word received last. *)
Carried(cw) == IF transit # <<>> /\ transit.cw = cw THEN transit.dat ELSE <<>>

Commands == INSTANCE Link WITH Word <- MilWord, None <- <<>>, sent <- Carried(TRUE),
                               last <- DAT_CW

MilWordsArrive ==
  /\ Commands!LinkFairSpec
  /\ transit # <<>> ~> transit = <<>>
  /\ [][/\ Carried(FALSE) # <<>> /\ transit' = <<>> => DAT_DW' = Carried(FALSE)
        /\ DAT_DW' # DAT_DW => DAT_DW' \in {Carried(FALSE), DAT_CW}]_milVars

(* "Confirms a right reception" (MIL_RXD.v:33, ok_rx): there is a word that has
   been received. *)
OkIsOfAWord == mrx.OK => transit # <<>>
=============================================================================
