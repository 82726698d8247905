-------------------------------- MODULE Spi --------------------------------
(***************************************************************************)
(* tku/Lab_407ND: SPI_MASTER and SPI_SLAVE, wired together.  While LOAD is *)
(* low the master makes SpiBits pulses of SCLK; both sides read a bit at   *)
(* each rise and shift at each fall, and give out the word when LOAD       *)
(* rises.  One action is one edge of the master's clock, with the edges of *)
(* SCLK and LOAD that it causes.                                           *)
(* External: st comes while LOAD is high (Gen_st: ten transfers apart), DI *)
(* of both sides may change at any time, the button clr is not pressed.    *)
(***************************************************************************)
EXTENDS Integers, Sequences

CONSTANTS
  SpiBits,      \* m: 9
  SpiWord,      \* the words that are sent
  Half          \* Tce / Tclk: clocks of half a pulse, less one

ASSUME SpiAssumption ==
  /\ SpiBits \in Nat \ {0} /\ Half \in Nat \ {0}
  /\ SpiWord \subseteq [1..SpiBits -> {0, 1}]

VARIABLES
  master,       \* _load, cb_tact, _sclk, cbBit, srMTX, _mosi, srMRX, _Do
  slave,        \* srSRX, srSTX, _Do
  down, up      \* history: DI of the master at the last st, of the slave at the
                \* last rise of LOAD

spiVars == <<master, slave, down, up>>

Zeros == [k \in 1..SpiBits |-> 0]
Shift(s, bit) == Append(Tail(s), bit)

(* The first word of the slave: LOAD is 1 from the start on, which counts as a
   rise to some and not to others. *)
SpiInit ==
  /\ master = [load |-> TRUE, tact |-> 0, sclk |-> FALSE, bit |-> 0, srMTX |-> Zeros,
               mosi |-> 0, srMRX |-> Zeros, DO |-> Zeros]
  /\ \E w \in SpiWord :
       /\ slave = [srSRX |-> Zeros, srSTX |-> w, DO |-> Zeros]
       /\ up = w
  /\ down = Zeros

ce == master.tact = Half
ce_tact == ce /\ master.sclk

(* Mutant: one pulse less. *)
EndsEarly == ce_tact /\ master.bit = SpiBits - 2
EndsTransfer == ce_tact /\ master.bit = SpiBits - 1

MISO == slave.srSTX[1]

(* The registers of the master's clock. *)
MasterEdge(st, DI) ==
  master' = [master EXCEPT
    !.load  = ~st /\ (EndsTransfer \/ @),
    !.tact  = IF ce \/ st THEN 0 ELSE @ + 1,
    !.sclk  = ~master.load /\ (@ # ce),
    !.bit   = IF st THEN 0 ELSE IF ce_tact THEN @ + 1 ELSE @,
    !.srMTX = IF master.load THEN DI ELSE IF ce_tact THEN Shift(@, 0) ELSE @,
    !.mosi  = master.srMTX[1],
    !.srMRX = IF ~master.load /\ ce /\ ~master.sclk THEN Shift(@, MISO) ELSE @,
    !.DO    = IF EndsTransfer /\ ~st THEN master.srMRX ELSE @]

(* What the slave does at the edges of SCLK and LOAD. *)
SlaveEdges(DI) ==
  LET rise == ~master.sclk /\ master'.sclk
      fall == master.sclk /\ ~master'.sclk
      loadRises == ~master.load /\ master'.load
  IN slave' = [srSRX |-> IF rise /\ ~master'.load THEN Shift(slave.srSRX, master'.mosi)
                         ELSE slave.srSRX,
               srSTX |-> IF loadRises THEN DI
                         ELSE IF fall THEN Shift(slave.srSTX, 0) ELSE slave.srSTX,
               DO    |-> IF loadRises THEN slave.srSRX ELSE slave.DO]

(* The master sends what DI was at st, the slave what it was when LOAD rose;
   nobody looks at DI when it is not needed. *)
SpiEdge ==
  \E st \in {FALSE, master.load},
     toSlave \in IF master.load THEN SpiWord ELSE {Zeros},
     toMaster \in IF EndsTransfer THEN SpiWord ELSE {Zeros} :
    /\ MasterEdge(st, toSlave) /\ SlaveEdges(toMaster)
    /\ down' = IF st THEN toSlave ELSE down
    /\ up' = IF EndsTransfer THEN toMaster ELSE up

(* The clock runs. *)
SpiFairSpec == SpiInit /\ [][SpiEdge]_spiVars /\ WF_spiVars(SpiEdge)
-----------------------------------------------------------------------------
(* In one transfer a word goes each way, whole and in time: the master's own,
   and the one that the slave had when the transfer before it ended. *)
OnItsWay(w) == IF master.load THEN <<>> ELSE w

ToSlave == INSTANCE Link WITH Word <- SpiWord, None <- <<>>, sent <- OnItsWay(down),
                              last <- slave.DO
ToMaster == INSTANCE Link WITH Word <- SpiWord, None <- <<>>, sent <- OnItsWay(up),
                               last <- master.DO

SpiIsTwoLinks == ToSlave!LinkFairSpec /\ ToMaster!LinkFairSpec
=============================================================================
