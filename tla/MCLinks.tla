------------------------------- MODULE MCLinks -------------------------------
(* The serial links of tku/, one of them at a time.  They share only the       *)
(* abstract Link that each is compared with.                                   *)
EXTENDS Uart, Spi, Arinc429, Mil1553

VARIABLE link

vars == <<link, uartVars, spiVars, arincVars, milVars>>

MCByte == {<<1, 0, 1, 0, 1, 0, 1, 0>>, <<1, 1, 1, 1, 0, 0, 0, 1>>}
MCSpiWord == {<<1, 0, 0, 0>>, <<0, 1, 1, 1>>, <<1, 1, 0, 1>>}
MCMilWord == {<<1, 1, 0, 1, 0>>, <<0, 0, 1, 1, 1>>}

(* The links that are not looked at stay in one of their initial states. *)
Init ==
  /\ link \in {"uart", "spi", "arinc", "mil"}
  /\ UartInit /\ SpiInit /\ ArincInit /\ MilInit
  /\ link # "spi" => up = <<1, 0, 0, 0>>

UartSteps == link = "uart" /\ UNCHANGED <<link, spiVars, arincVars, milVars>>
SpiSteps == link = "spi" /\ UNCHANGED <<link, uartVars, arincVars, milVars>>
ArincSteps == link = "arinc" /\ UNCHANGED <<link, uartVars, spiVars, milVars>>
MilSteps == link = "mil" /\ UNCHANGED <<link, uartVars, spiVars, arincVars>>

Next ==
  \/ UartSteps /\ UartNext
  \/ SpiSteps /\ SpiEdge
  \/ ArincSteps /\ ArincEdge
  \/ MilSteps /\ MilEdge

LinksSpec ==
  /\ Init /\ [][Next]_vars
  /\ WF_vars(UartSteps /\ Edge)
  /\ WF_vars(SpiSteps /\ SpiEdge)
  /\ WF_vars(ArincSteps /\ ArincEdge)
  /\ WF_vars(MilSteps /\ MilEdge)
=============================================================================
