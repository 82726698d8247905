------------------------------ MODULE MCMil1553 ------------------------------
(* Words of the full length for the model of MIL-STD-1553: 16#def0 and        *)
(* 16#2233.                                                                   *)
EXTENDS Mil1553

MilSample == {<<1, 1, 0, 1, 1, 1, 1, 0, 1, 1, 1, 1, 0, 0, 0, 0>>,
              <<0, 0, 1, 0, 0, 0, 1, 0, 0, 0, 1, 1, 0, 0, 1, 1>>}
=============================================================================
