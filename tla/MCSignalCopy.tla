---------------------------- MODULE MCSignalCopy ----------------------------
(* The input file for TLC: two bits stand for the eight of a byte. *)
EXTENDS SignalCopy

MCFile == <<1, 2, 0>>
=============================================================================
