---------------------------- MODULE MCInstrQueue ----------------------------
(* A small instance of InstrQueue for TLC: the four slots of the source and *)
(* three distinguishable instructions.                                        *)
EXTENDS InstrQueue
=============================================================================
