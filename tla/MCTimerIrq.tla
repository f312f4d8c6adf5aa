----------------------------- MODULE MCTimerIrq -----------------------------
(* An instance of TimerIrq for TLC.                                         *)
EXTENDS TimerIrq
=============================================================================
