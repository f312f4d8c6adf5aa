------------------------------- MODULE MCPlic -------------------------------
(* An instance of Plic for TLC.                                             *)
EXTENDS Plic
=============================================================================
