------------------------------- MODULE MCUart -------------------------------
(* Instances of UartPrograms for TLC.                                       *)
EXTENDS UartPrograms

(* Buffers of two: the printed text and the bursts are longer than them,   *)
(* the longest burst than all that can hold a character.                   *)
Texts == [tx |-> {<<1, 2>>, <<1, 2, 3>>},
          rx |-> {<<1, 2, 3, 1, 2>>, <<1, 2, 3, 1, 2, 3>>},
          poll |-> {<<1, NL, 2, 3, NL>>}]
Codes == {0, 1, 2, 3, NL, CR}
=============================================================================
