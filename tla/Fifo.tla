-------------------------------- MODULE Fifo --------------------------------
(***************************************************************************)
(* What a buffer between two pipeline stages promises, said without        *)
(* pointers or valid bits: a bounded sequence of items.  One clock edge    *)
(* removes up to two of the oldest items and then appends, in the order    *)
(* they were offered, as many of the offered items as fit.  A flush        *)
(* empties the buffer and whatever was offered in that cycle is dropped.   *)
(* What is offered is no part of the state: an item that was not taken in  *)
(* looks like one that was not offered.                                    *)
(* InstrQueue is shown to implement this specification, and the serial     *)
(* port's two buffers are (UartProofs).                                    *)
(***************************************************************************)
EXTENDS Naturals, Sequences

CONSTANTS
  Items,     (* what can be buffered                                      *)
  Capacity   (* how many items fit                                        *)

VARIABLE q   (* the buffered items, oldest first                           *)

Least(a, b) == IF a < b THEN a ELSE b

(* At most two items are offered in a cycle.                               *)
Offers == {<<>>} \cup {<<a>> : a \in Items} \cup {<<a, b>> : a, b \in Items}

Rest(pop) == SubSeq(q, Least(pop, Len(q)) + 1, Len(q))

Accepted(pop, offer) ==
  SubSeq(offer, 1, Least(Len(offer), Capacity - Len(Rest(pop))))

Init == q = <<>>

Flush == q' = <<>>

Exchange(pop, offer) == q' = Rest(pop) \o Accepted(pop, offer)

Next ==
  \/ Flush
  \/ \E pop \in 0 .. 2, offer \in Offers : Exchange(pop, offer)

Spec == Init /\ [][Next]_q
=============================================================================
