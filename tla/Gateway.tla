------------------------------ MODULE Gateway -------------------------------
(* What an interrupt controller promises each source: a request waits until *)
(* it is claimed, is served until it is completed, and the source cannot    *)
(* ask again in between.  No request is lost and none is served twice.      *)
EXTENDS Naturals

CONSTANT Sources
VARIABLES waiting, serving

vars == <<waiting, serving>>

Init == waiting = {} /\ serving = {}

(* Every step may also take in new requests, of sources not being served.   *)
Raise(raised) ==
  /\ waiting' = waiting \cup raised
  /\ UNCHANGED serving

Claim(i, raised) ==
  /\ i \in waiting
  /\ waiting' = (waiting \cup raised) \ {i}
  /\ serving' = serving \cup {i}

Complete(i, raised) ==
  /\ i \in serving
  /\ serving' = serving \ {i}
  /\ waiting' = waiting \cup raised

Next ==
  \E raised \in SUBSET (Sources \ serving) :
    \/ Raise(raised)
    \/ \E i \in Sources : Claim(i, raised) \/ Complete(i, raised)

Spec == Init /\ [][Next]_vars
=============================================================================
