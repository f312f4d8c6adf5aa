----------------------------- MODULE MCCoreMark -----------------------------
(* Instances of CoreMark for TLC.                                           *)
EXTENDS CoreMark

Input(s1, s2, s3, total, n, c) ==
  [seed1 |-> s1, seed2 |-> s2, seed3 |-> s3, total |-> total,
   iterations |-> n, cost |-> c]

(* The 2K performance run, the 2K validation run and the profile run.      *)
Real == {Input(0, 0, 0, 2000, 1, 2000), Input(1, 0, 0, 2000, 1, 1000),
         Input(8, 8, 8, 1200, 2, 1000)}

(* Three list items in a block of 120 bytes, eight in one of 220, with     *)
(* every sixteenth of the seeds and every kind of pattern among them.      *)
Small == {Input(s, s, n, 660, 2, 1000) : s \in {0, 3, 5, 8, 48, 103}, n \in {0, 5}}
         \cup {Input(s, s, 1, 660, 1, 1000) : s \in 9 .. 24}
         \cup {Input(s, s, 2, 360, 1, 1000) : s \in 0 .. 7}

(* main chooses: in the second round, in the first one, after 10 seconds,  *)
(* and where it takes longest (34 and 192 million ticks for an iteration). *)
Timing == {Input(5, 5, 1, 360, 0, c) : c \in {17, 34, 192, 250}}

Passing == Real \cup Small \cup Timing

(* These are inputs that main can time, whose changes can be undone, and   *)
(* whose matrices have room.                                                *)
ASSUME InputsAssumption ==
  ShortRuns /\ \A c \in Configs : CanUndo(c) /\ HeadFirst(c) /\ Distinct(c) /\ Roomy(c)
=============================================================================
