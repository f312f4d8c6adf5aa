----------------------------- MODULE CoreState ------------------------------
(***************************************************************************)
(* CoreMark's state machine benchmark, core_state.c.  It classifies the    *)
(* comma separated tokens of a string, corrupts the string, classifies it  *)
(* again and undoes the corruption.  A step is one call of                 *)
(* core_state_transition, or one of the two loops that change the string.  *)
(***************************************************************************)
EXTENDS Crc, Sequences, FiniteSets

VARIABLES
  state_mem,  (* memblock[3], a byte for each index from 0                 *)
  scan        (* the locals of core_bench_state, and of its last token     *)

(* Characters, as their codes.                                             *)
COMMA == 44
POINT == 46
Digits == 48 .. 57
Signs == {43, 45}
Exponents == {69, 101}

Class(c) == IF c \in Digits THEN "digit" ELSE IF c \in Signs THEN "sign"
            ELSE IF c = POINT THEN "point"
            ELSE IF c \in Exponents THEN "exponent" ELSE "other"

(* The machine: where a class leads to.  Every other class is invalid.     *)
MutNextState ==
  [START      |-> [digit |-> "INT", sign |-> "S1", point |-> "FLOAT"],
   S1         |-> [digit |-> "INT", point |-> "FLOAT"],
   INT        |-> [digit |-> "INT", point |-> "FLOAT"],
   FLOAT      |-> [digit |-> "FLOAT", exponent |-> "S2"],
   S2         |-> [sign |-> "EXPONENT", digit |-> "SCIENTIFIC"],
   EXPONENT   |-> [digit |-> "SCIENTIFIC"],
   SCIENTIFIC |-> [digit |-> "SCIENTIFIC"]]
NextState ==
  [START      |-> [digit |-> "INT", sign |-> "S1", point |-> "FLOAT"],
   S1         |-> [digit |-> "INT", point |-> "FLOAT"],
   INT        |-> [digit |-> "INT", point |-> "FLOAT"],
   FLOAT      |-> [digit |-> "FLOAT", exponent |-> "S2"],
   S2         |-> [sign |-> "EXPONENT"],
   EXPONENT   |-> [digit |-> "SCIENTIFIC"],
   SCIENTIFIC |-> [digit |-> "SCIENTIFIC"]]

After(state, c) ==
  IF Class(c) \in DOMAIN NextState[state] THEN NextState[state][Class(c)]
                                          ELSE "INVALID"

(* enum CORE_STATE, in its order                                           *)
CoreStates ==
  <<"START", "INVALID", "S1", "S2", "INT", "FLOAT", "EXPONENT", "SCIENTIFIC">>
StateSet == {CoreStates[i] : i \in 1 .. 8}
NoCounts == [s \in StateSet |-> 0]

(* The counters a character increments.                                    *)
Counted(state, new) ==
  IF state = "START" THEN {"START"} \cup ({"INVALID"} \cap {new})
  ELSE IF state = new THEN {}
  ELSE IF state = "SCIENTIFIC" THEN {"INVALID"} ELSE {state}

-----------------------------------------------------------------------------
(* core_state_transition from position p: the state a token ends in, where *)
(* the next one begins, and the counters.  A read behind the block yields 0. *)
At(p) == IF p \in DOMAIN state_mem THEN state_mem[p] ELSE 0

core_state_transition(p, counts) ==
  LET run[left \in Nat] ==   (* the position, the state and the counters    *)
        [at \in Nat \X StateSet \X [StateSet -> Nat] |->
           LET c == At(at[1])
               state == at[2]
               new == After(state, c)
           IN  IF left = 0 \/ c \in {0, COMMA} \/ state = "INVALID"
                 THEN [state |-> state, end |-> at[1], counts |-> at[3],
                       next |-> IF c = COMMA /\ state # "INVALID"
                                  THEN at[1] + 1 ELSE at[1]]
                 ELSE run[left - 1][<<at[1] + 1, new,
                        [s \in StateSet |->
                           IF s \in Counted(state, new) THEN at[3][s] + 1
                                                        ELSE at[3][s]]>>]]
  IN  run[Cardinality(DOMAIN state_mem)][<<p, "START", counts>>]

-----------------------------------------------------------------------------
(* core_init_state: patterns picked by the seed, as long as one fits with  *)
(* its comma, and zeroes behind them.                                      *)
intpat == <<<<53, 48, 49, 50>>,
            <<49, 50, 51, 52>>,
            <<45, 56, 55, 52>>,
            <<43, 49, 50, 50>>>>
(* "5012" "1234" "-874" "+122" *)
floatpat == <<<<51, 53, 46, 53, 52, 52, 48, 48>>,
              <<46, 49, 50, 51, 52, 53, 48, 48>>,
              <<45, 49, 49, 48, 46, 55, 48, 48>>,
              <<43, 48, 46, 54, 52, 52, 48, 48>>>>
(* "35.54400" ".1234500" "-110.700" "+0.64400" *)
scipat == <<<<53, 46, 53, 48, 48, 101, 43, 51>>,
            <<45, 46, 49, 50, 51, 101, 45, 50>>,
            <<45, 56, 55, 101, 43, 56, 51, 50>>,
            <<43, 48, 46, 54, 101, 45, 49, 50>>>>
(* "5.500e+3" "-.123e-2" "-87e+832" "+0.6e-12" *)
errpat == <<<<84, 48, 46, 51, 101, 45, 49, 70>>,
            <<45, 84, 46, 84, 43, 43, 84, 113>>,
            <<49, 84, 51, 46, 52, 101, 52, 122>>,
            <<51, 52, 46, 48, 101, 45, 84, 94>>>>
(* "T0.3e-1F" "-T.T++Tq" "1T3.4e4z" "34.0e-T^" *)

Pattern(seed) ==
  LET k == ((seed \div 8) % 4) + 1
  IN  CASE seed % 8 \in 0 .. 2 -> intpat[k]
        [] seed % 8 \in 3 .. 4 -> floatpat[k]
        [] seed % 8 \in 5 .. 6 -> scipat[k]
        [] seed % 8 = 7        -> errpat[k]

core_init_state(size, seed) ==
  LET text[left \in Nat] ==   (* the characters before, and the seed       *)
        [at \in Nat \X Nat |->
           LET pattern == Pattern(at[2])
               total == at[1] + Len(pattern) + 1
           IN  IF left > 0 /\ total < size - 1
                 THEN Append(pattern, COMMA)
                        \o text[left - 1][<<total, at[2] + 1>>]
                 ELSE <<>>]
      chars == text[size][<<0, seed + 1>>]
  IN  [i \in 0 .. size - 1 |-> IF i < Len(chars) THEN chars[i + 1] ELSE 0]

-----------------------------------------------------------------------------
(* core_bench_state.                                                        *)
NoScan == [phase |-> "idle", p |-> 0, step |-> 1, crc |-> 0,
           final |-> NoCounts, track |-> NoCounts,
           token |-> [first |-> 0, end |-> 0, state |-> "START"]]

StartScan(step, crc) ==
  /\ scan.phase = "idle"
  /\ scan' = [NoScan EXCEPT !.phase = "first", !.step = step, !.crc = crc]
  /\ UNCHANGED state_mem

(* One token: the body of both while loops.                                *)
ScanToken ==
  /\ scan.phase \in {"first", "second"} /\ At(scan.p) # 0
  /\ \E t \in {core_state_transition(scan.p, scan.track)} :
       scan' = [scan EXCEPT !.p = t.next, !.track = t.counts,
                  !.final[t.state] = @ + 1,
                  !.token = [first |-> scan.p, end |-> t.end,
                             state |-> t.state]]
  /\ UNCHANGED state_mem

(* Every step-th character that is not a comma is changed.                 *)
Corrupted(seed) ==
  [i \in DOMAIN state_mem |->
     IF i % scan.step = 0 /\ state_mem[i] # COMMA
       THEN Xor8(state_mem[i], seed % 256) ELSE state_mem[i]]

EndOfString(phase, next, seed) ==
  /\ scan.phase = phase /\ At(scan.p) = 0
  /\ state_mem' = Corrupted(seed)
  /\ scan' = [scan EXCEPT !.phase = next, !.p = 0]
Corrupt(seed1) == EndOfString("first", "second", seed1)
UndoCorruption(seed2) == EndOfString("second", "done", seed2)

(* What it returns, once it is done.                                       *)
state_result ==
  Loop(8, scan.crc,
       [crc \in Nat |-> [i \in Nat |->
          crcu32[scan.track[CoreStates[i + 1]]]
                [crcu32[scan.final[CoreStates[i + 1]]][crc]]]])

-----------------------------------------------------------------------------
(* Properties.                                                              *)

(* What the string machine is to recognise, said without a machine: each   *)
(* kind of token as a set of sequences of character classes.               *)
Unsigned(w) == IF w # <<>> /\ w[1] = "sign" THEN Tail(w) ELSE w
AllDigits(w) == \A i \in 1 .. Len(w) : w[i] = "digit"
Split(w, class, Left(_), Right(_)) ==
  \E i \in 1 .. Len(w) :
    w[i] = class /\ Left(SubSeq(w, 1, i - 1)) /\ Right(SubSeq(w, i + 1, Len(w)))
IsInt(w) == Unsigned(w) # <<>> /\ AllDigits(Unsigned(w))
IsFloat(w) == Split(Unsigned(w), "point", AllDigits, AllDigits)
IsEmpty(w) == w = <<>>
IsSigned(w) == Len(w) >= 1 /\ w[1] = "sign" /\ AllDigits(Tail(w))
Kinds(w) ==
  {s \in StateSet :
     CASE s = "START" -> IsEmpty(w)
       [] s = "S1"    -> w = <<"sign">>
       [] s = "INT"   -> IsInt(w)
       [] s = "FLOAT" -> IsFloat(w)
       [] s = "S2"    -> Split(w, "exponent", IsFloat, IsEmpty)
       [] s = "EXPONENT" ->
            Split(w, "exponent", IsFloat, LAMBDA v : v = <<"sign">>)
       [] s = "SCIENTIFIC" ->
            Split(w, "exponent", IsFloat,
                  LAMBDA v : IsSigned(v) /\ Len(v) >= 2)
       [] s = "INVALID" -> FALSE}

(* A token is given the one kind its characters make up; it is invalid at  *)
(* the first character with which no kind of token could go on.            *)
Classified ==
  LET t == scan.token
      word == [i \in 1 .. t.end - t.first |-> Class(At(t.first + i - 1))]
      front == SubSeq(word, 1, Len(word) - 1)
  IN  scan.phase \in {"first", "second"} /\ scan.p # 0 =>
        IF t.state = "INVALID" THEN Kinds(word) = {} /\ Kinds(front) # {}
                               ELSE Kinds(word) = {t.state}

(* The string ends inside its block, also when the corruption has hit its  *)
(* terminating zero: the block ends with two, and the step is longer.      *)
StaysInBlock == scan.p \in DOMAIN state_mem
=============================================================================
