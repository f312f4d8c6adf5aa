----------------------------- MODULE InstrQueue -----------------------------
(***************************************************************************)
(* rtl/cpu_top/instr_queue.sv: the circular buffer that the dual-issue     *)
(* front end puts between IF (up to two pushes a cycle) and ID (up to two  *)
(* pops a cycle).  One step is one rising clock edge.  The wires that the  *)
(* source computes combinationally are operators of the same name; the     *)
(* pushed payload (instruction, pc, prediction, exception code) is one     *)
(* opaque item.                                                            *)
(*                                                                         *)
(* The source's count is three bits wide.  The arithmetic here is on       *)
(* integers: TypeOK (0 <= count <= DEPTH <= 7) is what shows that no       *)
(* wrap-around can occur.                                                  *)
(***************************************************************************)
EXTENDS Integers, Sequences

CONSTANTS
  DEPTH,    (* number of slots, 4 in the source                            *)
  Items,    (* payloads that IF can push                                   *)
  ZeroItem, (* the all-zero payload of a slot after reset                  *)
  NoPush    (* "push_valid is low" for one of the two push ports           *)

(* A pointer needs at least one bit and count has three.                   *)
ASSUME DepthAssumption == DEPTH \in 2 .. 7
ASSUME NoPushAssumption == NoPush \notin Items

VARIABLES
  entries,  (* slot -> [valid, item]                                       *)
  head,     (* slot of the oldest item                                     *)
  tail,     (* slot the next push goes to                                  *)
  count     (* number of buffered items                                    *)

vars == <<entries, head, tail, count>>

Slots == 0 .. DEPTH - 1
Ports == Items \cup {NoPush}

-----------------------------------------------------------------------------
(* Wires.                                                                   *)

push_free == IF count < DEPTH THEN (IF count < DEPTH - 1 THEN 2 ELSE 1) ELSE 0

next_ptr(p) == IF p = DEPTH - 1 THEN 0 ELSE p + 1

head_plus1 == next_ptr(head)

pop_valid0 == entries[head].valid
pop_valid1 == entries[head_plus1].valid
pop_bus0 == entries[head].item
pop_bus1 == entries[head_plus1].item

Bit(b) == IF b THEN 1 ELSE 0

do_pop0(pop) == pop_valid0 /\ pop >= 1
do_pop1(pop) == pop_valid1 /\ pop = 2
cnt_after_pop(pop) == count - Bit(do_pop0(pop)) - Bit(do_pop1(pop))

do_push0(push0, pop) == push0 # NoPush /\ cnt_after_pop(pop) < DEPTH
cnt_after_push0(push0, pop) == cnt_after_pop(pop) + Bit(do_push0(push0, pop))

MutDoPush1(push0, push1, pop) ==
  push1 # NoPush /\ cnt_after_pop(pop) < DEPTH
do_push1(push0, push1, pop) ==
  push1 # NoPush /\ cnt_after_push0(push0, pop) < DEPTH

(* Where the second push goes: behind the first one if that one is taken.  *)
MutTail1(push0, pop) == tail
tail1(push0, pop) == IF do_push0(push0, pop) THEN next_ptr(tail) ELSE tail

head_next(pop) ==
  IF do_pop1(pop) THEN next_ptr(next_ptr(head))
  ELSE IF do_pop0(pop) THEN next_ptr(head) ELSE head

tail_next(push0, push1, pop) ==
  IF do_push1(push0, push1, pop) THEN next_ptr(tail1(push0, pop))
  ELSE tail1(push0, pop)

count_next(push0, push1, pop) ==
  cnt_after_push0(push0, pop) + Bit(do_push1(push0, push1, pop))

Popped(s, pop) ==
  \/ do_pop0(pop) /\ s = head
  \/ do_pop1(pop) /\ s = head_plus1

(* The non-blocking assignments of one edge to slot s; the last one wins,  *)
(* so that a push into the slot popped in the same cycle leaves it valid.  *)
MutEntryNext(s, push0, push1, pop) ==
  IF Popped(s, pop) THEN [entries[s] EXCEPT !.valid = FALSE]
  ELSE IF do_push1(push0, push1, pop) /\ s = tail1(push0, pop)
         THEN [valid |-> TRUE, item |-> push1]
  ELSE IF do_push0(push0, pop) /\ s = tail
         THEN [valid |-> TRUE, item |-> push0]
  ELSE entries[s]
entry_next(s, push0, push1, pop) ==
  IF do_push1(push0, push1, pop) /\ s = tail1(push0, pop)
    THEN [valid |-> TRUE, item |-> push1]
  ELSE IF do_push0(push0, pop) /\ s = tail
    THEN [valid |-> TRUE, item |-> push0]
  ELSE IF Popped(s, pop) THEN [entries[s] EXCEPT !.valid = FALSE]
  ELSE entries[s]

-----------------------------------------------------------------------------
Init ==
  /\ entries = [s \in Slots |-> [valid |-> FALSE, item |-> ZeroItem]]
  /\ head = 0
  /\ tail = 0
  /\ count = 0

(* Flush clears the valid bits and the pointers, not the payloads.         *)
Flush ==
  /\ entries' = [s \in Slots |-> [entries[s] EXCEPT !.valid = FALSE]]
  /\ head' = 0
  /\ tail' = 0
  /\ count' = 0

Clock(push0, push1, pop) ==
  /\ entries' = [s \in Slots |-> entry_next(s, push0, push1, pop)]
  /\ head' = head_next(pop)
  /\ tail' = tail_next(push0, push1, pop)
  /\ count' = count_next(push0, push1, pop)

Next ==
  \/ Flush
  \/ \E push0, push1 \in Ports, pop \in 0 .. 2 : Clock(push0, push1, pop)

Spec == Init /\ [][Next]_vars

-----------------------------------------------------------------------------
(* Every register holds a value of its width; count never leaves 0..DEPTH, *)
(* so the three-bit subtraction and addition of the source never wrap.     *)
TypeOK ==
  /\ entries \in [Slots -> [valid : BOOLEAN, item : Items \cup {ZeroItem}]]
  /\ head \in Slots
  /\ tail \in Slots
  /\ count \in 0 .. DEPTH

(* The slot i places behind slot h, for i up to DEPTH.                      *)
At(h, i) == IF h + i < DEPTH THEN h + i ELSE h + i - DEPTH

(* The three redundant descriptions of the contents agree: the valid slots *)
(* are exactly the count slots that start at head, and tail is the slot    *)
(* behind them.  Pops are gated by valid bits, pushes by count, and the    *)
(* write slot is tail: any disagreement loses or repeats an instruction.   *)
RingInv ==
  /\ tail = At(head, count)
  /\ \A i \in 0 .. DEPTH - 1 :
       /\ entries[At(head, i)].valid <=> i < count
       /\ i < count => entries[At(head, i)].item \in Items

(* The buffered items, oldest first.                                       *)
Contents == [i \in 1 .. count |-> entries[At(head, i - 1)].item]

F == INSTANCE Fifo WITH q <- Contents, Capacity <- DEPTH

(* The queue delivers exactly what was accepted, in order, whatever the    *)
(* mix of single and double pushes and pops, also when a full queue pops   *)
(* and pushes in one cycle (instr_queue.sv:81-143).                        *)
ImplementsFifo == F!Spec
=============================================================================
