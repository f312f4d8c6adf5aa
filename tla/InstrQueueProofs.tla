-------------------------- MODULE InstrQueueProofs --------------------------
(***************************************************************************)
(* Proofs about InstrQueue for every DEPTH that fits its registers and     *)
(* every set of items: type correctness, the ring invariant, and that the  *)
(* queue implements the abstract Fifo.                                     *)
(***************************************************************************)
EXTENDS InstrQueue, SequenceTheorems, TLAPS

IInv == TypeOK /\ RingInv

Entry == [valid : BOOLEAN, item : Items \cup {ZeroItem}]

(* What RingInv says of the two slots the pop ports look at.               *)
LEMMA PopPorts ==
  ASSUME IInv
  PROVE  /\ head_plus1 \in Slots
         /\ head_plus1 = At(head, 1)
         /\ pop_valid0 <=> count >= 1
         /\ pop_valid1 <=> count >= 2
<1> USE DepthAssumption DEF IInv, TypeOK, RingInv, Slots, At
<1>1. head_plus1 \in Slots /\ head_plus1 = At(head, 1)
  BY DEF head_plus1, next_ptr
<1>2. At(head, 0) = head
  BY DEF At
<1>3. \A i \in 0 .. DEPTH - 1 : entries[At(head, i)].valid <=> i < count
  BY DEF RingInv
<1>4. 0 \in 0 .. DEPTH - 1 /\ 1 \in 0 .. DEPTH - 1
  OBVIOUS
<1> HIDE DEF At, RingInv, TypeOK
<1>5. entries[At(head, 0)].valid <=> 0 < count
  BY <1>3, <1>4
<1>6. entries[At(head, 1)].valid <=> 1 < count
  BY <1>3, <1>4
<1>7. pop_valid0 <=> 0 < count
  BY <1>2, <1>5 DEF pop_valid0
<1>8. pop_valid1 <=> 1 < count
  BY <1>1, <1>6 DEF pop_valid1
<1> QED
  BY <1>1, <1>7, <1>8 DEF TypeOK

(* The pops and pushes of one edge, as numbers: the count moves by exactly *)
(* what the pointers move by.                                              *)
LEMMA Moves ==
  ASSUME IInv, NEW push0 \in Ports, NEW push1 \in Ports, NEW pop \in 0 .. 2
  PROVE  \E p \in 0 .. 2, n \in 0 .. 2 :
           /\ p = IF pop < count THEN pop ELSE count
           /\ p <= count
           /\ count - p + n <= DEPTH
           /\ do_pop0(pop) <=> p >= 1
           /\ do_pop1(pop) <=> p = 2
           /\ cnt_after_pop(pop) = count - p
           /\ n = Bit(do_push0(push0, pop)) + Bit(do_push1(push0, push1, pop))
           /\ head_next(pop) = At(head, p)
           /\ tail1(push0, pop) = At(tail, Bit(do_push0(push0, pop)))
           /\ tail_next(push0, push1, pop) = At(tail, n)
           /\ count_next(push0, push1, pop) = count - p + n
<1> USE DepthAssumption
<1> DEFINE p == IF pop < count THEN pop ELSE count
           n == Bit(do_push0(push0, pop)) + Bit(do_push1(push0, push1, pop))
<1>1. count \in 0 .. DEPTH /\ head \in Slots /\ tail \in Slots
  BY DEF IInv, TypeOK
<1>2. p \in 0 .. 2 /\ p <= count
  BY <1>1
<1>3. (do_pop0(pop) <=> p >= 1) /\ (do_pop1(pop) <=> p = 2)
  BY <1>1, PopPorts DEF do_pop0, do_pop1
<1>4. cnt_after_pop(pop) = count - p
  BY <1>1, <1>2, <1>3 DEF cnt_after_pop, Bit
<1>5. n \in 0 .. 2 /\ count - p + n <= DEPTH
  BY <1>1, <1>2, <1>4 DEF do_push0, do_push1, cnt_after_push0, Bit
<1>6. head_next(pop) = At(head, p)
  BY <1>1, <1>2, <1>3 DEF head_next, next_ptr, At, Slots
<1>7. tail1(push0, pop) = At(tail, Bit(do_push0(push0, pop)))
  BY <1>1 DEF tail1, next_ptr, At, Slots, Bit
<1>8. tail_next(push0, push1, pop) = At(tail, n)
  BY <1>1 DEF tail_next, tail1, next_ptr, At, Slots, Bit
<1>9. count_next(push0, push1, pop) = count - p + n
  BY <1>1, <1>2, <1>4 DEF count_next, cnt_after_push0, Bit
<1> QED
  BY <1>2, <1>3, <1>4, <1>5, <1>6, <1>7, <1>8, <1>9

(* The empty queue satisfies the invariant.                                 *)
LEMMA InitIInv == Init => IInv
<1> SUFFICES ASSUME Init PROVE IInv
  OBVIOUS
<1> USE DepthAssumption DEF Init, Slots
<1>1. TypeOK
  BY DEF TypeOK
<1>2. RingInv
  BY DEF RingInv, At
<1> QED
  BY <1>1, <1>2 DEF IInv

(* So does a flushed one.                                                   *)
LEMMA FlushIInv == IInv /\ Flush => IInv'
<1> SUFFICES ASSUME IInv, Flush PROVE IInv'
  OBVIOUS
<1> USE DepthAssumption DEF IInv, Flush, Slots
<1>1. TypeOK'
  <2>1. entries \in [Slots -> Entry]
    BY DEF TypeOK, Entry
  <2>2. \A s \in Slots : [entries[s] EXCEPT !.valid = FALSE] \in Entry
    BY <2>1 DEF Entry
  <2>3. entries' \in [Slots -> Entry]
    BY <2>2
  <2> QED
    BY <2>3 DEF TypeOK, Entry
<1>2. RingInv'
  BY DEF RingInv, At, TypeOK
<1> QED
  BY <1>1, <1>2

(* An edge with pops and pushes keeps the ring: one slot at a time.         *)
LEMMA ClockIInv ==
  ASSUME IInv, NEW push0 \in Ports, NEW push1 \in Ports, NEW pop \in 0 .. 2,
         Clock(push0, push1, pop)
  PROVE  IInv'
<1> USE DepthAssumption
<1>1. PICK p \in 0 .. 2, n \in 0 .. 2 :
        /\ p = IF pop < count THEN pop ELSE count
        /\ p <= count
        /\ count - p + n <= DEPTH
        /\ do_pop0(pop) <=> p >= 1
        /\ do_pop1(pop) <=> p = 2
        /\ cnt_after_pop(pop) = count - p
        /\ n = Bit(do_push0(push0, pop)) + Bit(do_push1(push0, push1, pop))
        /\ head_next(pop) = At(head, p)
        /\ tail1(push0, pop) = At(tail, Bit(do_push0(push0, pop)))
        /\ tail_next(push0, push1, pop) = At(tail, n)
        /\ count_next(push0, push1, pop) = count - p + n
  BY Moves
<1>2. /\ count \in 0 .. DEPTH /\ head \in Slots /\ tail \in Slots
      /\ entries \in [Slots -> Entry]
      /\ tail = At(head, count)
  BY DEF IInv, TypeOK, RingInv, Entry
<1>3. /\ head' = At(head, p) /\ tail' = At(tail, n) /\ count' = count - p + n
      /\ \A s \in Slots : entries'[s] = entry_next(s, push0, push1, pop)
      /\ entries' = [s \in Slots |-> entry_next(s, push0, push1, pop)]
  BY <1>1 DEF Clock
<1>4. /\ do_push0(push0, pop) => push0 \in Items
      /\ do_push1(push0, push1, pop) => push1 \in Items
  BY DEF do_push0, do_push1, Ports
<1>5. TypeOK'
  <2>1. \A s \in Slots : entry_next(s, push0, push1, pop) \in Entry
    BY <1>2, <1>4 DEF entry_next, Entry
  <2>2. entries' \in [Slots -> Entry]
    BY <1>3, <2>1
  <2>3. count - p + n \in 0 .. DEPTH
    BY <1>1, <1>2
  <2>4. At(head, p) \in Slots /\ At(tail, n) \in Slots
    BY <1>2 DEF At, Slots
  <2> QED
    BY <1>3, <2>2, <2>3, <2>4 DEF TypeOK, Entry
<1>6. tail' = At(head', count')
  BY <1>1, <1>2, <1>3, SMTT(30) DEF At, Slots
<1>7. ASSUME NEW i \in 0 .. DEPTH - 1
      PROVE  /\ entries'[At(head', i)].valid <=> i < count'
             /\ i < count' => entries'[At(head', i)].item \in Items
  <2> DEFINE s == At(head', i)
  <2>1. s \in Slots /\ head' \in Slots
    BY <1>1, <1>2, <1>3 DEF At, Slots
  <2>2. head_plus1 = At(head, 1)
    BY PopPorts
  <2>3. \A j \in 0 .. DEPTH - 1 :
          /\ entries[At(head, j)].valid <=> j < count
          /\ j < count => entries[At(head, j)].item \in Items
    BY DEF IInv, RingInv
  <2>4. CASE i < count - p
    <3>1. s = At(head, p + i) /\ p + i \in 0 .. DEPTH - 1 /\ p + i < count
      BY <1>1, <1>2, <1>3, <2>4 DEF At, Slots
    <3>2. ~ Popped(s, pop)
      BY <1>1, <1>2, <2>2, <3>1 DEF Popped, At, Slots
    <3>3. /\ ~ (do_push0(push0, pop) /\ s = tail)
          /\ ~ (do_push1(push0, push1, pop) /\ s = tail1(push0, pop))
      BY <1>1, <1>2, <2>4, <3>1 DEF At, Slots, Bit
    <3>4. entries'[s] = entries[At(head, p + i)]
      BY <1>3, <2>1, <3>1, <3>2, <3>3 DEF entry_next
    <3> QED
      BY <1>1, <1>2, <1>3, <2>3, <2>4, <3>1, <3>4
  <2>5. CASE i >= count - p /\ i < count'
    <3>1. \/ do_push1(push0, push1, pop) /\ s = tail1(push0, pop)
          \/ do_push0(push0, pop) /\ s = tail
      BY <1>1, <1>2, <1>3, <2>5 DEF At, Slots, Bit
    <3>2. entries'[s].valid = TRUE /\ entries'[s].item \in Items
      BY <1>3, <1>4, <2>1, <3>1 DEF entry_next
    <3> QED
      BY <2>5, <3>2
  <2>6. CASE i >= count'
    <3>1. /\ ~ (do_push0(push0, pop) /\ s = tail)
          /\ ~ (do_push1(push0, push1, pop) /\ s = tail1(push0, pop))
      BY <1>1, <1>2, <1>3, <2>6 DEF At, Slots, Bit
    <3>2. CASE Popped(s, pop)
      <4>1. entries'[s] = [entries[s] EXCEPT !.valid = FALSE]
        BY <1>3, <2>1, <3>1, <3>2 DEF entry_next
      <4>2. ~ entries'[s].valid
        BY <1>2, <2>1, <4>1 DEF Entry
      <4> QED
        BY <1>1, <1>2, <1>3, <2>6, <4>2
    <3>3. CASE ~ Popped(s, pop)
      <4>1. entries'[s] = entries[s]
        BY <1>3, <2>1, <3>1, <3>3 DEF entry_next
      <4>2. PICK j \in 0 .. DEPTH - 1 : s = At(head, j) /\ ~ (j < count)
        <5>1. CASE p + i < DEPTH
          <6>1. /\ p + i \in 0 .. DEPTH - 1
                /\ s = At(head, p + i)
                /\ ~ (p + i < count)
            BY <1>1, <1>2, <1>3, <2>6, <5>1 DEF At, Slots
          <6> QED
            BY <6>1
        <5>2. CASE p + i >= DEPTH
          <6>1. s = At(head, p + i - DEPTH) /\ p + i - DEPTH \in 0 .. 1
            BY <1>1, <1>2, <1>3, <5>2 DEF At, Slots
          <6>2. p + i - DEPTH < p
            OBVIOUS
          <6>3. \/ s = head /\ p >= 1
                \/ s = head_plus1 /\ p = 2
            <7>1. At(head, 0) = head
              BY <1>2 DEF At, Slots
            <7> QED
              BY <2>2, <6>1, <6>2, <7>1
          <6>4. Popped(s, pop)
            BY <1>1, <6>3 DEF Popped
          <6> QED
            BY <3>3, <6>4
        <5> QED
          BY <1>1, <5>1, <5>2
      <4> QED
        BY <1>1, <1>2, <1>3, <2>3, <2>6, <4>1, <4>2
    <3> QED
      BY <3>2, <3>3
  <2> QED
    BY <1>1, <1>2, <1>3, <2>4, <2>5, <2>6
<1>8. RingInv'
  BY <1>6, <1>7 DEF RingInv
<1> QED
  BY <1>5, <1>8 DEF IInv

(* Every step preserves the invariant.                                      *)
LEMMA StepIInv == IInv /\ [Next]_vars => IInv'
<1> SUFFICES ASSUME IInv, [Next]_vars PROVE IInv'
  OBVIOUS
<1>1. CASE Flush
  BY <1>1, FlushIInv
<1>2. CASE \E push0, push1 \in Ports, pop \in 0 .. 2 : Clock(push0, push1, pop)
  BY <1>2, ClockIInv
<1>3. CASE UNCHANGED vars
  BY <1>3 DEF vars, IInv, TypeOK, RingInv, Slots
<1> QED
  BY <1>1, <1>2, <1>3 DEF Next

(* The inductive invariant holds in every reachable state.                 *)
LEMMA InvariantHolds == Spec => []IInv
<1> QED
  BY InitIInv, StepIInv, PTL DEF Spec

(* The registers stay in range: the three-bit count never wraps            *)
(* (instr_queue.sv:86-94).                                                 *)
THEOREM TypeCorrect == Spec => []TypeOK
<1>1. IInv => TypeOK
  BY DEF IInv
<1> QED
  BY <1>1, InvariantHolds, PTL

(* Valid bits, pointers and count always describe the same contents        *)
(* (instr_queue.sv:96-143).                                                *)
THEOREM RingHolds == Spec => []RingInv
<1>1. IInv => RingInv
  BY DEF IInv
<1> QED
  BY <1>1, InvariantHolds, PTL

-----------------------------------------------------------------------------
(* Refinement: every step of the circular buffer is a step of Fifo.        *)

ContentsOK ==
  /\ Contents \in Seq(Items)
  /\ Len(Contents) = count
  /\ \A i \in 1 .. count : Contents[i] = entries[At(head, i - 1)].item

(* The contents are a sequence of count items.                              *)
LEMMA ContentsType == IInv => ContentsOK
<1> SUFFICES ASSUME IInv PROVE ContentsOK
  OBVIOUS
<1>1. count \in 0 .. DEPTH
  BY DEF IInv, TypeOK
<1>2. \A i \in 1 .. count : entries[At(head, i - 1)].item \in Items
  <2> SUFFICES ASSUME NEW i \in 1 .. count
               PROVE  entries[At(head, i - 1)].item \in Items
    OBVIOUS
  <2>1. i - 1 \in 0 .. DEPTH - 1 /\ i - 1 < count
    BY <1>1, DepthAssumption
  <2>2. \A j \in 0 .. DEPTH - 1 : j < count => entries[At(head, j)].item \in Items
    BY DEF IInv, RingInv
  <2> QED
    BY <2>1, <2>2
<1>3. Contents \in [1 .. count -> Items]
  BY <1>2 DEF Contents
<1>4. Contents \in Seq(Items) /\ Len(Contents) = count
  BY <1>1, <1>3, DepthAssumption
<1> QED
  BY <1>4 DEF Contents, ContentsOK

(* The items offered in a cycle, as Fifo sees them.                        *)
Offered(push0, push1) ==
  IF push0 # NoPush
    THEN IF push1 # NoPush THEN <<push0, push1>> ELSE <<push0>>
    ELSE IF push1 # NoPush THEN <<push1>> ELSE <<>>

(* What the two push ports carry is an offer of Fifo.                       *)
LEMMA OfferedType ==
  ASSUME NEW push0 \in Ports, NEW push1 \in Ports
  PROVE  /\ Offered(push0, push1) \in F!Offers
         /\ Offered(push0, push1) \in Seq(Items)
         /\ Len(Offered(push0, push1)) =
              Bit(push0 # NoPush) + Bit(push1 # NoPush)
         /\ push0 # NoPush => Offered(push0, push1)[1] = push0
         /\ push1 # NoPush => Offered(push0, push1)[1 + Bit(push0 # NoPush)] = push1
  BY DEF Offered, F!Offers, Ports, Bit

(* An edge removes and appends what Fifo says.                              *)
LEMMA ClockRefines ==
  ASSUME IInv, NEW push0 \in Ports, NEW push1 \in Ports, NEW pop \in 0 .. 2,
         Clock(push0, push1, pop)
  PROVE  F!Exchange(pop, Offered(push0, push1))
<1> USE DepthAssumption
<1>1. PICK p \in 0 .. 2, n \in 0 .. 2 :
        /\ p = IF pop < count THEN pop ELSE count
        /\ p <= count
        /\ count - p + n <= DEPTH
        /\ do_pop0(pop) <=> p >= 1
        /\ do_pop1(pop) <=> p = 2
        /\ cnt_after_pop(pop) = count - p
        /\ n = Bit(do_push0(push0, pop)) + Bit(do_push1(push0, push1, pop))
        /\ head_next(pop) = At(head, p)
        /\ tail1(push0, pop) = At(tail, Bit(do_push0(push0, pop)))
        /\ tail_next(push0, push1, pop) = At(tail, n)
        /\ count_next(push0, push1, pop) = count - p + n
  BY Moves
<1>2. /\ count \in 0 .. DEPTH /\ head \in Slots /\ tail \in Slots
      /\ tail = At(head, count)
  BY DEF IInv, TypeOK, RingInv
<1>3. /\ head' = At(head, p) /\ count' = count - p + n
      /\ \A s \in Slots : entries'[s] = entry_next(s, push0, push1, pop)
  BY <1>1 DEF Clock
<1>4. IInv'
  BY ClockIInv
<1> DEFINE offer == Offered(push0, push1)
           rest == F!Rest(pop)
           taken == F!Accepted(pop, offer)
<1>5. /\ Contents \in Seq(Items) /\ Len(Contents) = count
      /\ \A i \in 1 .. count : Contents[i] = entries[At(head, i - 1)].item
  BY ContentsType DEF ContentsOK
<1>6. /\ Contents' \in Seq(Items) /\ Len(Contents') = count - p + n
      /\ \A i \in 1 .. count - p + n :
           Contents'[i] = entries'[At(head', i - 1)].item
  <2>1. ContentsOK'
    BY <1>4, ContentsType, PTL
  <2> QED
    BY <1>3, <2>1 DEF ContentsOK, At
<1>7. /\ rest \in Seq(Items) /\ Len(rest) = count - p
      /\ \A i \in 1 .. count - p : rest[i] = Contents[p + i]
  <2>1. rest = SubSeq(Contents, p + 1, count)
    BY <1>1, <1>2, <1>5 DEF F!Rest, F!Least
  <2>2. \A i \in p + 1 .. count : Contents[i] \in Items
    BY <1>5, <1>2, ElementOfSeq
  <2>3. p + 1 \in Int /\ count \in Int
    BY <1>2
  <2>4. /\ rest \in Seq(Items)
        /\ Len(rest) = IF p + 1 <= count THEN count - (p + 1) + 1 ELSE 0
        /\ \A i \in 1 .. count - (p + 1) + 1 : rest[i] = Contents[p + 1 + i - 1]
    BY <2>1, <2>2, <2>3, SubSeqProperties
  <2> QED
    BY <1>1, <1>2, <2>4
<1>8. /\ taken \in Seq(Items) /\ Len(taken) = n
      /\ \A i \in 1 .. n : taken[i] = offer[i]
  <2>1. n = F!Least(Len(offer), DEPTH - (count - p))
    BY <1>1, <1>2, OfferedType DEF F!Least, do_push0, do_push1, cnt_after_push0, Bit
  <2>2. taken = SubSeq(offer, 1, n)
    BY <1>7, <2>1 DEF F!Accepted
  <2>3. n <= Len(offer) /\ Len(offer) \in Nat
    BY <1>1, <1>2, <2>1, OfferedType DEF F!Least, Bit
  <2>4. \A i \in 1 .. n : offer[i] \in Items
    BY <2>3, OfferedType, ElementOfSeq
  <2>5. /\ taken \in Seq(Items)
        /\ Len(taken) = IF 1 <= n THEN n - 1 + 1 ELSE 0
        /\ \A i \in 1 .. n - 1 + 1 : taken[i] = offer[1 + i - 1]
    BY <2>2, <2>4, SubSeqProperties
  <2> QED
    BY <2>5
<1>9. /\ rest \o taken \in Seq(Items)
      /\ Len(rest \o taken) = count - p + n
      /\ \A i \in 1 .. count - p + n :
           (rest \o taken)[i] = IF i <= count - p THEN rest[i]
                                ELSE taken[i - (count - p)]
  BY <1>7, <1>8, ConcatProperties
<1>10. ASSUME NEW i \in 1 .. count - p + n
       PROVE  Contents'[i] = (rest \o taken)[i]
  <2> DEFINE s == At(head', i - 1)
  <2>1. s \in Slots /\ entries'[s] = entry_next(s, push0, push1, pop)
    <3>1. s \in Slots
      BY <1>1, <1>2, <1>3 DEF At, Slots
    <3> QED
      BY <1>3, <3>1
  <2>2. CASE i <= count - p
    <3>1. s = At(head, p + i - 1) /\ p + i \in 1 .. count
      BY <1>1, <1>2, <1>3, <2>2 DEF At, Slots
    <3>2. head_plus1 = At(head, 1)
      BY PopPorts
    <3>3. ~ Popped(s, pop)
      BY <1>1, <1>2, <3>1, <3>2 DEF Popped, At, Slots
    <3>4. /\ ~ (do_push0(push0, pop) /\ s = tail)
          /\ ~ (do_push1(push0, push1, pop) /\ s = tail1(push0, pop))
      BY <1>1, <1>2, <2>2, <3>1 DEF At, Slots, Bit
    <3>5. entries'[s] = entries[At(head, p + i - 1)]
      BY <2>1, <3>1, <3>3, <3>4 DEF entry_next
    <3>6. Contents[p + i] = entries[At(head, p + i - 1)].item
      BY <1>5, <3>1
    <3>7. Contents'[i] = Contents[p + i]
      BY <1>6, <3>5, <3>6
    <3>8. (rest \o taken)[i] = Contents[p + i]
      BY <1>2, <1>7, <1>9, <2>2
    <3> QED
      BY <3>7, <3>8
  <2>3. CASE i > count - p
    <3> DEFINE k == i - (count - p)
    <3>1. k \in 1 .. n /\ (rest \o taken)[i] = offer[k]
      BY <1>1, <1>2, <1>8, <1>9, <2>3, SMTT(30)
    <3>2. s = At(tail, k - 1)
      <4>1. /\ head \in 0 .. DEPTH - 1 /\ count \in 0 .. DEPTH
            /\ p <= count /\ count - p + n <= DEPTH
            /\ tail = At(head, count) /\ head' = At(head, p)
        BY <1>1, <1>2, <1>3 DEF Slots
      <4> QED
        BY <2>3, <4>1 DEF At
    <3>3. CASE do_push1(push0, push1, pop) /\ k = n
      <4>1. s = tail1(push0, pop)
        BY <1>1, <1>2, <3>2, <3>3 DEF Bit
      <4>2. entries'[s].item = push1
        BY <2>1, <3>3, <4>1 DEF entry_next
      <4>3. offer[k] = push1
        BY <1>1, <1>2, <3>3, OfferedType DEF do_push0, do_push1, cnt_after_push0, Bit
      <4> QED
        BY <1>6, <3>1, <4>2, <4>3
    <3>4. CASE ~ (do_push1(push0, push1, pop) /\ k = n)
      <4>1. k = 1 /\ do_push0(push0, pop)
        BY <1>1, <3>1, <3>4 DEF Bit
      <4>2. s = tail
        BY <1>2, <3>2, <4>1 DEF At, Slots
      <4>3. ~ (do_push1(push0, push1, pop) /\ s = tail1(push0, pop))
        BY <1>1, <1>2, <4>1, <4>2 DEF At, Slots, Bit
      <4>4. entries'[s].item = push0
        BY <2>1, <4>1, <4>2, <4>3 DEF entry_next
      <4>5. offer[k] = push0
        BY <4>1, OfferedType DEF do_push0
      <4> QED
        BY <1>6, <3>1, <4>4, <4>5
    <3> QED
      BY <3>3, <3>4
  <2>4. i <= count - p \/ i > count - p
    BY <1>2
  <2> QED
    BY <2>2, <2>3, <2>4
<1>11. Contents' = rest \o taken
  BY <1>6, <1>9, <1>10, SeqEqual
<1> QED
  BY <1>11 DEF F!Exchange

(* So that every step is one of Fifo.                                       *)
LEMMA StepRefines == IInv /\ [Next]_vars => [F!Next]_Contents
<1> SUFFICES ASSUME IInv, [Next]_vars PROVE [F!Next]_Contents
  OBVIOUS
<1>1. CASE Flush
  <2>1. count' = 0
    BY <1>1 DEF Flush
  <2>2. Contents' = <<>>
    BY <2>1 DEF Contents
  <2> QED
    BY <2>2 DEF F!Next, F!Flush
<1>2. ASSUME NEW push0 \in Ports, NEW push1 \in Ports, NEW pop \in 0 .. 2,
             Clock(push0, push1, pop)
      PROVE  F!Next
  <2>1. F!Exchange(pop, Offered(push0, push1))
    BY <1>2, ClockRefines
  <2>2. Offered(push0, push1) \in F!Offers
    BY OfferedType
  <2> QED
    BY <2>1, <2>2 DEF F!Next
<1>3. CASE UNCHANGED vars
  <2>1. Contents' = Contents
    BY <1>3 DEF vars, Contents, At
  <2> QED
    BY <2>1
<1> QED
  BY <1>1, <1>2, <1>3 DEF Next

(* The circular buffer implements the bounded sequence: no accepted        *)
(* instruction is lost, repeated or reordered (instr_queue.sv:81-143).     *)
THEOREM QueueIsFifo == Spec => ImplementsFifo
<1>1. Init => F!Init
  <2> SUFFICES ASSUME Init PROVE Contents = <<>>
    BY DEF F!Init
  <2>1. count = 0
    BY DEF Init
  <2> QED
    BY <2>1 DEF Contents
<1>2. IInv /\ [Next]_vars => [F!Next]_Contents
  BY StepRefines
<1> QED
  BY <1>1, <1>2, InvariantHolds, PTL DEF Spec, ImplementsFifo, F!Spec
=============================================================================
