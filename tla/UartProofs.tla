----------------------------- MODULE UartProofs -----------------------------
(***************************************************************************)
(* Proofs about the programs on the serial port, for every depth of its    *)
(* buffers, length of a character, set of texts and interrupt controller:  *)
(* type correctness, that no character is lost or doubled without a sign,  *)
(* that no program writes into a full buffer, that the echo is exact, that *)
(* a burst that the buffers can hold arrives and comes back whole, that    *)
(* the interrupt driven string is sent whole before g_tx_done says so, and *)
(* that CoreMark's text is printed whole; and about the port on its own,   *)
(* that its buffers are queues under every access there is.                 *)
(***************************************************************************)
EXTENDS UartPrograms, Orders, SequenceTheorems, FiniteSetTheorems, TLAPS

-----------------------------------------------------------------------------
(* The ring buffers.                                                        *)

(* One turn of the ring at most.                                            *)
LEMMA Turn ==
  ASSUME NEW D \in Nat \ {0}, NEW a \in Nat, a < D + D
  PROVE  a % D = IF a < D THEN a ELSE a - D
<1>1. CASE a < D
  BY <1>1
<1>2. CASE ~ (a < D)
  BY <1>2
<1> QED
  BY <1>1, <1>2

(* The ring's size, and its turns.                                          *)
LEMMA DepthTurn ==
  /\ FIFO_DEPTH \in Nat \ {0}
  /\ \A n \in Nat : n < FIFO_DEPTH + FIFO_DEPTH =>
       n % FIFO_DEPTH = IF n < FIFO_DEPTH THEN n ELSE n - FIFO_DEPTH
<1>1. FIFO_DEPTH \in Nat \ {0}
  BY UartAssumption DEF U!Parameters
<1> QED
  BY <1>1, Turn

(* Ring, member by member.                                                  *)
Moved(half, ring, push, pop, char) ==
  /\ ring.buffer = IF push THEN [half.buffer EXCEPT ![half.tail] = char]
                   ELSE half.buffer
  /\ ring.tail = IF push THEN U!Incr(half.tail) ELSE half.tail
  /\ ring.head = IF pop THEN U!Incr(half.head) ELSE half.head
  /\ ring.count = IF push /\ ~ pop THEN half.count + 1
                  ELSE IF pop /\ ~ push THEN half.count - 1 ELSE half.count
  /\ ring.state = half.state /\ ring.bit_idx = half.bit_idx
  /\ ring.shift = half.shift

(* It is that.                                                              *)
LEMMA RingMembers ==
  ASSUME NEW half, U!HalfOK(half), NEW push, NEW pop, NEW char
  PROVE  Moved(half, U!Ring(half, push, pop, char), push, pop, char)
BY DEF U!Ring, U!HalfOK, U!Halves, Moved

(* A half whose ring has moved is a half.                                   *)
LEMMA HalfType ==
  ASSUME NEW half \in U!Halves,
         NEW buffer \in [0 .. FIFO_DEPTH - 1 -> Chars],
         NEW tail \in 0 .. FIFO_DEPTH - 1, NEW head \in 0 .. FIFO_DEPTH - 1,
         NEW count \in 0 .. FIFO_DEPTH
  PROVE  [half EXCEPT !.buffer = buffer, !.tail = tail, !.head = head,
                      !.count = count] \in U!Halves
BY DEF U!Halves

(* A push that finds room and a pop that finds a character keep the ring.  *)
LEMMA RingTypes ==
  ASSUME NEW half, U!HalfOK(half), NEW push \in BOOLEAN, NEW pop \in BOOLEAN,
         NEW char \in Chars,
         push => half.count < FIFO_DEPTH, pop => half.count # 0
  PROVE  U!HalfOK(U!Ring(half, push, pop, char))
<1> DEFINE ring == U!Ring(half, push, pop, char)
<1>0. /\ FIFO_DEPTH \in Nat \ {0}
      /\ \A n \in Nat : n < FIFO_DEPTH + FIFO_DEPTH =>
           n % FIFO_DEPTH = IF n < FIFO_DEPTH THEN n ELSE n - FIFO_DEPTH
  BY DepthTurn
<1>m. Moved(half, ring, push, pop, char)
  BY RingMembers
<1>1. /\ half.head \in Nat /\ half.head < FIFO_DEPTH
      /\ half.tail \in Nat /\ half.tail < FIFO_DEPTH
      /\ half.count \in Nat /\ half.count <= FIFO_DEPTH
      /\ half.tail = (half.head + half.count) % FIFO_DEPTH
  <2>0. FIFO_DEPTH \in Nat \ {0}
    BY <1>0
  <2>1. half \in U!Halves /\ half.tail = (half.head + half.count) % FIFO_DEPTH
    BY DEF U!HalfOK
  <2>2. /\ half.head \in 0 .. FIFO_DEPTH - 1 /\ half.tail \in 0 .. FIFO_DEPTH - 1
        /\ half.count \in 0 .. FIFO_DEPTH
    BY <2>1 DEF U!Halves
  <2> HIDE DEF ring
  <2> QED
    BY <2>0, <2>1, <2>2
<1> HIDE DEF ring
<1>2. /\ U!Incr(half.head) = IF half.head + 1 = FIFO_DEPTH THEN 0 ELSE half.head + 1
      /\ U!Incr(half.tail) = IF half.tail + 1 = FIFO_DEPTH THEN 0 ELSE half.tail + 1
  BY <1>0, <1>1, SMTT(30) DEF U!Incr
<1>3. half.tail = IF half.head + half.count < FIFO_DEPTH
                    THEN half.head + half.count
                    ELSE half.head + half.count - FIFO_DEPTH
  BY <1>0, <1>1
<1>4. ring.buffer \in [0 .. FIFO_DEPTH - 1 -> Chars]
  BY <1>1, <1>m DEF Moved, U!HalfOK, U!Halves
<1>n. /\ FIFO_DEPTH \in Nat \ {0}
      /\ half.head \in Nat /\ half.head < FIFO_DEPTH
      /\ half.tail \in Nat /\ half.tail < FIFO_DEPTH
      /\ half.count \in Nat /\ half.count <= FIFO_DEPTH
  BY <1>0, <1>1
<1>5. /\ ring.head \in 0 .. FIFO_DEPTH - 1 /\ ring.tail \in 0 .. FIFO_DEPTH - 1
      /\ ring.count \in 0 .. FIFO_DEPTH
  <2>1. ring.head \in 0 .. FIFO_DEPTH - 1 /\ ring.tail \in 0 .. FIFO_DEPTH - 1
    BY <1>2, <1>m, <1>n DEF Moved
  <2>2. ring.count \in 0 .. FIFO_DEPTH
    BY <1>m, <1>n DEF Moved
  <2> QED
    BY <2>1, <2>2
<1>6. ring.tail = (ring.head + ring.count) % FIFO_DEPTH
  <2>1. (ring.head + ring.count) % FIFO_DEPTH
          = IF ring.head + ring.count < FIFO_DEPTH THEN ring.head + ring.count
            ELSE ring.head + ring.count - FIFO_DEPTH
    BY <1>0, <1>5
  <2>2. ring.tail = IF ring.head + ring.count < FIFO_DEPTH
                      THEN ring.head + ring.count
                      ELSE ring.head + ring.count - FIFO_DEPTH
    <3>1. CASE push /\ pop
      BY <1>2, <1>3, <3>1, <1>m, <1>n, SMTT(30) DEF Moved
    <3>2. CASE push /\ ~ pop
      BY <1>2, <1>3, <3>2, <1>m, <1>n DEF Moved
    <3>3. CASE ~ push /\ pop
      BY <1>2, <1>3, <3>3, <1>m, <1>n DEF Moved
    <3>4. CASE ~ push /\ ~ pop
      BY <1>2, <1>3, <3>4, <1>m, <1>n DEF Moved
    <3> QED
      BY <3>1, <3>2, <3>3, <3>4
  <2> QED
    BY <2>1, <2>2
<1>7. /\ ring.state \in U!States /\ ring.bit_idx \in 0 .. BITS - 1
      /\ ring.shift \in Chars
  BY <1>1, <1>m DEF Moved, U!HalfOK, U!Halves
<1>8. U!HalfOK(ring)
  <2>1. ring = [half EXCEPT !.buffer = ring.buffer, !.tail = ring.tail,
                            !.head = ring.head, !.count = ring.count]
    <3>1. ring = [half EXCEPT
                    !.buffer = IF push THEN [half.buffer EXCEPT ![half.tail] = char]
                               ELSE half.buffer,
                    !.tail = IF push THEN U!Incr(half.tail) ELSE half.tail,
                    !.head = IF pop THEN U!Incr(half.head) ELSE half.head,
                    !.count = IF push /\ ~ pop THEN half.count + 1
                              ELSE IF pop /\ ~ push THEN half.count - 1
                              ELSE half.count]
      BY DEF ring, U!Ring
    <3> QED
      BY <3>1, <1>m DEF Moved
  <2>2. [half EXCEPT !.buffer = ring.buffer, !.tail = ring.tail,
                     !.head = ring.head, !.count = ring.count] \in U!Halves
    <3>1. half \in U!Halves
      BY DEF U!HalfOK
    <3> QED
      BY <1>4, <1>5, <3>1, HalfType
  <2> QED
    BY <1>6, <2>1, <2>2 DEF U!HalfOK
<1> QED
  BY <1>8 DEF ring

(* The characters in a half, without the remainder.                         *)
Wrap(n) == IF n < FIFO_DEPTH THEN n ELSE n - FIFO_DEPTH

(* A pointer's step in these terms.                                         *)
LEMMA IncrIsWrap ==
  ASSUME NEW n \in 0 .. FIFO_DEPTH - 1
  PROVE  U!Incr(n) = Wrap(n + 1)
<1> DEFINE m == n + 1
<1>1. m \in Nat /\ m < FIFO_DEPTH + FIFO_DEPTH
  BY DepthTurn
<1> HIDE DEF m
<1>2. m % FIFO_DEPTH = Wrap(m)
  BY <1>1, DepthTurn DEF Wrap
<1> QED
  BY <1>2 DEF U!Incr, m

(* Moving on from a wrapped pointer.                                        *)
LEMMA WrapAdds ==
  ASSUME NEW a \in Nat, NEW b \in Nat, a + b < FIFO_DEPTH + FIFO_DEPTH
  PROVE  Wrap(Wrap(a) + b) = Wrap(a + b)
<1>1. FIFO_DEPTH \in Nat
  BY DepthTurn
<1> QED
  BY <1>1 DEF Wrap

(* The characters in a half: as many as it counts, the head's first.        *)
LEMMA BufferedAt ==
  ASSUME NEW half, U!HalfOK(half)
  PROVE  /\ U!Buffered(half) \in Seq(Chars)
         /\ Len(U!Buffered(half)) = half.count
         /\ \A i \in 1 .. half.count :
              U!Buffered(half)[i] = half.buffer[Wrap(half.head + i - 1)]
<1> DEFINE old == U!Buffered(half)
<1>1. /\ FIFO_DEPTH \in Nat \ {0}
      /\ half.head \in Nat /\ half.head < FIFO_DEPTH
      /\ half.count \in Nat /\ half.count <= FIFO_DEPTH
  BY DepthTurn DEF U!HalfOK, U!Halves
<1>2. \A n \in Nat : n < FIFO_DEPTH + FIFO_DEPTH => n % FIFO_DEPTH = Wrap(n)
  BY DepthTurn DEF Wrap
<1>3. ASSUME NEW i \in 1 .. half.count
      PROVE  /\ (half.head + i - 1) % FIFO_DEPTH = Wrap(half.head + i - 1)
             /\ Wrap(half.head + i - 1) \in 0 .. FIFO_DEPTH - 1
  <2> DEFINE n == half.head + i - 1
  <2>1. n \in Nat /\ n < FIFO_DEPTH + FIFO_DEPTH
    BY <1>1
  <2>2. Wrap(n) \in 0 .. FIFO_DEPTH - 1
    BY <1>1 DEF Wrap
  <2> HIDE DEF n
  <2>3. n % FIFO_DEPTH = Wrap(n)
    BY <1>2, <2>1
  <2> QED
    BY <2>2, <2>3 DEF n
<1>4. old = [i \in 1 .. half.count |-> half.buffer[(half.head + i - 1) % FIFO_DEPTH]]
  BY DEF U!Buffered
<1>5. \A i \in 1 .. half.count : /\ old[i] = half.buffer[Wrap(half.head + i - 1)]
                                 /\ old[i] \in Chars
  BY <1>3, <1>4 DEF U!HalfOK, U!Halves
<1>6. old \in [1 .. half.count -> Chars]
  BY <1>4, <1>5
<1> HIDE DEF old
<1>7. old \in Seq(Chars) /\ Len(old) = half.count
  BY <1>1, <1>6
<1>8. /\ old \in Seq(Chars) /\ Len(old) = half.count
      /\ \A i \in 1 .. half.count : old[i] = half.buffer[Wrap(half.head + i - 1)]
  BY <1>5, <1>7
<1> QED
  BY <1>8 DEF old

(* On these, push and pop are those of a queue.                             *)
LEMMA RingFifo ==
  ASSUME NEW half, U!HalfOK(half), NEW push \in BOOLEAN, NEW pop \in BOOLEAN,
         NEW char \in Chars,
         push => half.count < FIFO_DEPTH, pop => half.count # 0
  PROVE  U!Buffered(U!Ring(half, push, pop, char)) =
           (IF pop THEN Tail(U!Buffered(half)) ELSE U!Buffered(half))
           \o (IF push THEN <<char>> ELSE <<>>)
<1> DEFINE ring == U!Ring(half, push, pop, char)
           old == U!Buffered(half)
           new == U!Buffered(ring)
           kept == IF pop THEN Tail(old) ELSE old
           added == IF push THEN <<char>> ELSE <<>>
           p == IF pop THEN 1 ELSE 0
<1>1. Moved(half, ring, push, pop, char) /\ U!HalfOK(ring)
  BY RingMembers, RingTypes
<1>2. /\ FIFO_DEPTH \in Nat \ {0}
      /\ half.head \in Nat /\ half.head < FIFO_DEPTH
      /\ half.count \in Nat /\ half.count <= FIFO_DEPTH
      /\ half.buffer \in [0 .. FIFO_DEPTH - 1 -> Chars]
  BY DepthTurn DEF U!HalfOK, U!Halves
<1>3. half.tail = Wrap(half.head + half.count) /\ half.tail \in 0 .. FIFO_DEPTH - 1
  <2>1. half.tail = (half.head + half.count) % FIFO_DEPTH
    BY DEF U!HalfOK, U!Halves
  <2>2. half.head + half.count \in Nat
        /\ half.head + half.count < FIFO_DEPTH + FIFO_DEPTH
    BY <1>2
  <2>3. half.tail = Wrap(half.head + half.count)
    BY <2>1, <2>2, DepthTurn DEF Wrap
  <2> QED
    BY <2>3 DEF U!HalfOK, U!Halves
<1>4. ring.head = Wrap(half.head + p)
  <2>1. U!Incr(half.head) = Wrap(half.head + 1)
    BY <1>2, IncrIsWrap
  <2>2. ring.head = IF pop THEN U!Incr(half.head) ELSE half.head
    BY <1>1 DEF Moved
  <2> HIDE DEF ring
  <2>3. CASE pop
    BY <2>1, <2>2, <2>3
  <2>4. CASE ~ pop
    BY <1>2, <2>2, <2>4 DEF Wrap
  <2> QED
    BY <2>3, <2>4
<1>5. /\ old \in Seq(Chars) /\ Len(old) = half.count
      /\ \A i \in 1 .. half.count : old[i] = half.buffer[Wrap(half.head + i - 1)]
  BY BufferedAt
<1>6. /\ new \in Seq(Chars) /\ Len(new) = ring.count
      /\ \A i \in 1 .. ring.count : new[i] = ring.buffer[Wrap(ring.head + i - 1)]
  BY <1>1, BufferedAt
<1>7. /\ ring.buffer = IF push THEN [half.buffer EXCEPT ![half.tail] = char]
                       ELSE half.buffer
      /\ ring.count = half.count - p + (IF push THEN 1 ELSE 0)
  <2> HIDE DEF ring
  <2>1. ring.count = IF push /\ ~ pop THEN half.count + 1
                     ELSE IF pop /\ ~ push THEN half.count - 1 ELSE half.count
    BY <1>1 DEF Moved
  <2>2. ring.count = half.count - p + (IF push THEN 1 ELSE 0)
    BY <1>2, <2>1
  <2> QED
    BY <1>1, <2>2 DEF Moved
<1> HIDE DEF ring, old, new
<1>8. /\ kept \in Seq(Chars) /\ Len(kept) = half.count - p
      /\ \A i \in 1 .. half.count - p : kept[i] = old[i + p]
  <2>1. CASE pop
    BY <1>2, <1>5, <2>1, HeadTailProperties
  <2>2. CASE ~ pop
    BY <1>2, <1>5, <2>2
  <2> QED
    BY <2>1, <2>2
<1>9. added \in Seq(Chars) /\ Len(added) = (IF push THEN 1 ELSE 0)
      /\ (push => added[1] = char)
  OBVIOUS
<1>p. p \in 0 .. 1 /\ half.count - p \in Nat
  BY <1>2
<1> HIDE DEF kept, added, p
<1>10. /\ kept \o added \in Seq(Chars) /\ Len(kept \o added) = ring.count
       /\ \A i \in 1 .. ring.count :
            (kept \o added)[i] =
              IF i <= Len(kept) THEN kept[i] ELSE added[i - Len(kept)]
  BY <1>2, <1>7, <1>8, <1>9, <1>p, ConcatProperties, SMTT(30)
<1>11. ASSUME NEW i \in 1 .. ring.count PROVE new[i] = (kept \o added)[i]
  <2>1. /\ i \in Nat /\ i >= 1 /\ i <= half.count - p + (IF push THEN 1 ELSE 0)
        /\ i + p \in Nat
    BY <1>2, <1>7, <1>p
  <2>2. CASE i <= half.count - p
    <3>1. (kept \o added)[i] = half.buffer[Wrap(half.head + (i + p) - 1)]
      <4>1. (kept \o added)[i] = kept[i]
        BY <1>8, <1>10, <2>2
      <4>2. i \in 1 .. half.count - p /\ i + p \in 1 .. half.count
        BY <1>2, <1>p, <2>1, <2>2
      <4>3. kept[i] = old[i + p]
        BY <1>8, <4>2
      <4>4. old[i + p] = half.buffer[Wrap(half.head + (i + p) - 1)]
        BY <1>5, <4>2
      <4> QED
        BY <4>1, <4>3, <4>4
    <3>2. Wrap(ring.head + i - 1) = Wrap(half.head + (i + p) - 1)
      <4> DEFINE a == half.head + p
                 b == i - 1
      <4>1. a \in Nat /\ b \in Nat /\ a + b < FIFO_DEPTH + FIFO_DEPTH
        BY <1>2, <1>p, <2>1, <2>2
      <4>2. ring.head + i - 1 = Wrap(a) + b /\ half.head + (i + p) - 1 = a + b
        <5>1. ring.head \in Int
          BY <1>2, <1>4, <1>p DEF Wrap
        <5>2. i \in Int /\ half.head \in Int /\ half.count \in Int /\ p \in Int
          BY <1>2, <1>p, <2>1
        <5>3. Wrap(a) = ring.head
          BY <1>4
        <5> QED
          BY <5>1, <5>2, <5>3
      <4> HIDE DEF a, b
      <4>3. Wrap(Wrap(a) + b) = Wrap(a + b)
        BY <4>1, WrapAdds
      <4> QED
        BY <4>2, <4>3
    <3>3. push => Wrap(half.head + (i + p) - 1) # half.tail
      BY <1>2, <1>3, <1>p, <2>1, <2>2, SMTT(30) DEF Wrap
    <3>4. Wrap(half.head + (i + p) - 1) \in 0 .. FIFO_DEPTH - 1
      BY <1>2, <1>p, <2>1, <2>2, SMTT(30) DEF Wrap
    <3>5. ring.buffer[Wrap(ring.head + i - 1)]
            = half.buffer[Wrap(half.head + (i + p) - 1)]
      BY <1>2, <1>7, <3>2, <3>3, <3>4
    <3> QED
      BY <1>6, <3>1, <3>5
  <2>3. CASE i > half.count - p
    <3>1. push /\ i = half.count - p + 1
      BY <1>2, <1>p, <2>1, <2>3
    <3>2. (kept \o added)[i] = char
      BY <1>2, <1>8, <1>9, <1>10, <1>p, <3>1
    <3>3. Wrap(ring.head + i - 1) = half.tail
      <4> DEFINE a == half.head + p
                 b == half.count - p
      <4>1. a \in Nat /\ b \in Nat /\ a + b < FIFO_DEPTH + FIFO_DEPTH
        BY <1>2, <1>p
      <4>2. ring.head + i - 1 = Wrap(a) + b /\ half.head + half.count = a + b
        <5>1. ring.head \in Int
          BY <1>2, <1>4, <1>p DEF Wrap
        <5>2. i \in Int /\ half.head \in Int /\ half.count \in Int /\ p \in Int
          BY <1>2, <1>p, <3>1
        <5>3. Wrap(a) = ring.head
          BY <1>4
        <5> QED
          BY <5>1, <5>2, <5>3, <3>1
      <4> HIDE DEF a, b
      <4>3. Wrap(Wrap(a) + b) = Wrap(a + b)
        BY <4>1, WrapAdds
      <4> QED
        BY <1>3, <4>2, <4>3
    <3> QED
      BY <1>2, <1>3, <1>6, <1>7, <3>1, <3>2, <3>3
  <2>4. i <= half.count - p \/ i > half.count - p
    BY <1>p, <2>1
  <2> QED
    BY <2>2, <2>3, <2>4
<1>12. new = kept \o added
  BY <1>6, <1>10, <1>11, SeqEqual
<1> QED
  BY <1>12 DEF new, kept, added, ring, old

-----------------------------------------------------------------------------
(* The two halves of the port in one cycle.                                 *)

SameRing(a, b) ==
  /\ b.buffer = a.buffer /\ b.head = a.head /\ b.tail = a.tail
  /\ b.count = a.count

(* The bits of a frame do not touch the ring.                               *)
Framed(half, state, bit_idx, shift) ==
  [half EXCEPT !.state = state, !.bit_idx = bit_idx, !.shift = shift]
FrameIs(half, new, state, shift) ==
  /\ U!HalfOK(new) /\ SameRing(half, new)
  /\ new.state = state /\ new.shift = shift

(* Framed does what it says, and keeps the types.                          *)
LEMMA FrameUpdate ==
  ASSUME NEW half, U!HalfOK(half), NEW state \in U!States,
         NEW bit_idx \in 0 .. BITS - 1, NEW shift \in Chars
  PROVE  FrameIs(half, Framed(half, state, bit_idx, shift), state, shift)
<1> DEFINE new == Framed(half, state, bit_idx, shift)
<1>1. new \in U!Halves
  BY DEF U!HalfOK, U!Halves, Framed
<1>2. /\ SameRing(half, new)
      /\ new.state = state /\ new.shift = shift
  BY DEF U!HalfOK, U!Halves, SameRing, Framed
<1> HIDE DEF new
<1>3. U!HalfOK(new)
  BY <1>1, <1>2 DEF U!HalfOK, SameRing
<1> QED
  BY <1>2, <1>3 DEF new, FrameIs

(* The end of a bit leaves the ring and the character of the frame, but for *)
(* the end of its data bits, and ends the frame at its stop bit.            *)
LEMMA NextBitFrame ==
  ASSUME NEW half, U!HalfOK(half), NEW last, U!HalfOK(last), SameRing(half, last),
         NEW new, new = U!NextBit(half, last)
  PROVE  /\ U!HalfOK(new) /\ SameRing(half, new)
         /\ half.state \in {"IDLE", "STOP"} <=> new.state = "IDLE"
         /\ new.shift \in {half.shift, last.shift}
<1>1. /\ half.bit_idx \in 0 .. BITS - 1 /\ 0 \in 0 .. BITS - 1
      /\ half.bit_idx # BITS - 1 => half.bit_idx + 1 \in 0 .. BITS - 1
      /\ half.shift \in Chars /\ last.shift \in Chars
      /\ last.bit_idx \in 0 .. BITS - 1
      /\ half.state \in U!States
  BY UartAssumption, SMTT(30) DEF U!Parameters, U!HalfOK, U!Halves
<1>s. {"IDLE", "DATA", "STOP"} \subseteq U!States
  BY DEF U!States
<1>2. CASE half.state = "START"
  <2>1. new = Framed(half, "DATA", 0, half.shift)
    BY <1>2 DEF U!NextBit, U!HalfOK, U!Halves, Framed
  <2>2. FrameIs(half, new, "DATA", half.shift)
    BY <1>1, <1>s, <1>2, <2>1, FrameUpdate
  <2> QED
    BY <1>2, <2>2 DEF FrameIs
<1>3. CASE half.state = "DATA" /\ half.bit_idx = BITS - 1
  <2>1. new = Framed(last, "STOP", last.bit_idx, last.shift)
    BY <1>3 DEF U!NextBit, U!HalfOK, U!Halves, Framed
  <2>2. FrameIs(last, new, "STOP", last.shift)
    BY <1>1, <1>s, <2>1, FrameUpdate
  <2> QED
    BY <1>3, <2>2 DEF FrameIs, SameRing
<1>4. CASE half.state = "DATA" /\ half.bit_idx # BITS - 1
  <2>1. new = Framed(half, "DATA", half.bit_idx + 1, half.shift)
    BY <1>4 DEF U!NextBit, U!HalfOK, U!Halves, Framed
  <2>2. FrameIs(half, new, "DATA", half.shift)
    BY <1>1, <1>s, <1>4, <2>1, FrameUpdate
  <2> QED
    BY <1>4, <2>2 DEF FrameIs
<1>5. CASE half.state = "STOP"
  <2>1. new = Framed(half, "IDLE", half.bit_idx, half.shift)
    BY <1>5 DEF U!NextBit, U!HalfOK, U!Halves, Framed
  <2>2. FrameIs(half, new, "IDLE", half.shift)
    BY <1>1, <1>s, <1>5, <2>1, FrameUpdate
  <2> QED
    BY <1>5, <2>2 DEF FrameIs
<1>6. CASE half.state = "IDLE"
  <2>1. new = half
    BY <1>6 DEF U!NextBit
  <2> QED
    BY <1>6, <2>1 DEF SameRing
<1> QED
  BY <1>1, <1>2, <1>3, <1>4, <1>5, <1>6 DEF U!States

(* A frame and the buffer behind it.                                        *)
OnLine(half) == IF half.state = "IDLE" THEN <<>> ELSE <<half.shift>>
One(b, char) == IF b THEN <<char>> ELSE <<>>

(* The characters in a ring are those of its four members.                  *)
LEMMA SameBuffered ==
  ASSUME NEW a, NEW b, SameRing(a, b)
  PROVE  U!Buffered(b) = U!Buffered(a)
BY DEF SameRing, U!Buffered

(* The transmitter: what it takes in goes behind what it has, and a frame  *)
(* that ends carries the first of it away; without a write its buffer does *)
(* not fill.                                                                *)
LEMMA TransmitStep ==
  ASSUME U!HalfOK(tx), uart_ctrl \in U!Controls,
         NEW bus, bus.char \in Chars, NEW tick \in BOOLEAN
  PROVE  /\ U!HalfOK(U!Transmit(bus, tick))
         /\ One(U!FrameSent(tick), tx.shift)
              \o (OnLine(U!Transmit(bus, tick)) \o U!Buffered(U!Transmit(bus, tick)))
              = (OnLine(tx) \o U!Buffered(tx)) \o One(U!tx_push(bus), bus.char)
         /\ ~ U!tx_push(bus) => U!Transmit(bus, tick).count <= tx.count
         /\ U!Buffered(U!Transmit(bus, tick))
              = (IF U!tx_pop(tick) THEN Tail(U!Buffered(tx)) ELSE U!Buffered(tx))
                \o One(U!tx_push(bus), bus.char)
<1> DEFINE new == U!Transmit(bus, tick)
           push == U!tx_push(bus)
           pop == U!tx_pop(tick)
           ring == U!Ring(tx, push, pop, bus.char)
           old == U!Buffered(tx)
           added == One(push, bus.char)
<1>1. /\ push \in BOOLEAN /\ pop \in BOOLEAN
      /\ push => tx.count < FIFO_DEPTH
      /\ pop => tx.count # 0
  BY DEF U!tx_push, U!tx_pop
<1>2. /\ U!HalfOK(ring) /\ ring.state = tx.state /\ ring.shift = tx.shift
      /\ ~ push => ring.count <= tx.count
      /\ U!Buffered(ring) = (IF pop THEN Tail(old) ELSE old) \o added
  <2>1. U!HalfOK(ring)
    BY <1>1, RingTypes
  <2>2. ring.state = tx.state /\ ring.shift = tx.shift
        /\ (~ push => ring.count <= tx.count)
    <3>1. Moved(tx, ring, push, pop, bus.char)
      BY RingMembers
    <3>2. tx.count \in Nat
      BY DepthTurn DEF U!HalfOK, U!Halves
    <3> HIDE DEF ring, push, pop
    <3> QED
      BY <3>1, <3>2 DEF Moved
  <2>3. U!Buffered(ring) = (IF pop THEN Tail(old) ELSE old) \o added
    BY <1>1, RingFifo DEF One
  <2> QED
    BY <2>1, <2>2, <2>3
<1>3. old \in Seq(Chars) /\ Len(old) = tx.count /\ tx.shift \in Chars
  BY BufferedAt DEF U!HalfOK, U!Halves
<1>4. added \in Seq(Chars)
  BY DEF One
<1>5. CASE pop
  <2>1. new = Framed(ring, "START", 0, tx.buffer[tx.head])
    BY <1>5 DEF U!Transmit, Framed
  <2>2. tx.buffer[tx.head] = Head(old)
    <3>1. tx.count \in Nat /\ tx.head \in 0 .. FIFO_DEPTH - 1
      BY DepthTurn DEF U!HalfOK, U!Halves
    <3>2. 1 \in 1 .. tx.count /\ Wrap(tx.head + 1 - 1) = tx.head
      BY <1>1, <1>5, <3>1, DepthTurn DEF Wrap
    <3>3. old[1] = tx.buffer[tx.head]
      BY <3>2, BufferedAt
    <3> HIDE DEF old
    <3> QED
      BY <1>1, <1>3, <1>5, <3>1, <3>3
  <2> HIDE DEF new, ring, old, pop, push, added
  <2>3. old # <<>>
    BY <1>1, <1>3, <1>5
  <2>4. /\ Head(old) \in Chars /\ Tail(old) \in Seq(Chars)
        /\ old = <<Head(old)>> \o Tail(old)
    BY <1>3, <2>3
  <2>5. FrameIs(ring, new, "START", Head(old))
    <3>1. "START" \in U!States /\ 0 \in 0 .. BITS - 1
      BY UartAssumption DEF U!States, U!Parameters
    <3> QED
      BY <1>2, <2>1, <2>2, <2>4, <3>1, FrameUpdate
  <2>6. U!Buffered(new) = Tail(old) \o added /\ OnLine(new) = <<Head(old)>>
    BY <1>2, <1>5, <2>5, SameBuffered DEF FrameIs, OnLine
  <2>7. tx.state = "IDLE"
    BY <1>5 DEF pop, U!tx_pop
  <2>8. One(U!FrameSent(tick), tx.shift) = <<>> /\ OnLine(tx) = <<>>
    BY <2>7 DEF One, OnLine, U!FrameSent
  <2>9. <<>> \o (<<Head(old)>> \o (Tail(old) \o added)) = (<<>> \o old) \o added
    BY <1>3, <1>4, <2>4
  <2> QED
    BY <1>2, <1>5, <2>5, <2>6, <2>8, <2>9
    DEF FrameIs, SameRing, new, old, added, push, pop
<1>6. CASE ~ pop
  <2>1. U!Buffered(ring) = old \o added
    BY <1>2, <1>6
  <2>2. /\ U!HalfOK(new) /\ SameRing(ring, new) /\ new.shift = tx.shift
        /\ new.state = "IDLE" <=> tx.state = "IDLE" \/ U!FrameSent(tick)
    <3>1. CASE tick /\ uart_ctrl.uart_en
      <4>1. new = U!NextBit(ring, ring)
        BY <1>6, <3>1 DEF U!Transmit
      <4> HIDE DEF new, ring
      <4>2. /\ U!HalfOK(new) /\ SameRing(ring, new)
            /\ ring.state \in {"IDLE", "STOP"} <=> new.state = "IDLE"
            /\ new.shift \in {ring.shift, ring.shift}
        BY <1>2, <4>1, NextBitFrame DEF SameRing
      <4> QED
        BY <1>2, <3>1, <4>2 DEF U!FrameSent
    <3>2. CASE ~ (tick /\ uart_ctrl.uart_en)
      <4>1. new = ring
        BY <1>6, <3>2 DEF U!Transmit
      <4> QED
        BY <1>2, <3>2, <4>1 DEF SameRing, U!FrameSent
    <3> QED
      BY <3>1, <3>2
  <2> HIDE DEF new, ring, old, pop, push, added
  <2>3. U!Buffered(new) = old \o added
    BY <2>1, <2>2, SameBuffered
  <2>4. CASE U!FrameSent(tick)
    <3>1. OnLine(new) = <<>> /\ OnLine(tx) = <<tx.shift>>
          /\ One(U!FrameSent(tick), tx.shift) = <<tx.shift>>
      BY <2>2, <2>4 DEF OnLine, One, U!FrameSent
    <3>2. <<tx.shift>> \o (<<>> \o (old \o added)) = (<<tx.shift>> \o old) \o added
      BY <1>3, <1>4
    <3> QED
      BY <1>2, <1>6, <2>2, <2>3, <3>1, <3>2
      DEF SameRing, new, old, added, push, pop
  <2>5. CASE ~ U!FrameSent(tick)
    <3>1. OnLine(new) = OnLine(tx) /\ One(U!FrameSent(tick), tx.shift) = <<>>
      BY <2>2, <2>5 DEF OnLine, One
    <3>2. OnLine(tx) \in Seq(Chars)
      BY <1>3 DEF OnLine
    <3>3. <<>> \o (OnLine(tx) \o (old \o added)) = (OnLine(tx) \o old) \o added
      BY <1>3, <1>4, <3>2
    <3> QED
      BY <1>2, <1>6, <2>2, <2>3, <3>1, <3>3
      DEF SameRing, new, old, added, push, pop
  <2> QED
    BY <2>4, <2>5
<1> QED
  BY <1>5, <1>6

(* A reset half holds nothing.                                              *)
LEMMA ResetHalf ==
  ASSUME NEW half, U!HalfOK(half)
  PROVE  U!HalfOK(U!Reset(half)) /\ U!Buffered(U!Reset(half)) = <<>>
<1> DEFINE new == U!Reset(half)
<1>1. /\ FIFO_DEPTH \in Nat \ {0} /\ 0 % FIFO_DEPTH = 0
      /\ BITS \in Nat \ {0} /\ 0 \in Chars
  BY DepthTurn, UartAssumption DEF U!Parameters
<1>2. new = [buffer |-> half.buffer, head |-> 0, tail |-> 0, count |-> 0,
             state |-> "IDLE", bit_idx |-> 0, shift |-> 0]
  BY DEF U!Reset, U!Empty
<1> HIDE DEF new
<1>3. U!HalfOK(new)
  BY <1>1, <1>2 DEF U!HalfOK, U!Halves, U!States
<1>4. Len(U!Buffered(new)) = 0 /\ U!Buffered(new) \in Seq(Chars)
  BY <1>2, <1>3, BufferedAt
<1>5. U!Buffered(new) = <<>>
  BY <1>4
<1> QED
  BY <1>3, <1>5 DEF new

(* The receiver: a character that finds room goes behind those it has, and *)
(* a read takes the first away.                                             *)
LEMMA ReceiveStep ==
  ASSUME U!HalfOK(rx), uart_ctrl \in U!Controls, NEW bus,
         NEW tick \in BOOLEAN, NEW falling \in BOOLEAN, NEW char \in Chars
  PROVE  /\ U!HalfOK(U!Receive(bus, tick, falling, char))
         /\ U!Buffered(U!Receive(bus, tick, falling, char))
              = (IF U!rx_pop(bus) THEN Tail(U!Buffered(rx)) ELSE U!Buffered(rx))
                \o One(U!Kept(tick), rx.shift)
<1> DEFINE new == U!Receive(bus, tick, falling, char)
           push == U!Kept(tick)
           pop == U!rx_pop(bus)
           ring == U!Ring(rx, push, pop, rx.shift)
           last == [ring EXCEPT !.shift = char]
<1>1. /\ push \in BOOLEAN /\ pop \in BOOLEAN /\ rx.shift \in Chars
      /\ push => rx.count < FIFO_DEPTH
      /\ pop => rx.count # 0
  BY DEF U!Kept, U!rx_push, U!rx_pop, U!HalfOK, U!Halves
<1>2. /\ U!HalfOK(ring)
      /\ U!Buffered(ring) = (IF pop THEN Tail(U!Buffered(rx)) ELSE U!Buffered(rx))
                            \o One(push, rx.shift)
  <2>1. U!HalfOK(ring)
    BY <1>1, RingTypes
  <2>2. U!Buffered(ring) = (IF pop THEN Tail(U!Buffered(rx)) ELSE U!Buffered(rx))
                           \o One(push, rx.shift)
    BY <1>1, RingFifo DEF One
  <2> QED
    BY <2>1, <2>2
<1>3. U!HalfOK(last) /\ SameRing(ring, last)
  <2> HIDE DEF ring
  <2>1. last = Framed(ring, ring.state, ring.bit_idx, char)
    BY <1>2 DEF Framed, U!HalfOK, U!Halves
  <2>2. ring.state \in U!States /\ ring.bit_idx \in 0 .. BITS - 1
    BY <1>2 DEF U!HalfOK, U!Halves
  <2>3. FrameIs(ring, last, ring.state, char)
    BY <1>2, <2>1, <2>2, FrameUpdate
  <2> QED
    BY <2>3 DEF FrameIs
<1>4. U!HalfOK(new) /\ SameRing(ring, new)
  <2>0. \/ new = ring
        \/ new = [ring EXCEPT !.state = "START"]
        \/ new = [ring EXCEPT !.state = "IDLE"]
        \/ new = U!NextBit(ring, last)
    BY DEF U!Receive
  <2> HIDE DEF new, ring, last
  <2>1. CASE new = ring
    BY <1>2, <2>1 DEF SameRing
  <2>2. ASSUME NEW state \in {"START", "IDLE"}, new = [ring EXCEPT !.state = state]
        PROVE  U!HalfOK(new) /\ SameRing(ring, new)
    <3>1. new = Framed(ring, state, ring.bit_idx, ring.shift)
      BY <1>2, <2>2 DEF Framed, U!HalfOK, U!Halves
    <3>2. /\ state \in U!States /\ ring.bit_idx \in 0 .. BITS - 1
          /\ ring.shift \in Chars
      BY <1>2 DEF U!HalfOK, U!Halves, U!States
    <3>3. FrameIs(ring, new, state, ring.shift)
      BY <1>2, <3>1, <3>2, FrameUpdate
    <3> QED
      BY <3>3 DEF FrameIs
  <2>3. CASE new = U!NextBit(ring, last)
    BY <1>2, <1>3, <2>3, NextBitFrame
  <2> QED
    BY <2>0, <2>1, <2>2, <2>3
<1>5. U!Buffered(new) = U!Buffered(ring)
  BY <1>4, SameBuffered
<1> QED
  BY <1>2, <1>4, <1>5

-----------------------------------------------------------------------------
(* The interrupt controller in one cycle.                                   *)

(* What a program puts on its bus.                                          *)
PlicBus(bus) ==
  /\ bus.reg # "read_other"
  /\ bus.id \in P!Ids /\ bus.value \in P!Priorities /\ bus.set \in SUBSET P!Ids

(* The source that is offered to a claim is pending.                        *)
LEMMA OfferedIsPending ==
  ASSUME P!TypeOK, P!claim_valid_next
  PROVE  P!claim_id_next \in pending_regs /\ P!claim_id_next \in P!Ids
<1> DEFINE g == P!Greatest(P!Candidates)
           b == P!Bucket(g)
<1>1. P!Candidates \in SUBSET (0 .. MaxPrio) /\ P!Candidates # {}
  BY DEF P!Candidates, P!Priorities, P!claim_valid_next
<1>2. PICK p \in P!Candidates : \A j \in P!Candidates : p >= j
  BY <1>1, GreatestExists, PlicAssumption
<1>5. g \in P!Candidates
  BY <1>2 DEF P!Greatest
<1>6. b # {} /\ b \subseteq pending_regs
  BY <1>5 DEF P!Candidates, P!Bucket, P!eligible_irqs
<1>7. pending_regs \subseteq P!Ids /\ P!Ids \subseteq Nat
  BY PlicAssumption DEF P!TypeOK, P!Sources, P!Ids
<1>8. PICK x \in b : \A j \in b : x <= j
  BY <1>6, <1>7, LeastExists
<1>9. P!Least(b) \in b
  BY <1>8 DEF P!Least
<1> QED
  BY <1>6, <1>7, <1>9 DEF P!claim_id_next

(* The controller keeps its types; what its claim register offers then is  *)
(* pending now.                                                             *)
LEMMA PlicStep ==
  ASSUME P!TypeOK, plic_rdata \in P!Ids, NEW lines \in SUBSET P!Ids,
         NEW bus, PlicBus(bus), P!Clock(lines, bus)
  PROVE  /\ P!TypeOK' /\ plic_rdata' \in P!Ids
         /\ claim_valid_r' => claim_id_r' \in pending_regs
<1>1. /\ 0 \in P!Ids
      /\ P!claim_id_next \in P!Ids
      /\ P!claim_valid_next => P!claim_id_next \in pending_regs
  <2>1. 0 \in P!Ids
    BY PlicAssumption DEF P!Ids, UART_TX_INT_ID
  <2> QED
    BY <2>1, OfferedIsPending DEF P!claim_id_next
<1>2. P!claim_mask(bus) \in SUBSET P!Ids
  BY DEF P!claim_mask, P!TypeOK
<1>3. /\ priority_regs' \in [P!Ids -> P!Priorities] /\ priority_regs'[0] = 0
      /\ enable_regs' \subseteq P!Sources /\ threshold_reg' \in P!Priorities
  BY DEF P!Clock, P!write_reg, P!TypeOK, P!Sources, PlicBus
<1>4. pending_regs' \subseteq P!Sources /\ in_service_regs' \subseteq P!Sources
  BY <1>2 DEF P!Clock, P!pending_next, P!in_service_next, P!TypeOK, P!Sources
<1>5. claim_id_r' \in P!Ids /\ claim_valid_r' \in BOOLEAN /\ plic_irq' \in BOOLEAN
  BY <1>1 DEF P!Clock, P!claim_valid_next
<1>6. plic_rdata' \in P!Ids
  BY <1>1 DEF P!Clock, P!TypeOK, PlicBus
<1>7. claim_valid_r' => claim_id_r' \in pending_regs
  BY <1>1 DEF P!Clock
<1> QED
  BY <1>3, <1>4, <1>5, <1>6, <1>7 DEF P!TypeOK

-----------------------------------------------------------------------------
(* The port in one cycle.                                                   *)

PortOK == U!TypeOK /\ line \in Chars
UartBus(bus) ==
  /\ bus.op \in {"none", "read_data", "read_status", "write_data", "write_ctrl"}
  /\ bus.char \in Chars /\ bus.ctrl \in U!Controls

(* It keeps its types, whatever the access.                                *)
LEMMA PortStep ==
  ASSUME U!TypeOK,
         NEW bus, bus.char \in Chars, bus.ctrl \in U!Controls,
         NEW tx_tick \in BOOLEAN, NEW rx_tick \in BOOLEAN,
         NEW falling \in BOOLEAN, NEW char \in Chars,
         U!Clock(bus, tx_tick, rx_tick, falling, char)
  PROVE  U!TypeOK'
<1>0. /\ U!HalfOK(tx) /\ U!HalfOK(rx) /\ uart_ctrl \in U!Controls
      /\ overflow_error \in BOOLEAN /\ uart_rdata \in 0 .. 255
      /\ flags \in U!Flags
  BY DEF U!TypeOK
<1>1. U!HalfOK(tx') /\ U!HalfOK(rx')
  <2>1. CASE bus.op = "soft_reset"
    <3>1. tx' = U!Reset(tx) /\ rx' = U!Reset(rx)
      BY <2>1 DEF U!Clock
    <3> QED
      BY <1>0, <3>1, ResetHalf
  <2>2. CASE bus.op # "soft_reset"
    <3>1. /\ tx' = U!Transmit(bus, tx_tick)
          /\ rx' = U!Receive(bus, rx_tick, falling, char)
      BY <2>2 DEF U!Clock
    <3> QED
      BY <1>0, <3>1, TransmitStep, ReceiveStep
  <2> QED
    BY <2>1, <2>2
<1>3. uart_ctrl' \in U!Controls
  BY <1>0 DEF U!Clock
<1>4. overflow_error' \in BOOLEAN
  BY DEF U!Clock
<1>5. uart_rdata' \in 0 .. 255
  <2>1. U!uart_status \in 0 .. 255
    BY <1>0 DEF U!uart_status, U!Bit, U!Flags
  <2>2. rx.count # 0 => rx.buffer[rx.head] \in 0 .. 255
    BY <1>0, UartAssumption DEF U!HalfOK, U!Halves, U!Parameters
  <2>3. \/ uart_rdata' = U!uart_status
        \/ uart_rdata' = 0
        \/ rx.count # 0 /\ uart_rdata' = rx.buffer[rx.head]
        \/ uart_rdata' = uart_rdata
    BY DEF U!Clock
  <2> QED
    BY <1>0, <2>1, <2>2, <2>3
<1>6. flags' \in U!Flags
  BY <1>0 DEF U!Clock, U!Status, U!Flags, U!HalfOK, U!Halves, U!Controls
<1> QED
  BY <1>1, <1>3, <1>4, <1>5, <1>6 DEF U!TypeOK, U!HalfOK, U!Halves

-----------------------------------------------------------------------------
(* The port on its own, under every access there is, a soft reset in the    *)
(* middle of a frame among them.                                            *)

TxFifo == INSTANCE Fifo
            WITH Items <- Chars, Capacity <- FIFO_DEPTH, q <- U!Buffered(tx)
RxFifo == INSTANCE Fifo
            WITH Items <- Chars, Capacity <- FIFO_DEPTH, q <- U!Buffered(rx)

LEMMA LeastOfOne ==
  ASSUME NEW n \in Nat, n # 0
  PROVE  TxFifo!Least(1, n) = 1
  BY DEF TxFifo!Least

(* A queue that gives away its oldest character, or takes one in for which  *)
(* there is room, or both, does what Fifo says.                             *)
LEMMA Exchanged ==
  ASSUME NEW old \in Seq(Chars), Len(old) <= FIFO_DEPTH, NEW char \in Chars,
         NEW pop \in BOOLEAN, NEW push \in BOOLEAN,
         pop => Len(old) # 0, push => Len(old) < FIFO_DEPTH
  PROVE  LET n == IF pop THEN 1 ELSE 0
             rest == SubSeq(old, TxFifo!Least(n, Len(old)) + 1, Len(old))
             offer == One(push, char)
         IN  (IF pop THEN Tail(old) ELSE old) \o offer
               = rest \o SubSeq(offer, 1, TxFifo!Least(Len(offer), FIFO_DEPTH - Len(rest)))
<1> DEFINE rest == SubSeq(old, TxFifo!Least(IF pop THEN 1 ELSE 0, Len(old)) + 1, Len(old))
           offer == One(push, char)
           kept == IF pop THEN Tail(old) ELSE old
<1>1. FIFO_DEPTH \in Nat
  BY DepthTurn
<1>2. rest = kept
  <2>1. CASE pop
    <3>0. Len(old) \in Nat /\ Len(old) # 0
      BY <2>1
    <3>1. TxFifo!Least(1, Len(old)) = 1
      BY <3>0, LeastOfOne
    <3>2. rest = SubSeq(old, 2, Len(old))
      BY <2>1, <3>1
    <3>3. Tail(old) = SubSeq(old, 2, Len(old))
      BY <2>1
    <3> QED
      BY <2>1, <3>2, <3>3
  <2>2. CASE ~ pop
    <3>1. TxFifo!Least(0, Len(old)) = 0
      BY DEF TxFifo!Least
    <3>2. rest = SubSeq(old, 1, Len(old))
      BY <2>2, <3>1
    <3>3. SubSeq(old, 1, Len(old)) = old
      OBVIOUS
    <3> QED
      BY <2>2, <3>2, <3>3
  <2> QED
    BY <2>1, <2>2
<1>3. kept \in Seq(Chars) /\ Len(kept) <= Len(old)
  BY SMTT(20)
<1> HIDE DEF rest, kept
<1>4. SubSeq(offer, 1, TxFifo!Least(Len(offer), FIFO_DEPTH - Len(rest))) = offer
  <2>1. CASE push
    <3>1. offer = <<char>> /\ Len(offer) = 1
      BY <2>1 DEF One
    <3>2. TxFifo!Least(1, FIFO_DEPTH - Len(rest)) = 1
      BY <1>1, <1>2, <1>3, <2>1 DEF TxFifo!Least
    <3>3. SubSeq(<<char>>, 1, 1) = <<char>>
      <4>1. <<char>> \in Seq(Chars) /\ Len(<<char>>) = 1
        OBVIOUS
      <4> QED
        BY <4>1, SubSeqFull
    <3> QED
      BY <3>1, <3>2, <3>3
  <2>2. CASE ~ push
    <3>1. offer = <<>> /\ Len(offer) = 0
      BY <2>2 DEF One
    <3>2. TxFifo!Least(0, FIFO_DEPTH - Len(rest)) = 0
      BY <1>1, <1>2, <1>3 DEF TxFifo!Least
    <3>3. SubSeq(<<>>, 1, 0) = <<>>
      OBVIOUS
    <3> QED
      BY <3>1, <3>2, <3>3
  <2> QED
    BY <2>1, <2>2
<1> QED
  BY <1>2, <1>4 DEF rest, kept

(* One clock edge is a step of both buffers.                                *)
LEMMA PortCycle ==
  ASSUME U!TypeOK, NEW bus \in U!Accesses,
         NEW tx_tick \in BOOLEAN, NEW rx_tick \in BOOLEAN,
         NEW falling \in BOOLEAN, NEW char \in Chars,
         U!Clock(bus, tx_tick, rx_tick, falling, char)
  PROVE  U!TypeOK' /\ TxFifo!Next /\ RxFifo!Next
<1>1. /\ U!HalfOK(tx) /\ U!HalfOK(rx) /\ uart_ctrl \in U!Controls
  BY DEF U!TypeOK
<1>2. bus.char \in Chars /\ bus.ctrl \in U!Controls
  <2>1. 0 \in Chars /\ U!Off \in U!Controls
    BY UartAssumption DEF U!Parameters, U!Off, U!Control, U!Controls
  <2>2. \/ bus \in {U!Idle, U!ReadData, U!ReadStatus, U!ClearOverflow}
        \/ \E c \in Chars : bus = U!WriteData(c)
        \/ \E ctrl \in U!Controls : bus = U!WriteCtrl(ctrl)
        \/ \E ctrl \in U!Controls : bus = U!SoftReset(ctrl)
    BY DEF U!Accesses
  <2>3. CASE bus \in {U!Idle, U!ReadData, U!ReadStatus, U!ClearOverflow}
    BY <2>1, <2>3
    DEF U!Idle, U!ReadData, U!ReadStatus, U!ClearOverflow, U!Access
  <2>4. CASE \E c \in Chars : bus = U!WriteData(c)
    BY <2>1, <2>4 DEF U!WriteData, U!Access
  <2>5. CASE \E ctrl \in U!Controls : bus = U!WriteCtrl(ctrl)
    BY <2>1, <2>5 DEF U!WriteCtrl, U!Access
  <2>6. CASE \E ctrl \in U!Controls : bus = U!SoftReset(ctrl)
    BY <2>1, <2>6 DEF U!SoftReset, U!Access
  <2> QED
    BY <2>2, <2>3, <2>4, <2>5, <2>6
<1>3. U!TypeOK'
  BY <1>2, PortStep
<1>4. CASE bus.op = "soft_reset"
  <2>1. tx' = U!Reset(tx) /\ rx' = U!Reset(rx)
    BY <1>4 DEF U!Clock
  <2>2. U!Buffered(tx)' = <<>> /\ U!Buffered(rx)' = <<>>
    <3>1. /\ U!Buffered(tx)' = U!Buffered(U!Reset(tx))
          /\ U!Buffered(rx)' = U!Buffered(U!Reset(rx))
      BY <2>1 DEF U!Buffered
    <3> QED
      BY <1>1, <3>1, ResetHalf
  <2> QED
    BY <1>3, <2>2 DEF TxFifo!Next, TxFifo!Flush, RxFifo!Next, RxFifo!Flush
<1>5. CASE bus.op # "soft_reset"
  <2>1. /\ tx' = U!Transmit(bus, tx_tick)
        /\ rx' = U!Receive(bus, rx_tick, falling, char)
    BY <1>5 DEF U!Clock
  <2>2. TxFifo!Next
    <3> DEFINE push == U!tx_push(bus)
               pop == U!tx_pop(tx_tick)
               old == U!Buffered(tx)
               n == IF pop THEN 1 ELSE 0
               offer == One(push, bus.char)
    <3>1. /\ push \in BOOLEAN /\ pop \in BOOLEAN
          /\ push => tx.count < FIFO_DEPTH
          /\ pop => tx.count # 0
      BY DEF U!tx_push, U!tx_pop
    <3>2. U!Buffered(tx)' = (IF pop THEN Tail(old) ELSE old) \o offer
      <4>1. U!Buffered(U!Transmit(bus, tx_tick))
              = (IF pop THEN Tail(old) ELSE old) \o offer
        BY <1>1, <1>2, TransmitStep
      <4>2. U!Buffered(tx)' = U!Buffered(U!Transmit(bus, tx_tick))
        BY <2>1 DEF U!Buffered
      <4> QED
        BY <4>1, <4>2
    <3>3. old \in Seq(Chars) /\ Len(old) = tx.count /\ tx.count <= FIFO_DEPTH
      <4>1. old \in Seq(Chars) /\ Len(old) = tx.count
        BY <1>1, BufferedAt
      <4>2. tx.count <= FIFO_DEPTH
        BY <1>1, DepthTurn DEF U!HalfOK, U!Halves
      <4> QED
        BY <4>1, <4>2
    <3>4. n \in 0 .. 2 /\ offer \in TxFifo!Offers
      BY <1>2 DEF TxFifo!Offers, One
    <3>5. TxFifo!Exchange(n, offer)
      <4> HIDE DEF push, pop, old
      <4>1. (IF pop THEN Tail(old) ELSE old) \o offer
              = SubSeq(old, TxFifo!Least(n, Len(old)) + 1, Len(old))
                \o SubSeq(offer, 1,
                          TxFifo!Least(Len(offer),
                            FIFO_DEPTH
                            - Len(SubSeq(old, TxFifo!Least(n, Len(old)) + 1, Len(old)))))
        BY <1>2, <3>1, <3>3, Exchanged
      <4> QED
        BY <3>2, <4>1 DEF TxFifo!Exchange, TxFifo!Rest, TxFifo!Accepted, old
    <3> HIDE DEF n, offer
    <3> QED
      BY <3>4, <3>5 DEF TxFifo!Next
  <2>3. RxFifo!Next
    <3> DEFINE push == U!Kept(rx_tick)
               pop == U!rx_pop(bus)
               old == U!Buffered(rx)
               n == IF pop THEN 1 ELSE 0
               offer == One(push, rx.shift)
    <3>1. /\ push \in BOOLEAN /\ pop \in BOOLEAN /\ rx.shift \in Chars
          /\ push => rx.count < FIFO_DEPTH
          /\ pop => rx.count # 0
      BY <1>1 DEF U!Kept, U!rx_push, U!rx_pop, U!HalfOK, U!Halves
    <3>2. U!Buffered(rx)' = (IF pop THEN Tail(old) ELSE old) \o offer
      <4>1. U!Buffered(U!Receive(bus, rx_tick, falling, char))
              = (IF pop THEN Tail(old) ELSE old) \o offer
        BY <1>1, ReceiveStep
      <4>2. U!Buffered(rx)' = U!Buffered(U!Receive(bus, rx_tick, falling, char))
        BY <2>1 DEF U!Buffered
      <4> QED
        BY <4>1, <4>2
    <3>3. old \in Seq(Chars) /\ Len(old) = rx.count /\ rx.count <= FIFO_DEPTH
      <4>1. old \in Seq(Chars) /\ Len(old) = rx.count
        BY <1>1, BufferedAt
      <4>2. rx.count <= FIFO_DEPTH
        BY <1>1, DepthTurn DEF U!HalfOK, U!Halves
      <4> QED
        BY <4>1, <4>2
    <3>4. n \in 0 .. 2 /\ offer \in RxFifo!Offers
      BY <3>1 DEF RxFifo!Offers, One
    <3>5. RxFifo!Exchange(n, offer)
      <4> HIDE DEF push, pop, old
      <4>1. (IF pop THEN Tail(old) ELSE old) \o offer
              = SubSeq(old, TxFifo!Least(n, Len(old)) + 1, Len(old))
                \o SubSeq(offer, 1,
                          TxFifo!Least(Len(offer),
                            FIFO_DEPTH
                            - Len(SubSeq(old, TxFifo!Least(n, Len(old)) + 1, Len(old)))))
        BY <3>1, <3>3, Exchanged
      <4> QED
        BY <3>2, <4>1
        DEF RxFifo!Exchange, RxFifo!Rest, RxFifo!Accepted, RxFifo!Least, TxFifo!Least, old
    <3> HIDE DEF n, offer
    <3> QED
      BY <3>4, <3>5 DEF RxFifo!Next
  <2> QED
    BY <1>3, <2>2, <2>3
<1> QED
  BY <1>4, <1>5

(* Whatever is written to its registers, in whatever order and at whatever  *)
(* moment, a soft reset in the middle of a frame and the clearing of the    *)
(* overflow flag included, the port keeps its types and its two ring        *)
(* buffers are queues of FIFO_DEPTH characters (UART.sv:260-350).           *)
THEOREM PortBuffersAreFifos ==
  U!Spec => []U!TypeOK /\ TxFifo!Spec /\ RxFifo!Spec
<1>1. U!Init => U!TypeOK /\ TxFifo!Init /\ RxFifo!Init
  <2> SUFFICES ASSUME U!Init PROVE U!TypeOK /\ TxFifo!Init /\ RxFifo!Init
    OBVIOUS
  <2>1. U!HalfOK(U!Empty) /\ U!Buffered(U!Empty) = <<>>
    <3>1. /\ FIFO_DEPTH \in Nat \ {0} /\ BITS \in Nat \ {0} /\ 0 \in Chars
          /\ 0 % FIFO_DEPTH = 0
      BY DepthTurn, UartAssumption DEF U!Parameters
    <3>2. U!HalfOK(U!Empty)
      BY <3>1 DEF U!HalfOK, U!Halves, U!States, U!Empty
    <3>3. /\ U!Buffered(U!Empty) \in Seq(Chars)
          /\ Len(U!Buffered(U!Empty)) = U!Empty.count
      BY <3>2, BufferedAt
    <3>4. U!Empty.count = 0
      BY DEF U!Empty
    <3> QED
      BY <3>2, <3>3, <3>4
  <2>2. U!TypeOK
    <3>1. U!Off \in U!Controls
      BY DEF U!Off, U!Control, U!Controls
    <3>2. flags \in U!Flags
      BY DEF U!Init, U!Flags
    <3>3. /\ uart_ctrl = U!Off /\ tx = U!Empty /\ rx = U!Empty
          /\ overflow_error = FALSE /\ uart_rdata = 0
      BY DEF U!Init
    <3>4. 0 \in 0 .. 255
      OBVIOUS
    <3> QED
      BY <2>1, <3>1, <3>2, <3>3, <3>4 DEF U!TypeOK
  <2> QED
    BY <2>1, <2>2 DEF U!Init, TxFifo!Init, RxFifo!Init
<1>2. U!TypeOK /\ [U!Next]_(U!vars)
        => U!TypeOK' /\ [TxFifo!Next]_(U!Buffered(tx)) /\ [RxFifo!Next]_(U!Buffered(rx))
  <2> SUFFICES ASSUME U!TypeOK, [U!Next]_(U!vars)
               PROVE  /\ U!TypeOK'
                      /\ [TxFifo!Next]_(U!Buffered(tx))
                      /\ [RxFifo!Next]_(U!Buffered(rx))
    OBVIOUS
  <2>1. CASE U!Next
    <3>1. PICK bus \in U!Accesses, tx_tick \in BOOLEAN, rx_tick \in BOOLEAN,
               falling \in BOOLEAN, char \in Chars :
            U!Clock(bus, tx_tick, rx_tick, falling, char)
      BY <2>1 DEF U!Next
    <3> QED
      BY <3>1, PortCycle
  <2>2. CASE UNCHANGED U!vars
    BY <2>2 DEF U!vars, U!TypeOK, U!HalfOK, U!Buffered
  <2> QED
    BY <2>1, <2>2
<1> QED
  BY <1>1, <1>2, PTL DEF U!Spec, TxFifo!Spec, RxFifo!Spec

-----------------------------------------------------------------------------
(* The two and the other side in one cycle.                                 *)

PlicOK == P!TypeOK /\ plic_rdata \in P!Ids
GhostsOK ==
  /\ arriving \in Seq(Chars) /\ ticked \subseteq {"tx", "rx"}
  /\ written \in Seq(Chars) /\ sent \in Seq(Chars)
  /\ arrived \in Seq(Chars) /\ taken \in Seq(Chars)
DeviceOK == PortOK /\ PlicOK /\ GhostsOK

(* The halves of Conserved.                                                 *)
Sending == written = sent \o (OnLine(tx) \o U!Buffered(tx))
Receiving == ~ overflow_error => arrived = taken \o U!Buffered(rx)

(* Transmit keeps the half of Conserved about the transmitter.              *)
LEMMA Sends ==
  ASSUME PortOK, GhostsOK, NEW bus, UartBus(bus), NEW tick \in BOOLEAN,
         tx' = U!Transmit(bus, tick),
         written' = IF U!tx_push(bus) THEN Append(written, bus.char) ELSE written,
         sent' = IF U!FrameSent(tick) THEN Append(sent, tx.shift) ELSE sent
  PROVE  /\ written' \in Seq(Chars) /\ sent' \in Seq(Chars)
         /\ bus.op # "write_data" => tx'.count <= tx.count
         /\ Sending => Sending'
<1> DEFINE one == One(U!FrameSent(tick), tx.shift)
           added == One(U!tx_push(bus), bus.char)
           now == OnLine(tx) \o U!Buffered(tx)
           next == OnLine(tx') \o U!Buffered(tx')
<1>1. /\ tx.shift \in Chars /\ bus.char \in Chars
      /\ U!HalfOK(tx) /\ uart_ctrl \in U!Controls
  BY DEF PortOK, U!TypeOK, U!HalfOK, U!Halves, UartBus
<1>2. U!HalfOK(tx') /\ one \o next = now \o added
      /\ (~ U!tx_push(bus) => tx'.count <= tx.count)
  BY <1>1, TransmitStep
<1>3. /\ written \in Seq(Chars) /\ sent \in Seq(Chars)
      /\ one \in Seq(Chars) /\ added \in Seq(Chars)
  BY <1>1 DEF GhostsOK, One
<1>4. now \in Seq(Chars) /\ next \in Seq(Chars)
  <2>1. U!Buffered(tx) \in Seq(Chars)
    BY <1>1, BufferedAt
  <2>2. U!Buffered(tx') \in Seq(Chars)
    BY <1>2, BufferedAt
  <2>3. OnLine(tx) \in Seq(Chars) /\ OnLine(tx') \in Seq(Chars)
    BY <1>1, <1>2 DEF OnLine, U!HalfOK, U!Halves
  <2> QED
    BY <2>1, <2>2, <2>3
<1>5. written' = written \o added /\ sent' = sent \o one
  BY <1>1, <1>3 DEF One
<1> HIDE DEF one, added, now, next
<1>6. ASSUME written = sent \o now PROVE written' = sent' \o next
  <2>1. (sent \o one) \o next = sent \o (one \o next)
    BY <1>3, <1>4
  <2>2. sent \o (now \o added) = (sent \o now) \o added
    BY <1>3, <1>4
  <2> QED
    BY <1>2, <1>5, <1>6, <2>1, <2>2
<1>7. written' \in Seq(Chars) /\ sent' \in Seq(Chars)
  BY <1>3, <1>5
<1> QED
  BY <1>2, <1>6, <1>7 DEF Sending, now, next, U!tx_push

(* Receive keeps the other half while nothing overflows, if the program     *)
(* reads only what is there.                                                *)
LEMMA Receives ==
  ASSUME PortOK, GhostsOK, NEW bus, UartBus(bus), NEW tick \in BOOLEAN,
         NEW falling \in BOOLEAN,
         rx' = U!Receive(bus, tick, falling, line),
         ~ overflow_error' => ~ overflow_error /\ (U!rx_push(tick) => U!Kept(tick)),
         bus.op = "read_data" =>
           uart_rdata' = IF rx.count # 0 THEN rx.buffer[rx.head] ELSE 0,
         arrived' = IF U!rx_push(tick) THEN Append(arrived, rx.shift) ELSE arrived,
         taken' = IF bus.op = "read_data" THEN Append(taken, uart_rdata') ELSE taken
  PROVE  /\ arrived' \in Seq(Chars) /\ taken' \in Seq(Chars)
         /\ bus.op # "read_data" /\ rx.count # 0 => rx'.count # 0
         /\ bus.op = "read_data" => uart_rdata' \in Chars
         /\ Receiving /\ (bus.op = "read_data" => uart_ctrl.uart_en /\ rx.count # 0)
              => Receiving'
<1> DEFINE old == U!Buffered(rx)
           new == U!Buffered(rx')
           pop == U!rx_pop(bus)
           added == One(U!Kept(tick), rx.shift)
<1>0. U!HalfOK(rx) /\ uart_ctrl \in U!Controls /\ line \in Chars
  BY DEF PortOK, U!TypeOK
<1>1. /\ rx.shift \in Chars /\ 0 \in Chars
      /\ rx.buffer \in [0 .. FIFO_DEPTH - 1 -> Chars]
      /\ rx.head \in 0 .. FIFO_DEPTH - 1 /\ rx.count \in Nat
  <2>1. rx \in U!Halves /\ 0 \in Chars
    BY <1>0, UartAssumption DEF U!HalfOK, U!Parameters
  <2> QED
    BY <2>1, DepthTurn DEF U!Halves
<1>2. /\ U!HalfOK(rx')
      /\ new = (IF pop THEN Tail(old) ELSE old) \o added
  BY <1>0, ReceiveStep
<1>3. old \in Seq(Chars) /\ Len(old) = rx.count
      /\ (rx.count # 0 => old[1] = rx.buffer[rx.head])
  <2>1. rx.count # 0 => 1 \in 1 .. rx.count /\ Wrap(rx.head + 1 - 1) = rx.head
    BY <1>1, DepthTurn DEF Wrap
  <2> QED
    BY <1>0, <2>1, BufferedAt
<1>4. new \in Seq(Chars) /\ Len(new) = rx'.count
  BY <1>2, BufferedAt
<1>5. added \in Seq(Chars) /\ arrived \in Seq(Chars) /\ taken \in Seq(Chars)
  BY <1>1 DEF One, GhostsOK
<1>6. bus.op = "read_data" => uart_rdata' \in Chars
  BY <1>1
<1>7. arrived' \in Seq(Chars) /\ taken' \in Seq(Chars)
  BY <1>1, <1>5, <1>6
<1>8. pop <=> uart_ctrl.uart_en /\ bus.op = "read_data" /\ rx.count # 0
  BY DEF U!rx_pop
<1>9. ~ overflow_error' => arrived' = arrived \o added
  BY <1>1, <1>5 DEF One, U!Kept
<1> HIDE DEF old, new, pop, added
<1>10. bus.op # "read_data" /\ rx.count # 0 => rx'.count # 0
  BY <1>2, <1>3, <1>4, <1>5, <1>8, ConcatProperties
<1>11. ASSUME ~ overflow_error', arrived = taken \o old,
              bus.op = "read_data" => uart_ctrl.uart_en /\ rx.count # 0
       PROVE  arrived' = taken' \o new
  <2>1. CASE bus.op = "read_data"
    <3>1. old # <<>>
      BY <1>3, <1>11, <2>1
    <3>2. /\ Head(old) \in Chars /\ Tail(old) \in Seq(Chars)
          /\ old = <<Head(old)>> \o Tail(old)
      BY <1>3, <3>1
    <3>3. taken' = taken \o <<Head(old)>>
      BY <1>3, <1>5, <1>11, <2>1, <3>2
    <3>4. new = Tail(old) \o added
      BY <1>2, <1>8, <1>11, <2>1
    <3>5. (taken \o (<<Head(old)>> \o Tail(old))) \o added
            = (taken \o <<Head(old)>>) \o (Tail(old) \o added)
      BY <1>5, <3>2
    <3> QED
      BY <1>9, <1>11, <3>2, <3>3, <3>4, <3>5
  <2>2. CASE bus.op # "read_data"
    <3>1. taken' = taken /\ new = old \o added
      BY <1>2, <1>8, <2>2
    <3>2. (taken \o old) \o added = taken \o (old \o added)
      BY <1>3, <1>5
    <3> QED
      BY <1>9, <1>11, <3>1, <3>2
  <2> QED
    BY <2>1, <2>2
<1> QED
  BY <1>6, <1>7, <1>10, <1>11 DEF Receiving, old, new

(* A cycle, with the facts that do not depend on the program.              *)
LEMMA CycleStep ==
  ASSUME DeviceOK, NEW ub, UartBus(ub), NEW pb, PlicBus(pb), Cycle(ub, pb)
  PROVE  /\ DeviceOK'
         /\ ub.op # "write_data" => tx'.count <= tx.count
         /\ ub.op # "read_data" /\ rx.count # 0 => rx'.count # 0
         /\ ub.op = "read_data" => uart_rdata' \in Chars
         /\ Sending => Sending'
         /\ Receiving /\ (ub.op = "read_data" => uart_ctrl.uart_en /\ rx.count # 0)
              => Receiving'
<1>1. PICK bits \in SUBSET {"tx", "rx"},
           falling \in {f \in BOOLEAN : f => arriving # <<>>} :
        /\ ticked' = IF Waiting THEN {} ELSE ticked \cup bits
        /\ P!Clock(peripheral_interrupts, pb)
        /\ U!Clock(ub, "tx" \in bits, "rx" \in bits, falling, line)
        /\ Line(falling)
        /\ written' = IF U!tx_push(ub) THEN Append(written, ub.char) ELSE written
        /\ sent' = IF U!FrameSent("tx" \in bits) THEN Append(sent, tx.shift)
                                                 ELSE sent
        /\ arrived' = IF U!rx_push("rx" \in bits) THEN Append(arrived, rx.shift)
                                                  ELSE arrived
        /\ taken' = IF ub.op = "read_data" THEN Append(taken, uart_rdata') ELSE taken
  BY DEF Cycle
<1>2. PortOK /\ PlicOK /\ GhostsOK
  BY DEF DeviceOK
<1> DEFINE tx_tick == "tx" \in bits
           rx_tick == "rx" \in bits
<1>t. tx_tick \in BOOLEAN /\ rx_tick \in BOOLEAN /\ falling \in BOOLEAN
  OBVIOUS
<1>c. U!Clock(ub, tx_tick, rx_tick, falling, line)
  BY <1>1
<1>g. /\ written' = IF U!tx_push(ub) THEN Append(written, ub.char) ELSE written
      /\ sent' = IF U!FrameSent(tx_tick) THEN Append(sent, tx.shift) ELSE sent
      /\ arrived' = IF U!rx_push(rx_tick) THEN Append(arrived, rx.shift) ELSE arrived
      /\ taken' = IF ub.op = "read_data" THEN Append(taken, uart_rdata') ELSE taken
  BY <1>1
<1>3. PlicOK'
  <2>1. peripheral_interrupts \in SUBSET P!Ids
    BY PlicAssumption
       DEF peripheral_interrupts, Lines, P!Ids, UART_RX_INT_ID, UART_TX_INT_ID
  <2> QED
    BY <1>1, <1>2, <2>1, PlicStep DEF PlicOK
<1>4. U!TypeOK'
  <2>1. /\ U!TypeOK /\ line \in Chars
        /\ ub.char \in Chars /\ ub.ctrl \in U!Controls
    BY <1>2 DEF PortOK, UartBus
  <2> HIDE DEF tx_tick, rx_tick
  <2> QED
    BY <2>1, <1>c, <1>t, PortStep
<1>5. line' \in Chars /\ arriving' \in Seq(Chars)
  BY <1>1, <1>2 DEF Line, PortOK, GhostsOK
<1>6. tx' = U!Transmit(ub, tx_tick) /\ rx' = U!Receive(ub, rx_tick, falling, line)
  BY <1>c DEF U!Clock, UartBus
<1> HIDE DEF tx_tick, rx_tick
<1>7. /\ written' \in Seq(Chars) /\ sent' \in Seq(Chars)
      /\ ub.op # "write_data" => tx'.count <= tx.count
      /\ Sending => Sending'
  BY <1>2, <1>6, <1>g, <1>t, Sends
<1>8. /\ ~ overflow_error' => /\ ~ overflow_error
                              /\ U!rx_push(rx_tick) => U!Kept(rx_tick)
      /\ ub.op = "read_data" =>
           uart_rdata' = IF rx.count # 0 THEN rx.buffer[rx.head] ELSE 0
  BY <1>c DEF U!Clock, UartBus
<1>9. /\ arrived' \in Seq(Chars) /\ taken' \in Seq(Chars)
      /\ ub.op # "read_data" /\ rx.count # 0 => rx'.count # 0
      /\ ub.op = "read_data" => uart_rdata' \in Chars
      /\ Receiving /\ (ub.op = "read_data" => uart_ctrl.uart_en /\ rx.count # 0)
           => Receiving'
  BY <1>2, <1>6, <1>8, <1>g, <1>t, Receives
<1>10. ticked' \subseteq {"tx", "rx"}
  BY <1>1, <1>2 DEF GhostsOK
<1>11. PortOK' /\ GhostsOK'
  BY <1>4, <1>5, <1>7, <1>9, <1>10 DEF PortOK, GhostsOK
<1> QED
  BY <1>3, <1>7, <1>9, <1>11 DEF DeviceOK

-----------------------------------------------------------------------------
(* What a cycle does to the flags and to the requests.                      *)

Rx == UART_RX_INT_ID
Tx == UART_TX_INT_ID

(* What a cycle does to a source's request: it is pending after it because *)
(* it was, or because its line is up and it is not in service; a claim     *)
(* that answers with it moves it into service, a completion ends that.     *)
LEMMA SourceStep ==
  ASSUME DeviceOK, NEW s \in {Rx, Tx}, NEW ub, UartBus(ub), NEW pb, PlicBus(pb),
         Cycle(ub, pb)
  PROVE  /\ s \in pending_regs' => \/ s \in pending_regs
                                   \/ /\ s \in peripheral_interrupts
                                      /\ s \notin in_service_regs
         /\ claim_valid_r' /\ claim_id_r' = s => s \in pending_regs
         /\ pb.reg # "read_claim" => plic_rdata' = plic_rdata
         /\ pb.reg = "read_claim" /\ plic_rdata' = s =>
              /\ claim_valid_r /\ claim_id_r = s
              /\ s \in in_service_regs' /\ s \notin pending_regs'
         /\ s \in in_service_regs /\ pb.reg # "write_claim" => s \in in_service_regs'
         /\ s \in in_service_regs' => \/ s \in in_service_regs
                                      \/ pb.reg = "read_claim" /\ plic_rdata' = s
         /\ pb = P!WriteClaim(s) => s \notin in_service_regs'
<1>1. P!Clock(peripheral_interrupts, pb)
  BY DEF Cycle
<1>2. s # 0
  BY DEF Rx, Tx, UART_RX_INT_ID, UART_TX_INT_ID
<1>3. /\ pending_regs' = P!pending_next(peripheral_interrupts, pb)
      /\ in_service_regs' = P!in_service_next(pb)
  BY <1>1 DEF P!Clock
<1>4. s \in pending_regs' => \/ s \in pending_regs
                             \/ s \in peripheral_interrupts /\ s \notin in_service_regs
  BY <1>3 DEF P!pending_next
<1>5. claim_valid_r' /\ claim_id_r' = s => s \in pending_regs
  <2>1. P!TypeOK
    BY DEF DeviceOK, PlicOK
  <2> QED
    BY <1>1, <2>1, OfferedIsPending DEF P!Clock
<1>6. pb.reg # "read_claim" => plic_rdata' = plic_rdata
  BY <1>1 DEF P!Clock, PlicBus
<1>7. ASSUME pb.reg = "read_claim", plic_rdata' = s
      PROVE  /\ claim_valid_r /\ claim_id_r = s
             /\ s \in in_service_regs' /\ s \notin pending_regs'
  <2>1. claim_valid_r /\ claim_id_r = s
    BY <1>1, <1>2, <1>7 DEF P!Clock
  <2>2. P!claim_mask(pb) = {s} /\ P!release_mask(pb) = {}
    BY <1>7, <2>1 DEF P!claim_mask, P!release_mask
  <2> QED
    BY <1>2, <1>3, <2>1, <2>2 DEF P!pending_next, P!in_service_next
<1>8. s \in in_service_regs /\ pb.reg # "write_claim" => s \in in_service_regs'
  BY <1>2, <1>3 DEF P!in_service_next, P!release_mask
<1>9. s \in in_service_regs' => \/ s \in in_service_regs
                                \/ pb.reg = "read_claim" /\ plic_rdata' = s
  <2>1. s \in P!claim_mask(pb) => pb.reg = "read_claim" /\ plic_rdata' = s
    BY <1>1 DEF P!claim_mask, P!Clock
  <2> QED
    BY <1>3, <2>1 DEF P!in_service_next
<1>10. pb = P!WriteClaim(s) => s \notin in_service_regs'
  <2>1. ASSUME pb = P!WriteClaim(s)
        PROVE  /\ P!claim_mask(pb) = {}
               /\ P!release_mask(pb) = {s} \cap in_service_regs
    BY <1>2, <2>1 DEF P!WriteClaim, P!Access, P!claim_mask, P!release_mask
  <2> QED
    BY <1>3, <2>1 DEF P!in_service_next
<1> QED
  BY <1>4, <1>5, <1>6, <1>7, <1>8, <1>9, <1>10

(* The receiver's request is on its way to the program.                     *)
Asked ==
  flags.rx_int \/ Rx \in pending_regs \/ (claim_valid_r /\ claim_id_r = Rx)

(* A cycle's effect on the full flag, on the request and on the ghosts: a   *)
(* request is there after it because the flag or the controller held it     *)
(* before, and a claim that answers with it moves it into service.          *)
LEMMA RequestStep ==
  ASSUME DeviceOK, NEW ub, UartBus(ub), NEW pb, PlicBus(pb), Cycle(ub, pb)
  PROVE  /\ tx.count = FIFO_DEPTH => flags'.tx_full
         /\ flags'.rx_int => rx.count # 0
         /\ Rx \in pending_regs' => \/ Rx \in pending_regs
                                    \/ flags.rx_int /\ Rx \notin in_service_regs
         /\ claim_valid_r' /\ claim_id_r' = Rx => Rx \in pending_regs
         /\ pb.reg # "read_claim" => plic_rdata' = plic_rdata
         /\ pb.reg = "read_claim" /\ plic_rdata' = Rx =>
              /\ claim_valid_r /\ claim_id_r = Rx
              /\ Rx \in in_service_regs' /\ Rx \notin pending_regs'
         /\ Rx \in in_service_regs /\ pb.reg # "write_claim" =>
              Rx \in in_service_regs'
         /\ ub.op = "read_status" => uart_rdata' = U!uart_status
         /\ uart_ctrl' = IF ub.op = "write_ctrl" THEN ub.ctrl ELSE uart_ctrl
         /\ written' = IF U!tx_push(ub) THEN Append(written, ub.char) ELSE written
         /\ taken' = IF ub.op = "read_data" THEN Append(taken, uart_rdata')
                                            ELSE taken
<1>0. /\ written' = IF U!tx_push(ub) THEN Append(written, ub.char) ELSE written
      /\ taken' = IF ub.op = "read_data" THEN Append(taken, uart_rdata') ELSE taken
  BY DEF Cycle
<1>1. PICK tx_tick, rx_tick, falling \in BOOLEAN :
        /\ P!Clock(peripheral_interrupts, pb)
        /\ U!Clock(ub, tx_tick, rx_tick, falling, line)
  <2>1. PICK bits \in SUBSET {"tx", "rx"},
             falling \in {f \in BOOLEAN : f => arriving # <<>>} :
          /\ P!Clock(peripheral_interrupts, pb)
          /\ U!Clock(ub, "tx" \in bits, "rx" \in bits, falling, line)
    BY DEF Cycle
  <2>2. /\ ("tx" \in bits) \in BOOLEAN /\ ("rx" \in bits) \in BOOLEAN
        /\ falling \in BOOLEAN
    OBVIOUS
  <2> QED
    BY <2>1, <2>2
<1>2. /\ tx.count = FIFO_DEPTH => flags'.tx_full
      /\ flags'.rx_int => rx.count # 0
  BY <1>1 DEF U!Clock, U!Status
<1>3. /\ ub.op = "read_status" => uart_rdata' = U!uart_status
      /\ uart_ctrl' = IF ub.op = "write_ctrl" THEN ub.ctrl ELSE uart_ctrl
  BY <1>1 DEF U!Clock, UartBus
<1>4. Rx \in {Rx, Tx} /\ (Rx \in peripheral_interrupts <=> flags.rx_int)
  BY DEF peripheral_interrupts, Lines, Rx
<1> QED
  BY <1>0, <1>2, <1>3, <1>4, SourceStep

-----------------------------------------------------------------------------
(* The programs.                                                            *)

Setup == {"reset", "int_en", "priority", "enable", "threshold", "csr"}
Handler == {"claim", "dispatch", "read", "got", "poll", "check", "write", "last",
            "complete", "mret"}
Places ==
  /\ pc \in Setup \cup Handler \cup {"first", "index", "char", "wfi", "end"}
  /\ program = "tx" => pc \notin {"char", "read", "got"}
  /\ program = "rx" => pc \notin {"char", "first", "index", "last", "end"}
  /\ program = "poll" =>
       pc \in {"reset", "char", "poll", "check", "write", "end"}
  /\ program # "tx" => ret = "wfi" /\ ~ done
Shape ==
  /\ program \in {"tx", "rx", "poll"}
  /\ message \in Seq(Chars) /\ message # <<>>
  /\ ch \in Chars /\ idx \in 0 .. Len(message) /\ done \in BOOLEAN
  /\ ret \in {"first", "index", "wfi", "end"}
  /\ Places
  /\ program = "tx" /\ pc \in {"poll", "check", "write"} => idx < Len(message)
ProgOK ==
  /\ Shape
  /\ pc = "got" => uart_rdata \in Chars
  /\ pc # "reset" => uart_ctrl.uart_en

(* Which accesses a step makes.                                             *)
Drives(ub, pb) ==
  /\ UartBus(ub) /\ PlicBus(pb)
  /\ ub.op = "read_data" <=> pc = "read"
  /\ ub.op = "write_data" => pc' \in {"index", "char", "complete"}
                           /\ pc \in {"first", "write"}
  /\ pc = "write" => ub = U!WriteData(ch)
  /\ pc = "first" /\ pc' = "index" => ub = U!WriteData(message[1])
  /\ ub.op = "write_ctrl" => ub.ctrl.uart_en /\ pc \in {"reset", "int_en", "last"}
  /\ pc = "int_en" => ub = On(program = "tx", program = "rx")
  /\ pc = "reset" => ub.op = "write_ctrl"
  /\ pc = "poll" => ub.op = "read_status"
  /\ pb.reg = "read_claim" <=> pc = "claim"
  /\ pb.reg = "write_claim" => pc = "complete"
  /\ pc = "complete" => pb = P!WriteClaim(plic_rdata)

(* And where it leads.                                                      *)
Flow ==
  /\ program' = program /\ message' = message
  /\ pc = "claim" <=> pc' = "dispatch"
  /\ pc' = "read" <=> pc = "dispatch" /\ plic_rdata = Rx /\ program = "rx"
  /\ pc' = "got" <=> pc = "read"
  /\ pc' = "poll" => \/ pc = "got"
                     \/ pc = "check" /\ tx_full
                     \/ pc \in {"dispatch", "char"} /\ program # "rx"
  /\ pc' = "check" <=> pc = "poll"
  /\ pc' = "write" => pc = "check" /\ ~ tx_full
  /\ pc = "got" => pc' = "poll"
  /\ pc = "check" => pc' \in {"poll", "write"}
  /\ pc' = "complete" => \/ pc = "write"
                         \/ pc = "last" /\ program # "rx"
                         \/ pc = "dispatch" /\ plic_rdata # Id
  /\ pc = "complete" => pc' = "mret"
  /\ pc' # "reset"
  /\ pc = "got" => ch' = uart_rdata
  /\ pc \in {"poll", "check"} => ch' = ch

(* All its ways.                                                            *)
Moves ==
  /\ pc' = "claim" =>
       pc \in {"first", "index", "wfi", "end"} /\ program # "poll" /\ ret' = pc
  /\ pc' # "claim" => ret' = ret
  /\ pc = "reset" => pc' = IF program = "poll" THEN "char" ELSE "int_en"
  /\ pc = "int_en" => pc' = "priority"
  /\ pc = "priority" => pc' = "enable"
  /\ pc = "enable" => pc' = "threshold"
  /\ pc = "threshold" => pc' = "csr"
  /\ pc = "csr" => pc' = IF program = "tx" THEN "first" ELSE "wfi"
  /\ pc = "first" => pc' \in {"index", "claim"}
  /\ pc = "index" => pc' \in {"wfi", "claim"}
  /\ pc = "wfi" => pc' \in {"wfi", "end", "claim"}
  /\ pc = "wfi" /\ pc' = "end" => done
  /\ pc = "end" => pc' \in {"end", "claim"}
  /\ pc = "dispatch" =>
       pc' = IF plic_rdata # Id THEN "complete"
             ELSE IF program = "rx" THEN "read"
             ELSE IF idx < Len(message) THEN "poll" ELSE "last"
  /\ pc = "last" => pc' = "complete"
  /\ pc = "write" => pc' = IF program = "poll" THEN "char" ELSE "complete"
  /\ pc = "mret" => pc' = ret
  /\ pc = "char" => pc' = IF idx = Len(message) THEN "end" ELSE "poll"

(* And what they do to the program's own variables.                        *)
Counts ==
  /\ pc = "index" /\ pc' = "wfi" => idx' = 1
  /\ pc = "index" /\ pc' # "wfi" => idx' = idx
  /\ pc = "write" => idx' = IF program = "tx" THEN idx + 1 ELSE idx
  /\ pc \notin {"index", "write", "char"} => idx' = idx
  /\ pc = "dispatch" /\ program = "tx" /\ idx < Len(message) =>
       ch' = message[idx + 1]
  /\ pc \notin {"dispatch", "got", "char"} => ch' = ch
  /\ pc = "char" =>
       IF idx = Len(message) THEN ch' = ch /\ idx' = idx
       ELSE IF message[idx + 1] = NL /\ ch # CR THEN ch' = CR /\ idx' = idx
       ELSE ch' = message[idx + 1] /\ idx' = idx + 1
  /\ pc = "last" => done'
  /\ pc # "last" => done' = done

(* The accesses are well formed.                                            *)
LEMMA Buses ==
  ASSUME ProgOK, PlicOK
  PROVE  /\ UartBus(U!Idle) /\ UartBus(U!ReadData) /\ UartBus(U!ReadStatus)
         /\ UartBus(U!WriteData(message[1])) /\ UartBus(U!WriteData(ch))
         /\ \A t, r \in BOOLEAN : UartBus(On(t, r))
         /\ PlicBus(P!Idle) /\ PlicBus(P!ReadClaim)
         /\ PlicBus(P!WriteClaim(plic_rdata)) /\ PlicBus(P!WritePriority(Id, 1))
         /\ PlicBus(P!WriteEnable({Id})) /\ PlicBus(P!WriteThreshold(0))
<1>1. /\ 0 \in Chars /\ ch \in Chars /\ message[1] \in Chars
      /\ U!Off \in U!Controls
  <2>1. 0 \in Chars
    BY UartAssumption DEF U!Parameters
  <2>2. message[1] \in Chars
    BY DEF ProgOK, Shape
  <2> QED
    BY <2>1, <2>2 DEF ProgOK, Shape, U!Off, U!Control, U!Controls
<1>2. /\ 0 \in P!Ids /\ Id \in P!Ids /\ plic_rdata \in P!Ids
      /\ 0 \in P!Priorities /\ 1 \in P!Priorities
  BY PlicAssumption
     DEF Id, UART_RX_INT_ID, UART_TX_INT_ID, P!Ids, P!Priorities, PlicOK
<1>3. /\ UartBus(U!Idle) /\ UartBus(U!ReadData) /\ UartBus(U!ReadStatus)
      /\ UartBus(U!WriteData(message[1])) /\ UartBus(U!WriteData(ch))
  BY <1>1 DEF UartBus, U!Idle, U!ReadData, U!ReadStatus, U!WriteData, U!Access
<1>4. ASSUME NEW t \in BOOLEAN, NEW r \in BOOLEAN PROVE UartBus(On(t, r))
  BY <1>1 DEF UartBus, On, U!WriteCtrl, U!Control, U!Controls, U!Access
<1>5. /\ PlicBus(P!Idle) /\ PlicBus(P!ReadClaim) /\ PlicBus(P!WriteClaim(plic_rdata))
      /\ PlicBus(P!WritePriority(Id, 1)) /\ PlicBus(P!WriteEnable({Id}))
      /\ PlicBus(P!WriteThreshold(0))
  BY <1>2 DEF PlicBus, P!Idle, P!ReadClaim, P!WriteClaim, P!WritePriority,
              P!WriteEnable, P!WriteThreshold, P!Access
<1> QED
  BY <1>3, <1>4, <1>5

(* And these are their registers.                                           *)
LEMMA BusFields ==
  /\ U!Idle.op = "none" /\ U!ReadData.op = "read_data"
  /\ U!ReadStatus.op = "read_status"
  /\ \A c : U!WriteData(c).op = "write_data"
  /\ \A t, r : On(t, r).op = "write_ctrl" /\ On(t, r).ctrl.uart_en
  /\ P!Idle.reg = "none" /\ P!ReadClaim.reg = "read_claim"
  /\ \A i : P!WriteClaim(i).reg = "write_claim"
  /\ \A i, p : P!WritePriority(i, p).reg = "write_priority"
  /\ \A set : P!WriteEnable(set).reg = "write_enable"
  /\ \A p : P!WriteThreshold(p).reg = "write_threshold"
BY DEF U!Idle, U!ReadData, U!ReadStatus, U!WriteData, On, U!WriteCtrl, U!Control,
       U!Access, P!Idle, P!ReadClaim, P!WriteClaim, P!WritePriority,
       P!WriteEnable, P!WriteThreshold, P!Access

(* Each step of a program is a cycle that keeps this in mind.              *)
Good(ub, pb) ==
  Drives(ub, pb) /\ Cycle(ub, pb) /\ Flow /\ Moves /\ Counts /\ Shape'

(* By cases: one action each.                                               *)
LEMMA ProgramStep ==
  ASSUME PlicOK, ProgOK, Next
  PROVE  \E ub, pb : Good(ub, pb)
<1> USE DEF Goto, Uart, Plic, NoAccess, progVars, Setup, Handler
<1>1. CASE EnableUart
  <2>1. Drives(On(FALSE, FALSE), P!Idle)
    BY <1>1, Buses, BusFields DEF EnableUart, Drives
  <2>2. Cycle(On(FALSE, FALSE), P!Idle)
    BY <1>1 DEF EnableUart
  <2>3. Flow
    BY <1>1 DEF EnableUart, Flow, Shape, ProgOK, Places
  <2>4. Shape'
    BY <1>1 DEF EnableUart, Shape, ProgOK, Places
  <2>5. Moves
    BY <1>1 DEF EnableUart, Moves, Shape, Places, ProgOK
  <2>6. Counts
    BY <1>1 DEF EnableUart, Counts, Shape, Places, ProgOK
  <2> QED
    BY <2>1, <2>2, <2>3, <2>4, <2>5, <2>6 DEF Good
<1>2. CASE EnableUartInt
  <2>1. Drives(On(program = "tx", program = "rx"), P!Idle)
    BY <1>2, Buses, BusFields DEF EnableUartInt, Drives
  <2>2. Cycle(On(program = "tx", program = "rx"), P!Idle)
    BY <1>2 DEF EnableUartInt
  <2>3. Flow
    BY <1>2 DEF EnableUartInt, Flow, Shape, ProgOK, Places
  <2>4. Shape'
    BY <1>2 DEF EnableUartInt, Shape, ProgOK, Places
  <2>5. Moves
    BY <1>2 DEF EnableUartInt, Moves, Shape, Places, ProgOK
  <2>6. Counts
    BY <1>2 DEF EnableUartInt, Counts, Shape, Places, ProgOK
  <2> QED
    BY <2>1, <2>2, <2>3, <2>4, <2>5, <2>6 DEF Good
<1>3. CASE SetPriority
  <2>1. Drives(U!Idle, P!WritePriority(Id, 1))
    BY <1>3, Buses, BusFields DEF SetPriority, Drives
  <2>2. Cycle(U!Idle, P!WritePriority(Id, 1))
    BY <1>3 DEF SetPriority
  <2>3. Flow
    BY <1>3 DEF SetPriority, Flow, Shape, ProgOK, Places
  <2>4. Shape'
    BY <1>3 DEF SetPriority, Shape, ProgOK, Places
  <2>5. Moves
    BY <1>3 DEF SetPriority, Moves, Shape, Places, ProgOK
  <2>6. Counts
    BY <1>3 DEF SetPriority, Counts, Shape, Places, ProgOK
  <2> QED
    BY <2>1, <2>2, <2>3, <2>4, <2>5, <2>6 DEF Good
<1>4. CASE EnableSource
  <2>1. Drives(U!Idle, P!WriteEnable({Id}))
    BY <1>4, Buses, BusFields DEF EnableSource, Drives
  <2>2. Cycle(U!Idle, P!WriteEnable({Id}))
    BY <1>4 DEF EnableSource
  <2>3. Flow
    BY <1>4 DEF EnableSource, Flow, Shape, ProgOK, Places
  <2>4. Shape'
    BY <1>4 DEF EnableSource, Shape, ProgOK, Places
  <2>5. Moves
    BY <1>4 DEF EnableSource, Moves, Shape, Places, ProgOK
  <2>6. Counts
    BY <1>4 DEF EnableSource, Counts, Shape, Places, ProgOK
  <2> QED
    BY <2>1, <2>2, <2>3, <2>4, <2>5, <2>6 DEF Good
<1>5. CASE SetThreshold
  <2>1. Drives(U!Idle, P!WriteThreshold(0))
    BY <1>5, Buses, BusFields DEF SetThreshold, Drives
  <2>2. Cycle(U!Idle, P!WriteThreshold(0))
    BY <1>5 DEF SetThreshold
  <2>3. Flow
    BY <1>5 DEF SetThreshold, Flow, Shape, ProgOK, Places
  <2>4. Shape'
    BY <1>5 DEF SetThreshold, Shape, ProgOK, Places
  <2>5. Moves
    BY <1>5 DEF SetThreshold, Moves, Shape, Places, ProgOK
  <2>6. Counts
    BY <1>5 DEF SetThreshold, Counts, Shape, Places, ProgOK
  <2> QED
    BY <2>1, <2>2, <2>3, <2>4, <2>5, <2>6 DEF Good
<1>6. CASE EnableInterrupts
  <2>1. Drives(U!Idle, P!Idle)
    BY <1>6, Buses, BusFields DEF EnableInterrupts, Drives
  <2>2. Cycle(U!Idle, P!Idle)
    BY <1>6 DEF EnableInterrupts
  <2>3. Flow
    BY <1>6 DEF EnableInterrupts, Flow, Shape, ProgOK, Places
  <2>4. Shape'
    BY <1>6 DEF EnableInterrupts, Shape, ProgOK, Places
  <2>5. Moves
    BY <1>6 DEF EnableInterrupts, Moves, Shape, Places, ProgOK
  <2>6. Counts
    BY <1>6 DEF EnableInterrupts, Counts, Shape, Places, ProgOK
  <2> QED
    BY <2>1, <2>2, <2>3, <2>4, <2>5, <2>6 DEF Good
<1>7. CASE SendFirst
  <2>1. Drives(U!WriteData(message[1]), P!Idle)
    BY <1>7, Buses, BusFields DEF SendFirst, Drives
  <2>2. Cycle(U!WriteData(message[1]), P!Idle)
    BY <1>7 DEF SendFirst
  <2>3. Flow
    BY <1>7 DEF SendFirst, Flow, Shape, ProgOK, Places
  <2>4. Shape'
    BY <1>7 DEF SendFirst, Shape, ProgOK, Places
  <2>5. Moves
    BY <1>7 DEF SendFirst, Moves, Shape, Places, ProgOK
  <2>6. Counts
    BY <1>7 DEF SendFirst, Counts, Shape, Places, ProgOK
  <2> QED
    BY <2>1, <2>2, <2>3, <2>4, <2>5, <2>6 DEF Good
<1>8. CASE SetIndex
  <2>1. Drives(U!Idle, P!Idle)
    BY <1>8, Buses, BusFields DEF SetIndex, Drives
  <2>2. Cycle(U!Idle, P!Idle)
    BY <1>8 DEF SetIndex
  <2>3. Flow
    BY <1>8 DEF SetIndex, Flow, Shape, ProgOK, Places
  <2>4. Shape'
    BY <1>8 DEF SetIndex, Shape, ProgOK, Places
  <2>5. Moves
    BY <1>8 DEF SetIndex, Moves, Shape, Places, ProgOK
  <2>6. Counts
    BY <1>8 DEF SetIndex, Counts, Shape, Places, ProgOK
  <2> QED
    BY <2>1, <2>2, <2>3, <2>4, <2>5, <2>6 DEF Good
<1>9. CASE LeaveLoop
  <2>1. Drives(U!Idle, P!Idle)
    BY <1>9, Buses, BusFields DEF LeaveLoop, Drives
  <2>2. Cycle(U!Idle, P!Idle)
    BY <1>9 DEF LeaveLoop
  <2>3. Flow
    BY <1>9 DEF LeaveLoop, Flow, Shape, ProgOK, Places
  <2>4. Shape'
    BY <1>9 DEF LeaveLoop, Shape, ProgOK, Places
  <2>5. Moves
    BY <1>9 DEF LeaveLoop, Moves, Shape, Places, ProgOK
  <2>6. Counts
    BY <1>9 DEF LeaveLoop, Counts, Shape, Places, ProgOK
  <2> QED
    BY <2>1, <2>2, <2>3, <2>4, <2>5, <2>6 DEF Good
<1>10. CASE TakeInterrupt
  <2>1. Drives(U!Idle, P!Idle)
    BY <1>10, Buses, BusFields DEF TakeInterrupt, Drives
  <2>2. Cycle(U!Idle, P!Idle)
    BY <1>10 DEF TakeInterrupt
  <2>3. Flow
    BY <1>10 DEF TakeInterrupt, Flow, Shape, ProgOK, Places
  <2>4. Shape'
    BY <1>10 DEF TakeInterrupt, Shape, ProgOK, Places
  <2>5. Moves
    BY <1>10 DEF TakeInterrupt, Moves, Shape, Places, ProgOK
  <2>6. Counts
    BY <1>10 DEF TakeInterrupt, Counts, Shape, Places, ProgOK
  <2> QED
    BY <2>1, <2>2, <2>3, <2>4, <2>5, <2>6 DEF Good
<1>11. CASE Claim
  <2>1. Drives(U!Idle, P!ReadClaim)
    BY <1>11, Buses, BusFields DEF Claim, Drives
  <2>2. Cycle(U!Idle, P!ReadClaim)
    BY <1>11 DEF Claim
  <2>3. Flow
    BY <1>11 DEF Claim, Flow, Shape, ProgOK, Places
  <2>4. Shape'
    BY <1>11 DEF Claim, Shape, ProgOK, Places
  <2>5. Moves
    BY <1>11 DEF Claim, Moves, Shape, Places, ProgOK
  <2>6. Counts
    BY <1>11 DEF Claim, Counts, Shape, Places, ProgOK
  <2> QED
    BY <2>1, <2>2, <2>3, <2>4, <2>5, <2>6 DEF Good
<1>12. CASE Dispatch
  <2>1. Drives(U!Idle, P!Idle)
    BY <1>12, Buses, BusFields DEF Dispatch, Drives
  <2>2. Cycle(U!Idle, P!Idle)
    BY <1>12 DEF Dispatch
  <2>3. Flow
    BY <1>12 DEF Dispatch, Flow, Shape, ProgOK, Places, Id, Rx
  <2>4. Shape'
    BY <1>12 DEF Dispatch, Shape, ProgOK, Places
  <2>5. Moves
    BY <1>12 DEF Dispatch, Moves, Shape, Places, ProgOK
  <2>6. Counts
    BY <1>12 DEF Dispatch, Counts, Shape, Places, ProgOK
  <2> QED
    BY <2>1, <2>2, <2>3, <2>4, <2>5, <2>6 DEF Good
<1>13. CASE AllSent
  <2>1. Drives(On(FALSE, FALSE), P!Idle)
    BY <1>13, Buses, BusFields DEF AllSent, Drives
  <2>2. Cycle(On(FALSE, FALSE), P!Idle)
    BY <1>13 DEF AllSent
  <2>3. Flow
    BY <1>13 DEF AllSent, Flow, Shape, ProgOK, Places
  <2>4. Shape'
    BY <1>13 DEF AllSent, Shape, ProgOK, Places
  <2>5. Moves
    BY <1>13 DEF AllSent, Moves, Shape, Places, ProgOK
  <2>6. Counts
    BY <1>13 DEF AllSent, Counts, Shape, Places, ProgOK
  <2> QED
    BY <2>1, <2>2, <2>3, <2>4, <2>5, <2>6 DEF Good
<1>14. CASE ReadChar
  <2>1. Drives(U!ReadData, P!Idle)
    BY <1>14, Buses, BusFields DEF ReadChar, Drives
  <2>2. Cycle(U!ReadData, P!Idle)
    BY <1>14 DEF ReadChar
  <2>3. Flow
    BY <1>14 DEF ReadChar, Flow, Shape, ProgOK, Places
  <2>4. Shape'
    BY <1>14 DEF ReadChar, Shape, ProgOK, Places
  <2>5. Moves
    BY <1>14 DEF ReadChar, Moves, Shape, Places, ProgOK
  <2>6. Counts
    BY <1>14 DEF ReadChar, Counts, Shape, Places, ProgOK
  <2> QED
    BY <2>1, <2>2, <2>3, <2>4, <2>5, <2>6 DEF Good
<1>15. CASE GotChar
  <2>1. Drives(U!Idle, P!Idle)
    BY <1>15, Buses, BusFields DEF GotChar, Drives
  <2>2. Cycle(U!Idle, P!Idle)
    BY <1>15 DEF GotChar
  <2>3. Flow
    BY <1>15 DEF GotChar, Flow, Shape, Places, ProgOK
  <2>4. Shape'
    BY <1>15 DEF GotChar, Shape, ProgOK, Places
  <2>5. Moves
    BY <1>15 DEF GotChar, Moves, Shape, Places, ProgOK
  <2>6. Counts
    BY <1>15 DEF GotChar, Counts, Shape, Places, ProgOK
  <2> QED
    BY <2>1, <2>2, <2>3, <2>4, <2>5, <2>6 DEF Good
<1>16. CASE Complete
  <2>1. Drives(U!Idle, P!WriteClaim(plic_rdata))
    BY <1>16, Buses, BusFields DEF Complete, Drives
  <2>2. Cycle(U!Idle, P!WriteClaim(plic_rdata))
    BY <1>16 DEF Complete
  <2>3. Flow
    BY <1>16 DEF Complete, Flow, Shape, ProgOK, Places
  <2>4. Shape'
    BY <1>16 DEF Complete, Shape, ProgOK, Places
  <2>5. Moves
    BY <1>16 DEF Complete, Moves, Shape, Places, ProgOK
  <2>6. Counts
    BY <1>16 DEF Complete, Counts, Shape, Places, ProgOK
  <2> QED
    BY <2>1, <2>2, <2>3, <2>4, <2>5, <2>6 DEF Good
<1>17. CASE Return
  <2>1. Drives(U!Idle, P!Idle)
    BY <1>17, Buses, BusFields DEF Return, Drives
  <2>2. Cycle(U!Idle, P!Idle)
    BY <1>17 DEF Return
  <2>3. Flow
    BY <1>17 DEF Return, Flow, Shape, ProgOK, Places
  <2>4. Shape'
    BY <1>17 DEF Return, Shape, ProgOK, Places
  <2>5. Moves
    BY <1>17 DEF Return, Moves, Shape, Places, ProgOK
  <2>6. Counts
    BY <1>17 DEF Return, Counts, Shape, Places, ProgOK
  <2> QED
    BY <2>1, <2>2, <2>3, <2>4, <2>5, <2>6 DEF Good
<1>18. CASE PollStatus
  <2>1. Drives(U!ReadStatus, P!Idle)
    BY <1>18, Buses, BusFields DEF PollStatus, Drives
  <2>2. Cycle(U!ReadStatus, P!Idle)
    BY <1>18 DEF PollStatus
  <2>3. Flow
    BY <1>18 DEF PollStatus, Flow, Shape, ProgOK, Places
  <2>4. Shape'
    BY <1>18 DEF PollStatus, Shape, ProgOK, Places
  <2>5. Moves
    BY <1>18 DEF PollStatus, Moves, Shape, Places, ProgOK
  <2>6. Counts
    BY <1>18 DEF PollStatus, Counts, Shape, Places, ProgOK
  <2> QED
    BY <2>1, <2>2, <2>3, <2>4, <2>5, <2>6 DEF Good
<1>19. CASE CheckStatus
  <2>1. Drives(U!Idle, P!Idle)
    BY <1>19, Buses, BusFields DEF CheckStatus, Drives
  <2>2. Cycle(U!Idle, P!Idle)
    BY <1>19 DEF CheckStatus
  <2>3. Flow
    BY <1>19 DEF CheckStatus, Flow, Shape, ProgOK, Places
  <2>4. Shape'
    BY <1>19 DEF CheckStatus, Shape, ProgOK, Places
  <2>5. Moves
    BY <1>19 DEF CheckStatus, Moves, Shape, Places, ProgOK
  <2>6. Counts
    BY <1>19 DEF CheckStatus, Counts, Shape, Places, ProgOK
  <2> QED
    BY <2>1, <2>2, <2>3, <2>4, <2>5, <2>6 DEF Good
<1>20. CASE WriteChar
  <2>1. Drives(U!WriteData(ch), P!Idle)
    BY <1>20, Buses, BusFields DEF WriteChar, Drives
  <2>2. Cycle(U!WriteData(ch), P!Idle)
    BY <1>20 DEF WriteChar
  <2>3. Flow
    BY <1>20 DEF WriteChar, Flow, Shape, ProgOK, Places
  <2>4. Shape'
    BY <1>20 DEF WriteChar, Shape, ProgOK, Places
  <2>5. Moves
    BY <1>20 DEF WriteChar, Moves, Shape, Places, ProgOK
  <2>6. Counts
    BY <1>20 DEF WriteChar, Counts, Shape, Places, ProgOK
  <2> QED
    BY <2>1, <2>2, <2>3, <2>4, <2>5, <2>6 DEF Good
<1>21. CASE NextChar
  <2>1. Drives(U!Idle, P!Idle)
    BY <1>21, Buses, BusFields DEF NextChar, Drives
  <2>2. Cycle(U!Idle, P!Idle)
    BY <1>21 DEF NextChar
  <2>3. Flow
    BY <1>21 DEF NextChar, Flow, Shape, ProgOK, Places
  <2>4. Shape'
    <3>1. /\ idx \in Nat /\ Len(message) \in Nat /\ idx <= Len(message)
          /\ \A i \in 1 .. Len(message) : message[i] \in Chars
      BY DEF Shape, ProgOK
    <3>2. CR \in Chars
      BY CharsAssumption
    <3>3. ch' \in Chars /\ idx' \in 0 .. Len(message)
      <4>1. CASE idx = Len(message)
        BY <1>21, <3>1, <4>1 DEF NextChar, Shape, ProgOK, Places
      <4>2. CASE idx # Len(message) /\ message[idx + 1] = NL /\ ch # CR
        BY <1>21, <3>1, <3>2, <4>2 DEF NextChar
      <4>3. CASE idx # Len(message) /\ ~ (message[idx + 1] = NL /\ ch # CR)
        BY <1>21, <3>1, <4>3 DEF NextChar
      <4> QED
        BY <4>1, <4>2, <4>3
    <3> QED
      BY <1>21, <3>3 DEF NextChar, Shape, ProgOK, Places
  <2>5. Moves
    BY <1>21 DEF NextChar, Moves, Shape, Places, ProgOK
  <2>6. Counts
    BY <1>21 DEF NextChar, Counts, Shape, Places, ProgOK
  <2> QED
    BY <2>1, <2>2, <2>3, <2>4, <2>5, <2>6 DEF Good
<1>22. CASE Stall
  <2>1. Drives(U!Idle, P!Idle)
    BY <1>22, Buses, BusFields DEF Stall, Drives
  <2>2. Cycle(U!Idle, P!Idle)
    BY <1>22 DEF Stall
  <2>3. Flow
    BY <1>22 DEF Stall, Flow, Shape, ProgOK, Places
  <2>4. Shape'
    BY <1>22 DEF Stall, Shape, ProgOK, Places
  <2>5. Moves
    BY <1>22 DEF Stall, Moves, Shape, Places, ProgOK
  <2>6. Counts
    BY <1>22 DEF Stall, Counts, Shape, Places, ProgOK
  <2> QED
    BY <2>1, <2>2, <2>3, <2>4, <2>5, <2>6 DEF Good
<1> QED
  BY <1>1, <1>2, <1>3, <1>4, <1>5, <1>6, <1>7, <1>8, <1>9, <1>10, <1>11,
     <1>12, <1>13, <1>14, <1>15, <1>16, <1>17, <1>18, <1>19, <1>20, <1>21, <1>22
     DEF Next, Program

-----------------------------------------------------------------------------
(* The invariant.                                                           *)

(* The flag and the register it is read into know of a full buffer before  *)
(* the program looks, and nothing fills it until it writes.                *)
FullKnown ==
  /\ pc = "poll" /\ tx.count = FIFO_DEPTH => flags.tx_full
  /\ pc = "check" /\ tx.count = FIFO_DEPTH => tx_full
  /\ pc = "write" => tx.count < FIFO_DEPTH

(* The echo program reads only a character that is there.  Between its     *)
(* read and its completion the source is in service, so that the flag,     *)
(* which may still show the character just read, cannot ask again.         *)
Handled == {"dispatch", "read", "got", "poll", "check", "write", "complete"}
Behind ==
  pc \in {"got", "poll", "check", "write"} \/ (pc = "complete" /\ plic_rdata = Rx)
ReadsWhatIsThere ==
  program = "rx" =>
    /\ ~ Behind /\ Asked => rx.count # 0
    /\ pc \in {"read", "got", "poll", "check", "write"} => plic_rdata = Rx
    /\ pc \in Handled /\ plic_rdata = Rx =>
         /\ Rx \in in_service_regs /\ Rx \notin pending_regs
         /\ pc # "dispatch" => ~ (claim_valid_r /\ claim_id_r = Rx)
    /\ pc \in {"poll", "check", "write", "complete"} /\ flags.rx_int =>
         rx.count # 0
    /\ pc = "read" \/ (pc = "dispatch" /\ plic_rdata = Rx) => rx.count # 0

(* It owes the line the character that it is about to echo.                *)
Owing ==
  program = "rx" =>
    taken = CASE pc = "got" -> Append(written, uart_rdata)
              [] pc \in {"poll", "check", "write"} -> Append(written, ch)
              [] OTHER -> written

IInv ==
  /\ DeviceOK /\ ProgOK /\ FullKnown /\ ReadsWhatIsThere /\ Owing
  /\ Sending /\ Receiving

(* A cycle keeps what is known of a full buffer: on the way from a look at  *)
(* the status register to the write it allows, the buffer only empties.     *)
LEMMA FullStep ==
  ASSUME DeviceOK, FullKnown, NEW ub, NEW pb, Drives(ub, pb), Cycle(ub, pb), Flow
  PROVE  FullKnown'
<1>1. UartBus(ub) /\ PlicBus(pb)
  BY DEF Drives
<1>2. /\ ub.op # "write_data" => tx'.count <= tx.count
      /\ DeviceOK'
  BY <1>1, CycleStep
<1>3. /\ tx.count = FIFO_DEPTH => flags'.tx_full
      /\ ub.op = "read_status" => uart_rdata' = U!uart_status
  BY <1>1, RequestStep
<1>4. /\ tx.count \in 0 .. FIFO_DEPTH /\ tx'.count \in 0 .. FIFO_DEPTH
      /\ FIFO_DEPTH \in Nat
  <2>1. U!HalfOK(tx) /\ U!HalfOK(tx')
    BY <1>2 DEF DeviceOK, PortOK, U!TypeOK, U!HalfOK, U!Halves
  <2> QED
    BY <2>1, DepthTurn DEF U!HalfOK, U!Halves
<1>5. ASSUME pc' \in {"poll", "check", "write"}
      PROVE  tx'.count <= tx.count
  BY <1>2, <1>5 DEF Drives
<1>6. CASE pc' = "poll"
  <2>1. tx'.count = FIFO_DEPTH => tx.count = FIFO_DEPTH
    BY <1>4, <1>5, <1>6
  <2> QED
    BY <1>3, <1>6, <2>1 DEF FullKnown
<1>7. CASE pc' = "check"
  <2>1. pc = "poll" /\ ub.op = "read_status"
    BY <1>7 DEF Flow, Drives
  <2>2. tx'.count = FIFO_DEPTH => flags.tx_full
    BY <1>4, <1>5, <1>7, <2>1 DEF FullKnown
  <2>3. flags.tx_full => (U!uart_status \div 4) % 2 = 1
    <3>1. flags \in U!Flags /\ overflow_error \in BOOLEAN
      BY DEF DeviceOK, PortOK, U!TypeOK
    <3> QED
      BY <3>1 DEF U!Flags, U!uart_status, U!Bit
  <2>4. flags.tx_full => tx_full'
    BY <1>3, <2>1, <2>3 DEF tx_full
  <2> QED
    BY <1>7, <2>2, <2>4 DEF FullKnown
<1>8. CASE pc' = "write"
  <2>1. tx'.count < FIFO_DEPTH
    BY <1>4, <1>5, <1>8 DEF Flow, FullKnown
  <2> QED
    BY <1>8, <2>1 DEF FullKnown
<1>9. CASE pc' \notin {"poll", "check", "write"}
  BY <1>9 DEF FullKnown
<1> QED
  BY <1>6, <1>7, <1>8, <1>9

(* A cycle keeps the receiver's request true to its buffer.                 *)
LEMMA ReadStep ==
  ASSUME DeviceOK, ReadsWhatIsThere, NEW ub, NEW pb, Drives(ub, pb),
         Cycle(ub, pb), Flow
  PROVE  ReadsWhatIsThere'
<1> SUFFICES ASSUME program = "rx", program' = "rx" PROVE ReadsWhatIsThere'
  BY DEF ReadsWhatIsThere, Flow
<1>1. UartBus(ub) /\ PlicBus(pb)
  BY DEF Drives
<1>2. pc # "read" /\ rx.count # 0 => rx'.count # 0
  BY <1>1, CycleStep DEF Drives
<1>3. /\ flags'.rx_int => rx.count # 0
      /\ Rx \in pending_regs' => \/ Rx \in pending_regs
                                 \/ flags.rx_int /\ Rx \notin in_service_regs
      /\ claim_valid_r' /\ claim_id_r' = Rx => Rx \in pending_regs
      /\ pc # "claim" => plic_rdata' = plic_rdata
      /\ pc = "claim" /\ plic_rdata' = Rx =>
           /\ claim_valid_r /\ claim_id_r = Rx
           /\ Rx \in in_service_regs' /\ Rx \notin pending_regs'
      /\ Rx \in in_service_regs /\ pc # "complete" => Rx \in in_service_regs'
  BY <1>1, RequestStep DEF Drives
<1>4. /\ ~ Behind /\ Asked => rx.count # 0
      /\ pc \in {"read", "got", "poll", "check", "write"} => plic_rdata = Rx
      /\ pc \in Handled /\ plic_rdata = Rx =>
           /\ Rx \in in_service_regs /\ Rx \notin pending_regs
           /\ pc # "dispatch" => ~ (claim_valid_r /\ claim_id_r = Rx)
      /\ pc \in {"poll", "check", "write", "complete"} /\ flags.rx_int =>
           rx.count # 0
      /\ pc = "read" \/ (pc = "dispatch" /\ plic_rdata = Rx) => rx.count # 0
  BY DEF ReadsWhatIsThere
<1>5. /\ pc = "claim" <=> pc' = "dispatch"
      /\ pc' = "read" <=> pc = "dispatch" /\ plic_rdata = Rx
      /\ pc' = "got" <=> pc = "read"
      /\ pc' = "poll" => pc \in {"got", "check"}
      /\ pc' = "check" => pc = "poll"
      /\ pc' = "write" => pc = "check"
      /\ pc' = "complete" => pc = "write" \/ (pc = "dispatch" /\ plic_rdata # Rx)
      /\ pc = "complete" => pc' = "mret"
  BY DEF Flow, Id, Rx
<1>6. ASSUME ~ Behind', Asked' PROVE rx'.count # 0
  <2>1. pc # "read"
    BY <1>5, <1>6 DEF Behind
  <2>2. CASE flags'.rx_int
    BY <1>2, <1>3, <2>1, <2>2
  <2>3. CASE Rx \in pending_regs \/ (flags.rx_int /\ Rx \notin in_service_regs)
    <3>1. ~ Behind
      BY <1>4, <2>3 DEF Behind, Handled
    <3> QED
      BY <1>2, <1>4, <2>1, <2>3, <3>1 DEF Asked
  <2> QED
    BY <1>3, <1>6, <2>2, <2>3 DEF Asked
<1>7. pc' \in {"read", "got", "poll", "check", "write"} => plic_rdata' = Rx
  BY <1>3, <1>4, <1>5
<1>8. ASSUME pc' \in Handled, plic_rdata' = Rx
      PROVE  /\ Rx \in in_service_regs' /\ Rx \notin pending_regs'
             /\ pc' # "dispatch" => ~ (claim_valid_r' /\ claim_id_r' = Rx)
  <2>1. CASE pc' = "dispatch"
    BY <1>3, <1>5, <1>8, <2>1
  <2>2. CASE pc' # "dispatch"
    <3>1. plic_rdata = Rx /\ pc \in Handled /\ pc # "complete"
      BY <1>3, <1>5, <1>8, <2>2 DEF Handled
    <3> QED
      BY <1>3, <1>4, <3>1
  <2> QED
    BY <2>1, <2>2
<1>9. pc' \in {"poll", "check", "write", "complete"} /\ flags'.rx_int =>
        rx'.count # 0
  BY <1>2, <1>3, <1>5
<1>10. pc' = "read" \/ (pc' = "dispatch" /\ plic_rdata' = Rx) => rx'.count # 0
  <2>1. CASE pc' = "read"
    BY <1>2, <1>4, <1>5, <2>1
  <2>2. CASE pc' = "dispatch" /\ plic_rdata' = Rx
    BY <1>2, <1>3, <1>4, <1>5, <2>2 DEF Asked, Behind
  <2> QED
    BY <2>1, <2>2
<1> QED
  BY <1>6, <1>7, <1>8, <1>9, <1>10 DEF ReadsWhatIsThere

(* A cycle keeps the echo's debt: a write always finds room.                *)
LEMMA OwingStep ==
  ASSUME DeviceOK, ProgOK, FullKnown, Owing, NEW ub, NEW pb, Drives(ub, pb),
         Cycle(ub, pb), Flow
  PROVE  Owing'
<1> SUFFICES ASSUME program = "rx", program' = "rx" PROVE Owing'
  BY DEF Owing, Flow
<1>1. /\ written' = IF U!tx_push(ub) THEN Append(written, ub.char) ELSE written
      /\ taken' = IF ub.op = "read_data" THEN Append(taken, uart_rdata') ELSE taken
  <2>1. UartBus(ub) /\ PlicBus(pb)
    BY DEF Drives
  <2> QED
    BY <2>1, RequestStep
<1>2. /\ pc = "read" <=> ub.op = "read_data"
      /\ U!tx_push(ub) => pc = "write"
  BY DEF Drives, ProgOK, Shape, Places, U!tx_push
<1>3. pc = "write" => U!tx_push(ub) /\ ub.char = ch
  BY DEF Drives, ProgOK, FullKnown, U!tx_push, U!WriteData, U!Access
<1>4. /\ pc' = "got" <=> pc = "read"
      /\ pc' = "poll" => pc \in {"got", "check"}
      /\ pc' = "check" => pc = "poll"
      /\ pc' = "write" => pc = "check"
      /\ pc = "got" => pc' = "poll"
      /\ pc \in {"poll", "check"} => pc' \in {"poll", "check", "write"}
      /\ pc = "got" => ch' = uart_rdata
      /\ pc \in {"poll", "check"} => ch' = ch
  BY DEF Flow
<1>5. CASE pc = "read"
  <2>1. pc' = "got" /\ taken' = Append(taken, uart_rdata') /\ written' = written
    BY <1>1, <1>2, <1>4, <1>5
  <2>2. taken = written
    BY <1>5 DEF Owing
  <2> QED
    BY <2>1, <2>2 DEF Owing
<1>6. CASE pc \in {"got", "poll", "check"}
  <2>1. pc' \in {"poll", "check", "write"} /\ taken' = taken /\ written' = written
    BY <1>1, <1>2, <1>4, <1>6
  <2>2. taken = Append(written, ch')
    BY <1>4, <1>6 DEF Owing
  <2> QED
    BY <2>1, <2>2 DEF Owing
<1>7. CASE pc = "write"
  <2>1. /\ taken' = taken /\ written' = Append(written, ch)
        /\ pc' \notin {"got", "poll", "check", "write"}
    BY <1>1, <1>2, <1>3, <1>4, <1>7
  <2>2. taken = Append(written, ch)
    BY <1>7 DEF Owing
  <2> QED
    BY <2>1, <2>2 DEF Owing
<1>8. CASE pc \notin {"read", "got", "poll", "check", "write"}
  <2>1. /\ taken' = taken /\ written' = written
        /\ pc' \notin {"got", "poll", "check", "write"}
    BY <1>1, <1>2, <1>4, <1>8
  <2>2. taken = written
    BY <1>8 DEF Owing
  <2> QED
    BY <2>1, <2>2 DEF Owing
<1> QED
  BY <1>5, <1>6, <1>7, <1>8

(* Every step keeps the invariant.                                          *)
LEMMA StepIInv == IInv /\ [Next]_vars => IInv'
<1> SUFFICES ASSUME IInv, [Next]_vars PROVE IInv'
  OBVIOUS
<1> USE DEF IInv
<1>1. CASE Next
  <2>1. PICK ub, pb : Good(ub, pb)
    BY <1>1, ProgramStep DEF DeviceOK
  <2>2. /\ Drives(ub, pb) /\ Cycle(ub, pb) /\ Flow /\ Shape'
        /\ UartBus(ub) /\ PlicBus(pb)
    BY <2>1 DEF Good, Drives
  <2>3. /\ DeviceOK' /\ Sending'
        /\ ub.op = "read_data" => uart_rdata' \in Chars
        /\ Receiving /\ (ub.op = "read_data" => uart_ctrl.uart_en /\ rx.count # 0)
             => Receiving'
    BY <2>2, CycleStep
  <2>4. FullKnown'
    BY <2>2, FullStep
  <2>5. ReadsWhatIsThere'
    BY <2>2, ReadStep
  <2>o. Owing'
    BY <2>2, OwingStep
  <2>6. Receiving'
    <3>1. ub.op = "read_data" => uart_ctrl.uart_en /\ rx.count # 0
      BY <2>2 DEF Drives, ProgOK, Shape, Places, ReadsWhatIsThere
    <3> QED
      BY <2>3, <3>1
  <2>7. ProgOK'
    <3>1. uart_ctrl' = IF ub.op = "write_ctrl" THEN ub.ctrl ELSE uart_ctrl
      BY <2>2, RequestStep
    <3>2. pc' # "reset" => uart_ctrl'.uart_en
      BY <2>2, <3>1 DEF Drives, ProgOK
    <3>3. pc' = "got" => uart_rdata' \in Chars
      BY <2>2, <2>3 DEF Drives, Flow
    <3> QED
      BY <2>2, <3>2, <3>3 DEF ProgOK
  <2> QED
    BY <2>3, <2>4, <2>5, <2>6, <2>7, <2>o
<1>2. CASE UNCHANGED vars
  <2>1. DeviceOK'
    BY <1>2 DEF vars, plicVars, uartVars, progVars, DeviceOK, PortOK, PlicOK,
                GhostsOK, P!TypeOK, U!TypeOK, U!HalfOK, U!Halves
  <2>2. ProgOK' /\ FullKnown'
    BY <1>2 DEF vars, plicVars, uartVars, progVars, ProgOK, Shape, Places, FullKnown,
                tx_full
  <2>3. ReadsWhatIsThere' /\ Owing'
    BY <1>2 DEF vars, plicVars, uartVars, progVars, ReadsWhatIsThere, Behind, Asked,
                Owing
  <2>4. Sending' /\ Receiving'
    BY <1>2 DEF vars, plicVars, uartVars, progVars, Sending, Receiving, OnLine,
                U!Buffered
  <2> QED
    BY <2>1, <2>2, <2>3, <2>4
<1> QED
  BY <1>1, <1>2

(* The reset state has it.                                                  *)
LEMMA InitIInv == Init => IInv
<1> SUFFICES ASSUME Init PROVE IInv
  OBVIOUS
<1>1. /\ 0 \in Chars /\ FIFO_DEPTH \in Nat \ {0} /\ BITS \in Nat \ {0}
  BY UartAssumption DEF U!Parameters
<1>2. U!HalfOK(U!Empty)
  <2>1. U!Empty \in U!Halves
    BY <1>1 DEF U!Empty, U!Halves, U!States
  <2>2. U!Empty.tail = 0 /\ U!Empty.head = 0 /\ U!Empty.count = 0
    BY DEF U!Empty
  <2>3. 0 = (0 + 0) % FIFO_DEPTH
    BY DepthTurn
  <2> QED
    BY <2>1, <2>2, <2>3 DEF U!HalfOK
<1>3. U!Empty.count = 0 /\ OnLine(U!Empty) = <<>> /\ U!Buffered(U!Empty) = <<>>
  <2>1. U!Empty.count = 0 /\ OnLine(U!Empty) = <<>>
    BY DEF U!Empty, OnLine
  <2>2. /\ U!Buffered(U!Empty) \in Seq(Chars)
        /\ Len(U!Buffered(U!Empty)) = U!Empty.count
    BY <1>2, BufferedAt
  <2> QED
    BY <2>1, <2>2
<1>4. tx = U!Empty /\ rx = U!Empty
  BY DEF Init, U!Init
<1>5. PortOK
  <2>1. uart_ctrl \in U!Controls
    BY DEF Init, U!Init, U!Off, U!Control, U!Controls
  <2>2. flags \in U!Flags /\ overflow_error \in BOOLEAN /\ uart_rdata \in 0 .. 255
    <3>1. flags \in U!Flags
      BY DEF Init, U!Init, U!Flags
    <3>2. overflow_error \in BOOLEAN
      BY DEF Init, U!Init
    <3>3. uart_rdata \in 0 .. 255
      BY DEF Init, U!Init
    <3> QED
      BY <3>1, <3>2, <3>3
  <2>3. line \in Chars
    BY <1>1 DEF Init
  <2> QED
    BY <1>2, <1>4, <2>1, <2>2, <2>3 DEF PortOK, U!TypeOK
<1>6. PlicOK
  <2>1. 0 \in P!Ids /\ 0 \in P!Priorities
    BY PlicAssumption DEF P!Ids, P!Priorities, UART_TX_INT_ID
  <2>2. P!Init
    BY DEF Init
  <2> QED
    BY <2>1, <2>2 DEF P!Init, PlicOK, P!TypeOK
<1>7. program \in {"tx", "rx", "poll"} /\ message \in Seq(Chars) /\ message # <<>>
  <2>1. message \in Seq(Chars \ {0, CR})
    BY MessagesAssumption DEF Init
  <2>2. message \in Seq(Chars)
    BY <2>1
  <2> QED
    BY <2>2, MessagesAssumption DEF Init
<1>8. GhostsOK
  BY <1>7 DEF Init, GhostsOK
<1>9. ProgOK
  <2>1. /\ pc = "reset" /\ ret = "wfi" /\ ch = 0 /\ idx = 0 /\ done = FALSE
    BY DEF Init
  <2>2. 0 \in 0 .. Len(message)
    BY <1>7
  <2> HIDE DEF Init
  <2>3. Shape
    BY <1>1, <1>7, <2>1, <2>2 DEF Shape, Places, Setup
  <2> QED
    BY <2>1, <2>3 DEF ProgOK
<1>10. FullKnown
  BY DEF Init, FullKnown
<1>11. ReadsWhatIsThere
  <2>1. ~ Asked /\ pc = "reset"
    BY DEF Init, P!Init, U!Init, Asked
  <2> QED
    BY <2>1 DEF ReadsWhatIsThere, Handled
<1>o. Owing
  BY DEF Init, Owing
<1>12. Sending
  BY <1>3, <1>4 DEF Init, Sending
<1>13. Receiving
  BY <1>3, <1>4 DEF Init, Receiving
<1> QED
  BY <1>5, <1>6, <1>8, <1>9, <1>10, <1>11, <1>12, <1>13, <1>o
     DEF IInv, DeviceOK

(* And so it always holds.                                                  *)
LEMMA Invariant == Spec => []IInv
BY InitIInv, StepIInv, PTL DEF Spec

(* The registers of both devices and the programs' variables keep their    *)
(* types, and in both buffers of the port head, tail and count agree.      *)
THEOREM TypeCorrect == Spec => []TypeOK
<1>1. IInv => TypeOK
  BY DEF IInv, DeviceOK, PortOK, PlicOK, GhostsOK, ProgOK, Shape, TypeOK
<1> QED
  BY <1>1, Invariant, PTL

(* No character is lost or doubled between the programs and the line       *)
(* without the overflow flag.                                               *)
THEOREM NothingLost == Spec => []Conserved
<1>1. IInv => Conserved
  <2> SUFFICES ASSUME IInv PROVE Conserved
    OBVIOUS
  <2>1. sent \in Seq(Chars) /\ U!HalfOK(tx)
    BY DEF IInv, DeviceOK, GhostsOK, PortOK, U!TypeOK
  <2>2. InFrame = OnLine(tx) /\ OnLine(tx) \in Seq(Chars)
    BY <2>1 DEF InFrame, OnLine, U!HalfOK, U!Halves
  <2>3. U!Buffered(tx) \in Seq(Chars)
    BY <2>1, BufferedAt
  <2>4. sent \o (OnLine(tx) \o U!Buffered(tx))
          = (sent \o OnLine(tx)) \o U!Buffered(tx)
    BY <2>1, <2>2, <2>3
  <2> QED
    BY <2>2, <2>4 DEF IInv, Sending, Receiving, Conserved
<1> QED
  BY <1>1, Invariant, PTL

(* No program writes into a full buffer, although the flag is a cycle late *)
(* and was read cycles before.                                              *)
THEOREM RoomForEveryWrite == Spec => []WriteFits
<1>1. IInv => WriteFits
  BY DEF IInv, FullKnown, WriteFits
<1> QED
  BY <1>1, Invariant, PTL

(* The handler echoes each character once and in order.                    *)
THEOREM EchoedOnce == Spec => []Echoed
<1>1. IInv => Echoed
  <2> SUFFICES ASSUME IInv, program = "rx"
               PROVE  IsPrefix(written, taken) /\ Len(taken) <= Len(written) + 1
    BY DEF Echoed
  <2>1. /\ written \in Seq(Chars)
        /\ taken = written \/ \E c : taken = Append(written, c)
    <3>1. written \in Seq(Chars)
      BY DEF IInv, DeviceOK, GhostsOK
    <3>2. taken \in {written, Append(written, uart_rdata), Append(written, ch)}
      BY DEF IInv, Owing
    <3> QED
      BY <3>1, <3>2
  <2>2. CASE taken = written
    BY <2>1, <2>2 DEF IsPrefix
  <2>3. CASE \E c : taken = Append(written, c)
    BY <2>1, <2>3 DEF IsPrefix
  <2> QED
    BY <2>1, <2>2, <2>3
<1> QED
  BY <1>1, Invariant, PTL

-----------------------------------------------------------------------------
(* What the programs say and hear: the device in one cycle once more, now  *)
(* how its frames move and what its flags know.                             *)

(* The transmitter's count and the state of its frame.                     *)
LEMMA TransmitParts ==
  ASSUME U!HalfOK(tx), NEW bus, bus.char \in Chars, NEW tick \in BOOLEAN
  PROVE  LET new == U!Transmit(bus, tick)
             push == U!tx_push(bus)
             pop == U!tx_pop(tick)
         IN  /\ new.count = IF push /\ ~ pop THEN tx.count + 1
                            ELSE IF pop /\ ~ push THEN tx.count - 1 ELSE tx.count
             /\ pop => new.state = "START"
             /\ ~ pop /\ tx.state = "IDLE" => new.state = "IDLE"
             /\ ~ tick => new.state = tx.state
<1> DEFINE new == U!Transmit(bus, tick)
           push == U!tx_push(bus)
           pop == U!tx_pop(tick)
           ring == U!Ring(tx, push, pop, bus.char)
<1>1. /\ push \in BOOLEAN /\ pop \in BOOLEAN
      /\ push => tx.count < FIFO_DEPTH
      /\ pop => tx.count # 0
  BY DEF U!tx_push, U!tx_pop
<1>2. U!HalfOK(ring)
  BY <1>1, RingTypes
<1>3. /\ ring.count = IF push /\ ~ pop THEN tx.count + 1
                      ELSE IF pop /\ ~ push THEN tx.count - 1 ELSE tx.count
      /\ ring.state = tx.state
  <2>1. Moved(tx, ring, push, pop, bus.char)
    BY RingMembers
  <2> HIDE DEF ring, push, pop
  <2> QED
    BY <2>1 DEF Moved
<1>4. CASE pop
  <2>1. new = Framed(ring, "START", 0, tx.buffer[tx.head])
    BY <1>4 DEF U!Transmit, Framed
  <2>2. tx.buffer[tx.head] \in Chars /\ "START" \in U!States /\ 0 \in 0 .. BITS - 1
    BY UartAssumption DEF U!HalfOK, U!Halves, U!States, U!Parameters
  <2> HIDE DEF new, ring, push, pop
  <2>3. FrameIs(ring, new, "START", tx.buffer[tx.head])
    BY <1>2, <2>1, <2>2, FrameUpdate
  <2>4. new.count = ring.count /\ new.state = "START"
    BY <2>3 DEF FrameIs, SameRing
  <2>5. tick
    BY <1>4 DEF pop, U!tx_pop
  <2> QED
    BY <1>3, <1>4, <2>4, <2>5 DEF new, push, pop
<1>5. CASE ~ pop
  <2>1. new = IF tick /\ uart_ctrl.uart_en THEN U!NextBit(ring, ring) ELSE ring
    BY <1>5 DEF U!Transmit
  <2> HIDE DEF new, ring, push, pop
  <2>2. /\ new.count = ring.count
        /\ ring.state = "IDLE" => new.state = "IDLE"
        /\ ~ tick => new.state = ring.state
    <3>1. CASE tick /\ uart_ctrl.uart_en
      <4>1. /\ SameRing(ring, new)
            /\ ring.state \in {"IDLE", "STOP"} <=> new.state = "IDLE"
        BY <1>2, <2>1, <3>1, NextBitFrame DEF SameRing
      <4> QED
        BY <3>1, <4>1 DEF SameRing
    <3>2. CASE ~ (tick /\ uart_ctrl.uart_en)
      BY <2>1, <3>2
    <3> QED
      BY <3>1, <3>2
  <2> QED
    BY <1>3, <1>5, <2>2 DEF new, push, pop
<1> QED
  BY <1>4, <1>5

(* The frame a receiver is in, from its start bit to its stop bit.         *)
LEMMA NextBitStates ==
  ASSUME NEW half, U!HalfOK(half), NEW last, U!HalfOK(last),
         NEW new, new = U!NextBit(half, last)
  PROVE  /\ half.state = "START" => new.state = "DATA"
         /\ half.state = "DATA" =>
              \/ new.state = "DATA"
              \/ new.state = "STOP" /\ new.shift = last.shift
         /\ half.state = "STOP" => new.state = "IDLE"
BY DEF U!NextBit, U!HalfOK, U!Halves

(* The receiver's count and the state of its frame.                        *)
LEMMA ReceiveParts ==
  ASSUME U!HalfOK(rx), NEW bus, NEW tick \in BOOLEAN, NEW falling \in BOOLEAN,
         line \in Chars
  PROVE  LET new == U!Receive(bus, tick, falling, line)
             push == U!Kept(tick)
             pop == U!rx_pop(bus)
             bit == tick /\ uart_ctrl.uart_en
         IN  /\ new.count = IF push /\ ~ pop THEN rx.count + 1
                            ELSE IF pop /\ ~ push THEN rx.count - 1 ELSE rx.count
             /\ rx.state = "IDLE" =>
                  new.state = IF falling /\ uart_ctrl.uart_en THEN "START" ELSE "IDLE"
             /\ rx.state # "IDLE" /\ ~ bit =>
                  new.state = rx.state /\ new.shift = rx.shift
             /\ rx.state = "START" /\ bit =>
                  new.state = IF line = 0 THEN "IDLE" ELSE "DATA"
             /\ rx.state = "DATA" /\ bit =>
                  \/ new.state = "DATA"
                  \/ new.state = "STOP" /\ new.shift = line
             /\ rx.state = "STOP" /\ bit => new.state = "IDLE"
<1> DEFINE new == U!Receive(bus, tick, falling, line)
           push == U!Kept(tick)
           pop == U!rx_pop(bus)
           bit == tick /\ uart_ctrl.uart_en
           ring == U!Ring(rx, push, pop, rx.shift)
           last == [ring EXCEPT !.shift = line]
<1>1. /\ push \in BOOLEAN /\ pop \in BOOLEAN /\ rx.shift \in Chars
      /\ push => rx.count < FIFO_DEPTH
      /\ pop => rx.count # 0
  BY DEF U!Kept, U!rx_push, U!rx_pop, U!HalfOK, U!Halves
<1>2. U!HalfOK(ring)
  BY <1>1, RingTypes
<1>3. /\ ring.count = IF push /\ ~ pop THEN rx.count + 1
                      ELSE IF pop /\ ~ push THEN rx.count - 1 ELSE rx.count
      /\ ring.state = rx.state /\ ring.shift = rx.shift
  <2>1. Moved(rx, ring, push, pop, rx.shift)
    BY RingMembers
  <2> HIDE DEF ring, push, pop
  <2> QED
    BY <2>1 DEF Moved
<1>4. U!HalfOK(last) /\ SameRing(ring, last) /\ last.shift = line
  <2> HIDE DEF ring
  <2>1. last = Framed(ring, ring.state, ring.bit_idx, line)
    BY <1>2 DEF Framed, U!HalfOK, U!Halves
  <2>2. ring.state \in U!States /\ ring.bit_idx \in 0 .. BITS - 1
    BY <1>2 DEF U!HalfOK, U!Halves
  <2>3. FrameIs(ring, last, ring.state, line)
    BY <1>2, <2>1, <2>2, FrameUpdate
  <2> QED
    BY <2>3 DEF FrameIs
<1>5. new = IF rx.state = "IDLE"
              THEN IF falling /\ uart_ctrl.uart_en
                     THEN [ring EXCEPT !.state = "START"] ELSE ring
            ELSE IF ~ bit THEN ring
            ELSE IF rx.state = "START" /\ line = 0 THEN [ring EXCEPT !.state = "IDLE"]
            ELSE U!NextBit(ring, last)
  BY DEF U!Receive
<1>b. bit \in BOOLEAN /\ (bit <=> tick /\ uart_ctrl.uart_en)
  OBVIOUS
<1> HIDE DEF new, push, pop, ring, last, bit
<1>6. ASSUME NEW state \in {"START", "IDLE"}, new = [ring EXCEPT !.state = state]
      PROVE  new.count = ring.count /\ new.state = state
  BY <1>2, <1>6 DEF U!HalfOK, U!Halves
<1>7. ASSUME new = U!NextBit(ring, last)
      PROVE  /\ new.count = ring.count
             /\ ring.state = "START" => new.state = "DATA"
             /\ ring.state = "DATA" =>
                  \/ new.state = "DATA"
                  \/ new.state = "STOP" /\ new.shift = line
             /\ ring.state = "STOP" => new.state = "IDLE"
  <2>1. SameRing(ring, new)
    BY <1>2, <1>4, <1>7, NextBitFrame
  <2>2. new.count = ring.count
    BY <2>1 DEF SameRing
  <2> QED
    BY <1>2, <1>4, <1>7, <2>2, NextBitStates
<1>8. new.count = ring.count
  BY <1>5, <1>6, <1>7
<1>9. rx.state = "IDLE" =>
        new.state = IF falling /\ uart_ctrl.uart_en THEN "START" ELSE "IDLE"
  BY <1>3, <1>5, <1>6
<1>10. rx.state # "IDLE" /\ ~ bit => new.state = rx.state /\ new.shift = rx.shift
  BY <1>3, <1>5
<1>11. rx.state = "START" /\ bit => new.state = IF line = 0 THEN "IDLE" ELSE "DATA"
  BY <1>3, <1>5, <1>6, <1>7
<1>12. rx.state = "DATA" /\ bit => \/ new.state = "DATA"
                                   \/ new.state = "STOP" /\ new.shift = line
  BY <1>3, <1>5, <1>7
<1>13. rx.state = "STOP" /\ bit => new.state = "IDLE"
  BY <1>3, <1>5, <1>7
<1>14. new.count = IF push /\ ~ pop THEN rx.count + 1
                   ELSE IF pop /\ ~ push THEN rx.count - 1 ELSE rx.count
  BY <1>3, <1>8
<1> QED
  BY <1>9, <1>10, <1>11, <1>12, <1>13, <1>14 DEF new, push, pop, bit

(* A cycle, part by part.                                                   *)
LEMMA CycleParts ==
  ASSUME NEW ub, UartBus(ub), NEW pb, Cycle(ub, pb)
  PROVE  \E bits \in SUBSET {"tx", "rx"}, falling \in BOOLEAN :
           /\ falling => arriving # <<>>
           /\ bits \cap ticked = {}
           /\ ticked' = IF Waiting THEN {} ELSE ticked \cup bits
           /\ P!Clock(peripheral_interrupts, pb)
           /\ tx' = U!Transmit(ub, "tx" \in bits)
           /\ rx' = U!Receive(ub, "rx" \in bits, falling, line)
           /\ flags' = U!Status
           /\ Line(falling)
           /\ overflow_error' => \/ overflow_error
                                 \/ /\ ub.op = "write_data"
                                    /\ uart_ctrl.uart_en /\ ~ U!tx_push(ub)
                                 \/ U!rx_push("rx" \in bits) /\ ~ U!Kept("rx" \in bits)
           /\ arrived' = IF U!rx_push("rx" \in bits) THEN Append(arrived, rx.shift)
                                                     ELSE arrived
<1>1. PICK bits \in SUBSET {"tx", "rx"},
           falling \in {f \in BOOLEAN : f => arriving # <<>>} :
        /\ bits \cap ticked = {}
        /\ ticked' = IF Waiting THEN {} ELSE ticked \cup bits
        /\ P!Clock(peripheral_interrupts, pb)
        /\ U!Clock(ub, "tx" \in bits, "rx" \in bits, falling, line)
        /\ Line(falling)
        /\ arrived' = IF U!rx_push("rx" \in bits) THEN Append(arrived, rx.shift)
                                                  ELSE arrived
  BY DEF Cycle
<1>2. /\ tx' = U!Transmit(ub, "tx" \in bits)
      /\ rx' = U!Receive(ub, "rx" \in bits, falling, line)
      /\ flags' = U!Status
      /\ overflow_error' => \/ overflow_error
                            \/ /\ ub.op = "write_data"
                               /\ uart_ctrl.uart_en /\ ~ U!tx_push(ub)
                            \/ U!rx_push("rx" \in bits) /\ ~ U!Kept("rx" \in bits)
  BY <1>1 DEF U!Clock, UartBus
<1> QED
  BY <1>1, <1>2

-----------------------------------------------------------------------------
(* The echo program's bursts.                                               *)

(* The flag shows a full transmit buffer only when the program has written *)
(* as much.                                                                 *)
FullMeans ==
  /\ flags.tx_full => Len(written) >= FIFO_DEPTH
  /\ pc = "check" /\ tx_full => Len(written) >= FIFO_DEPTH

(* The message has arrived, is on the line or has still to be sent; the    *)
(* frame carries its character, never the 0 of a pulse.                     *)
InLine == IF rx.state = "IDLE" THEN <<>> ELSE <<line>>
Incoming ==
  program = "rx" =>
    /\ message = (arrived \o InLine) \o arriving
    /\ arriving \in Seq(Chars \ {0})
    /\ rx.state # "IDLE" => line # 0
    /\ rx.state = "STOP" => rx.shift = line

(* As long as the handler has never had to wait for the transmitter it is  *)
(* done with a character before the next one arrives: the interrupt is on, *)
(* it waits for nothing while a character is there, and in that time at    *)
(* most one bit ends.                                                       *)
Prompt ==
  program = "rx" =>
    /\ pc \notin {"reset", "int_en"} => uart_ctrl.rx_int_en
    /\ Rx \in in_service_regs => pc \in Handled /\ plic_rdata = Rx
    /\ Len(taken) <= FIFO_DEPTH =>
         /\ rx.count <= 1
         /\ rx.count = 1 => "rx" \in ticked \/ rx.state \in {"IDLE", "START"}

Short == program = "rx" /\ Len(message) <= 2 * FIFO_DEPTH + 1
Fits == Short => ~ overflow_error

Hearing == FullMeans /\ Incoming /\ Prompt /\ Fits

(* What the transmitter has taken in is at least what its buffer holds.    *)
LEMMA WrittenCount ==
  ASSUME DeviceOK, Sending
  PROVE  /\ Len(written) \in Nat /\ tx.count \in 0 .. FIFO_DEPTH
         /\ tx.count <= Len(written)
<1>1. U!HalfOK(tx) /\ sent \in Seq(Chars) /\ tx.shift \in Chars
      /\ tx.count \in 0 .. FIFO_DEPTH /\ written \in Seq(Chars)
  BY DEF DeviceOK, PortOK, GhostsOK, U!TypeOK, U!HalfOK, U!Halves
<1>2. OnLine(tx) \in Seq(Chars) /\ U!Buffered(tx) \in Seq(Chars)
      /\ Len(U!Buffered(tx)) = tx.count
  BY <1>1, BufferedAt DEF OnLine
<1>3. Len(written) = Len(sent) + (Len(OnLine(tx)) + Len(U!Buffered(tx)))
  <2>1. /\ OnLine(tx) \o U!Buffered(tx) \in Seq(Chars)
        /\ Len(OnLine(tx) \o U!Buffered(tx)) = Len(OnLine(tx)) + Len(U!Buffered(tx))
    BY <1>2, ConcatProperties
  <2> QED
    BY <1>1, <2>1, ConcatProperties DEF Sending
<1> QED
  BY <1>1, <1>2, <1>3, DepthTurn

(* A cycle keeps that knowledge.                                            *)
LEMMA FullMeansStep ==
  ASSUME IInv, FullMeans, NEW ub, NEW pb, Good(ub, pb)
  PROVE  FullMeans'
<1>1. /\ Drives(ub, pb) /\ Cycle(ub, pb) /\ Flow
      /\ UartBus(ub) /\ PlicBus(pb) /\ DeviceOK /\ Sending
  BY DEF Good, Drives, IInv
<1>2. /\ written' = IF U!tx_push(ub) THEN Append(written, ub.char) ELSE written
      /\ ub.op = "read_status" => uart_rdata' = U!uart_status
  BY <1>1, RequestStep
<1>3. flags' = U!Status
  BY <1>1, CycleParts
<1>4. Len(written) \in Nat /\ tx.count <= Len(written) /\ FIFO_DEPTH \in Nat
      /\ tx.count \in Nat
  BY <1>1, WrittenCount, UartAssumption DEF U!Parameters
<1>5. Len(written') \in Nat /\ Len(written') >= Len(written)
  <2>1. written \in Seq(Chars) /\ ub.char \in Chars
    BY <1>1 DEF DeviceOK, GhostsOK, UartBus
  <2> QED
    BY <1>2, <2>1
<1>6. flags'.tx_full => Len(written') >= FIFO_DEPTH
  <2>1. flags'.tx_full => tx.count = FIFO_DEPTH
    BY <1>3 DEF U!Status
  <2> QED
    BY <1>4, <1>5, <2>1
<1>7. ASSUME pc' = "check", tx_full' PROVE Len(written') >= FIFO_DEPTH
  <2>1. uart_rdata' = U!uart_status
    BY <1>1, <1>2, <1>7 DEF Flow, Drives
  <2>2. flags \in U!Flags /\ overflow_error \in BOOLEAN
    BY <1>1 DEF DeviceOK, PortOK, U!TypeOK
  <2>3. (U!uart_status \div 4) % 2 = 1 => flags.tx_full
    BY <2>2 DEF U!Flags, U!uart_status, U!Bit
  <2>4. flags.tx_full
    BY <1>7, <2>1, <2>3 DEF tx_full
  <2> QED
    BY <1>4, <1>5, <2>4, UartAssumption DEF FullMeans, U!Parameters
<1> QED
  BY <1>6, <1>7 DEF FullMeans

(* A cycle loses nothing of the message on its way in.                      *)
LEMMA IncomingStep ==
  ASSUME IInv, Incoming, NEW ub, NEW pb, Good(ub, pb)
  PROVE  Incoming'
<1> SUFFICES ASSUME program = "rx", program' = "rx" PROVE Incoming'
  BY DEF Good, Flow, Incoming
<1>1. /\ Cycle(ub, pb) /\ message' = message /\ UartBus(ub) /\ DeviceOK
  BY DEF Good, Drives, Flow, IInv
<1>2. PICK bits \in SUBSET {"tx", "rx"}, falling \in BOOLEAN :
        /\ falling => arriving # <<>>
        /\ rx' = U!Receive(ub, "rx" \in bits, falling, line)
        /\ Line(falling)
        /\ arrived' = IF U!rx_push("rx" \in bits) THEN Append(arrived, rx.shift)
                                                  ELSE arrived
  BY <1>1, CycleParts
<1>3. /\ U!HalfOK(rx) /\ line \in Chars /\ arrived \in Seq(Chars)
      /\ rx.state \in U!States
  BY <1>1 DEF DeviceOK, PortOK, GhostsOK, U!TypeOK, U!HalfOK, U!Halves
<1>4. /\ message = (arrived \o InLine) \o arriving
      /\ arriving \in Seq(Chars \ {0})
      /\ rx.state # "IDLE" => line # 0
      /\ rx.state = "STOP" => rx.shift = line
  BY DEF Incoming
<1> DEFINE tick == "rx" \in bits
           bit == tick /\ uart_ctrl.uart_en
<1>5. /\ rx.state = "IDLE" =>
           rx'.state = IF falling /\ uart_ctrl.uart_en THEN "START" ELSE "IDLE"
      /\ rx.state # "IDLE" /\ ~ bit => rx'.state = rx.state /\ rx'.shift = rx.shift
      /\ rx.state = "START" /\ bit => rx'.state = IF line = 0 THEN "IDLE" ELSE "DATA"
      /\ rx.state = "DATA" /\ bit => \/ rx'.state = "DATA"
                                     \/ rx'.state = "STOP" /\ rx'.shift = line
      /\ rx.state = "STOP" /\ bit => rx'.state = "IDLE"
  <2>1. tick \in BOOLEAN
    OBVIOUS
  <2> HIDE DEF tick
  <2> QED
    BY <1>2, <1>3, <2>1, ReceiveParts DEF tick
<1>6. CASE rx.state = "IDLE" /\ falling
  <2>1. /\ uart_ctrl.uart_en /\ arriving' = Tail(arriving) /\ line' = Head(arriving)
        /\ arriving # <<>>
    BY <1>2, <1>6 DEF Line
  <2>2. rx'.state = "START" /\ arrived' = arrived
    BY <1>2, <1>5, <1>6, <2>1 DEF U!rx_push
  <2>3. /\ Head(arriving) \in Chars \ {0} /\ Tail(arriving) \in Seq(Chars \ {0})
        /\ arriving = <<Head(arriving)>> \o Tail(arriving)
    BY <1>4, <2>1
  <2>4. (arrived \o <<>>) \o (<<Head(arriving)>> \o Tail(arriving))
          = (arrived \o <<Head(arriving)>>) \o Tail(arriving)
    <3>1. Head(arriving) \in Chars /\ Tail(arriving) \in Seq(Chars)
      BY <2>3
    <3> QED
      BY <1>3, <3>1
  <2> QED
    BY <1>1, <1>4, <1>6, <2>1, <2>2, <2>3, <2>4 DEF Incoming, InLine
<1>7. CASE rx.state = "IDLE" /\ ~ falling
  <2>1. rx'.state = "IDLE" /\ arriving' = arriving /\ arrived' = arrived
    BY <1>2, <1>5, <1>7 DEF Line, U!rx_push
  <2> QED
    BY <1>1, <1>4, <1>7, <2>1 DEF Incoming, InLine
<1>8. ASSUME rx.state # "IDLE" PROVE arriving' = arriving /\ line' = line
  BY <1>2, <1>8 DEF Line
<1>9. CASE rx.state = "STOP" /\ bit
  <2>1. rx'.state = "IDLE" /\ arrived' = Append(arrived, line)
    BY <1>2, <1>4, <1>5, <1>9 DEF U!rx_push
  <2>2. (arrived \o <<line>>) \o arriving
          = (Append(arrived, line) \o <<>>) \o arriving
    <3>1. Append(arrived, line) = arrived \o <<line>>
      BY <1>3
    <3>2. (arrived \o <<line>>) \o <<>> = arrived \o <<line>>
      BY <1>3
    <3> QED
      BY <3>1, <3>2
  <2> QED
    BY <1>1, <1>4, <1>8, <1>9, <2>1, <2>2 DEF Incoming, InLine
<1>10. CASE rx.state # "IDLE" /\ ~ (rx.state = "STOP" /\ bit)
  <2>1. arrived' = arrived
    BY <1>2, <1>10 DEF U!rx_push
  <2>2. /\ rx'.state # "IDLE"
        /\ rx'.state = "STOP" => rx'.shift = line
    BY <1>3, <1>4, <1>5, <1>10 DEF U!States
  <2> QED
    BY <1>1, <1>4, <1>8, <1>10, <2>1, <2>2 DEF Incoming, InLine
<1> QED
  BY <1>6, <1>7, <1>9, <1>10

(* The program never waits while it has a character to read and has not    *)
(* filled the transmitter.                                                  *)
LEMMA Busy ==
  ASSUME IInv, FullMeans, Prompt, program = "rx", rx.count # 0,
         Len(taken) <= FIFO_DEPTH, NEW ub, NEW pb, Good(ub, pb)
  PROVE  ~ Waiting
<1>1. /\ Flow /\ Moves /\ Shape /\ DeviceOK /\ Owing
      /\ pc # "reset" => uart_ctrl.uart_en
  BY DEF Good, IInv, ProgOK
<1>2. ASSUME pc' = pc, ~ Called PROVE FALSE
  <2>1. pc = "wfi"
    BY <1>1, <1>2 DEF Shape, Places, Setup, Handler, Flow, Moves
  <2>2. uart_ctrl.rx_int_en /\ Rx \notin in_service_regs
    BY <2>1 DEF Prompt, Handled
  <2>3. Rx \in Lines(U!Status)
    BY <2>2 DEF Lines, U!Status, Rx
  <2> QED
    BY <1>2, <2>2, <2>3 DEF Called
<1>3. ASSUME pc = "check", pc' = "poll" PROVE FALSE
  <2>1. tx_full
    BY <1>1, <1>3 DEF Flow
  <2>2. Len(written) >= FIFO_DEPTH
    BY <1>3, <2>1 DEF FullMeans
  <2>3. taken = Append(written, ch) /\ written \in Seq(Chars)
    BY <1>1, <1>3 DEF Owing, DeviceOK, GhostsOK
  <2>4. Len(taken) = Len(written) + 1 /\ Len(written) \in Nat
    BY <2>3
  <2> QED
    BY <2>2, <2>4, UartAssumption DEF U!Parameters
<1> QED
  BY <1>2, <1>3 DEF Waiting

(* A cycle keeps the handler prompt.                                        *)
LEMMA PromptStep ==
  ASSUME IInv, FullMeans, Prompt, NEW ub, NEW pb, Good(ub, pb)
  PROVE  Prompt'
<1> SUFFICES ASSUME program = "rx", program' = "rx" PROVE Prompt'
  BY DEF Good, Flow, Prompt
<1>1. /\ Drives(ub, pb) /\ Cycle(ub, pb) /\ Flow /\ Moves /\ Shape /\ DeviceOK
      /\ UartBus(ub) /\ PlicBus(pb)
  BY DEF Good, Drives, IInv, ProgOK
<1>2. /\ uart_ctrl' = IF ub.op = "write_ctrl" THEN ub.ctrl ELSE uart_ctrl
      /\ taken' = IF ub.op = "read_data" THEN Append(taken, uart_rdata') ELSE taken
  BY <1>1, RequestStep
<1>3. ASSUME pc' \notin {"reset", "int_en"} PROVE uart_ctrl'.rx_int_en
  <2>1. CASE pc = "int_en"
    <3>1. ub = On(FALSE, TRUE)
      BY <1>1, <2>1 DEF Drives
    <3>2. ub.op = "write_ctrl" /\ ub.ctrl.rx_int_en
      BY <3>1 DEF On, U!WriteCtrl, U!Control, U!Access
    <3> QED
      BY <1>2, <3>2
  <2>2. CASE pc # "int_en"
    <3>1. pc # "reset"
      BY <1>1, <1>3 DEF Moves
    <3>2. ub.op # "write_ctrl"
      BY <1>1, <2>2, <3>1 DEF Drives, Shape, Places
    <3> QED
      BY <1>2, <2>2, <3>1, <3>2 DEF Prompt
  <2> QED
    BY <2>1, <2>2
<1>4. ASSUME Rx \in in_service_regs' PROVE pc' \in Handled /\ plic_rdata' = Rx
  <2>1. \/ Rx \in in_service_regs
        \/ pb.reg = "read_claim" /\ plic_rdata' = Rx
    BY <1>1, <1>4, SourceStep
  <2>2. CASE pb.reg = "read_claim" /\ plic_rdata' = Rx
    BY <1>1, <2>2 DEF Drives, Flow, Handled
  <2>3. CASE Rx \in in_service_regs
    <3>1. pc \in Handled /\ plic_rdata = Rx
      BY <2>3 DEF Prompt
    <3>2. pc # "complete"
      <4>1. pc = "complete" => pb = P!WriteClaim(Rx)
        BY <1>1, <3>1 DEF Drives
      <4> QED
        BY <1>1, <1>4, <4>1, SourceStep
    <3>3. plic_rdata' = Rx
      <4>1. pb.reg # "read_claim"
        BY <1>1, <3>1 DEF Drives, Handled
      <4> QED
        BY <1>1, <3>1, <4>1, SourceStep
    <3>4. pc' \in Handled
      BY <1>1, <3>1, <3>2 DEF Handled, Flow, Moves, Id, Rx
    <3> QED
      BY <3>3, <3>4
  <2> QED
    BY <2>1, <2>2, <2>3
<1>5. ASSUME Len(taken') <= FIFO_DEPTH
      PROVE  /\ rx'.count <= 1
             /\ rx'.count = 1 => "rx" \in ticked' \/ rx'.state \in {"IDLE", "START"}
  <2>1. Len(taken) <= FIFO_DEPTH
    <3>1. taken \in Seq(Chars) /\ taken' \in Seq(Chars) /\ FIFO_DEPTH \in Nat
      <4>1. DeviceOK'
        BY <1>1, CycleStep
      <4> QED
        BY <1>1, <4>1, UartAssumption DEF DeviceOK, GhostsOK, U!Parameters
    <3>2. Len(taken) <= Len(taken')
      BY <1>2, <3>1
    <3> QED
      BY <1>5, <3>1, <3>2
  <2>2. /\ rx.count <= 1
        /\ rx.count = 1 => "rx" \in ticked \/ rx.state \in {"IDLE", "START"}
    BY <2>1 DEF Prompt
  <2>3. U!HalfOK(rx) /\ line \in Chars /\ rx.count \in Nat /\ rx.state \in U!States
    BY <1>1, DepthTurn DEF DeviceOK, PortOK, U!TypeOK, U!HalfOK, U!Halves
  <2>4. PICK bits \in SUBSET {"tx", "rx"}, falling \in BOOLEAN :
          /\ bits \cap ticked = {}
          /\ ticked' = IF Waiting THEN {} ELSE ticked \cup bits
          /\ rx' = U!Receive(ub, "rx" \in bits, falling, line)
    BY <1>1, CycleParts
  <2> DEFINE tick == "rx" \in bits
             push == U!Kept(tick)
             pop == U!rx_pop(ub)
             bit == tick /\ uart_ctrl.uart_en
  <2>5. /\ rx'.count = IF push /\ ~ pop THEN rx.count + 1
                       ELSE IF pop /\ ~ push THEN rx.count - 1 ELSE rx.count
        /\ rx.state = "IDLE" =>
             rx'.state = IF falling /\ uart_ctrl.uart_en THEN "START" ELSE "IDLE"
        /\ rx.state # "IDLE" /\ ~ bit => rx'.state = rx.state
        /\ rx.state = "STOP" /\ bit => rx'.state = "IDLE"
    <3>1. tick \in BOOLEAN /\ rx' = U!Receive(ub, tick, falling, line)
      BY <2>4
    <3> HIDE DEF tick
    <3> QED
      BY <2>3, <3>1, ReceiveParts
  <2>6. /\ push => rx.state = "STOP" /\ bit
        /\ pop => rx.count # 0
    BY DEF U!Kept, U!rx_push, U!rx_pop
  <2>7. tick => "rx" \notin ticked
    BY <2>4
  <2> HIDE DEF tick, push, pop, bit
  <2>8. CASE rx.count = 0
    BY <2>5, <2>6, <2>8
  <2>9. CASE rx.count = 1
    <3>1. ~ push
      BY <2>2, <2>6, <2>7, <2>9 DEF bit
    <3>2. ticked' = ticked \cup bits
      BY <1>1, <2>1, <2>4, <2>9, Busy
    <3>3. "rx" \in ticked' \/ rx'.state \in {"IDLE", "START"}
      <4>1. CASE "rx" \in ticked \/ bit
        BY <3>2, <4>1 DEF bit, tick
      <4>2. CASE rx.state \in {"IDLE", "START"} /\ ~ bit
        BY <2>5, <4>2
      <4> QED
        BY <2>2, <2>9, <4>1, <4>2
    <3> QED
      BY <2>5, <2>9, <3>1, <3>3
  <2> QED
    BY <2>2, <2>3, <2>8, <2>9
<1> QED
  BY <1>3, <1>4, <1>5 DEF Prompt

(* A cycle overflows no buffer in a short burst: when a character finds the *)
(* receiver full, as many have been taken from it as fill the transmitter, *)
(* and one more.                                                            *)
LEMMA FitsStep ==
  ASSUME IInv, FullMeans, Incoming, Prompt, Fits, NEW ub, NEW pb, Good(ub, pb)
  PROVE  Fits'
<1>1. /\ Drives(ub, pb) /\ Cycle(ub, pb) /\ Flow /\ Shape /\ DeviceOK /\ FullKnown
      /\ UartBus(ub) /\ PlicBus(pb) /\ Receiving
      /\ program' = program /\ message' = message
      /\ pc # "reset" => uart_ctrl.uart_en
  BY DEF Good, Drives, IInv, ProgOK, Flow
<1> SUFFICES ASSUME Short, overflow_error' PROVE FALSE
  BY <1>1 DEF Fits, Short
<1>2. program = "rx" /\ Len(message) <= 2 * FIFO_DEPTH + 1 /\ ~ overflow_error
  BY DEF Fits, Short
<1>3. PICK bits \in SUBSET {"tx", "rx"}, falling \in BOOLEAN :
        /\ bits \cap ticked = {}
        /\ overflow_error' => \/ overflow_error
                              \/ /\ ub.op = "write_data"
                                 /\ uart_ctrl.uart_en /\ ~ U!tx_push(ub)
                              \/ U!rx_push("rx" \in bits) /\ ~ U!Kept("rx" \in bits)
  BY <1>1, CycleParts
<1>4. ub.op = "write_data" => U!tx_push(ub)
  <2>1. ub.op = "write_data" => pc = "write" /\ uart_ctrl.uart_en
    BY <1>1, <1>2 DEF Drives, Shape, Places
  <2> QED
    BY <1>1, <2>1 DEF FullKnown, U!tx_push
<1>5. /\ rx.state = "STOP" /\ "rx" \in bits /\ ~ (rx.count < FIFO_DEPTH)
  BY <1>2, <1>3, <1>4 DEF U!rx_push, U!Kept
<1>6. /\ arrived \in Seq(Chars) /\ taken \in Seq(Chars) /\ arriving \in Seq(Chars)
      /\ line \in Chars /\ U!HalfOK(rx)
      /\ FIFO_DEPTH \in Nat \ {0} /\ rx.count \in 0 .. FIFO_DEPTH
  BY <1>1, UartAssumption
     DEF DeviceOK, GhostsOK, PortOK, U!TypeOK, U!HalfOK, U!Halves, U!Parameters
<1>7. rx.count = FIFO_DEPTH
  BY <1>5, <1>6
<1>8. Len(arrived) = Len(taken) + FIFO_DEPTH
  <2>1. U!Buffered(rx) \in Seq(Chars) /\ Len(U!Buffered(rx)) = rx.count
    BY <1>6, BufferedAt
  <2>2. arrived = taken \o U!Buffered(rx)
    BY <1>1, <1>2 DEF Receiving
  <2> QED
    BY <1>6, <1>7, <2>1, <2>2, ConcatProperties
<1>9. Len(message) >= Len(arrived) + 1
  <2>1. message = (arrived \o <<line>>) \o arriving
    BY <1>2, <1>5 DEF Incoming, InLine
  <2>2. Len(message) = (Len(arrived) + 1) + Len(arriving)
    BY <1>6, <2>1
  <2> QED
    BY <1>6, <2>2
<1>10. Len(taken) <= FIFO_DEPTH
  <2>1. Len(taken) \in Nat /\ Len(arrived) \in Nat
    BY <1>6
  <2> QED
    BY <1>2, <1>6, <1>8, <1>9, <2>1
<1>11. /\ rx.count <= 1
       /\ rx.count = 1 => "rx" \in ticked \/ rx.state \in {"IDLE", "START"}
  BY <1>2, <1>10 DEF Prompt
<1>12. "rx" \in ticked
  BY <1>5, <1>6, <1>7, <1>11
<1> QED
  BY <1>3, <1>5, <1>12

(* Every step keeps all of it.                                              *)
LEMMA HearingStep == IInv /\ Hearing /\ [Next]_vars => Hearing'
<1> SUFFICES ASSUME IInv, Hearing, [Next]_vars PROVE Hearing'
  OBVIOUS
<1>1. CASE Next
  <2>1. PICK ub, pb : Good(ub, pb)
    BY <1>1, ProgramStep DEF IInv, DeviceOK
  <2> QED
    BY <2>1, FullMeansStep, IncomingStep, PromptStep, FitsStep DEF Hearing
<1>2. CASE UNCHANGED vars
  <2>1. FullMeans' /\ Incoming'
    BY <1>2 DEF vars, uartVars, progVars, Hearing, FullMeans, tx_full, Incoming, InLine
  <2>2. Prompt' /\ Fits'
    BY <1>2 DEF vars, plicVars, uartVars, progVars, Hearing, Prompt, Fits, Short
  <2> QED
    BY <2>1, <2>2 DEF Hearing
<1> QED
  BY <1>1, <1>2

(* The reset state has it.                                                  *)
LEMMA InitHearing == Init => Hearing
<1> SUFFICES ASSUME Init PROVE Hearing
  OBVIOUS
<1>1. /\ ~ flags.tx_full /\ pc = "reset" /\ rx.state = "IDLE" /\ rx.count = 0
      /\ ~ overflow_error /\ in_service_regs = {} /\ arrived = <<>>
      /\ program = "rx" => arriving = message
  BY DEF Init, U!Init, U!Empty, P!Init
<1>2. program = "rx" => message \in Seq(Chars \ {0})
  <2>1. message \in Seq(Chars \ {0, CR})
    BY MessagesAssumption DEF Init
  <2> QED
    BY <2>1
<1>3. Incoming
  <2>1. ASSUME program = "rx" PROVE message = (<<>> \o <<>>) \o message
    BY <1>2, <2>1
  <2> QED
    BY <1>1, <1>2, <2>1 DEF Incoming, InLine
<1> QED
  BY <1>1, <1>3 DEF Hearing, FullMeans, Prompt, Fits

(* A prefix stays one when something is added.                             *)
LEMMA PrefixGrows ==
  ASSUME NEW s \in Seq(Chars), NEW t \in Seq(Chars), NEW u \in Seq(Chars),
         IsPrefix(s, t)
  PROVE  IsPrefix(s, t \o u)
<1>1. Len(s) <= Len(t) /\ SubSeq(s, 1, Len(s)) = SubSeq(t, 1, Len(s))
  BY DEF IsPrefix
<1>2. SubSeq(t \o u, 1, Len(s)) = SubSeq(t, 1, Len(s))
  BY <1>1
<1>3. Len(s) <= Len(t \o u)
  BY <1>1
<1> QED
  BY <1>1, <1>2, <1>3 DEF IsPrefix

(* A burst of up to two buffers and one character arrives whole, and it is *)
(* what comes back.                                                         *)
THEOREM BurstArrives == Spec => []BurstFits
<1>1. IInv /\ Hearing => BurstFits
  <2> SUFFICES ASSUME IInv, Hearing, Short
               PROVE  ~ overflow_error /\ IsPrefix(sent, message)
    BY DEF BurstFits, Short
  <2>1. ~ overflow_error /\ program = "rx"
    BY DEF Hearing, Fits, Short
  <2>2. /\ U!HalfOK(tx) /\ U!HalfOK(rx) /\ written \in Seq(Chars)
        /\ sent \in Seq(Chars) /\ arrived \in Seq(Chars) /\ taken \in Seq(Chars)
        /\ arriving \in Seq(Chars) /\ line \in Chars /\ tx.shift \in Chars
        /\ ch \in Chars /\ (pc = "got" => uart_rdata \in Chars)
    BY DEF IInv, DeviceOK, PortOK, GhostsOK, ProgOK, Shape, U!TypeOK, U!HalfOK, U!Halves
  <2>3. IsPrefix(sent, written)
    <3>1. OnLine(tx) \in Seq(Chars) /\ U!Buffered(tx) \in Seq(Chars)
      BY <2>2, BufferedAt DEF OnLine
    <3>2. OnLine(tx) \o U!Buffered(tx) \in Seq(Chars)
      BY <3>1, ConcatProperties
    <3>3. IsPrefix(sent, sent)
      BY <2>2 DEF IsPrefix
    <3> QED
      BY <2>2, <3>2, <3>3, PrefixGrows DEF IInv, Sending
  <2>4. IsPrefix(sent, taken)
    <3>1. taken = written \/ \E c \in Chars : taken = Append(written, c)
      BY <2>1, <2>2 DEF IInv, Owing
    <3>2. ASSUME NEW c \in Chars, taken = Append(written, c)
          PROVE  IsPrefix(sent, taken)
      <4>1. <<c>> \in Seq(Chars) /\ taken = written \o <<c>>
        BY <2>2, <3>2
      <4> QED
        BY <2>2, <2>3, <4>1, PrefixGrows
    <3> QED
      BY <2>3, <3>1, <3>2
  <2>5. IsPrefix(sent, arrived)
    <3>1. U!Buffered(rx) \in Seq(Chars) /\ arrived = taken \o U!Buffered(rx)
      BY <2>1, <2>2, BufferedAt DEF IInv, Receiving
    <3> QED
      BY <2>2, <2>4, <3>1, PrefixGrows
  <2>6. IsPrefix(sent, message)
    <3>1. InLine \in Seq(Chars) /\ message = (arrived \o InLine) \o arriving
      BY <2>1, <2>2 DEF Hearing, Incoming, InLine
    <3>2. arrived \o InLine \in Seq(Chars) /\ IsPrefix(sent, arrived \o InLine)
      BY <2>2, <2>5, <3>1, PrefixGrows, ConcatProperties
    <3> QED
      BY <2>2, <3>1, <3>2, PrefixGrows
  <2> QED
    BY <2>1, <2>6
<1> QED
  BY <1>1, Invariant, InitHearing, HearingStep, PTL DEF Spec

-----------------------------------------------------------------------------
(* The interrupt driven string.                                             *)

(* A program is at a place of main, or in the handler called from there.   *)
At(place) == pc = place \/ (pc \in Handler /\ ret = place)

(* The first k characters of the string, perhaps after a first one more.   *)
Said(k) ==
  written \in {SubSeq(message, 1, k), <<message[1]>> \o SubSeq(message, 1, k)}

(* What has been written when main, or the handler called there, is at a   *)
(* place, and g_tx_idx is what it is.                                       *)
Text ==
  program = "tx" =>
    /\ Len(message) > 1
    /\ pc \in Setup \/ At("first") \/ At("index") \/ At("wfi") \/ At("end")
    /\ pc \in Setup => idx = 0 /\ written = <<>>
    /\ At("first") => idx \in {0, 1} /\ written = SubSeq(message, 1, idx)
    /\ At("index") =>
         /\ idx \in {0, 1}
         /\ idx = 0 => written = SubSeq(message, 1, 1)
         /\ idx = 1 => Said(1)
    /\ At("wfi") \/ At("end") => pc \in Setup \/ (idx >= 1 /\ Said(idx))
    /\ pc \in {"poll", "check", "write"} => ch = message[idx + 1]

TxEmpty == tx.count = 0 /\ tx.state = "IDLE"
TxAsked ==
  flags.tx_int \/ Tx \in pending_regs \/ (claim_valid_r /\ claim_id_r = Tx)
TxHandled == {"dispatch", "poll", "check", "write", "last", "complete"}
TxBehind == pc \in {"poll", "check", "write"} \/ (pc = "complete" /\ plic_rdata = Tx)

(* The handler has sent the first character before main does, and from     *)
(* then on until main waits the transmitter is busy: at most one bit ends. *)
Early == (At("first") \/ At("index")) /\ idx = 1
TxHolds == tx.count # 0 \/ (tx.state # "IDLE" /\ "tx" \in ticked)

(* Once the handler has sent something a request says that the transmitter *)
(* has nothing left, but for the time between its write and its completion *)
(* when the flag still shows the cycle before.  A request from before main's *)
(* own write may be late, which costs nothing but a longer way.            *)
Requests ==
  program = "tx" =>
    /\ (Early \/ idx >= 2) /\ ~ TxBehind /\ TxAsked => TxEmpty
    /\ pc \in {"poll", "check", "write", "last"} => plic_rdata = Tx
    /\ pc \in TxHandled /\ plic_rdata = Tx =>
         /\ Tx \in in_service_regs /\ Tx \notin pending_regs
         /\ pc # "dispatch" => ~ (claim_valid_r /\ claim_id_r = Tx)
    /\ (Early \/ idx >= 2) /\ (pc = "last" \/ (pc = "dispatch" /\ plic_rdata = Tx)) =>
         TxEmpty
    /\ Early => /\ TxHolds /\ pc \notin {"poll", "check", "write", "last"}
                /\ ~ (pc = "dispatch" /\ plic_rdata = Tx)
    /\ pc = "last" => idx = Len(message)
    /\ done => idx = Len(message) /\ TxEmpty /\ pc \notin {"poll", "check", "write"}

(* One more character of a text.                                            *)
LEMMA OneMore ==
  ASSUME NEW m \in Seq(Chars), NEW k \in 0 .. Len(m) - 1
  PROVE  Append(SubSeq(m, 1, k), m[k + 1]) = SubSeq(m, 1, k + 1)
<1>1. /\ k \in Nat /\ Len(m) \in Nat /\ k + 1 \in 1 .. Len(m) /\ 1 \in 1 .. Len(m)
      /\ \A i \in 1 .. Len(m) : m[i] \in Chars
  BY LenProperties
<1>2. SubSeq(m, 1, k + 1) = SubSeq(m, 1, (k + 1) - 1) \o <<m[k + 1]>>
  BY <1>1, SubSeqRecursiveSecond
<1>3. SubSeq(m, 1, k) \in Seq(Chars) /\ m[k + 1] \in Chars /\ (k + 1) - 1 = k
  BY <1>1, SubSeqProperties
<1> QED
  BY <1>2, <1>3, AppendIsConcat

(* And of one with its first character before it.                          *)
LEMMA OneMoreSaid ==
  ASSUME NEW m \in Seq(Chars), NEW k \in 0 .. Len(m) - 1
  PROVE  Append(<<m[1]>> \o SubSeq(m, 1, k), m[k + 1])
           = <<m[1]>> \o SubSeq(m, 1, k + 1)
<1>1. /\ \A i \in 1 .. k : m[i] \in Chars
      /\ m[1] \in Chars /\ m[k + 1] \in Chars
  OBVIOUS
<1>2. SubSeq(m, 1, k) \in Seq(Chars) /\ <<m[1]>> \in Seq(Chars)
      /\ <<m[k + 1]>> \in Seq(Chars)
  BY <1>1, SubSeqProperties
<1>3. /\ Append(<<m[1]>> \o SubSeq(m, 1, k), m[k + 1])
           = (<<m[1]>> \o SubSeq(m, 1, k)) \o <<m[k + 1]>>
      /\ Append(SubSeq(m, 1, k), m[k + 1]) = SubSeq(m, 1, k) \o <<m[k + 1]>>
  BY <1>1, <1>2, ConcatProperties, AppendIsConcat
<1> QED
  BY <1>2, <1>3, OneMore, ConcatAssociative

(* What a step writes: the character that the handler has fetched, for     *)
(* which there is room, or main's first one, if there is room.             *)
LEMMA Writes ==
  ASSUME IInv, NEW ub, NEW pb, Good(ub, pb)
  PROVE  /\ pc = "write" => written' = Append(written, ch) /\ U!tx_push(ub)
         /\ pc = "first" /\ pc' = "index" =>
              IF tx.count < FIFO_DEPTH THEN written' = Append(written, message[1])
                                       ELSE written' = written
         /\ pc # "write" /\ ~ (pc = "first" /\ pc' = "index") =>
              written' = written /\ ~ U!tx_push(ub)
<1>1. /\ Drives(ub, pb) /\ Moves /\ Cycle(ub, pb) /\ UartBus(ub) /\ PlicBus(pb)
      /\ FullKnown /\ DeviceOK /\ (pc # "reset" => uart_ctrl.uart_en)
  BY DEF Good, Drives, IInv, ProgOK
<1>2. written' = IF U!tx_push(ub) THEN Append(written, ub.char) ELSE written
  BY <1>1, RequestStep
<1>3. ASSUME pc = "write" PROVE written' = Append(written, ch) /\ U!tx_push(ub)
  <2>1. ub = U!WriteData(ch) /\ tx.count < FIFO_DEPTH /\ uart_ctrl.uart_en
    BY <1>1, <1>3 DEF Drives, FullKnown
  <2>2. ub.op = "write_data" /\ ub.char = ch
    BY <2>1 DEF U!WriteData, U!Access
  <2> QED
    BY <1>2, <2>1, <2>2 DEF U!tx_push
<1>4. ASSUME pc = "first", pc' = "index"
      PROVE  IF tx.count < FIFO_DEPTH THEN written' = Append(written, message[1])
                                      ELSE written' = written
  <2>1. ub = U!WriteData(message[1]) /\ uart_ctrl.uart_en
    BY <1>1, <1>4 DEF Drives
  <2>2. ub.op = "write_data" /\ ub.char = message[1]
    BY <2>1 DEF U!WriteData, U!Access
  <2> QED
    BY <1>2, <2>1, <2>2 DEF U!tx_push
<1>5. ASSUME pc # "write", ~ (pc = "first" /\ pc' = "index")
      PROVE  written' = written /\ ~ U!tx_push(ub)
  <2>1. ub.op # "write_data"
    BY <1>1, <1>5 DEF Drives, Moves
  <2> QED
    BY <1>2, <2>1 DEF U!tx_push
<1> QED
  BY <1>3, <1>4, <1>5

(* Where the program is does not change but for main's own steps and the   *)
(* count.                                                                   *)
LEMMA Stays ==
  ASSUME IInv, program = "tx", NEW ub, NEW pb, Good(ub, pb)
  PROVE  /\ pc' \in Setup => pc \in Setup
         /\ At("first")' => pc = "csr" \/ At("first")
         /\ At("index")' => (pc = "first" /\ pc' = "index") \/ At("index")
         /\ At("wfi")' => \/ pc \in Setup /\ pc' \in Setup
                          \/ pc = "index" /\ pc' = "wfi"
                          \/ At("wfi") /\ pc \notin Setup
         /\ At("end")' => At("end") \/ At("wfi")
         /\ pc' \in Setup \/ At("first")' \/ At("index")' \/ At("wfi")' \/ At("end")'
         /\ pc \in {"poll", "check", "write"} /\ At("first") => At("first")'
         /\ pc \in {"poll", "check", "write"} /\ At("index") => At("index")'
         /\ pc \in {"poll", "check", "write"} /\ At("wfi") => At("wfi")'
<1>1. /\ Flow /\ Moves /\ Shape
      /\ program' = program
  BY DEF Good, IInv, ProgOK, Flow
<1> USE <1>1 DEF At, Shape, Places, Setup, Handler
<1>2. pc' \in Setup => pc \in Setup
  BY DEF Flow, Moves
<1>3. At("first")' => pc = "csr" \/ At("first")
  BY DEF Flow, Moves
<1>4. At("index")' => (pc = "first" /\ pc' = "index") \/ At("index")
  BY DEF Flow, Moves
<1>5. At("wfi")' => \/ pc \in Setup /\ pc' \in Setup
                    \/ pc = "index" /\ pc' = "wfi"
                    \/ At("wfi") /\ pc \notin Setup
  BY DEF Flow, Moves
<1>6. At("end")' => At("end") \/ At("wfi")
  BY DEF Flow, Moves
<1>7. pc' \in Setup \/ At("first")' \/ At("index")' \/ At("wfi")' \/ At("end")'
  BY DEF Good, Flow, Moves
<1>8. pc \in {"poll", "check", "write"} /\ ret' = ret => pc' \in Handler
  BY DEF Flow, Moves
<1>9. pc \in {"poll", "check", "write"} => ret' = ret
  BY DEF Flow, Moves
<1> QED
  BY <1>2, <1>3, <1>4, <1>5, <1>6, <1>7, <1>8, <1>9

(* A cycle keeps to the text.                                               *)
LEMMA TextStep ==
  ASSUME IInv, Text, Requests, NEW ub, NEW pb, Good(ub, pb)
  PROVE  Text'
<1> SUFFICES ASSUME program = "tx", program' = "tx" PROVE Text'
  BY DEF Good, Flow, Text
<1>1. /\ Flow /\ Moves /\ Counts /\ Shape /\ Shape' /\ DeviceOK /\ Sending
      /\ message' = message
  BY DEF Good, IInv, ProgOK, Flow
<1>2. /\ Len(message) > 1 /\ Len(message) \in Nat /\ message \in Seq(Chars)
      /\ idx \in Nat
  BY <1>1 DEF Text, Shape
<1>3. /\ pc \in Setup => idx = 0 /\ written = <<>>
      /\ At("first") => idx \in {0, 1} /\ written = SubSeq(message, 1, idx)
      /\ At("index") =>
           /\ idx \in {0, 1}
           /\ idx = 0 => written = SubSeq(message, 1, 1)
           /\ idx = 1 => Said(1)
      /\ At("wfi") \/ At("end") => pc \in Setup \/ (idx >= 1 /\ Said(idx))
      /\ pc \in {"poll", "check", "write"} => ch = message[idx + 1]
  BY DEF Text
<1>4. /\ pc = "write" => written' = Append(written, message[idx + 1])
      /\ pc = "first" /\ pc' = "index" =>
           IF tx.count < FIFO_DEPTH THEN written' = Append(written, message[1])
                                    ELSE written' = written
      /\ pc # "write" /\ ~ (pc = "first" /\ pc' = "index") => written' = written
  BY <1>3, Writes
<1>5. /\ pc = "index" /\ pc' = "wfi" => idx' = 1
      /\ pc = "write" => idx' = idx + 1 /\ idx < Len(message)
      /\ pc # "write" /\ ~ (pc = "index" /\ pc' = "wfi") => idx' = idx
  BY <1>1 DEF Counts, Shape, Places
<1>6. \A k \in 0 .. Len(message) - 1 :
        /\ Append(SubSeq(message, 1, k), message[k + 1]) = SubSeq(message, 1, k + 1)
        /\ Append(<<message[1]>> \o SubSeq(message, 1, k), message[k + 1])
             = <<message[1]>> \o SubSeq(message, 1, k + 1)
  BY <1>2, OneMore, OneMoreSaid
<1>7. /\ SubSeq(message, 1, 0) = <<>> /\ SubSeq(message, 1, 1) = <<message[1]>>
      /\ Append(<<message[1]>>, message[1]) = <<message[1]>> \o <<message[1]>>
  <2>1. SubSeq(message, 1, 0) = <<>>
    BY SubSeqEmpty
  <2>2. message[1] \in Chars
    BY <1>2
  <2>3. Append(<<>>, message[1]) = <<message[1]>>
    BY <2>2
  <2>4. /\ 0 \in 0 .. Len(message) - 1
        /\ 0 + 1 = 1
    BY <1>2
  <2>5. Append(SubSeq(message, 1, 0), message[1]) = SubSeq(message, 1, 1)
    BY <1>6, <2>4
  <2>6. SubSeq(message, 1, 1) = <<message[1]>>
    BY <2>1, <2>3, <2>5
  <2>7. <<message[1]>> \in Seq(Chars)
    BY <2>2
  <2>8. Append(<<message[1]>>, message[1]) = <<message[1]>> \o <<message[1]>>
    BY <2>2, <2>7, AppendIsConcat
  <2> QED
    BY <2>1, <2>6, <2>8
<1>8. pc' \in Setup => idx' = 0 /\ written' = <<>>
  BY <1>3, <1>4, <1>5, Stays DEF Setup
<1>9. ASSUME At("first")'
      PROVE  idx' \in {0, 1} /\ written' = SubSeq(message, 1, idx')
  <2>1. pc = "csr" \/ At("first")
    BY <1>9, Stays
  <2>2. CASE pc = "write"
    <3>1. At("first") /\ idx = 0
      BY <1>3, <2>1, <2>2 DEF Requests, Early
    <3> QED
      BY <1>2, <1>3, <1>4, <1>5, <1>6, <2>2, <3>1
  <2>3. CASE pc # "write"
    <3>1. ~ (pc = "first" /\ pc' = "index") /\ ~ (pc = "index" /\ pc' = "wfi")
      BY <1>9, <1>1 DEF At, Handler
    <3>2. pc = "csr" => pc \in Setup
      BY DEF Setup
    <3> QED
      BY <1>3, <1>4, <1>5, <1>7, <2>1, <2>3, <3>1, <3>2
  <2> QED
    BY <2>2, <2>3
<1>10. ASSUME At("index")'
       PROVE  /\ idx' \in {0, 1}
              /\ idx' = 0 => written' = SubSeq(message, 1, 1)
              /\ idx' = 1 => Said(1)'
  <2>1. (pc = "first" /\ pc' = "index") \/ At("index")
    BY <1>10, Stays
  <2>2. CASE pc = "first" /\ pc' = "index"
    <3>1. idx' = idx /\ idx \in {0, 1} /\ written = SubSeq(message, 1, idx)
      BY <1>3, <1>5, <2>2 DEF At
    <3>2. idx = 0 => written' = SubSeq(message, 1, 1)
      <4>1. idx = 0 => Len(written) = 0
        BY <1>7, <3>1
      <4>2. idx = 0 => tx.count < FIFO_DEPTH
        BY <1>1, <4>1, WrittenCount, UartAssumption DEF U!Parameters
      <4> QED
        BY <1>4, <1>7, <2>2, <3>1, <4>2
    <3>3. idx = 1 => Said(1)'
      BY <1>1, <1>4, <1>7, <2>2, <3>1 DEF Said
    <3> QED
      BY <3>1, <3>2, <3>3
  <2>3. CASE pc = "write" /\ At("index")
    <3>1. idx = 0
      BY <1>3, <2>3 DEF Requests, Early
    <3>2. idx + 1 = 1 /\ written = <<message[1]>>
      BY <1>3, <1>7, <2>3, <3>1
    <3>3. written' = Append(<<message[1]>>, message[1])
      BY <1>4, <2>3, <3>2
    <3> QED
      BY <1>1, <1>5, <1>7, <2>3, <3>1, <3>2, <3>3 DEF Said
  <2>4. CASE pc # "write" /\ ~ (pc = "first" /\ pc' = "index")
    <3>1. At("index") /\ pc' # "wfi"
      BY <1>10, <2>1, <2>4 DEF At, Handler
    <3>2. idx' = idx /\ written' = written
      BY <1>4, <1>5, <2>4, <3>1
    <3> QED
      BY <1>1, <1>3, <3>1, <3>2 DEF Said
  <2> QED
    BY <2>1, <2>2, <2>3, <2>4
<1>11. ASSUME At("wfi")' \/ At("end")', pc' \notin Setup
       PROVE  idx' >= 1 /\ Said(idx)'
  <2>1. (pc = "index" /\ pc' = "wfi") \/ ((At("wfi") \/ At("end")) /\ pc \notin Setup)
    <3>1. At("end") => pc \notin Setup
      BY DEF At, Handler, Setup
    <3>2. At("end")' => pc \notin Setup
      BY <1>1 DEF At, Handler, Setup, Moves
    <3> QED
      BY <1>11, <3>1, <3>2, Stays
  <2>2. CASE pc = "index" /\ pc' = "wfi"
    <3>1. Said(1) /\ written' = written
      BY <1>3, <1>4, <2>2 DEF At, Said
    <3> QED
      BY <1>1, <1>5, <2>2, <3>1 DEF Said
  <2>3. CASE pc = "write" /\ (At("wfi") \/ At("end")) /\ pc \notin Setup
    <3>1. idx >= 1 /\ Said(idx) /\ idx \in 0 .. Len(message) - 1
      BY <1>2, <1>3, <1>5, <2>3
    <3>2. written' \in {SubSeq(message, 1, idx + 1),
                        <<message[1]>> \o SubSeq(message, 1, idx + 1)}
      BY <1>4, <1>6, <2>3, <3>1 DEF Said
    <3> QED
      BY <1>1, <1>5, <2>3, <3>1, <3>2 DEF Said
  <2>4. CASE pc # "write" /\ (At("wfi") \/ At("end")) /\ pc \notin Setup
    <3>1. ~ (pc = "first" /\ pc' = "index") /\ ~ (pc = "index" /\ pc' = "wfi")
      BY <2>4 DEF At, Handler
    <3> QED
      BY <1>1, <1>3, <1>4, <1>5, <2>4, <3>1 DEF Said
  <2> QED
    BY <2>1, <2>2, <2>3, <2>4
<1>12. ASSUME pc' \in {"poll", "check", "write"} PROVE ch' = message[idx' + 1]
  <2>1. \/ pc = "dispatch" /\ idx < Len(message)
        \/ pc \in {"poll", "check"}
    BY <1>1, <1>12 DEF Flow, Moves, Shape, Places
  <2> QED
    BY <1>1, <1>3, <1>5, <2>1 DEF Counts
<1>13. pc' \in Setup \/ At("first")' \/ At("index")' \/ At("wfi")' \/ At("end")'
  BY Stays
<1> QED
  BY <1>1, <1>2, <1>8, <1>9, <1>10, <1>11, <1>12, <1>13 DEF Text

(* The transmitter in a cycle: without a write it stays empty when it is,  *)
(* after one it is not, and unless the program waits it stays busy.        *)
LEMMA TransmitterStep ==
  ASSUME IInv, NEW ub, NEW pb, Good(ub, pb)
  PROVE  /\ ~ U!tx_push(ub) /\ TxEmpty => TxEmpty'
         /\ U!tx_push(ub) => tx'.count # 0
         /\ TxHolds /\ ~ Waiting => TxHolds'
         /\ flags'.tx_int => TxEmpty
<1>1. /\ Cycle(ub, pb) /\ UartBus(ub) /\ U!HalfOK(tx)
      /\ tx.count \in Nat /\ ub.char \in Chars
  BY DepthTurn
     DEF Good, Drives, IInv, DeviceOK, PortOK, U!TypeOK, U!HalfOK, U!Halves, UartBus
<1>2. PICK bits \in SUBSET {"tx", "rx"} :
        /\ bits \cap ticked = {}
        /\ ticked' = IF Waiting THEN {} ELSE ticked \cup bits
        /\ tx' = U!Transmit(ub, "tx" \in bits)
        /\ flags' = U!Status
  BY <1>1, CycleParts
<1> DEFINE tick == "tx" \in bits
           push == U!tx_push(ub)
           pop == U!tx_pop(tick)
<1>3. /\ tx'.count = IF push /\ ~ pop THEN tx.count + 1
                     ELSE IF pop /\ ~ push THEN tx.count - 1 ELSE tx.count
      /\ pop => tx'.state = "START"
      /\ ~ pop /\ tx.state = "IDLE" => tx'.state = "IDLE"
      /\ ~ tick => tx'.state = tx.state
  <2>1. tick \in BOOLEAN /\ tx' = U!Transmit(ub, tick)
    BY <1>2
  <2> HIDE DEF tick
  <2> QED
    BY <1>1, <2>1, TransmitParts
<1>4. pop => tick /\ tx.count # 0 /\ tx.state = "IDLE"
  BY DEF U!tx_pop
<1> HIDE DEF push, pop
<1>5. ~ push /\ TxEmpty => TxEmpty'
  BY <1>3, <1>4 DEF TxEmpty
<1>6. push => tx'.count # 0
  BY <1>1, <1>3, <1>4
<1>7. ASSUME TxHolds, ~ Waiting PROVE TxHolds'
  <2>1. ticked' = ticked \cup bits
    BY <1>2, <1>7
  <2>2. CASE pop
    BY <1>3, <1>4, <2>1, <2>2 DEF TxHolds
  <2>3. CASE ~ pop /\ tx.count # 0
    BY <1>1, <1>3, <2>3 DEF TxHolds
  <2>4. CASE ~ pop /\ tx.count = 0
    <3>1. tx.state # "IDLE" /\ "tx" \in ticked
      BY <1>7, <2>4 DEF TxHolds
    <3>2. tx'.state = tx.state
      BY <1>2, <1>3, <3>1
    <3> QED
      BY <2>1, <3>1, <3>2 DEF TxHolds
  <2> QED
    BY <2>2, <2>3, <2>4
<1>8. flags'.tx_int => TxEmpty
  BY <1>2 DEF U!Status, TxEmpty
<1> QED
  BY <1>5, <1>6, <1>7, <1>8 DEF push

(* A cycle keeps the requests true to the transmitter.                     *)
LEMMA RequestsStep ==
  ASSUME IInv, Text, Requests, NEW ub, NEW pb, Good(ub, pb)
  PROVE  Requests'
<1> SUFFICES ASSUME program = "tx", program' = "tx" PROVE Requests'
  BY DEF Good, Flow, Requests
<1> DEFINE Bound == Early \/ idx >= 2
<1>1. /\ Drives(ub, pb) /\ Cycle(ub, pb) /\ Flow /\ Moves /\ Counts /\ Shape
      /\ DeviceOK /\ UartBus(ub) /\ PlicBus(pb) /\ message' = message
      /\ Id = Tx /\ Tx \in {Rx, Tx}
  BY DEF Good, Drives, IInv, ProgOK, Flow, Id, Tx
<1>2. /\ Len(message) > 1 /\ Len(message) \in Nat
      /\ idx \in 0 .. Len(message)
      /\ pc \in Setup => idx = 0
      /\ At("first") \/ At("index") => idx \in {0, 1}
  BY <1>1 DEF Text, Shape
<1>3. /\ Bound /\ ~ TxBehind /\ TxAsked => TxEmpty
      /\ pc \in {"poll", "check", "write", "last"} => plic_rdata = Tx
      /\ pc \in TxHandled /\ plic_rdata = Tx =>
           /\ Tx \in in_service_regs /\ Tx \notin pending_regs
           /\ pc # "dispatch" => ~ (claim_valid_r /\ claim_id_r = Tx)
      /\ Bound /\ (pc = "last" \/ (pc = "dispatch" /\ plic_rdata = Tx)) => TxEmpty
      /\ Early => /\ TxHolds /\ pc \notin {"poll", "check", "write", "last"}
                  /\ ~ (pc = "dispatch" /\ plic_rdata = Tx)
      /\ pc = "last" => idx = Len(message)
      /\ done => idx = Len(message) /\ TxEmpty /\ pc \notin {"poll", "check", "write"}
  BY DEF Requests
<1>4. TxHolds => ~ TxEmpty
  BY DEF TxHolds, TxEmpty
<1>5. /\ Tx \in pending_regs' => \/ Tx \in pending_regs
                                 \/ flags.tx_int /\ Tx \notin in_service_regs
      /\ claim_valid_r' /\ claim_id_r' = Tx => Tx \in pending_regs
      /\ pc # "claim" => plic_rdata' = plic_rdata
      /\ pc = "claim" /\ plic_rdata' = Tx =>
           /\ claim_valid_r /\ claim_id_r = Tx
           /\ Tx \in in_service_regs' /\ Tx \notin pending_regs'
      /\ Tx \in in_service_regs /\ pc # "complete" => Tx \in in_service_regs'
  <2>1. Tx \in peripheral_interrupts <=> flags.tx_int
    BY DEF peripheral_interrupts, Lines, Tx, UART_TX_INT_ID, UART_RX_INT_ID
  <2> QED
    BY <1>1, <2>1, SourceStep DEF Drives
<1>6. /\ ~ U!tx_push(ub) /\ TxEmpty => TxEmpty'
      /\ U!tx_push(ub) => tx'.count # 0
      /\ TxHolds /\ ~ Waiting => TxHolds'
      /\ flags'.tx_int => TxEmpty
  BY TransmitterStep
<1>7. /\ pc = "write" => U!tx_push(ub)
      /\ pc # "write" /\ ~ (pc = "first" /\ pc' = "index") => ~ U!tx_push(ub)
  BY Writes
<1>8. /\ pc' = "dispatch" => pc = "claim"
      /\ pc' = "last" => pc = "dispatch" /\ plic_rdata = Tx /\ idx = Len(message)
      /\ pc' = "poll" => \/ pc = "check"
                         \/ pc = "dispatch" /\ plic_rdata = Tx /\ idx < Len(message)
      /\ pc' = "check" => pc = "poll"
      /\ pc' = "write" => pc = "check"
      /\ pc' = "complete" => pc \in {"write", "last", "dispatch"}
      /\ pc = "write" => pc' = "complete"
      /\ pc = "last" => pc' = "complete"
      /\ pc' = pc => pc \in {"wfi", "end"}
  BY <1>1 DEF Flow, Moves, Shape, Places, Setup, Handler
<1>9. /\ pc = "write" => idx' = idx + 1
      /\ pc # "write" /\ ~ (pc = "index" /\ pc' = "wfi") => idx' = idx
      /\ pc = "index" /\ pc' = "wfi" => idx' = 1
  BY <1>1 DEF Counts, Shape, Places
<1>10. ASSUME pc # "write" PROVE (Early' => Early) /\ (Bound' => Bound)
  <2>1. ASSUME Early' PROVE Early
    <3>1. pc' # "wfi"
      BY <2>1 DEF Early, At, Handler
    <3>2. idx' = idx /\ idx = 1
      BY <1>9, <1>10, <2>1, <3>1 DEF Early
    <3>3. pc \notin Setup
      BY <1>2, <3>2
    <3>4. pc # "csr"
      BY <3>3 DEF Setup
    <3>5. At("first") \/ At("index")
      <4>1. At("first")' \/ At("index")'
        BY <2>1 DEF Early
      <4>2. pc = "first" => At("first")
        BY DEF At
      <4> QED
        BY <3>4, <4>1, <4>2, Stays
    <3> QED
      BY <3>2, <3>5 DEF Early
  <2>2. idx' >= 2 => idx >= 2
    BY <1>9, <1>10
  <2> QED
    BY <2>1, <2>2
<1> HIDE DEF Bound
<1>11. ASSUME pc # "write", Bound PROVE TxEmpty => TxEmpty'
  <2>1. CASE pc = "first" /\ pc' = "index"
    <3>1. Early
      BY <1>2, <1>11, <2>1 DEF Bound, At, Early
    <3> QED
      BY <1>3, <1>4, <3>1
  <2>2. CASE ~ (pc = "first" /\ pc' = "index")
    BY <1>6, <1>7, <1>11, <2>2
  <2> QED
    BY <2>1, <2>2
<1>12. ASSUME Bound', ~ TxBehind', TxAsked' PROVE TxEmpty'
  <2>1. pc # "write"
    <3>1. ASSUME pc = "write" PROVE FALSE
      <4>1. plic_rdata' = Tx /\ pc' = "complete"
        BY <1>3, <1>5, <1>8, <3>1
      <4> QED
        BY <1>12, <4>1 DEF TxBehind
    <3> QED
      BY <3>1
  <2>2. Bound
    BY <1>10, <1>12, <2>1
  <2>3. CASE TxBehind
    <3>1. pc \in TxHandled /\ plic_rdata = Tx
      BY <1>3, <2>3 DEF TxBehind, TxHandled
    <3>2. flags'.tx_int
      BY <1>3, <1>5, <1>12, <3>1 DEF TxAsked
    <3> QED
      BY <1>6, <1>11, <2>1, <2>2, <3>2
  <2>4. CASE ~ TxBehind
    <3>1. flags'.tx_int \/ TxAsked
      BY <1>5, <1>12 DEF TxAsked
    <3> QED
      BY <1>3, <1>6, <1>11, <2>1, <2>2, <2>4, <3>1
  <2> QED
    BY <2>3, <2>4
<1>13. pc' \in {"poll", "check", "write", "last"} => plic_rdata' = Tx
  BY <1>3, <1>5, <1>8
<1>14. ASSUME pc' \in TxHandled, plic_rdata' = Tx
       PROVE  /\ Tx \in in_service_regs' /\ Tx \notin pending_regs'
              /\ pc' # "dispatch" => ~ (claim_valid_r' /\ claim_id_r' = Tx)
  <2>1. CASE pc' = "dispatch"
    BY <1>5, <1>8, <1>14, <2>1
  <2>2. CASE pc' # "dispatch"
    <3>1. plic_rdata = Tx /\ pc \in TxHandled /\ pc # "complete"
      BY <1>5, <1>8, <1>14, <2>2 DEF TxHandled
    <3> QED
      BY <1>3, <1>5, <3>1
  <2> QED
    BY <2>1, <2>2
<1>15. ASSUME pc' = "dispatch", plic_rdata' = Tx
       PROVE  pc = "claim" /\ TxAsked /\ ~ TxBehind
  BY <1>5, <1>8, <1>15 DEF TxAsked, TxBehind
<1>16. ASSUME Bound', pc' = "last" \/ (pc' = "dispatch" /\ plic_rdata' = Tx)
       PROVE  TxEmpty'
  <2>1. pc # "write"
    BY <1>8, <1>16
  <2>2. Bound
    BY <1>10, <1>16, <2>1
  <2>3. TxEmpty
    BY <1>3, <1>8, <1>15, <1>16, <2>2
  <2> QED
    BY <1>11, <2>1, <2>2, <2>3
<1>17. ASSUME Early'
       PROVE  /\ TxHolds' /\ pc' \notin {"poll", "check", "write", "last"}
              /\ ~ (pc' = "dispatch" /\ plic_rdata' = Tx)
  <2>1. CASE pc = "write"
    <3>1. tx'.count # 0 /\ pc' = "complete"
      BY <1>6, <1>7, <1>8, <2>1
    <3> QED
      BY <3>1 DEF TxHolds
  <2>2. CASE pc # "write"
    <3>1. Early /\ TxHolds /\ ~ TxEmpty
      BY <1>3, <1>4, <1>10, <1>17, <2>2
    <3>2. pc \notin {"poll", "check", "write", "last", "wfi", "end"}
          /\ ~ (pc = "dispatch" /\ plic_rdata = Tx)
      BY <1>3, <3>1 DEF Early, At, Handler
    <3>3. ~ Waiting
      BY <1>8, <3>2 DEF Waiting
    <3>4. pc' \notin {"poll", "check", "write", "last"}
      BY <1>8, <3>2
    <3>5. ~ (pc' = "dispatch" /\ plic_rdata' = Tx)
      BY <1>3, <1>15, <3>1 DEF Bound
    <3> QED
      BY <1>6, <3>1, <3>3, <3>4, <3>5
  <2> QED
    BY <2>1, <2>2
<1>18. pc' = "last" => idx' = Len(message)
  BY <1>8, <1>9
<1>19. ASSUME done'
       PROVE  /\ idx' = Len(message) /\ TxEmpty'
              /\ pc' \notin {"poll", "check", "write"}
  <2>1. CASE pc = "last"
    <3>1. idx = Len(message) /\ Bound
      BY <1>2, <1>3, <2>1 DEF Bound
    <3> QED
      BY <1>3, <1>8, <1>9, <1>11, <2>1, <3>1
  <2>2. CASE pc # "last"
    <3>1. /\ idx = Len(message) /\ TxEmpty
          /\ pc \notin {"poll", "check", "write"}
      BY <1>1, <1>3, <1>19, <2>2 DEF Counts
    <3>2. pc # "index" /\ Bound
      BY <1>2, <3>1 DEF At, Bound
    <3> QED
      BY <1>2, <1>8, <1>9, <1>11, <3>1, <3>2
  <2> QED
    BY <2>1, <2>2
<1> QED
  BY <1>1, <1>12, <1>13, <1>14, <1>16, <1>17, <1>18, <1>19 DEF Requests, Bound

-----------------------------------------------------------------------------
(* Every step keeps both.                                                   *)
Telling == Text /\ Requests
LEMMA TellingStep == IInv /\ Telling /\ [Next]_vars => Telling'
<1> SUFFICES ASSUME IInv, Telling, [Next]_vars PROVE Telling'
  OBVIOUS
<1>1. CASE Next
  <2>1. PICK ub, pb : Good(ub, pb)
    BY <1>1, ProgramStep DEF IInv, DeviceOK
  <2> QED
    BY <2>1, TextStep, RequestsStep DEF Telling
<1>2. CASE UNCHANGED vars
  <2>1. Text'
    BY <1>2 DEF vars, uartVars, progVars, Telling, Text, At, Said
  <2>2. Requests'
    BY <1>2 DEF vars, plicVars, uartVars, progVars, Telling, Requests, Early, At,
                TxBehind, TxAsked, TxEmpty, TxHolds
  <2> QED
    BY <2>1, <2>2 DEF Telling
<1> QED
  BY <1>1, <1>2

(* The reset state has them.                                                *)
LEMMA InitTelling == Init => Telling
<1> SUFFICES ASSUME Init, program = "tx" PROVE Telling
  BY DEF Telling, Text, Requests
<1>1. /\ pc = "reset" /\ ret = "wfi" /\ idx = 0 /\ done = FALSE /\ written = <<>>
      /\ pc \in Setup /\ pc \notin Handler
  BY DEF Init, Setup, Handler
<1>2. Len(message) > 1
  BY MessagesAssumption DEF Init
<1>3. Text
  BY <1>1, <1>2 DEF Text, At
<1>4. Requests
  BY <1>1 DEF Requests, Early, At, TxHandled
<1> QED
  BY <1>3, <1>4 DEF Telling

(* A prefix has the same characters.                                        *)
LEMMA PrefixAt ==
  ASSUME NEW s \in Seq(Chars), NEW t \in Seq(Chars), Len(s) <= Len(t),
         \A i \in 1 .. Len(s) : s[i] = t[i]
  PROVE  IsPrefix(s, t)
<1>1. /\ SubSeq(s, 1, Len(s)) \in Seq(Chars) /\ SubSeq(t, 1, Len(s)) \in Seq(Chars)
      /\ Len(SubSeq(s, 1, Len(s))) = Len(s) /\ Len(SubSeq(t, 1, Len(s))) = Len(s)
      /\ \A i \in 1 .. Len(s) : /\ SubSeq(s, 1, Len(s))[i] = s[i]
                                /\ SubSeq(t, 1, Len(s))[i] = t[i]
  OBVIOUS
<1>2. SubSeq(s, 1, Len(s)) = SubSeq(t, 1, Len(s))
  BY <1>1, SeqEqual
<1> QED
  BY <1>2 DEF IsPrefix

(* A text begins with its first characters, also when its first one is     *)
(* said twice, and ends what it is the end of.                             *)
LEMMA TextParts ==
  ASSUME NEW m \in Seq(Chars), m # <<>>, NEW k \in 0 .. Len(m)
  PROVE  /\ IsPrefix(SubSeq(m, 1, k), m)
         /\ IsPrefix(<<m[1]>> \o SubSeq(m, 1, k), <<m[1]>> \o m)
         /\ SubSeq(m, 1, Len(m)) = m
         /\ IsSuffix(m, m) /\ IsSuffix(m, <<m[1]>> \o m)
<1> DEFINE first == SubSeq(m, 1, k)
           twice == <<m[1]>> \o m
<1>1. /\ Len(m) \in Nat /\ k \in Nat /\ k <= Len(m) /\ m[1] \in Chars
      /\ <<m[1]>> \in Seq(Chars)
  OBVIOUS
<1>2. /\ first \in Seq(Chars) /\ Len(first) = k
      /\ \A i \in 1 .. k : first[i] = m[i]
  OBVIOUS
<1> HIDE DEF first
<1>3. IsPrefix(first, m)
  BY <1>1, <1>2, PrefixAt
<1>4. /\ twice \in Seq(Chars) /\ Len(twice) = Len(m) + 1
      /\ twice[1] = m[1] /\ \A i \in 2 .. Len(m) + 1 : twice[i] = m[i - 1]
  BY <1>1
<1>5. IsPrefix(<<m[1]>> \o first, twice)
  <2>1. /\ <<m[1]>> \o first \in Seq(Chars) /\ Len(<<m[1]>> \o first) = k + 1
        /\ (<<m[1]>> \o first)[1] = m[1]
        /\ \A i \in 2 .. k + 1 : (<<m[1]>> \o first)[i] = first[i - 1]
    BY <1>1, <1>2
  <2> HIDE DEF twice
  <2>2. ASSUME NEW i \in 1 .. k + 1 PROVE (<<m[1]>> \o first)[i] = twice[i]
    <3>1. CASE i = 1
      BY <1>4, <2>1, <3>1
    <3>2. CASE i # 1
      <4>1. i \in 2 .. k + 1 /\ i \in 2 .. Len(m) + 1 /\ i - 1 \in 1 .. k
        BY <1>1, <3>2
      <4> QED
        BY <1>2, <1>4, <2>1, <4>1
    <3> QED
      BY <3>1, <3>2
  <2> DEFINE more == <<m[1]>> \o first
  <2>3. /\ more \in Seq(Chars) /\ Len(more) <= Len(twice)
        /\ \A i \in 1 .. Len(more) : more[i] = twice[i]
    BY <1>1, <1>4, <2>1, <2>2
  <2> HIDE DEF more
  <2>4. IsPrefix(more, twice)
    BY <1>4, <2>3, PrefixAt
  <2> QED
    BY <2>4 DEF more
<1>6. SubSeq(m, 1, Len(m)) = m
  <2>1. /\ SubSeq(m, 1, Len(m)) \in Seq(Chars) /\ Len(SubSeq(m, 1, Len(m))) = Len(m)
        /\ \A i \in 1 .. Len(m) : SubSeq(m, 1, Len(m))[i] = m[i]
    BY <1>1
  <2> QED
    BY <2>1, SeqEqual
<1>7. /\ Reverse(m) \in Seq(Chars) /\ Len(Reverse(m)) = Len(m)
      /\ \A i \in 1 .. Len(m) : Reverse(m)[i] = m[Len(m) - i + 1]
  <2>1. Reverse(m) \in [1 .. Len(m) -> Chars]
    BY <1>1 DEF Reverse
  <2>2. Reverse(m) \in Seq(Chars) /\ Len(Reverse(m)) = Len(m)
    BY <1>1, <2>1
  <2> QED
    BY <2>2 DEF Reverse
<1> HIDE DEF twice
<1>8. /\ Reverse(twice) \in Seq(Chars) /\ Len(Reverse(twice)) = Len(m) + 1
      /\ \A i \in 1 .. Len(m) + 1 : Reverse(twice)[i] = twice[Len(m) + 1 - i + 1]
  <2>1. Reverse(twice) \in [1 .. Len(m) + 1 -> Chars]
    BY <1>1, <1>4 DEF Reverse
  <2>2. Reverse(twice) \in Seq(Chars) /\ Len(Reverse(twice)) = Len(m) + 1
    BY <1>1, <2>1
  <2> QED
    BY <1>4, <2>2 DEF Reverse
<1>9. IsSuffix(m, m)
  BY <1>1, <1>7, PrefixAt DEF IsSuffix
<1>10. IsSuffix(m, twice)
  <2>1. ASSUME NEW i \in 1 .. Len(m) PROVE Reverse(m)[i] = Reverse(twice)[i]
    <3>1. /\ i \in 1 .. Len(m) + 1 /\ Len(m) + 1 - i + 1 \in 2 .. Len(m) + 1
          /\ (Len(m) + 1 - i + 1) - 1 = Len(m) - i + 1
      BY <1>1
    <3> QED
      BY <1>4, <1>7, <1>8, <3>1
  <2>2. Len(m) <= Len(m) + 1
    BY <1>1
  <2> QED
    BY <1>7, <1>8, <2>1, <2>2, PrefixAt DEF IsSuffix
<1> QED
  BY <1>3, <1>5, <1>6, <1>9, <1>10 DEF first, twice

(* The interrupt driven string comes out whole, apart from a repeated      *)
(* first character, and g_tx_done says that it is all on the line (03      *)
(* main.c:30-42).                                                           *)
THEOREM TextTransmitted == Spec => []Transmitted
<1>1. IInv /\ Telling => Transmitted
  <2> SUFFICES ASSUME IInv, Telling, program = "tx"
               PROVE  /\ \/ IsPrefix(written, message)
                         \/ IsPrefix(written, <<message[1]>> \o message)
                      /\ done => IsSuffix(message, sent) /\ sent = written
    BY DEF Transmitted
  <2>1. /\ message \in Seq(Chars) /\ message # <<>> /\ Len(message) \in Nat
        /\ Len(message) > 1
        /\ idx \in 0 .. Len(message) /\ sent \in Seq(Chars)
        /\ U!HalfOK(tx) /\ written \in Seq(Chars)
    BY DEF IInv, ProgOK, Shape, Telling, Text, DeviceOK, GhostsOK, PortOK, U!TypeOK,
           U!HalfOK, U!Halves
  <2>2. \/ pc \in Setup /\ idx = 0 /\ written = SubSeq(message, 1, 0)
        \/ idx \in {0, 1} /\ written = SubSeq(message, 1, idx)
        \/ idx = 0 /\ written = SubSeq(message, 1, 1)
        \/ idx >= 1 /\ Said(idx)
    <3>1. SubSeq(message, 1, 0) = <<>>
      BY SubSeqEmpty
    <3>2. At("index") => (idx = 0 \/ (idx = 1 /\ Said(1)))
      BY DEF Telling, Text
    <3> QED
      BY <2>1, <3>1, <3>2 DEF Telling, Text
  <2>3. \A k \in 0 .. Len(message) :
          /\ IsPrefix(SubSeq(message, 1, k), message)
          /\ IsPrefix(<<message[1]>> \o SubSeq(message, 1, k),
                      <<message[1]>> \o message)
          /\ SubSeq(message, 1, Len(message)) = message
          /\ IsSuffix(message, message)
          /\ IsSuffix(message, <<message[1]>> \o message)
    BY <2>1, TextParts
  <2>4. \/ IsPrefix(written, message)
        \/ IsPrefix(written, <<message[1]>> \o message)
    <3>1. 0 \in 0 .. Len(message) /\ 1 \in 0 .. Len(message)
      BY <2>1
    <3> QED
      BY <2>1, <2>2, <2>3, <3>1 DEF Said
  <2>5. ASSUME done PROVE IsSuffix(message, sent) /\ sent = written
    <3>1. idx = Len(message) /\ TxEmpty
      BY <2>5 DEF Telling, Requests
    <3>2. written \in {message, <<message[1]>> \o message}
      BY <2>1, <2>2, <2>3, <3>1, SMTT(30) DEF Said
    <3>3. written = sent
      <4>1. OnLine(tx) = <<>>
        BY <3>1 DEF TxEmpty, OnLine
      <4>2. U!Buffered(tx) = <<>>
        <5>1. U!Buffered(tx) \in Seq(Chars) /\ Len(U!Buffered(tx)) = 0
          BY <2>1, <3>1, BufferedAt DEF TxEmpty
        <5> QED
          BY <5>1
      <4> QED
        BY <2>1, <4>1, <4>2 DEF IInv, Sending
    <3> QED
      BY <2>1, <2>3, <3>2, <3>3
  <2> QED
    BY <2>4, <2>5
<1> QED
  BY <1>1, Invariant, InitTelling, TellingStep, PTL DEF Spec

-----------------------------------------------------------------------------
(* CoreMark's text.                                                         *)

(* How many characters the first ones of a text are on the line.           *)
LEMMA ShownStep ==
  ASSUME NEW text, NEW i \in Nat
  PROVE  /\ Shown(text, 0) = 0 /\ Shown(text, i) \in Nat
         /\ Shown(text, i + 1) = Shown(text, i) + (IF text[i + 1] = NL THEN 2 ELSE 1)
<1> DEFINE Newlines(n) == {j \in 1 .. n : text[j] = NL}
<1>1. ASSUME NEW n \in Nat
      PROVE  IsFiniteSet(Newlines(n)) /\ Cardinality(Newlines(n)) \in Nat
  <2>1. IsFiniteSet(1 .. n)
    BY FS_Interval
  <2>2. IsFiniteSet(Newlines(n))
    BY <2>1, FS_Subset
  <2> QED
    BY <2>2, FS_CardinalityType
<1>2. Newlines(0) = {}
  OBVIOUS
<1>3. Newlines(i + 1) = IF text[i + 1] = NL THEN Newlines(i) \cup {i + 1} ELSE Newlines(i)
  OBVIOUS
<1>4. i + 1 \notin Newlines(i)
  OBVIOUS
<1>5. \A n : Shown(text, n) = n + Cardinality(Newlines(n))
  BY DEF Shown
<1> HIDE DEF Newlines
<1>8. Cardinality(Newlines(0)) = 0 /\ Cardinality(Newlines(i)) \in Nat
  BY <1>1, <1>2, FS_EmptySet
<1>6. CASE text[i + 1] = NL
  <2>1. Cardinality(Newlines(i + 1)) = Cardinality(Newlines(i)) + 1
    BY <1>1, <1>3, <1>4, <1>6, FS_AddElement
  <2> QED
    BY <1>5, <1>6, <1>8, <2>1
<1>7. CASE text[i + 1] # NL
  BY <1>3, <1>5, <1>7, <1>8
<1> QED
  BY <1>6, <1>7

(* No fewer with each character.                                            *)
LEMMA ShownGrows ==
  ASSUME NEW text, NEW i \in Nat, NEW k \in Nat, i <= k
  PROVE  Shown(text, i) <= Shown(text, k)
<1> DEFINE Newlines(n) == {j \in 1 .. n : text[j] = NL}
<1>1. IsFiniteSet(Newlines(k))
  <2>1. IsFiniteSet(1 .. k)
    BY FS_Interval
  <2> QED
    BY <2>1, FS_Subset
<1>2. Newlines(i) \subseteq Newlines(k)
  OBVIOUS
<1>3. \A n : Shown(text, n) = n + Cardinality(Newlines(n))
  BY DEF Shown
<1> HIDE DEF Newlines
<1>4. IsFiniteSet(Newlines(i)) /\ Cardinality(Newlines(i)) <= Cardinality(Newlines(k))
  BY <1>1, <1>2, FS_Subset
<1>5. Cardinality(Newlines(i)) \in Nat /\ Cardinality(Newlines(k)) \in Nat
  BY <1>1, <1>4, FS_CardinalityType
<1> QED
  BY <1>3, <1>4, <1>5

(* Each place on the line belongs to one character of the text.            *)
LEMMA OriginIs ==
  ASSUME NEW text \in Seq(Chars), NEW i \in 1 .. Len(text), NEW n \in Nat,
         Shown(text, i - 1) < n, n <= Shown(text, i)
  PROVE  Origin(text, n) = i
<1>1. \A k \in 0 .. Len(text) : Shown(text, k) \in Nat
  <2>1. \A k \in Nat : Shown(text, k) \in Nat
    BY ShownStep
  <2> QED
    BY <2>1
<1>2. ASSUME NEW j \in 1 .. Len(text),
             Shown(text, j - 1) < n, n <= Shown(text, j)
      PROVE  j = i
  <2>0. /\ i \in Nat /\ j \in Nat /\ i - 1 \in Nat /\ j - 1 \in Nat /\ i - 1 \in 0 .. Len(text)
        /\ j - 1 \in 0 .. Len(text) /\ i \in 0 .. Len(text) /\ j \in 0 .. Len(text)
    OBVIOUS
  <2>1. CASE j < i
    <3>1. Shown(text, j) <= Shown(text, i - 1)
      BY <2>0, <2>1, ShownGrows
    <3> QED
      BY <1>1, <1>2, <2>0, <3>1
  <2>2. CASE i < j
    <3>1. Shown(text, i) <= Shown(text, j - 1)
      BY <2>0, <2>2, ShownGrows
    <3> QED
      BY <1>1, <1>2, <2>0, <3>1
  <2> QED
    BY <2>0, <2>1, <2>2
<1> QED
  BY <1>2 DEF Origin

(* What comes out is a text, with each character at its place and a        *)
(* carriage return before each newline.                                     *)
LEMMA Expanded ==
  ASSUME NEW text \in Seq(Chars)
  PROVE  /\ Expand(text) \in Seq(Chars) /\ Len(Expand(text)) = Shown(text, Len(text))
         /\ \A i \in 0 .. Len(text) - 1 :
              /\ Shown(text, i) \in Nat /\ Shown(text, i + 1) \in Nat
              /\ Shown(text, i + 1) <= Shown(text, Len(text))
              /\ Expand(text)[Shown(text, i + 1)] = text[i + 1]
              /\ text[i + 1] = NL => Expand(text)[Shown(text, i) + 1] = CR
<1> DEFINE all == Shown(text, Len(text))
<1>1. /\ Len(text) \in Nat /\ Shown(text, 0) = 0
      /\ \A k \in 0 .. Len(text) : Shown(text, k) \in Nat
  BY ShownStep
<1>2. CR \in Chars
  BY CharsAssumption
<1>3. ASSUME NEW n \in 1 .. all PROVE Origin(text, n) \in 1 .. Len(text)
  <2> DEFINE S == {k \in 1 .. Len(text) : n <= Shown(text, k)}
  <2>1. S \subseteq Nat /\ S # {}
    <3>1. Len(text) \in 1 .. Len(text)
      <4>1. Len(text) # 0
        BY <1>1
      <4> QED
        BY <1>1, <4>1
    <3> QED
      BY <1>1, <3>1
  <2>2. PICK i \in S : \A j \in S : i <= j
    BY <2>1, LeastExists
  <2>3. Shown(text, i - 1) < n
    <3>1. CASE i = 1
      BY <1>1, <3>1
    <3>2. CASE i # 1
      <4>1. i - 1 \in 1 .. Len(text) /\ i - 1 \in 0 .. Len(text) /\ i - 1 \notin S
        BY <1>1, <2>2, <3>2
      <4> QED
        BY <1>1, <4>1
    <3> QED
      BY <3>1, <3>2
  <2> QED
    BY <1>1, <2>2, <2>3, OriginIs
<1>4. Expand(text) \in [1 .. all -> Chars]
  BY <1>2, <1>3 DEF Expand
<1>5. all \in Nat
  BY <1>1
<1>6. \A n \in 1 .. all :
        Expand(text)[n] = IF n = Shown(text, Origin(text, n))
                          THEN text[Origin(text, n)] ELSE CR
  BY DEF Expand
<1>7. Expand(text) \in Seq(Chars) /\ Len(Expand(text)) = all
  BY <1>4, <1>5
<1>8. ASSUME NEW i \in 0 .. Len(text) - 1
      PROVE  /\ Shown(text, i) \in Nat /\ Shown(text, i + 1) \in Nat
             /\ Shown(text, i + 1) <= all
             /\ Expand(text)[Shown(text, i + 1)] = text[i + 1]
             /\ text[i + 1] = NL => Expand(text)[Shown(text, i) + 1] = CR
  <2>1. /\ i \in Nat /\ i + 1 \in 1 .. Len(text) /\ (i + 1) - 1 = i
        /\ i \in 0 .. Len(text) /\ i + 1 \in 0 .. Len(text)
    BY <1>1
  <2>2. /\ Shown(text, i) \in Nat /\ Shown(text, i + 1) \in Nat
        /\ Shown(text, i + 1) = Shown(text, i) + (IF text[i + 1] = NL THEN 2 ELSE 1)
    BY <2>1, ShownStep
  <2>3. Shown(text, i + 1) <= all
    BY <1>1, <2>1, ShownGrows
  <2> HIDE DEF all
  <2>4. \A n \in Nat : Shown(text, i) < n /\ n <= Shown(text, i + 1) =>
          Origin(text, n) = i + 1 /\ n \in 1 .. all
    BY <1>5, <2>1, <2>2, <2>3, OriginIs
  <2>5. Expand(text)[Shown(text, i + 1)] = text[i + 1]
    BY <1>6, <2>2, <2>4
  <2>6. ASSUME text[i + 1] = NL PROVE Expand(text)[Shown(text, i) + 1] = CR
    <3>1. /\ Shown(text, i) + 1 \in Nat /\ Shown(text, i) < Shown(text, i) + 1
          /\ Shown(text, i) + 1 <= Shown(text, i + 1)
          /\ Shown(text, i) + 1 # Shown(text, i + 1)
      BY <2>2, <2>6
    <3> QED
      BY <1>6, <2>4, <3>1
  <2> QED
    BY <2>2, <2>3, <2>5, <2>6
<1> QED
  BY <1>7, <1>8

(* The count at a character of a text.                                     *)
LEMMA ShownHere ==
  ASSUME NEW text \in Seq(Chars), NEW i \in 0 .. Len(text)
  PROVE  /\ Shown(text, i) \in Nat /\ Shown(text, 0) = 0
         /\ Shown(text, Len(text)) \in Nat
         /\ Shown(text, i) <= Shown(text, Len(text))
         /\ i >= 1 => Shown(text, i) >= 1
         /\ i < Len(text) =>
              /\ Shown(text, i + 1)
                   = Shown(text, i) + (IF text[i + 1] = NL THEN 2 ELSE 1)
              /\ Shown(text, i + 1) <= Shown(text, Len(text))
<1>1. i \in Nat /\ Len(text) \in Nat /\ i <= Len(text)
  OBVIOUS
<1>2. /\ Shown(text, i) \in Nat /\ Shown(text, 0) = 0
      /\ Shown(text, i + 1) = Shown(text, i) + (IF text[i + 1] = NL THEN 2 ELSE 1)
  BY <1>1, ShownStep
<1>3. Shown(text, Len(text)) \in Nat
  BY <1>1, ShownStep
<1>4. Shown(text, i) <= Shown(text, Len(text))
  BY <1>1, ShownGrows
<1>5. i < Len(text) => Shown(text, i + 1) <= Shown(text, Len(text))
  <2>1. i + 1 \in Nat /\ (i < Len(text) => i + 1 <= Len(text))
    BY <1>1
  <2> QED
    BY <1>1, <2>1, ShownGrows
<1>6. i >= 1 => Shown(text, i) >= 1
  <2> SUFFICES ASSUME i >= 1 PROVE Shown(text, i) >= 1
    OBVIOUS
  <2>1. /\ i - 1 \in Nat /\ (i - 1) + 1 = i
    BY <1>1
  <2>2. /\ Shown(text, i - 1) \in Nat
        /\ Shown(text, (i - 1) + 1)
             = Shown(text, i - 1) + (IF text[(i - 1) + 1] = NL THEN 2 ELSE 1)
    BY <2>1, ShownStep
  <2>3. Shown(text, i) = Shown(text, i - 1) + (IF text[i] = NL THEN 2 ELSE 1)
    BY <2>1, <2>2
  <2> QED
    BY <2>2, <2>3
<1> QED
  BY <1>2, <1>3, <1>4, <1>5, <1>6

(* What CoreMark has written of its text: when it asks for the next        *)
(* character, all that it has counted and perhaps a carriage return; when  *)
(* it waits to write one, what comes before that.                          *)
Begun(n) == SubSeq(Expand(message), 1, n)
Printing ==
  program = "poll" =>
    /\ message \in Seq(Chars \ {0, CR})
    /\ pc = "reset" => idx = 0 /\ ch = 0 /\ written = <<>>
    /\ pc = "char" =>
         /\ ch = CR => idx < Len(message) /\ message[idx + 1] = NL
         /\ written = Begun(Shown(message, idx) + (IF ch = CR THEN 1 ELSE 0))
    /\ pc \in {"poll", "check", "write"} =>
         IF ch = CR
           THEN /\ idx < Len(message) /\ message[idx + 1] = NL
                /\ written = Begun(Shown(message, idx))
           ELSE /\ idx >= 1 /\ ch = message[idx]
                /\ written = Begun(Shown(message, idx) - 1)
    /\ pc = "end" => written = Expand(message)

(* Every step keeps that.                                                   *)
LEMMA PrintingStep ==
  ASSUME IInv, Printing, NEW ub, NEW pb, Good(ub, pb)
  PROVE  Printing'
<1> SUFFICES ASSUME program = "poll", program' = "poll" PROVE Printing'
  BY DEF Good, Flow, Printing
<1> DEFINE text == Expand(message)
           P_(n) == SubSeq(text, 1, n)
           S(i) == Shown(message, i)
<1>1. /\ Flow /\ Moves /\ Counts /\ Shape /\ Places
      /\ message' = message /\ Len(message) \in Nat
      /\ message \in Seq(Chars) /\ message \in Seq(Chars \ {0, CR})
      /\ idx \in Nat /\ idx <= Len(message) /\ ch \in Chars /\ CR \in Chars
  BY CharsAssumption DEF Good, IInv, ProgOK, Flow, Shape, Printing
<1>2. /\ pc = "write" => written' = Append(written, ch)
      /\ pc # "write" => written' = written
  BY <1>1, Writes DEF Places
<1>3. /\ text \in Seq(Chars) /\ Len(text) = S(Len(message))
      /\ \A i \in 0 .. Len(message) - 1 :
           /\ S(i) \in Nat /\ S(i + 1) \in Nat /\ S(i + 1) <= S(Len(message))
           /\ text[S(i + 1)] = message[i + 1]
           /\ message[i + 1] = NL => text[S(i) + 1] = CR
  BY <1>1, Expanded
<1>4. /\ S(0) = 0 /\ S(idx) \in Nat /\ S(idx) <= Len(text) /\ Len(text) \in Nat
      /\ idx >= 1 => S(idx) >= 1
      /\ idx < Len(message) =>
           /\ S(idx + 1) = S(idx) + (IF message[idx + 1] = NL THEN 2 ELSE 1)
           /\ S(idx + 1) <= Len(text)
  <2>1. idx \in 0 .. Len(message)
    BY <1>1
  <2> QED
    BY <1>1, <1>3, <2>1, ShownHere
<1>5. \A n \in 0 .. Len(text) - 1 : Append(P_(n), text[n + 1]) = P_(n + 1)
  BY <1>3, OneMore
<1>6. P_(0) = <<>> /\ P_(Len(text)) = text
  <2>1. P_(0) = <<>>
    BY SubSeqEmpty
  <2>2. /\ P_(Len(text)) \in Seq(Chars) /\ Len(P_(Len(text))) = Len(text)
        /\ \A i \in 1 .. Len(text) : P_(Len(text))[i] = text[i]
    BY <1>3
  <2> QED
    BY <1>3, <2>1, <2>2, SeqEqual
<1>7. \A i \in 1 .. Len(message) : message[i] # CR
  BY <1>1
<1>8. /\ pc = "reset" => idx = 0 /\ ch = 0 /\ written = <<>>
      /\ pc = "char" =>
           /\ ch = CR => idx < Len(message) /\ message[idx + 1] = NL
           /\ written = P_(S(idx) + (IF ch = CR THEN 1 ELSE 0))
      /\ pc \in {"poll", "check", "write"} =>
           IF ch = CR
             THEN /\ idx < Len(message) /\ message[idx + 1] = NL
                  /\ written = P_(S(idx))
             ELSE /\ idx >= 1 /\ ch = message[idx]
                  /\ written = P_(S(idx) - 1)
      /\ pc = "end" => written = text
  BY DEF Printing, Begun
<1> SUFFICES /\ pc' # "reset"
             /\ pc' = "char" =>
                  /\ ch' = CR => idx' < Len(message) /\ message[idx' + 1] = NL
                  /\ written' = P_(S(idx') + (IF ch' = CR THEN 1 ELSE 0))
             /\ pc' \in {"poll", "check", "write"} =>
                  IF ch' = CR
                    THEN /\ idx' < Len(message) /\ message[idx' + 1] = NL
                         /\ written' = P_(S(idx'))
                    ELSE /\ idx' >= 1 /\ ch' = message[idx']
                         /\ written' = P_(S(idx') - 1)
             /\ pc' = "end" => written' = text
  BY <1>1 DEF Printing, Begun
<1> HIDE DEF text, P_, S
<1>9. pc \in {"reset", "char", "poll", "check", "write", "end"} /\ pc' # "reset"
  BY <1>1 DEF Places, Flow
<1>10. CASE pc = "reset"
  <2>1. pc' = "char" /\ idx' = 0 /\ ch' = 0 /\ written' = <<>>
    BY <1>1, <1>2, <1>8, <1>10 DEF Moves, Counts
  <2>2. ch' # CR
    BY <2>1 DEF CR
  <2> QED
    BY <1>4, <1>6, <2>1, <2>2
<1>11. CASE pc = "char" /\ idx = Len(message)
  <2>1. pc' = "end" /\ written' = written /\ ch # CR
    BY <1>1, <1>2, <1>8, <1>11 DEF Moves
  <2>2. written = P_(S(Len(message)))
    <3>1. S(idx) + 0 = S(idx)
      BY <1>1, <1>4
    <3> QED
      BY <1>8, <1>11, <2>1, <3>1
  <2> QED
    BY <1>3, <1>6, <2>1, <2>2
<1>12. CASE pc = "char" /\ idx # Len(message)
  <2>1. /\ pc' = "poll" /\ written' = written
        /\ idx \in 0 .. Len(message) - 1 /\ idx + 1 \in 1 .. Len(message)
        /\ S(idx) \in Nat
    BY <1>1, <1>2, <1>4, <1>12 DEF Moves
  <2>2. CASE message[idx + 1] = NL /\ ch # CR
    <3>1. ch' = CR /\ idx' = idx
      BY <1>1, <1>12, <2>2 DEF Counts
    <3>2. written = P_(S(idx))
      BY <1>8, <1>12, <2>1, <2>2
    <3> QED
      BY <2>1, <2>2, <3>1, <3>2
  <2>3. CASE ~ (message[idx + 1] = NL /\ ch # CR)
    <3>1. ch' = message[idx + 1] /\ idx' = idx + 1 /\ ch' # CR
      BY <1>1, <1>7, <1>12, <2>1, <2>3 DEF Counts
    <3>2. S(idx + 1) - 1 = S(idx) + (IF ch = CR THEN 1 ELSE 0)
      BY <1>1, <1>4, <1>8, <1>12, <2>1, <2>3
    <3> QED
      BY <1>1, <1>8, <1>12, <2>1, <3>1, <3>2
  <2> QED
    BY <2>2, <2>3
<1>13. CASE pc \in {"poll", "check"}
  <2>1. /\ pc' \in {"poll", "check", "write"} /\ written' = written
        /\ ch' = ch /\ idx' = idx
    BY <1>1, <1>2, <1>13 DEF Flow, Counts
  <2> QED
    BY <1>8, <1>13, <2>1
<1>14. CASE pc = "write"
  <2>1. /\ pc' = "char" /\ written' = Append(written, ch)
        /\ ch' = ch /\ idx' = idx
    BY <1>1, <1>2, <1>14 DEF Moves, Counts
  <2>2. CASE ch = CR
    <3>1. /\ idx \in 0 .. Len(message) - 1 /\ message[idx + 1] = NL
          /\ written = P_(S(idx))
      BY <1>1, <1>8, <1>14, <2>2
    <3>2. text[S(idx) + 1] = CR /\ S(idx) \in 0 .. Len(text) - 1
      BY <1>1, <1>3, <1>4, <3>1
    <3>3. written' = P_(S(idx) + 1)
      BY <1>5, <2>1, <2>2, <3>1, <3>2
    <3> QED
      BY <1>1, <2>1, <2>2, <3>1, <3>3
  <2>3. CASE ch # CR
    <3>1. idx >= 1 /\ ch = message[idx] /\ written = P_(S(idx) - 1)
      BY <1>8, <1>14, <2>3
    <3>2. idx - 1 \in 0 .. Len(message) - 1 /\ (idx - 1) + 1 = idx
      BY <1>1, <3>1
    <3>3. /\ S(idx) \in Nat /\ S(idx) <= Len(text) /\ text[S(idx)] = message[idx]
          /\ S(idx) >= 1
      <4>1. text[S((idx - 1) + 1)] = message[(idx - 1) + 1]
        BY <1>3, <3>2
      <4> QED
        BY <1>4, <3>1, <3>2, <4>1
    <3>4. /\ S(idx) - 1 \in 0 .. Len(text) - 1 /\ (S(idx) - 1) + 1 = S(idx)
      BY <1>1, <1>3, <3>3
    <3>5. written' = P_(S(idx))
      BY <1>5, <2>1, <3>1, <3>3, <3>4
    <3>6. S(idx) + 0 = S(idx)
      BY <3>3
    <3> QED
      BY <2>1, <2>3, <3>5, <3>6
  <2> QED
    BY <2>2, <2>3
<1>15. CASE pc = "end"
  <2>1. pc' = "end" /\ written' = written
    BY <1>1, <1>2, <1>15 DEF Moves
  <2> QED
    BY <1>8, <1>15, <2>1
<1> QED
  BY <1>9, <1>10, <1>11, <1>12, <1>13, <1>14, <1>15

(* CoreMark's text comes out whole, each newline with its carriage return  *)
(* (core_portme.c's uart_puts and uart_putc).                              *)
THEOREM TextPrinted == Spec => []Printed
<1>1. Init => Printing
  <2> SUFFICES ASSUME Init, program = "poll" PROVE Printing
    BY DEF Printing
  <2>1. message \in Seq(Chars \ {0, CR})
    BY MessagesAssumption DEF Init
  <2> QED
    BY <2>1 DEF Init, Printing
<1>2. IInv /\ Printing /\ [Next]_vars => Printing'
  <2> SUFFICES ASSUME IInv, Printing, [Next]_vars PROVE Printing'
    OBVIOUS
  <2>1. CASE Next
    <3>1. PICK ub, pb : Good(ub, pb)
      BY <2>1, ProgramStep DEF IInv, DeviceOK
    <3> QED
      BY <3>1, PrintingStep
  <2>2. CASE UNCHANGED vars
    BY <2>2 DEF vars, progVars, Printing, Begun
  <2> QED
    BY <2>1, <2>2
<1>3. IInv /\ Printing => Printed
  <2> SUFFICES ASSUME IInv, Printing, program = "poll"
               PROVE  /\ IsPrefix(written, Expand(message))
                      /\ pc = "end" => written = Expand(message)
    BY DEF Printed
  <2> DEFINE text == Expand(message)
             S(i) == Shown(message, i)
  <2>1. /\ message \in Seq(Chars) /\ Len(message) \in Nat /\ Len(message) >= 1
        /\ idx \in Nat /\ idx <= Len(message) /\ Places
    BY DEF IInv, ProgOK, Shape
  <2>2. /\ text \in Seq(Chars) /\ Len(text) = S(Len(message))
        /\ \A i \in 0 .. Len(message) - 1 :
             /\ S(i) \in Nat /\ S(i + 1) \in Nat /\ S(i + 1) <= S(Len(message))
    BY <2>1, Expanded
  <2>3. /\ S(0) = 0 /\ S(idx) \in Nat /\ S(idx) <= Len(text) /\ Len(text) \in Nat
        /\ idx >= 1 => S(idx) >= 1
        /\ idx < Len(message) /\ message[idx + 1] = NL =>
             S(idx + 1) = S(idx) + 2 /\ S(idx + 1) <= Len(text)
    <3>1. idx \in 0 .. Len(message)
      BY <2>1
    <3> QED
      BY <2>1, <2>2, <3>1, ShownHere
  <2>5. text # <<>>
    <3>1. Len(message) \in 0 .. Len(message)
      BY <2>1
    <3>2. Len(text) >= 1
      BY <2>1, <2>2, <3>1, ShownHere
    <3> QED
      BY <3>2
  <2>6. \E k \in 0 .. Len(text) : written = SubSeq(text, 1, k)
    <3> HIDE DEF text, S
    <3>1. /\ S(idx) \in 0 .. Len(text)
          /\ idx >= 1 => S(idx) - 1 \in 0 .. Len(text)
          /\ idx < Len(message) /\ message[idx + 1] = NL => S(idx) + 1 \in 0 .. Len(text)
      BY <2>1, <2>3
    <3>2. SubSeq(text, 1, 0) = <<>> /\ 0 \in 0 .. Len(text)
      BY <2>2, <3>1, SubSeqEmpty
    <3>3. SubSeq(text, 1, Len(text)) = text /\ Len(text) \in 0 .. Len(text)
      BY <2>2, <2>5, <3>1, TextParts
    <3>4. \/ pc = "reset" /\ written = <<>>
          \/ written = SubSeq(text, 1, S(idx))
          \/ idx >= 1 /\ written = SubSeq(text, 1, S(idx) - 1)
          \/ /\ idx < Len(message) /\ message[idx + 1] = NL
             /\ written = SubSeq(text, 1, S(idx) + 1)
          \/ written = text
      <4>1. pc \in {"reset", "char", "poll", "check", "write", "end"}
        BY <2>1 DEF Places
      <4>2. S(idx) + 0 = S(idx)
        BY <3>1
      <4> QED
        BY <4>1, <4>2 DEF Printing, Begun, text, S
    <3> QED
      BY <3>1, <3>2, <3>3, <3>4
  <2>7. IsPrefix(written, text)
    BY <2>2, <2>5, <2>6, TextParts
  <2> QED
    BY <2>7 DEF Printing
<1> QED
  BY <1>1, <1>2, <1>3, Invariant, PTL DEF Spec
=============================================================================
