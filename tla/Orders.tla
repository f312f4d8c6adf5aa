------------------------------- MODULE Orders -------------------------------
(***************************************************************************)
(* Lemmas on the order of numbers.                                         *)
(*                                                                         *)
(* A nonempty set of natural numbers has a least element, and a greatest   *)
(* one if it is bounded: what the CHOOSEs of a priority selection rest on. *)
(* From the least one follow induction, for a predicate given as a set,    *)
(* and that a recursion whose step is given as a function has a solution.  *)
(*                                                                         *)
(* The first n numbers, as the cells of a list, can be ordered: what an    *)
(* order is when cells are moved, and how a merge sort that takes them one *)
(* by one from two runs brings them in order.                              *)
(***************************************************************************)
EXTENDS Integers, SequenceTheorems, WellFoundedInduction, TLAPS

LEMMA LeastExists ==
  ASSUME NEW S \in SUBSET Nat, S # {}
  PROVE  \E x \in S : \A j \in S : x <= j
<1> DEFINE R == {ss \in Nat \X Nat : ss[1] < ss[2]}
<1>1. IsWellFoundedOn(R, Nat)
  BY NatLessThanWellFounded DEF OpToRel
<1> HIDE DEF R
<1>2. \E x \in S : \A y \in S : ~ (<<y, x>> \in R)
  BY <1>1, WFMin
<1>3. PICK x \in S : \A y \in S : ~ (<<y, x>> \in R)
  BY <1>2
<1>4. ASSUME NEW y \in S PROVE x <= y
  <2>1. x \in Nat /\ y \in Nat /\ ~ (<<y, x>> \in R)
    BY <1>3
  <2> QED
    BY <2>1 DEF R
<1> QED
  BY <1>4

LEMMA GreatestExists ==
  ASSUME NEW M \in Nat, NEW S \in SUBSET (0 .. M), S # {}
  PROVE  \E x \in S : \A j \in S : x >= j
<1> DEFINE D == {M - p : p \in S}
<1>0. \A p \in S : p \in Nat /\ p <= M
  OBVIOUS
<1>1. D \in SUBSET Nat /\ D # {}
  <2>1. ASSUME NEW d \in D PROVE d \in Nat
    <3>1. PICK p \in S : d = M - p
      OBVIOUS
    <3> QED
      BY <1>0, <3>1
  <2>2. PICK p \in S : TRUE
    OBVIOUS
  <2>3. M - p \in D
    OBVIOUS
  <2> QED
    BY <2>1, <2>3
<1>2. PICK d \in D : \A j \in D : d <= j
  BY <1>1, LeastExists
<1>3. PICK p \in S : d = M - p
  OBVIOUS
<1>4. ASSUME NEW j \in S PROVE p >= j
  <2>1. d <= M - j
    BY <1>2
  <2> HIDE DEF D
  <2> QED
    BY <1>0, <1>3, <2>1
<1> QED
  BY <1>4

(* Induction: the numbers that have a property are all of them.            *)
LEMMA AllNumbers ==
  ASSUME NEW Good, 0 \in Good,
         \A n \in Nat : n \in Good => n + 1 \in Good
  PROVE  \A n \in Nat : n \in Good
<1> SUFFICES ASSUME NEW m \in Nat, m \notin Good PROVE FALSE
  OBVIOUS
<1> DEFINE Bad == {n \in Nat : n \notin Good}
<1>1. Bad \in SUBSET Nat /\ Bad # {}
  OBVIOUS
<1>2. PICK n \in Bad : \A j \in Bad : n <= j
  BY <1>1, LeastExists
<1>3. n \in Nat \ {0}
  OBVIOUS
<1>4. n - 1 \in Nat /\ n - 1 \notin Bad /\ (n - 1) + 1 = n
  <2> HIDE DEF Bad
  <2>1. n - 1 \in Nat /\ ~ (n <= n - 1) /\ (n - 1) + 1 = n
    BY <1>3
  <2> QED
    BY <1>2, <2>1
<1>5. n - 1 \in Good
  BY <1>4
<1> QED
  BY <1>2, <1>4, <1>5

(* Recursion: step[n] leads from the n-th value to the next.               *)
Follows(f, a, step, n) ==
  f[0] = a /\ \A i \in 0 .. n - 1 : f[i + 1] = step[i][f[i]]
Recursion(f, a, step) ==
  f[0] = a /\ \A i \in Nat : f[i + 1] = step[i][f[i]]
LEMMA RecursionExists ==
  ASSUME NEW S, NEW a \in S, NEW step \in [Nat -> [S -> S]]
  PROVE  \E f \in [Nat -> S] : Recursion(f, a, step)
<1> DEFINE Good == {n \in Nat : \E g \in [Nat -> S] : Follows(g, a, step, n)}
<1>1. 0 \in Good
  <2>1. [n \in Nat |-> a] \in [Nat -> S]
    OBVIOUS
  <2>2. Follows([n \in Nat |-> a], a, step, 0)
    BY DEF Follows
  <2> QED
    BY <2>1, <2>2
<1>2. ASSUME NEW n \in Nat, n \in Good PROVE n + 1 \in Good
  <2>1. PICK g \in [Nat -> S] : Follows(g, a, step, n)
    BY <1>2
  <2> DEFINE h == [g EXCEPT ![n + 1] = step[n][g[n]]]
  <2>2. step[n] \in [S -> S] /\ g[n] \in S
    OBVIOUS
  <2>3. h \in [Nat -> S]
    BY <2>2
  <2>4. h[0] = a
    BY <2>1 DEF Follows
  <2>5. ASSUME NEW i \in 0 .. (n + 1) - 1 PROVE h[i + 1] = step[i][h[i]]
    <3>1. CASE i = n
      <4>1. h[i + 1] = step[n][g[n]] /\ h[i] = g[n]
        BY <3>1
      <4> QED
        BY <3>1, <4>1
    <3>2. CASE i # n
      <4>1. i \in 0 .. n - 1 /\ i + 1 # n + 1 /\ i # n + 1 /\ i + 1 \in Nat
        BY <3>2
      <4>2. h[i + 1] = g[i + 1] /\ h[i] = g[i]
        BY <4>1
      <4> QED
        BY <2>1, <4>1, <4>2 DEF Follows
    <3> QED
      BY <3>1, <3>2
  <2>6. Follows(h, a, step, n + 1)
    <3> HIDE DEF h
    <3> QED
      BY <2>4, <2>5 DEF Follows
  <2>7. \E g1 \in [Nat -> S] : Follows(g1, a, step, n + 1)
    <3> HIDE DEF h
    <3> QED
      BY <2>3, <2>6
  <2> QED
    BY <2>7
<1>3. \A n \in Nat : n \in Good
  <2> HIDE DEF Good
  <2> QED
    BY <1>1, <1>2, AllNumbers
<1>4. \A n \in Nat : \E g \in [Nat -> S] : Follows(g, a, step, n)
  BY <1>3
<1> DEFINE G == [n \in Nat |-> CHOOSE g \in [Nat -> S] : Follows(g, a, step, n)]
<1>5. \A n \in Nat : G[n] \in [Nat -> S] /\ Follows(G[n], a, step, n)
  BY <1>4
<1> HIDE DEF G, Good
<1>6. ASSUME NEW n \in Nat, NEW m \in Nat, NEW k \in Nat, k <= n, k <= m
      PROVE  G[n][k] = G[m][k]
  <2> DEFINE Same == {j \in Nat : j <= n /\ j <= m => G[n][j] = G[m][j]}
  <2>1. 0 \in Same
    BY <1>5 DEF Follows
  <2>2. ASSUME NEW j \in Nat, j \in Same PROVE j + 1 \in Same
    <3> SUFFICES ASSUME j + 1 <= n, j + 1 <= m PROVE G[n][j + 1] = G[m][j + 1]
      OBVIOUS
    <3>1. j \in 0 .. n - 1 /\ j \in 0 .. m - 1 /\ G[n][j] = G[m][j]
      BY <2>2
    <3>2. Follows(G[n], a, step, n) /\ Follows(G[m], a, step, m)
      BY <1>5
    <3> QED
      BY <3>1, <3>2 DEF Follows
  <2>3. \A j \in Nat : j \in Same
    <3> HIDE DEF Same
    <3> QED
      BY <2>1, <2>2, AllNumbers
  <2> QED
    BY <1>6, <2>3
<1> DEFINE f == [n \in Nat |-> G[n][n]]
<1>7. f \in [Nat -> S]
  BY <1>5
<1>8. f[0] = a
  BY <1>5 DEF Follows
<1>9. ASSUME NEW n \in Nat PROVE f[n + 1] = step[n][f[n]]
  <2>1. f[n + 1] = G[n + 1][n + 1] /\ f[n] = G[n][n]
    OBVIOUS
  <2>2. G[n + 1][n + 1] = step[n][G[n + 1][n]]
    <3>1. n + 1 \in Nat /\ n \in 0 .. (n + 1) - 1
      OBVIOUS
    <3>2. Follows(G[n + 1], a, step, n + 1)
      BY <1>5, <3>1
    <3> QED
      BY <3>1, <3>2 DEF Follows
  <2>3. G[n + 1][n] = G[n][n]
    BY <1>6
  <2> QED
    BY <2>1, <2>2, <2>3
<1>10. Recursion(f, a, step)
  BY <1>8, <1>9 DEF Recursion
<1> QED
  BY <1>7, <1>10

-----------------------------------------------------------------------------
(* Orders of n cells.                                                       *)
CellsOf(n) == 0 .. n - 1
Order(s, n) ==
  /\ s \in [1 .. n -> CellsOf(n)]
  /\ \A i, j \in 1 .. n : s[i] = s[j] => i = j
  /\ \A c \in CellsOf(n) : \E i \in 1 .. n : s[i] = c

(* The cell at one place goes to another in front of it, and back.         *)
Forward(s, to, from) ==
  [i \in DOMAIN s |-> IF i = to THEN s[from]
                      ELSE IF to < i /\ i <= from THEN s[i - 1] ELSE s[i]]
Back(s, from, to) ==
  [i \in DOMAIN s |-> IF i = to THEN s[from]
                      ELSE IF from <= i /\ i < to THEN s[i + 1] ELSE s[i]]
Backwards(s) == [i \in DOMAIN s |-> s[Len(s) + 1 - i]]

LEMMA OrderIsSeq ==
  ASSUME NEW n \in Nat, NEW s, Order(s, n)
  PROVE  /\ s \in Seq(CellsOf(n)) /\ Len(s) = n /\ DOMAIN s = 1 .. n
         /\ \A i \in 1 .. n : s[i] \in CellsOf(n)
<1>1. s \in [1 .. n -> CellsOf(n)]
  BY DEF Order
<1>2. s \in Seq(CellsOf(n))
  BY <1>1, SeqDef
<1> QED
  BY <1>1, <1>2

(* t has the cells of s, those at the places from[1], from[2] and so on.   *)
Permutation(from, to, n) ==
  /\ to \in [1 .. n -> 1 .. n] /\ from \in [1 .. n -> 1 .. n]
  /\ \A i \in 1 .. n : to[from[i]] = i /\ from[to[i]] = i
Permuted(t, s, from, n) ==
  t \in [1 .. n -> CellsOf(n)] /\ \A i \in 1 .. n : t[i] = s[from[i]]

LEMMA Reordered ==
  ASSUME NEW n \in Nat, NEW s, Order(s, n), NEW t, NEW to, NEW from,
         Permutation(from, to, n), Permuted(t, s, from, n)
  PROVE  Order(t, n)
<1>0. \A i \in 1 .. n : to[i] \in 1 .. n /\ from[i] \in 1 .. n
  BY DEF Permutation
<1>2. ASSUME NEW i \in 1 .. n, NEW j \in 1 .. n, t[i] = t[j] PROVE i = j
  <2>1. s[from[i]] = s[from[j]]
    BY <1>2 DEF Permuted
  <2>2. from[i] = from[j]
    BY <1>0, <2>1 DEF Order
  <2>3. to[from[i]] = i /\ to[from[j]] = j
    BY DEF Permutation
  <2> QED
    BY <2>2, <2>3
<1>3. ASSUME NEW c \in CellsOf(n) PROVE \E i \in 1 .. n : t[i] = c
  <2>1. PICK k \in 1 .. n : s[k] = c
    BY DEF Order
  <2>2. to[k] \in 1 .. n /\ from[to[k]] = k
    BY <1>0, <2>1 DEF Permutation
  <2>3. t[to[k]] = c
    BY <2>1, <2>2 DEF Permuted
  <2> QED
    BY <2>2, <2>3
<1> QED
  BY <1>2, <1>3 DEF Order, Permuted

LEMMA ForwardOrder ==
  ASSUME NEW n \in Nat, NEW s, Order(s, n),
         NEW k \in 1 .. n, NEW l \in k .. n
  PROVE  /\ Order(Forward(s, k, l), n)
         /\ \A i \in 1 .. n : Forward(s, k, l)[i]
              = IF i = k THEN s[l] ELSE IF k < i /\ i <= l THEN s[i - 1] ELSE s[i]
<1> DEFINE from == [i \in 1 .. n |-> IF i = k THEN l
                                     ELSE IF k < i /\ i <= l THEN i - 1 ELSE i]
           to == [i \in 1 .. n |-> IF i = l THEN k
                                   ELSE IF k <= i /\ i < l THEN i + 1 ELSE i]
           t == Forward(s, k, l)
<1>1. DOMAIN s = 1 .. n
  BY OrderIsSeq
<1>2. to \in [1 .. n -> 1 .. n] /\ from \in [1 .. n -> 1 .. n]
  OBVIOUS
<1>3. ASSUME NEW i \in 1 .. n PROVE to[from[i]] = i /\ from[to[i]] = i
  <2>1. from[i] \in 1 .. n /\ to[i] \in 1 .. n
    BY <1>2
  <2>2. to[from[i]] = IF from[i] = l THEN k
                      ELSE IF k <= from[i] /\ from[i] < l THEN from[i] + 1
                      ELSE from[i]
    BY <2>1
  <2>3. from[to[i]] = IF to[i] = k THEN l
                      ELSE IF k < to[i] /\ to[i] <= l THEN to[i] - 1 ELSE to[i]
    BY <2>1
  <2>4. /\ from[i] = IF i = k THEN l ELSE IF k < i /\ i <= l THEN i - 1 ELSE i
        /\ to[i] = IF i = l THEN k ELSE IF k <= i /\ i < l THEN i + 1 ELSE i
    OBVIOUS
  <2> HIDE DEF from, to
  <2> QED
    BY <2>2, <2>3, <2>4
<1>4. ASSUME NEW i \in 1 .. n
      PROVE  /\ t[i] = IF i = k THEN s[l]
                       ELSE IF k < i /\ i <= l THEN s[i - 1] ELSE s[i]
             /\ t[i] = s[from[i]]
  BY <1>1 DEF Forward
<1>5. t \in [1 .. n -> CellsOf(n)]
  <2>1. \A i \in 1 .. n : s[from[i]] \in CellsOf(n)
    BY <1>2, OrderIsSeq
  <2>2. t = [i \in 1 .. n |-> t[i]]
    BY <1>1 DEF Forward
  <2> HIDE DEF t, from
  <2> QED
    BY <1>4, <2>1, <2>2
<1> HIDE DEF t, from, to
<1>6. Order(t, n)
  <2>1. Permutation(from, to, n)
    BY <1>2, <1>3 DEF Permutation
  <2>2. Permuted(t, s, from, n)
    BY <1>4, <1>5 DEF Permuted
  <2> QED
    BY <2>1, <2>2, Reordered
<1> QED
  BY <1>4, <1>6 DEF t

LEMMA BackOrder ==
  ASSUME NEW n \in Nat, NEW s, Order(s, n),
         NEW k \in 1 .. n, NEW l \in k .. n
  PROVE  /\ Order(Back(s, k, l), n)
         /\ \A i \in 1 .. n : Back(s, k, l)[i]
              = IF i = l THEN s[k] ELSE IF k <= i /\ i < l THEN s[i + 1] ELSE s[i]
<1> DEFINE to == [i \in 1 .. n |-> IF i = k THEN l
                                     ELSE IF k < i /\ i <= l THEN i - 1 ELSE i]
           from == [i \in 1 .. n |-> IF i = l THEN k
                                   ELSE IF k <= i /\ i < l THEN i + 1 ELSE i]
           t == Back(s, k, l)
<1>1. DOMAIN s = 1 .. n
  BY OrderIsSeq
<1>2. to \in [1 .. n -> 1 .. n] /\ from \in [1 .. n -> 1 .. n]
  OBVIOUS
<1>3. ASSUME NEW i \in 1 .. n PROVE to[from[i]] = i /\ from[to[i]] = i
  <2>1. from[i] \in 1 .. n /\ to[i] \in 1 .. n
    BY <1>2
  <2>2. from[to[i]] = IF to[i] = l THEN k
                      ELSE IF k <= to[i] /\ to[i] < l THEN to[i] + 1
                      ELSE to[i]
    BY <2>1
  <2>3. to[from[i]] = IF from[i] = k THEN l
                      ELSE IF k < from[i] /\ from[i] <= l THEN from[i] - 1
                      ELSE from[i]
    BY <2>1
  <2>4. /\ to[i] = IF i = k THEN l ELSE IF k < i /\ i <= l THEN i - 1 ELSE i
        /\ from[i] = IF i = l THEN k ELSE IF k <= i /\ i < l THEN i + 1 ELSE i
    OBVIOUS
  <2> HIDE DEF from, to
  <2> QED
    BY <2>2, <2>3, <2>4
<1>4. ASSUME NEW i \in 1 .. n
      PROVE  /\ t[i] = IF i = l THEN s[k]
                       ELSE IF k <= i /\ i < l THEN s[i + 1] ELSE s[i]
             /\ t[i] = s[from[i]]
  BY <1>1 DEF Back
<1>5. t \in [1 .. n -> CellsOf(n)]
  <2>1. \A i \in 1 .. n : s[from[i]] \in CellsOf(n)
    BY <1>2, OrderIsSeq
  <2>2. t = [i \in 1 .. n |-> t[i]]
    BY <1>1 DEF Back
  <2> HIDE DEF t, from
  <2> QED
    BY <1>4, <2>1, <2>2
<1> HIDE DEF t, from, to
<1>6. Order(t, n)
  <2>1. Permutation(from, to, n)
    BY <1>2, <1>3 DEF Permutation
  <2>2. Permuted(t, s, from, n)
    BY <1>4, <1>5 DEF Permuted
  <2> QED
    BY <2>1, <2>2, Reordered
<1> QED
  BY <1>4, <1>6 DEF t

LEMMA BackwardsOrder ==
  ASSUME NEW n \in Nat, NEW s, Order(s, n)
  PROVE  /\ Order(Backwards(s), n)
         /\ \A i \in 1 .. n : Backwards(s)[i] = s[n + 1 - i]
<1> DEFINE from == [i \in 1 .. n |-> n + 1 - i]
           t == Backwards(s)
<1>1. DOMAIN s = 1 .. n /\ Len(s) = n
  BY OrderIsSeq
<1>2. from \in [1 .. n -> 1 .. n] /\ \A i \in 1 .. n : from[from[i]] = i
  OBVIOUS
<1>3. /\ \A i \in 1 .. n : t[i] = s[from[i]]
      /\ t \in [1 .. n -> CellsOf(n)]
  BY <1>1, OrderIsSeq DEF Backwards
<1>4. \A i \in 1 .. n : t[i] = s[n + 1 - i]
  BY <1>1 DEF Backwards
<1> HIDE DEF t, from
<1>5. Order(t, n)
  BY <1>2, <1>3, Reordered DEF Permutation, Permuted
<1> QED
  BY <1>4, <1>5 DEF t

-----------------------------------------------------------------------------
(* How a merge sort orders the cells.                                       *)

(* Where runs of w elements start, counted from 0, and pairs of places in  *)
(* one run.                                                                 *)
Starts(w) == {a \in Nat : \E k \in Nat : a = k * w}
Same(w, i, j) == \A a \in Starts(w) : ~ (i <= a /\ a < j)

LEMMA StartFacts ==
  ASSUME NEW w \in Nat, w >= 1
  PROVE  /\ 0 \in Starts(w)
         /\ \A a \in Starts(w) : a + w \in Starts(w)
         /\ \A a \in Starts(2 * w) : a \in Starts(w) /\ a + w \in Starts(w)
         /\ \A a, z \in Starts(w) : a < z => a + w <= z
<1>1. 0 \in Starts(w)
  <2>1. 0 = 0 * w
    OBVIOUS
  <2> QED
    BY <2>1 DEF Starts
<1>2. ASSUME NEW a \in Starts(w) PROVE a + w \in Starts(w)
  <2>1. PICK k \in Nat : a = k * w
    BY DEF Starts
  <2>2. a + w = (k + 1) * w /\ a + w \in Nat /\ k + 1 \in Nat
    BY <2>1 DEF Starts
  <2> QED
    BY <2>2 DEF Starts
<1>3. ASSUME NEW a \in Starts(2 * w) PROVE a \in Starts(w)
  <2>1. PICK k \in Nat : a = k * (2 * w)
    BY DEF Starts
  <2>2. a = (2 * k) * w /\ 2 * k \in Nat /\ a \in Nat
    BY <2>1 DEF Starts
  <2> QED
    BY <2>2 DEF Starts
<1>4. ASSUME NEW a \in Starts(w), NEW z \in Starts(w), a < z PROVE a + w <= z
  <2>1. PICK k \in Nat : a = k * w
    BY DEF Starts
  <2>2. PICK l \in Nat : z = l * w
    BY DEF Starts
  <2>3. k < l
    <3> SUFFICES ASSUME l <= k PROVE FALSE
      OBVIOUS
    <3>1. k * w = l * w + (k - l) * w /\ (k - l) * w >= 0
      OBVIOUS
    <3> QED
      BY <1>4, <2>1, <2>2, <3>1
  <2>4. l * w = k * w + (l - k) * w /\ (l - k) * w = w + (l - k - 1) * w
    OBVIOUS
  <2>5. (l - k - 1) * w >= 0
    BY <2>3
  <2> DEFINE x == k * w
             y == (l - k) * w
             u == (l - k - 1) * w
  <2>6. x \in Int /\ y \in Int /\ u \in Int
    OBVIOUS
  <2>7. a = x /\ z = x + y /\ y = w + u /\ u >= 0
    BY <2>1, <2>2, <2>4, <2>5
  <2> HIDE DEF x, y, u
  <2> QED
    BY <2>6, <2>7
<1> QED
  BY <1>1, <1>2, <1>3, <1>4

(* In the middle of a pass with runs of w elements, the first m of n cells *)
(* are merged, those up to e are the rest of the run at p, and those up to *)
(* z (which may be beyond the end) the rest of the one at q.  le has the   *)
(* pairs of cells known to be in order, st those whose order may not       *)
(* change.                                                                  *)
Related(r, c, d) == <<c, d>> \in r
Stable(s, n, st) == \A i, j \in 1 .. n : i < j => Related(st, s[i], s[j])
MergedOrder(s, n, m, w, le) ==
  \A i, j \in 1 .. n : i < j /\ i <= m /\ Same(2 * w, i, j) => Related(le, s[i], s[j])
RunOrder(s, m, e, le) ==
  \A i, j \in m + 1 .. e : i < j => Related(le, s[i], s[j])
RestOrder(s, n, e, w, le) ==
  \A i, j \in e + 1 .. n : i < j /\ Same(w, i, j) => Related(le, s[i], s[j])
Sizes(n, m, e, z, w) ==
  /\ n \in Nat /\ m \in Nat /\ e \in Nat /\ z \in Nat /\ w \in Nat /\ w >= 1
  /\ m <= e /\ e <= n /\ e <= z /\ e - m <= w /\ z - e <= w
  /\ e < n => z \in Starts(2 * w)
SortParts(s, n, m, e, z, w, le, st) ==
  /\ Sizes(n, m, e, z, w)
  /\ Stable(s, n, st) /\ MergedOrder(s, n, m, w, le)
  /\ RunOrder(s, m, e, le) /\ RestOrder(s, n, e, w, le)

(* c may come first: it is in order with d and with what comes after d.    *)
ComesFirst(c, d, r, le) == \A x : x = d \/ Related(le, d, x) => Related(r, c, x)

LEMMA StartParts ==
  ASSUME NEW n \in Nat, NEW s, NEW le, NEW st, Stable(s, n, st)
  PROVE  SortParts(s, n, 0, 0, 0, 1, le, st)
<1>1. ASSUME NEW i \in 1 .. n, NEW j \in 1 .. n, i < j PROVE ~ Same(1, i, j)
  <2>1. i = i * 1 /\ i \in Nat
    OBVIOUS
  <2>2. i \in Starts(1)
    BY <2>1 DEF Starts
  <2> QED
    BY <1>1, <2>2 DEF Same
<1>2. RestOrder(s, n, 0, 1, le)
  BY <1>1 DEF RestOrder
<1>3. 0 \in Starts(2 * 1)
  BY StartFacts
<1> QED
  BY <1>2, <1>3 DEF SortParts, Sizes, MergedOrder, RunOrder

LEMMA NextRunParts ==
  ASSUME NEW s, NEW n, NEW m, NEW w, NEW le, NEW st,
         SortParts(s, n, m, m, m, w, le, st), m < n,
         NEW e, e = m + (IF n - m > w THEN w ELSE n - m)
  PROVE  SortParts(s, n, m, e, e + w, w, le, st)
<1>1. /\ Sizes(n, m, m, m, w) /\ m \in Starts(2 * w)
      /\ n \in Nat /\ m \in Nat /\ w \in Nat /\ w >= 1
  BY DEF SortParts, Sizes
<1>2. m \in Starts(w) /\ m + w \in Starts(w)
  BY <1>1, StartFacts
<1>3. m + 2 * w \in Starts(2 * w)
  BY <1>1, StartFacts
<1>4. Sizes(n, m, e, e + w, w)
  BY <1>1, <1>3 DEF Sizes
<1>5. RunOrder(s, m, e, le)
  <2> SUFFICES ASSUME NEW i \in m + 1 .. e, NEW j \in m + 1 .. e, i < j
               PROVE  Related(le, s[i], s[j])
    BY DEF RunOrder
  <2>1. ASSUME NEW a \in Starts(w) PROVE ~ (i <= a /\ a < j)
    <3>1. m < a => m + w <= a
      BY <1>1, <1>2, StartFacts
    <3> QED
      BY <1>1, <3>1 DEF Starts
  <2>2. i \in m + 1 .. n /\ j \in m + 1 .. n
    BY <1>1
  <2> QED
    BY <2>1, <2>2 DEF SortParts, RestOrder, Same
<1>6. RestOrder(s, n, e, w, le)
  <2>1. \A i \in e + 1 .. n : i \in m + 1 .. n
    BY <1>1
  <2> QED
    BY <2>1 DEF SortParts, RestOrder
<1> QED
  BY <1>4, <1>5, <1>6 DEF SortParts

(* What is left of both runs is in one run of the next pass, what comes    *)
(* after them is not.                                                       *)
LEMMA RunsOfAPass ==
  ASSUME NEW n, NEW m, NEW e, NEW z, NEW w, Sizes(n, m, e, z, w)
  PROVE  /\ n \in Nat /\ m \in Nat /\ e \in Nat /\ z \in Nat /\ w \in Nat
         /\ m <= e /\ e <= n /\ e <= z
         /\ \A i, j \in 1 .. n : i <= z /\ z < j /\ e < n => ~ Same(2 * w, i, j)
         /\ \A i, j \in 1 .. n : e < i /\ j <= z => Same(w, i, j)
         /\ \A i, k \in 1 .. n :
              k <= z /\ e < n /\ Same(2 * w, i, m + 1) => Same(2 * w, i, k)
<1>1. /\ n \in Nat /\ m \in Nat /\ e \in Nat /\ z \in Nat /\ w \in Nat /\ w >= 1
      /\ m <= e /\ e <= n /\ e <= z /\ e - m <= w /\ z - e <= w
      /\ e < n => z \in Starts(2 * w)
  BY DEF Sizes
<1>2. ASSUME NEW i \in 1 .. n, NEW j \in 1 .. n, i <= z, z < j, e < n
      PROVE  ~ Same(2 * w, i, j)
  BY <1>1, <1>2 DEF Same
<1>3. ASSUME NEW i \in 1 .. n, NEW j \in 1 .. n, e < i, j <= z
      PROVE  Same(w, i, j)
  <2>1. z \in Starts(2 * w)
    BY <1>1, <1>3
  <2>2. z \in Starts(w)
    BY <1>1, <2>1, StartFacts
  <2>3. ASSUME NEW a \in Starts(w), i <= a, a < j PROVE FALSE
    <3>0. a \in Nat
      BY DEF Starts
    <3>1. a + w <= z
      BY <1>1, <1>3, <2>2, <2>3, <3>0, StartFacts
    <3> QED
      BY <1>1, <1>3, <2>3, <3>0, <3>1
  <2> QED
    BY <2>3 DEF Same
<1>4. ASSUME NEW i \in 1 .. n, NEW k \in 1 .. n,
             k <= z, e < n, Same(2 * w, i, m + 1)
      PROVE  Same(2 * w, i, k)
  <2> DEFINE v == 2 * w
  <2>1. v \in Nat /\ v >= 1 /\ z \in Starts(v) /\ z - m <= v /\ Same(v, i, m + 1)
    BY <1>1, <1>4
  <2>2. ASSUME NEW a \in Starts(v), i <= a, a < k PROVE FALSE
    <3> HIDE DEF v
    <3>1. a \in Nat /\ ~ (a < m + 1)
      BY <1>4, <2>1, <2>2 DEF Starts, Same
    <3>2. a + v <= z
      BY <1>1, <1>4, <2>1, <2>2, <3>1, StartFacts
    <3> QED
      BY <1>1, <1>4, <2>1, <2>2, <3>1, <3>2
  <2> QED
    BY <2>2 DEF Same
<1> QED
  BY <1>1, <1>2, <1>3, <1>4

(* A cell from p.                                                           *)
LEMMA TakePParts ==
  ASSUME NEW s, NEW n, NEW m, NEW e, NEW z, NEW w, NEW le, NEW st,
         SortParts(s, n, m, e, z, w, le, st), m < e,
         e < n /\ e < z => ComesFirst(s[m + 1], s[e + 1], le, le)
  PROVE  SortParts(s, n, m + 1, e, z, w, le, st)
<1>1. /\ n \in Nat /\ m \in Nat /\ e \in Nat /\ z \in Nat /\ w \in Nat /\ w >= 1
      /\ m <= e /\ e <= n /\ e <= z /\ e - m <= w /\ z - e <= w
      /\ Sizes(n, m, e, z, w)
  BY DEF Sizes, SortParts
<1>2. Sizes(n, m + 1, e, z, w)
  BY <1>1 DEF Sizes
<1>3. RunOrder(s, m + 1, e, le)
  <2>1. \A i \in (m + 1) + 1 .. e : i \in m + 1 .. e
    BY <1>1
  <2> QED
    BY <2>1 DEF SortParts, RunOrder
<1>4. MergedOrder(s, n, m + 1, w, le)
  <2> SUFFICES ASSUME NEW i \in 1 .. n, NEW j \in 1 .. n, i < j, i <= m + 1,
                      Same(2 * w, i, j)
               PROVE  Related(le, s[i], s[j])
    BY DEF MergedOrder
  <2>1. CASE i <= m
    BY <2>1 DEF SortParts, MergedOrder
  <2>2. CASE i = m + 1 /\ j <= e
    <3>1. i \in m + 1 .. e /\ j \in m + 1 .. e
      BY <1>1, <2>2
    <3> QED
      BY <3>1 DEF SortParts, RunOrder
  <2>3. CASE i = m + 1 /\ e < j
    <3>1. j <= z
      <4> SUFFICES ASSUME z < j PROVE FALSE
        BY <1>1
      <4>1. i <= z /\ e < n
        BY <1>1, <2>3
      <4> QED
        BY <1>1, <4>1, RunsOfAPass
    <3>2. ComesFirst(s[m + 1], s[e + 1], le, le)
      BY <1>1, <2>3, <3>1
    <3>3. CASE j = e + 1
      BY <2>3, <3>2, <3>3 DEF ComesFirst
    <3>4. CASE j # e + 1
      <4>1. e + 1 \in 1 .. n /\ e + 1 \in e + 1 .. n /\ j \in e + 1 .. n /\ e < e + 1
            /\ e + 1 < j
        BY <1>1, <2>3, <3>4
      <4>2. Same(w, e + 1, j)
        BY <1>1, <3>1, <4>1, RunsOfAPass
      <4>3. Related(le, s[e + 1], s[j])
        BY <4>1, <4>2 DEF SortParts, RestOrder
      <4> QED
        BY <2>3, <3>2, <4>3 DEF ComesFirst
    <3> QED
      BY <3>3, <3>4
  <2> QED
    BY <1>1, <2>1, <2>2, <2>3
<1> QED
  BY <1>2, <1>3, <1>4 DEF SortParts

(* A cell from q, which goes in front of those left at p.                  *)
LEMMA TakeQParts ==
  ASSUME NEW s, NEW n, NEW m, NEW e, NEW z, NEW w, NEW le, NEW st,
         SortParts(s, n, m, e, z, w, le, st), e < n, e < z,
         m < e => /\ ComesFirst(s[e + 1], s[m + 1], le, le)
                  /\ ComesFirst(s[e + 1], s[m + 1], st, le),
         NEW t, \A i \in 1 .. n :
                  t[i] = IF i = m + 1 THEN s[e + 1]
                         ELSE IF m + 1 < i /\ i <= e + 1 THEN s[i - 1] ELSE s[i]
  PROVE  SortParts(t, n, m + 1, e + 1, z, w, le, st)
<1>1. /\ n \in Nat /\ m \in Nat /\ e \in Nat /\ z \in Nat /\ w \in Nat /\ w >= 1
      /\ m <= e /\ e <= n /\ e <= z /\ e - m <= w /\ z - e <= w
      /\ Sizes(n, m, e, z, w)
      /\ m + 1 \in 1 .. n /\ e + 1 \in 1 .. n
  BY DEF Sizes, SortParts
<1>2. Sizes(n, m + 1, e + 1, z, w)
  BY <1>1 DEF Sizes
<1>3. /\ \A i \in 1 .. n : i <= m => t[i] = s[i]
      /\ t[m + 1] = s[e + 1]
      /\ \A i \in 1 .. n : m + 1 < i /\ i <= e + 1 => t[i] = s[i - 1] /\ i - 1 \in m + 1 .. e
      /\ \A i \in 1 .. n : e + 1 < i => t[i] = s[i]
  BY <1>1
(* The first of p comes before the others there.                            *)
<1>4. ASSUME NEW i \in m + 1 .. e
      PROVE  Related(le, s[e + 1], s[i]) /\ Related(st, s[e + 1], s[i])
  <2>1. m < e /\ m + 1 \in m + 1 .. e
    BY <1>1
  <2>2. i = m + 1 \/ Related(le, s[m + 1], s[i])
    BY <2>1 DEF SortParts, RunOrder
  <2> QED
    BY <2>1, <2>2 DEF ComesFirst
<1>5. Stable(t, n, st)
  <2> SUFFICES ASSUME NEW i \in 1 .. n, NEW j \in 1 .. n, i < j
               PROVE  Related(st, t[i], t[j])
    BY DEF Stable
  <2>0. \A k, l \in 1 .. n : k < l => Related(st, s[k], s[l])
    BY DEF SortParts, Stable
  <2>1. CASE i <= m
    <3>1. t[i] = s[i]
      BY <1>3, <2>1
    <3>2. \E k \in 1 .. n : i < k /\ t[j] = s[k]
      <4>1. CASE j <= m \/ e + 1 < j
        BY <1>3, <4>1
      <4>2. CASE j = m + 1
        BY <1>1, <1>3, <2>1, <4>2
      <4>3. CASE m + 1 < j /\ j <= e + 1
        <5>1. j - 1 \in 1 .. n /\ i < j - 1
          BY <1>1, <2>1, <4>3
        <5> QED
          BY <1>3, <4>3, <5>1
      <4> QED
        BY <1>1, <4>1, <4>2, <4>3
    <3> QED
      BY <2>0, <3>1, <3>2
  <2>2. CASE i = m + 1 /\ j <= e + 1
    BY <1>1, <1>3, <1>4, <2>2
  <2>3. CASE i = m + 1 /\ e + 1 < j
    BY <1>1, <1>3, <2>0, <2>3
  <2>4. CASE m + 1 < i /\ i <= e + 1
    <3>1. t[i] = s[i - 1] /\ i - 1 \in 1 .. n
      BY <1>1, <1>3, <2>4
    <3>2. CASE j <= e + 1
      <4>1. t[j] = s[j - 1] /\ j - 1 \in 1 .. n /\ i - 1 < j - 1
        BY <1>1, <1>3, <2>4, <3>2
      <4> QED
        BY <2>0, <3>1, <4>1
    <3>3. CASE e + 1 < j
      <4>1. t[j] = s[j] /\ i - 1 < j
        BY <1>1, <1>3, <2>4, <3>3
      <4> QED
        BY <2>0, <3>1, <4>1
    <3> QED
      BY <1>1, <3>2, <3>3
  <2>5. CASE e + 1 < i
    BY <1>1, <1>3, <2>0, <2>5
  <2> QED
    BY <1>1, <2>1, <2>2, <2>3, <2>4, <2>5
<1>6. RunOrder(t, m + 1, e + 1, le)
  <2> SUFFICES ASSUME NEW i \in (m + 1) + 1 .. e + 1, NEW j \in (m + 1) + 1 .. e + 1, i < j
               PROVE  Related(le, t[i], t[j])
    BY DEF RunOrder
  <2>1. /\ i \in 1 .. n /\ m + 1 < i /\ i <= e + 1
        /\ j \in 1 .. n /\ m + 1 < j /\ j <= e + 1 /\ i - 1 < j - 1
    BY <1>1
  <2>2. /\ t[i] = s[i - 1] /\ i - 1 \in m + 1 .. e
        /\ t[j] = s[j - 1] /\ j - 1 \in m + 1 .. e
    BY <1>3, <2>1
  <2> QED
    BY <2>1, <2>2 DEF SortParts, RunOrder
<1>7. RestOrder(t, n, e + 1, w, le)
  <2> SUFFICES ASSUME NEW i \in (e + 1) + 1 .. n, NEW j \in (e + 1) + 1 .. n, i < j,
                      Same(w, i, j)
               PROVE  Related(le, t[i], t[j])
    BY DEF RestOrder
  <2>1. /\ i \in 1 .. n /\ e + 1 < i /\ i \in e + 1 .. n
        /\ j \in 1 .. n /\ e + 1 < j /\ j \in e + 1 .. n
    BY <1>1
  <2>2. t[i] = s[i] /\ t[j] = s[j]
    BY <1>3, <2>1
  <2> QED
    BY <2>1, <2>2 DEF SortParts, RestOrder
<1>8. MergedOrder(t, n, m + 1, w, le)
  <2> SUFFICES ASSUME NEW i \in 1 .. n, NEW j \in 1 .. n, i < j, i <= m + 1,
                      Same(2 * w, i, j)
               PROVE  Related(le, t[i], t[j])
    BY DEF MergedOrder
  <2>1. CASE i <= m
    <3>1. t[i] = s[i]
      BY <1>3, <2>1
    <3>2. \E k \in 1 .. n : i < k /\ t[j] = s[k] /\ Same(2 * w, i, k)
      <4>1. CASE j <= m \/ e + 1 < j
        BY <1>3, <4>1
      <4>2. CASE j = m + 1
        <5>1. i < e + 1 /\ e + 1 <= z
          BY <1>1, <2>1
        <5>2. Same(2 * w, i, e + 1)
          BY <1>1, <4>2, <5>1, RunsOfAPass
        <5> QED
          BY <1>1, <1>3, <4>2, <5>1, <5>2
      <4>3. CASE m + 1 < j /\ j <= e + 1
        <5>1. j - 1 \in 1 .. n /\ i < j - 1 /\ \A a \in Nat : a < j - 1 => a < j
          BY <1>1, <2>1, <4>3
        <5>2. Same(2 * w, i, j - 1)
          BY <5>1 DEF Same, Starts
        <5> QED
          BY <1>3, <4>3, <5>1, <5>2
      <4> QED
        BY <1>1, <4>1, <4>2, <4>3
    <3> QED
      BY <2>1, <3>1, <3>2 DEF SortParts, MergedOrder
  <2>2. CASE i = m + 1 /\ j <= e + 1
    BY <1>1, <1>3, <1>4, <2>2
  <2>3. CASE i = m + 1 /\ e + 1 < j
    <3>1. j <= z
      <4> SUFFICES ASSUME z < j PROVE FALSE
        BY <1>1
      <4>1. i <= z /\ e < n
        BY <1>1, <2>3
      <4> QED
        BY <1>1, <4>1, RunsOfAPass
    <3>2. e + 1 \in e + 1 .. n /\ j \in e + 1 .. n /\ e < e + 1 /\ e + 1 < j
      BY <1>1, <2>3
    <3>3. Same(w, e + 1, j)
      BY <1>1, <3>1, <3>2, RunsOfAPass
    <3>4. Related(le, s[e + 1], s[j])
      BY <3>2, <3>3 DEF SortParts, RestOrder
    <3> QED
      BY <1>3, <2>3, <3>4
  <2> QED
    BY <1>1, <2>1, <2>2, <2>3
<1> QED
  BY <1>2, <1>5, <1>6, <1>7, <1>8 DEF SortParts

(* All is merged: the next pass has runs of twice the size.                *)
LEMMA EndPassParts ==
  ASSUME NEW s, NEW n, NEW z, NEW w, NEW le, NEW st,
         SortParts(s, n, n, n, z, w, le, st)
  PROVE  SortParts(s, n, 0, 0, 0, 2 * w, le, st)
<1>1. n \in Nat /\ w \in Nat /\ w >= 1 /\ 2 * w \in Nat /\ 2 * w >= 1
  BY DEF SortParts, Sizes
<1>2. RestOrder(s, n, 0, 2 * w, le)
  BY <1>1 DEF SortParts, MergedOrder, RestOrder
<1>3. 2 * (2 * w) \in Nat /\ 2 * (2 * w) >= 1
  BY <1>1
<1>4. 0 \in Starts(2 * (2 * w))
  BY <1>3, StartFacts
<1> QED
  BY <1>1, <1>2, <1>4 DEF SortParts, Sizes, MergedOrder, RunOrder

(* And if they are one run, all are in order.                               *)
LEMMA LastPassParts ==
  ASSUME NEW s, NEW n, NEW z, NEW w, NEW le, NEW st,
         SortParts(s, n, n, n, z, w, le, st), n <= 2 * w
  PROVE  \A i, j \in 1 .. n : i < j => Related(le, s[i], s[j]) /\ Related(st, s[i], s[j])
<1>1. n \in Nat /\ w \in Nat /\ w >= 1
  BY DEF SortParts, Sizes
<1> SUFFICES ASSUME NEW i \in 1 .. n, NEW j \in 1 .. n, i < j
             PROVE  Related(le, s[i], s[j]) /\ Related(st, s[i], s[j])
  OBVIOUS
<1> DEFINE v == 2 * w
<1>2. v \in Nat /\ v >= 1 /\ n <= v
  BY <1>1
<1>3. Same(v, i, j)
  <2> HIDE DEF v
  <2>1. ASSUME NEW a \in Starts(v), i <= a, a < j PROVE FALSE
    <3>1. a \in Nat /\ 0 < a
      BY <2>1 DEF Starts
    <3>2. 0 \in Starts(v)
      BY <1>2, StartFacts
    <3>3. 0 + v <= a
      BY <1>2, <3>1, <3>2, StartFacts
    <3> QED
      BY <1>1, <1>2, <2>1, <3>1, <3>3
  <2> QED
    BY <2>1 DEF Same
<1> QED
  BY <1>1, <1>3 DEF SortParts, MergedOrder, Stable

(* What is known stays known.                                               *)
Extends(r, r2) == \A c, d : Related(r, c, d) => Related(r2, c, d)
LEMMA MorePairs ==
  ASSUME NEW s, NEW n, NEW m, NEW e, NEW z, NEW w, NEW le, NEW st,
         SortParts(s, n, m, e, z, w, le, st),
         NEW le2, Extends(le, le2), NEW st2, Extends(st, st2)
  PROVE  SortParts(s, n, m, e, z, w, le2, st2)
<1>1. Stable(s, n, st2)
  BY DEF SortParts, Stable, Extends
<1>2. MergedOrder(s, n, m, w, le2)
  BY DEF SortParts, MergedOrder, Extends
<1>3. RunOrder(s, m, e, le2)
  BY DEF SortParts, RunOrder, Extends
<1>4. RestOrder(s, n, e, w, le2)
  BY DEF SortParts, RestOrder, Extends
<1> QED
  BY <1>1, <1>2, <1>3, <1>4 DEF SortParts
=============================================================================
