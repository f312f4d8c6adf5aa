------------------------------ MODULE ListHeap ------------------------------
(***************************************************************************)
(* The singly linked list of CoreMark, core_list_join.c, as pointers: a    *)
(* heap h has h.next and h.info, the two members of every list_head in the *)
(* memory block.  What an info points to is the caller's.                  *)
(***************************************************************************)
EXTENDS Naturals, Sequences, FiniteSets

CONSTANT NULL

ASSUME NullAssumption == NULL \notin Nat

(* The cells from l on, as following the pointers meets them.  A list that *)
(* runs in a circle gives more of them than there are.                     *)
Chain(h, l) ==
  LET from[steps \in Nat] ==
        [c \in DOMAIN h.next \cup {NULL} |->
           IF c = NULL THEN <<>>
           ELSE IF steps = 0 THEN <<c>>
           ELSE <<c>> \o from[steps - 1][h.next[c]]]
  IN  from[Cardinality(DOMAIN h.next)][l]

(* The first cell whose info is one of those looked for, or NULL.          *)
core_list_find(h, l, infos) ==
  LET find[steps \in Nat] ==
        [c \in DOMAIN h.next \cup {NULL} |->
           IF c = NULL \/ steps = 0 THEN c
           ELSE IF h.info[c] \in infos THEN c
           ELSE find[steps - 1][h.next[c]]]
  IN  find[Cardinality(DOMAIN h.next)][l]

(* Linking a fresh cell, whose info is d, in behind point.                 *)
core_list_insert_new(h, point, cell, d) ==
  [next |-> [h.next EXCEPT ![cell] = h.next[point], ![point] = cell],
   info |-> [h.info EXCEPT ![cell] = d]]

(* The list in reverse, with its new head: what is left, what is turned,   *)
(* and the pointers.                                                        *)
core_list_reverse(h, l) ==
  LET Pointers == DOMAIN h.next \cup {NULL}
      reverse[steps \in Nat] ==
        [at \in Pointers \X Pointers \X [DOMAIN h.next -> Pointers] |->
           IF at[1] = NULL \/ steps = 0
             THEN [list |-> at[2], heap |-> [h EXCEPT !.next = at[3]]]
             ELSE reverse[steps - 1][<<at[3][at[1]], at[1],
                                       [at[3] EXCEPT ![at[1]] = at[2]]>>]]
  IN  reverse[Cardinality(DOMAIN h.next)][<<l, NULL, h.next>>]

(* Removing means swapping the infos of item and its successor, and        *)
(* unlinking the successor, which is what is removed.                      *)
SwapInfo(h, a, b) == [h.info EXCEPT ![a] = h.info[b], ![b] = h.info[a]]
core_list_remove(h, item) ==
  LET ret == h.next[item]
  IN  [next |-> [h.next EXCEPT ![item] = h.next[ret], ![ret] = NULL],
       info |-> SwapInfo(h, item, ret)]

core_list_undo_remove(h, removed, modified) ==
  [next |-> [h.next EXCEPT ![removed] = h.next[modified],
                           ![modified] = removed],
   info |-> SwapInfo(h, removed, modified)]

(* core_bench_list moves the successor of cell, if it has one, to the      *)
(* second place of the list at l ("cache next item at the head").          *)
MutMoveNextToFront(h, l, cell) ==
  LET finder == h.next[cell]
  IN  IF finder = NULL THEN h
      ELSE [h EXCEPT !.next = [@ EXCEPT ![finder] = h.next[l], ![l] = finder]]
MoveNextToFront(h, l, cell) ==
  LET finder == h.next[cell]
      cut == [h.next EXCEPT ![cell] = h.next[finder]]
  IN  IF finder = NULL THEN h
      ELSE [h EXCEPT !.next = [cut EXCEPT ![finder] = cut[l], ![l] = finder]]
=============================================================================
