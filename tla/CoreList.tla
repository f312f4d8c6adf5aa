------------------------------ MODULE CoreList ------------------------------
(***************************************************************************)
(* CoreMark's list benchmark, core_list_join.c: a list is searched,        *)
(* reversed and reordered, sorted by values that calc_func computes with   *)
(* the two other benchmarks, and sorted back by index.  A step is one      *)
(* search of the loop, one operation on the list, or one element of a      *)
(* merge with its comparison.                                               *)
(***************************************************************************)
EXTENDS CoreState, CoreMatrix, ListHeap

VARIABLES
  res,    (* core_results: seed1, seed2, seed3, size (bytes), list           *)
  crcs,   (* core_results: crc, crclist, crcmatrix, crcstate                *)
  heap, data, list,  (* the list_heads, the list_datas, the head of the list*)
  free,   (* the next unused list_head and list_data                        *)
  sort,   (* the locals of core_list_mergesort                              *)
  calc,   (* the list_data whose calc_func waits for core_bench_state       *)
  b,      (* the locals of core_bench_list, or of the loops of init         *)
  pc

listVars == <<heap, data, list, free, sort, calc, b>>

(* The 16 bits of a list_data: the value of now and, above it, its backup. *)
data16(d) == data[d].hi * 256 + data[d].lo
InfoAt(h, c) == data[h.info[c]]
InfoOf(c) == InfoAt(heap, c)

-----------------------------------------------------------------------------
(* core_list_init                                                           *)
Items(size) == size \div (16 + 4) - 2
items == Items(res.size)

Blank == [hi |-> 0, lo |-> 0, idx |-> 0]
EmptyHeap(n) == [next |-> [c \in 0 .. n - 1 |-> NULL],
                 info |-> [c \in 0 .. n - 1 |-> IF c = 0 THEN 0 ELSE NULL]]
HeadData == [hi |-> 128, lo |-> 128, idx |-> 0]
TailData == [hi |-> 255, lo |-> 255, idx |-> 32767]

ItemData(i) ==
  LET dat == (Xor16(res.seed1, i) % 16) * 8 + (i % 8)
  IN  [hi |-> dat, lo |-> dat, idx |-> 32767]

(* The fake tail, then items, each behind the fake head; the block refuses *)
(* the last ones.                                                          *)
InsertNew ==
  /\ pc = "insert" /\ b.i <= items
  /\ b' = [b EXCEPT !.i = @ + 1]
  /\ IF free + 1 >= items THEN UNCHANGED <<heap, data, free>>
     ELSE /\ heap' = core_list_insert_new(heap, list, free, free)
          /\ data' = [data EXCEPT ![free] =
                        IF b.i = 0 THEN TailData ELSE ItemData(b.i - 1)]
          /\ free' = free + 1
  /\ UNCHANGED <<list, sort, calc, pc, res, crcs, state_mem, scan, mat>>

(* Indexing all but the fake ones: the first fifth in order, the others    *)
(* with what is to be a larger, scattered number.                          *)
IndexAt(k, n, seed) ==
  IF k < n \div 5 THEN k
  ELSE Or16(((k + 1) % 8) * 256, Xor16(k, seed)) % 16384
IndexOf(k) == IndexAt(k, items, res.seed1)

StartSort(by, then) ==
  /\ sort' = [by |-> by, then |-> then, p |-> NULL, q |-> list, psize |-> 0,
              qsize |-> 0, head |-> NULL, tail |-> NULL, insize |-> 1,
              nmerges |-> 0, before |-> Chain(heap, list)]
  /\ pc' = "sort"

IndexItems ==
  /\ pc = "insert" /\ b.i > items
  /\ \E s \in {Chain(heap, heap.next[list])} :
       LET At0(k) == heap.info[s[k]]
           Indexed == 1 .. Len(s) - 1
       IN  data' = [d \in DOMAIN data |->
             IF \E k \in Indexed : At0(k) = d
               THEN [data[d] EXCEPT !.idx =
                       IndexOf(CHOOSE k \in Indexed : At0(k) = d)]
               ELSE data[d]]
  /\ StartSort("idx", "start")
  /\ UNCHANGED <<heap, list, free, calc, b, res, crcs, state_mem, scan, mat>>

-----------------------------------------------------------------------------
(* calc_func: bit 7 of the value says that bits 0 to 6 are its result.     *)
Cached(d) == data[d].lo >= 128
Function(d) == data[d].lo % 8
Dtype(d) == ((data[d].lo \div 8) % 16) * 17
Dtypes == {17 * k : k \in 0 .. 15}

MutCacheResult(d, retval) ==
  data' = [data EXCEPT ![d].lo = 128 + retval]
CacheResult(d, retval) ==
  data' = [data EXCEPT ![d].lo = 128 + (retval % 128)]
Keep(field, retval) ==
  crcs' = [crcs EXCEPT !.crc = crcu16[retval][@],
                       ![field] = IF @ = 0 THEN retval ELSE @]

CallState(d, dtype) ==
  /\ Function(d) = 0
  /\ StartScan(IF dtype < 34 THEN 34 ELSE dtype, crcs.crc)
  /\ calc' = d
  /\ UNCHANGED <<data, crcs, mat>>
StateReturns ==
  /\ pc = "sort" /\ scan.phase = "done"
  /\ \E r \in {state_result} : Keep("state", r) /\ CacheResult(calc, r)
  /\ calc' = NULL /\ scan' = NoScan
  /\ UNCHANGED <<heap, list, free, sort, b, pc, res, state_mem, mat>>
CallMatrix(d, dtype) ==
  /\ Function(d) = 1
  /\ \E r \in {core_bench_matrix(dtype, crcs.crc)} :
       /\ mat' = [mat EXCEPT !.A = r.A]
       /\ Keep("matrix", r.crc) /\ CacheResult(d, r.crc)
  /\ UNCHANGED <<calc, state_mem, scan>>
KeepValue(d) ==
  /\ Function(d) > 1
  /\ crcs' = [crcs EXCEPT !.crc = crcu16[data16(d)][@]]
  /\ CacheResult(d, data[d].lo)
  /\ UNCHANGED <<calc, state_mem, scan, mat>>

-----------------------------------------------------------------------------
(* core_list_mergesort                                                      *)
RunIsMerged == sort.psize = 0 /\ (sort.qsize = 0 \/ sort.q = NULL)
Comparing ==
  /\ pc = "sort" /\ scan.phase = "idle"
  /\ sort.psize > 0 /\ sort.qsize > 0 /\ sort.q # NULL

(* Another pair of runs of insize elements: p is set to the first one, q   *)
(* steps to the second one.                                                 *)
NextRun ==
  LET s == Chain(heap, sort.q)
      insize == sort.insize
  IN  /\ pc = "sort" /\ RunIsMerged /\ sort.q # NULL
      /\ sort' = [sort EXCEPT !.p = sort.q, !.nmerges = @ + 1,
                    !.psize = IF Len(s) > insize THEN insize ELSE Len(s),
                    !.q = IF Len(s) > insize THEN s[insize + 1] ELSE NULL,
                    !.qsize = insize]
      /\ UNCHANGED <<heap, data, list, free, calc, b, pc, res, crcs,
                     state_mem, scan, mat>>

(* The next element e of the merged list, from p or from q.                *)
Take(from, size) ==
  LET e == sort[from]
  IN  /\ sort' = [sort EXCEPT ![from] = heap.next[e], ![size] = @ - 1,
                    !.head = IF sort.tail = NULL THEN e ELSE @, !.tail = e]
      /\ heap' = IF sort.tail = NULL THEN heap
                 ELSE [heap EXCEPT !.next = [@ EXCEPT ![sort.tail] = e]]
      /\ UNCHANGED <<list, free, calc, b, pc, res, crcs, state_mem, scan, mat>>
TakeP == Take("p", "psize")
TakeQ == Take("q", "qsize")

MergeRest ==
  /\ pc = "sort" /\ UNCHANGED data
  /\ \/ sort.psize = 0 /\ sort.qsize > 0 /\ sort.q # NULL /\ TakeQ
     \/ sort.psize > 0 /\ (sort.qsize = 0 \/ sort.q = NULL) /\ TakeP

(* p's element comes first also if the two compare equal.                  *)
MutFirst(p, q) == p < q
First(p, q) == p <= q

(* cmp_complex: both values are calculated, a's first, and compared.       *)
Calculate ==
  LET todo == IF ~ Cached(heap.info[sort.p]) THEN heap.info[sort.p]
                                             ELSE heap.info[sort.q]
  IN  /\ Comparing /\ sort.by = "data" /\ ~ Cached(todo)
      /\ \E dtype \in Dtypes :
           /\ dtype = Dtype(todo)
           /\ CallState(todo, dtype) \/ CallMatrix(todo, dtype) \/ KeepValue(todo)
      /\ UNCHANGED <<heap, list, free, sort, b, pc, res>>
CompareData ==
  /\ Comparing /\ sort.by = "data" /\ UNCHANGED data
  /\ Cached(heap.info[sort.p]) /\ Cached(heap.info[sort.q])
  /\ IF First(InfoOf(sort.p).lo, InfoOf(sort.q).lo) THEN TakeP ELSE TakeQ

(* cmp_idx, which also brings back the value of both from the backup.      *)
MutRegenerated(d) == data[d]
Regenerated(d) == [data[d] EXCEPT !.lo = data[d].hi]
CompareIdx ==
  LET a == heap.info[sort.p]
      c == heap.info[sort.q]
  IN  /\ Comparing /\ sort.by = "idx"
      /\ data' = [data EXCEPT ![a] = Regenerated(a), ![c] = Regenerated(c)]
      /\ IF First(data[a].idx, data[c].idx) THEN TakeP ELSE TakeQ

MutTwice(insize) == insize
Twice(insize) == 2 * insize
EndPass ==
  /\ pc = "sort" /\ RunIsMerged /\ sort.q = NULL
  /\ heap' = [heap EXCEPT !.next = [@ EXCEPT ![sort.tail] = NULL]]
  /\ IF sort.nmerges <= 1
       THEN list' = sort.head /\ pc' = sort.then /\ UNCHANGED sort
       ELSE /\ sort' = [sort EXCEPT !.q = sort.head, !.p = NULL, !.psize = 0,
                          !.qsize = 0, !.head = NULL, !.tail = NULL,
                          !.nmerges = 0, !.insize = Twice(@)]
            /\ UNCHANGED <<list, pc>>
  /\ UNCHANGED <<data, free, calc, b, res, crcs, state_mem, scan, mat>>

MergeSort ==
  NextRun \/ MergeRest \/ Calculate \/ StateReturns \/ CompareData
  \/ CompareIdx \/ EndPass

-----------------------------------------------------------------------------
(* core_bench_list                                                          *)
NoLocals == [i |-> 0, finder_idx |-> 0, idx |-> 0, retval |-> 0, found |-> 0,
             missed |-> 0, remover |-> NULL]
BeginList(finder_idx, head) ==
  /\ list' = head
  /\ b' = [NoLocals EXCEPT !.finder_idx = finder_idx, !.idx = finder_idx]
  /\ pc' = "find"

(* info is compared by its idx, or if that is negative by its value.       *)
Find(h, l, value) ==
  core_list_find(h, l, {d \in DOMAIN data :
    IF b.idx >= 0 THEN data[d].idx = b.idx ELSE data[d].lo = value})

FindOne ==
  LET next == IF b.idx >= 0 THEN b.idx + 1 ELSE b.idx
      Hit(d) == IF d.lo % 2 = 1 THEN (d.hi \div 2) % 2 ELSE 0
  IN  /\ pc = "find" /\ b.i < res.seed3
      /\ \E this_find \in {Find(heap, list, b.i % 256)},
            r \in {core_list_reverse(heap, list)} :
         /\ list' = r.list
         /\ IF this_find = NULL
              THEN /\ heap' = r.heap
                   /\ b' = [b EXCEPT !.i = @ + 1, !.idx = next, !.missed = @ + 1,
                        !.retval =
                          u16(@ + (InfoAt(r.heap, r.heap.next[r.list]).hi % 2))]
              ELSE /\ heap' = MoveNextToFront(r.heap, r.list, this_find)
                   /\ b' = [b EXCEPT !.i = @ + 1, !.idx = next, !.found = @ + 1,
                        !.retval = u16(@ + Hit(InfoAt(r.heap, this_find)))]
      /\ UNCHANGED <<data, free, sort, calc, pc, res, crcs, state_mem, scan, mat>>

EndFind ==
  /\ pc = "find" /\ b.i >= res.seed3
  /\ b' = [b EXCEPT !.retval = u16(@ + b.found * 4 - b.missed)]
  /\ IF b.finder_idx > 0 THEN StartSort("data", "remove")
                         ELSE pc' = "remove" /\ UNCHANGED sort
  /\ UNCHANGED <<heap, data, list, free, calc, res, crcs, state_mem, scan, mat>>

RemoveOne ==
  /\ pc = "remove" /\ pc' = "tail"
  /\ heap' = core_list_remove(heap, heap.next[list])
  /\ b' = [b EXCEPT !.remover = heap.next[heap.next[list]]]
  /\ UNCHANGED <<data, list, free, sort, calc, res, crcs, state_mem, scan, mat>>

(* The loops go from the found cell to the end, and take the checksum of   *)
(* the list's head each time.                                              *)
CrcOfHead(n) ==
  [b EXCEPT !.retval =
     Loop(n, @, [crc \in Nat |-> [k \in Nat |->
                   crcu16[data16(heap.info[list])][crc]]])]

CrcFromFound ==
  LET finder == Find(heap, list, IF b.i = 0 THEN 0 ELSE (b.i - 1) % 256)
      from == IF finder = NULL THEN heap.next[list] ELSE finder
  IN  /\ pc = "tail" /\ pc' = "undo"
      /\ b' = CrcOfHead(Len(Chain(heap, from)))
      /\ UNCHANGED <<heap, data, list, free, sort, calc, res, crcs, state_mem,
                     scan, mat>>

UndoRemove ==
  /\ pc = "undo" /\ pc' = "unsorted"
  /\ heap' = core_list_undo_remove(heap, b.remover, heap.next[list])
  /\ b' = [b EXCEPT !.remover = NULL]
  /\ UNCHANGED <<data, list, free, sort, calc, res, crcs, state_mem, scan, mat>>

SortBack ==
  /\ pc = "unsorted" /\ StartSort("idx", "crc")
  /\ UNCHANGED <<heap, data, list, free, calc, b, res, crcs, state_mem, scan, mat>>

CrcOfAll ==
  /\ pc = "crc" /\ pc' = "return"
  /\ b' = CrcOfHead(Len(Chain(heap, heap.next[list])))
  /\ UNCHANGED <<heap, data, list, free, sort, calc, res, crcs, state_mem,
                 scan, mat>>

ListBenchmark ==
  FindOne \/ EndFind \/ RemoveOne \/ CrcFromFound \/ UndoRemove \/ SortBack
  \/ CrcOfAll

-----------------------------------------------------------------------------
(* Properties.                                                              *)

(* No cell is lost and none is linked twice, at any moment: all of them    *)
(* are on the list, or on it and removed, or in the middle of a merge on   *)
(* the merged part, in the rest of the run at p, or from q on.             *)
Merged ==
  LET s == Chain(heap, sort.head)
  IN  IF sort.tail = NULL THEN <<>>
      ELSE SubSeq(s, 1, CHOOSE i \in 1 .. Len(s) :
                          s[i] = sort.tail /\ \A j \in 1 .. i - 1 : s[j] # s[i])
Linked ==
  IF pc # "sort" THEN Chain(heap, list)
                      \o (IF b.remover = NULL THEN <<>> ELSE <<b.remover>>)
  ELSE Merged \o SubSeq(Chain(heap, sort.p), 1, sort.psize)
              \o Chain(heap, sort.q)
NoCellLost ==
  LET s == Linked
  IN  Len(s) = free /\ {s[i] : i \in 1 .. Len(s)} = 0 .. free - 1

(* A sort returns the cells it got, in ascending order, and those that     *)
(* compare equal in the order they came in.                                *)
Key(c) == IF sort.by = "data" THEN InfoOf(c).lo ELSE InfoOf(c).idx
Sorted ==
  LET s == Chain(heap, list)
      At0(c) == CHOOSE i \in 1 .. Len(sort.before) : sort.before[i] = c
  IN  pc = sort.then =>
        \A i \in 1 .. Len(s) - 1 :
          \/ Key(s[i]) < Key(s[i + 1])
          \/ Key(s[i]) = Key(s[i + 1]) /\ At0(s[i]) < At0(s[i + 1])
=============================================================================
