------------------------------ MODULE CoreMark ------------------------------
(***************************************************************************)
(* CoreMark as main of core_main.c runs it in the configuration of         *)
(* core_portme.h (static memory, all three algorithms, one context): it    *)
(* divides the memory, initialises the three blocks, finds out how often   *)
(* to iterate, iterates, and compares the checksums with the known ones.   *)
(*                                                                         *)
(* Time passes at the end of an iteration, and is counted in millions of   *)
(* ticks of the 32-bit timer.                                              *)
(***************************************************************************)
EXTENDS CoreList

CONSTANT Configs   (* records of seed1, seed2, seed3, total (bytes),        *)
                   (* iterations (0: main chooses) and cost (the time of    *)
                   (* an iteration)                                          *)

(* The seeds are not negative; the smallest block still holds three items, *)
(* and those of the largest are numbered with 16 bits.                      *)
ASSUME ConfigsAssumption ==
  \A c \in Configs :
    /\ \A seed \in {c.seed1, c.seed2, c.seed3} : seed \in Nat /\ seed < 32768
    /\ c.total \in Nat /\ c.total >= 3 * 120 /\ c.total < 3 * 20 * 65536
    /\ c.iterations \in Nat /\ c.cost \in Nat \ {0}

VARIABLES
  config,
  iterations, iteration,  (* how many are to be done, and have been         *)
  calibrating,            (* main is finding out how many are to be done    *)
  clock, start_time_val, total_time,
  err, total_errors,
  initial                 (* ghost: the memory before the first iteration   *)

mainVars == <<config, iterations, iteration, calibrating, clock, start_time_val,
              total_time, err, total_errors, initial>>
vars == <<listVars, pc, res, crcs, state_mem, scan, mat, mainVars>>

NUM_ALGORITHMS == 3
EE_TICKS_PER_SEC == 175
TIMER_PERIOD == 4295   (* 2^32 ticks                                        *)

(* Inputs with which a run, or the first that main tries, takes less than  *)
(* the 24.5 seconds in which the timer goes round: longer ones it cannot   *)
(* time.                                                                    *)
ShortRuns ==
  \A c \in Configs :
    (IF c.iterations = 0 THEN 10 ELSE c.iterations) * c.cost < TIMER_PERIOD

(* The inputs as main takes them: all zero, or 1, 0, 0, stand for others.  *)
Seeds(c) ==
  LET given == <<c.seed1, c.seed2, c.seed3>>
  IN  IF given = <<0, 0, 0>> THEN <<0, 0, \h66>>
      ELSE IF given = <<1, 0, 0>> THEN <<\h3415, \h3415, \h66>>
      ELSE given

(* Inputs with which the state benchmark can undo what it does: the two    *)
(* seeds are the same (core_main.c:98), and no character that is           *)
(* corrupted, with any step, becomes a comma, which the way back would     *)
(* leave alone.                                                             *)
Steps == Dtypes \ {0, 17}
Undoable(s, seed) ==
  \A i \in DOMAIN s, step \in Steps :
    i % step = 0 /\ s[i] # COMMA => Xor8(s[i], seed % 256) # COMMA
CanUndo(c) ==
  /\ Seeds(c)[1] = Seeds(c)[2]
  /\ Undoable(core_init_state(c.total \div NUM_ALGORITHMS, Seeds(c)[1]),
              Seeds(c)[1])

(* Inputs with which no item gets the number of the fake head, so that     *)
(* this is the first one whenever the list is sorted by number; and with   *)
(* which all get different ones, so that only one order is sorted.         *)
NumbersOf(c) == 1 .. Items(c.total \div NUM_ALGORITHMS) - 3
NumberOf(c, k) ==
  IndexAt(k, Items(c.total \div NUM_ALGORITHMS), Seeds(c)[1])
HeadFirst(c) == \A k \in NumbersOf(c) : NumberOf(c, k) # 0
Distinct(c) ==
  \A k, l \in NumbersOf(c) : NumberOf(c, k) = NumberOf(c, l) => k = l

(* Inputs with which the matrices have room behind their alignment: a third *)
(* of the memory is a whole number of words, or leaves three bytes unused.  *)
RoomFor(size) ==
  size % 4 = 0 \/ \A N \in 0 .. size : 8 * (N * N) < size => 8 * (N * N) + 3 <= size
Roomy(c) == RoomFor(c.total \div NUM_ALGORITHMS)

NoCrcs == [crc |-> 0, list |-> 0, matrix |-> 0, state |-> 0]

Init ==
  /\ config \in Configs
  /\ res = [seed1 |-> Seeds(config)[1], seed2 |-> Seeds(config)[2],
            seed3 |-> Seeds(config)[3],
            size |-> config.total \div NUM_ALGORITHMS, list |-> 0]
  /\ heap = EmptyHeap(items) /\ list = 0 /\ free = 1
  /\ data = [d \in 0 .. items - 1 |-> IF d = 0 THEN HeadData ELSE Blank]
  /\ mat = core_init_matrix(res.size, res.size, res.seed1 + 65536 * res.seed2)
  /\ state_mem = core_init_state(res.size, res.seed1)
  /\ scan = NoScan /\ calc = NULL /\ b = NoLocals /\ pc = "insert"
  /\ sort = [by |-> "none", then |-> "none"]
  /\ crcs = NoCrcs
  /\ calibrating = (config.iterations = 0)
  /\ iterations = IF calibrating THEN 10 ELSE config.iterations
  /\ iteration = 0
  /\ clock = 0 /\ start_time_val = 0 /\ total_time = 0
  /\ err = 0 /\ total_errors = 0
  /\ initial = <<>>

-----------------------------------------------------------------------------
(* The timer counts down, over and over.                                   *)
TimerValue == TIMER_PERIOD - (clock % TIMER_PERIOD)
MYTIMEDIFF(fin, ini) == (ini - fin) % TIMER_PERIOD
secs == total_time \div EE_TICKS_PER_SEC

(* start_time, and the beginning of iterate.                               *)
StartTime ==
  /\ pc = "start" /\ pc' = "bench"
  /\ start_time_val' = TimerValue
  /\ crcs' = NoCrcs /\ iteration' = 0
  /\ res' = [res EXCEPT !.list = IF initial = <<>> THEN list ELSE @]
  /\ UNCHANGED <<listVars, state_mem, scan, mat, config, iterations,
                 calibrating, clock, total_time, err, total_errors, initial>>
StopTime ==
  /\ pc = "stop" /\ pc' = "timed"
  /\ total_time' = MYTIMEDIFF(TimerValue, start_time_val)
  /\ UNCHANGED <<listVars, res, crcs, state_mem, scan, mat, config, iterations,
                 iteration, calibrating, clock, start_time_val, err,
                 total_errors, initial>>

(* Ten times as often until that takes a second, then for ten seconds.     *)
MutIterations ==
  IF secs < 1 THEN 10 * iterations ELSE (10 \div secs) * iterations
Iterations ==
  IF secs < 1 THEN 10 * iterations ELSE (1 + 10 \div secs) * iterations
Calibrate ==
  /\ pc = "timed" /\ calibrating
  /\ iterations' = Iterations /\ calibrating' = (secs < 1)
  /\ pc' = "start"
  /\ UNCHANGED <<listVars, res, crcs, state_mem, scan, mat, config, iteration,
                 clock, start_time_val, total_time, err, total_errors, initial>>

(* What the iterations change and must leave as it was.                    *)
Memory == [list |-> <<Chain(heap, list), heap.info, data>>,
           blocks |-> <<mat.A, state_mem>>]

(* The loop of iterate.                                                     *)
Iterate ==
  /\ pc = "bench" /\ BeginList(1, res.list)
  /\ initial' = IF initial = <<>> THEN Memory ELSE initial
  /\ UNCHANGED <<heap, data, free, sort, calc, res, crcs, state_mem, scan, mat,
                 config, iterations, iteration, calibrating, clock,
                 start_time_val, total_time, err, total_errors>>

Returned == crcu16[b.retval][crcs.crc]
SecondList ==
  /\ pc = "return" /\ b.finder_idx = 1
  /\ crcs' = [crcs EXCEPT !.crc = Returned]
  /\ BeginList(-1, res.list)
  /\ UNCHANGED <<heap, data, free, sort, calc, res, state_mem, scan, mat, mainVars>>
MutEndIteration ==
  /\ pc = "return" /\ b.finder_idx = -1
  /\ crcs' = [crcs EXCEPT !.crc = Returned, !.list = Returned]
  /\ iteration' = iteration + 1
  /\ pc' = IF iteration + 1 < iterations THEN "bench" ELSE "stop"
  /\ clock' = clock + config.cost
  /\ UNCHANGED <<listVars, res, state_mem, scan, mat, config, iterations,
                 calibrating, start_time_val, total_time, err, total_errors,
                 initial>>
EndIteration ==
  /\ pc = "return" /\ b.finder_idx = -1
  /\ crcs' = [crcs EXCEPT !.crc = Returned,
                          !.list = IF iteration = 0 THEN Returned ELSE @]
  /\ iteration' = iteration + 1
  /\ pc' = IF iteration + 1 < iterations THEN "bench" ELSE "stop"
  /\ clock' = clock + config.cost
  /\ UNCHANGED <<listVars, res, state_mem, scan, mat, config, iterations,
                 calibrating, start_time_val, total_time, err, total_errors,
                 initial>>

(* The known checksums of list, matrix and state, by that of the inputs.   *)
Known ==
  {[seedcrc |-> \h8a02, list |-> \hd4b0, matrix |-> \hbe52, state |-> \h5e47],
   [seedcrc |-> \h7b05, list |-> \h3340, matrix |-> \h1199, state |-> \h39bf],
   [seedcrc |-> \h4eaf, list |-> \h6a79, matrix |-> \h5608, state |-> \he5a4],
   [seedcrc |-> \he9f5, list |-> \he714, matrix |-> \h1fd7, state |-> \h8e3a],
   [seedcrc |-> \h18f2, list |-> \he3c1, matrix |-> \h0747, state |-> \h8d84]}
seedcrc ==
  crc16[res.size][crc16[res.seed3][crc16[res.seed2][crc16[res.seed1][0]]]]
KnownHere == {k \in Known : k.seedcrc = seedcrc}

Report ==
  /\ pc = "timed" /\ ~ calibrating /\ pc' = "done"
  /\ err' = Cardinality({x \in {"list", "matrix", "state"} :
                            \E k \in KnownHere : crcs[x] # k[x]})
  /\ total_errors' = (IF KnownHere = {} THEN -1 ELSE err')
                     + (IF secs < 10 THEN 1 ELSE 0)
  /\ UNCHANGED <<listVars, res, crcs, state_mem, scan, mat, config, iterations,
                 iteration, calibrating, clock, start_time_val, total_time,
                 initial>>

StateBenchmark ==
  /\ ScanToken \/ Corrupt(res.seed1) \/ UndoCorruption(res.seed2)
  /\ UNCHANGED <<listVars, pc, res, crcs, mat>>

Next ==
  \/ /\ InsertNew \/ IndexItems \/ MergeSort \/ ListBenchmark \/ StateBenchmark
     /\ UNCHANGED mainVars
  \/ StartTime \/ StopTime \/ Calibrate
  \/ Iterate \/ SecondList \/ EndIteration \/ Report

(* The program runs on.                                                    *)
Spec == Init /\ [][Next]_vars /\ WF_vars(Next)

-----------------------------------------------------------------------------
(* Properties.                                                              *)

Bytes == 0 .. 255
Words == 0 .. 65535
Indexes == 0 .. 32767
Cells == 0 .. items - 1

(* Types: results and checksums stay within their 16 bits and the bytes    *)
(* that are changed in place within theirs (core_list_join.c:138).         *)
TypeOK ==
  /\ heap \in [next : [Cells -> Cells \cup {NULL}],
               info : [Cells -> Cells \cup {NULL}]]
  /\ data \in [Cells -> [hi : Bytes, lo : Bytes, idx : Indexes]]
  /\ list \in Cells /\ free \in 1 .. items
  /\ \A x \in DOMAIN crcs : crcs[x] \in Words
  /\ b.retval \in Words
  /\ state_mem \in [0 .. res.size - 1 -> Bytes]
  /\ \A e \in DOMAIN mat.A : mat.A[e] \in Bytes

(* core_list_join.c:156: "At the end of this function, the list is back to *)
(* original state": the order it had before the first iteration, and its   *)
(* data without the results cached there.                                  *)
ListRestored == pc = "return" => Memory.list = initial.list

(* core_matrix.c:127, core_state.c:99: matrix and string are what they     *)
(* were before the first iteration, whichever items called them how often, *)
(* so that iterations are identical (core_main.c:98).                      *)
BlocksRestored == pc = "return" => Memory.blocks = initial.blocks

(* Each of the three benchmarks stays in its third of the memory: list     *)
(* cells, A, B and C behind their alignment, and the string with its end.  *)
BlocksFit == free <= items /\ mat.end <= 2 * res.size /\ StaysInBlock

(* For the inputs the benchmark knows it computes the known checksums.     *)
KnownResults == err = 0

(* The time that main measures is the time that the iterations took,       *)
(* although the timer goes round meanwhile; and when main chose how many   *)
(* they are, they took the ten seconds it demands of a valid result        *)
(* (core_main.c:102, "between 10 to 100 secs").                             *)
Timed ==
  /\ pc \in {"timed", "done"} => total_time = iterations * config.cost
  /\ pc = "done" /\ config.iterations = 0 => secs \in 10 .. 100

(* The program ends: no loop over list or string goes on for ever.         *)
Terminates == <>(pc = "done")
=============================================================================
