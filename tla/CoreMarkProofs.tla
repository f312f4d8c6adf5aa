--------------------------- MODULE CoreMarkProofs ---------------------------
(***************************************************************************)
(* CoreMark, for all of its configurations.                                *)
(***************************************************************************)
EXTENDS CoreMark, Orders, FiniteSetTheorems, TLAPS

-----------------------------------------------------------------------------
(* Where the program is.                                                   *)
SetupPcs == {"insert", "start", "timed", "done"}
BenchPcs ==
  {"bench", "find", "remove", "tail", "undo", "unsorted", "crc", "return"}
Iterating == pc \in BenchPcs \/ (pc = "sort" /\ sort.then # "start")

(* A sort knows where it is to go on.                                      *)
PcInv ==
  /\ pc \in SetupPcs \cup BenchPcs \cup {"sort", "stop"}
  /\ "then" \in DOMAIN sort
  /\ pc = "sort" => sort.then \in {"start", "remove", "crc"}

(* What the operations of the three benchmarks do to it.                   *)
BenchmarkStep ==
  InsertNew \/ IndexItems \/ MergeSort \/ ListBenchmark \/ StateBenchmark

LEMMA BenchmarkPc ==
  ASSUME PcInv, BenchmarkStep
  PROVE  /\ PcInv'
         /\ Iterating' <=> Iterating
         /\ pc' \in {"stop", "timed", "done"} <=> pc \in {"stop", "timed", "done"}
         /\ pc' \in {"stop", "timed", "done"} => pc' = pc
         /\ pc = "bench" => pc' = pc
<1> USE DEF PcInv, Iterating, SetupPcs, BenchPcs
<1>1. CASE InsertNew
  BY <1>1 DEF InsertNew
<1>2. CASE IndexItems
  BY <1>2 DEF IndexItems, StartSort
<1>3. CASE MergeSort
  <2> DEFINE Kept == /\ pc = "sort" /\ pc' = pc
                     /\ "then" \in DOMAIN sort' /\ sort'.then = sort.then
  <2>1. CASE NextRun
    BY <1>3, <2>1 DEF NextRun
  <2>2. ASSUME TakeP, pc = "sort" PROVE Kept
    BY <2>2 DEF TakeP, Take
  <2>3. ASSUME TakeQ, pc = "sort" PROVE Kept
    BY <2>3 DEF TakeQ, Take
  <2>4. CASE MergeRest
    BY <2>2, <2>3, <2>4 DEF MergeRest
  <2>5. CASE Calculate
    BY <2>5 DEF Calculate, Comparing
  <2>6. CASE StateReturns
    BY <2>6 DEF StateReturns
  <2>7. CASE CompareData
    BY <2>2, <2>3, <2>7 DEF CompareData, Comparing
  <2>8. CASE CompareIdx
    BY <2>2, <2>3, <2>8 DEF CompareIdx, Comparing
  <2>9. CASE EndPass
    BY <2>9 DEF EndPass
  <2> QED
    BY <1>3, <2>1, <2>4, <2>5, <2>6, <2>7, <2>8, <2>9 DEF MergeSort
<1>4. CASE ListBenchmark
  <2>1. CASE FindOne
    BY <2>1 DEF FindOne
  <2>2. CASE EndFind
    BY <2>2 DEF EndFind, StartSort
  <2>3. CASE RemoveOne \/ UndoRemove
    BY <2>3 DEF RemoveOne, UndoRemove
  <2>4. CASE CrcFromFound \/ CrcOfAll
    BY <2>4 DEF CrcFromFound, CrcOfAll
  <2>5. CASE SortBack
    BY <2>5 DEF SortBack, StartSort
  <2> QED
    BY <1>4, <2>1, <2>2, <2>3, <2>4, <2>5 DEF ListBenchmark
<1>5. CASE StateBenchmark
  BY <1>5 DEF StateBenchmark, listVars
<1> QED
  BY <1>1, <1>2, <1>3, <1>4, <1>5 DEF BenchmarkStep

-----------------------------------------------------------------------------
(* The time.                                                                *)

(* While main tries, and afterwards, a run takes less than a turn of the   *)
(* timer; the run after the tries takes at least ten seconds and still     *)
(* less than a turn, because the last try took at least one.               *)
Ticks(n) == n * config.cost
PlanInv ==
  /\ config \in Configs
  /\ iterations \in Nat \ {0} /\ iteration \in Nat /\ clock \in Nat
  /\ total_time \in Nat
  /\ calibrating \in BOOLEAN
  /\ Ticks(iterations) < TIMER_PERIOD
  /\ calibrating => config.iterations = 0
  /\ config.iterations = 0 /\ ~ calibrating =>
       Ticks(iterations) >= 10 * EE_TICKS_PER_SEC

(* Since start_time as much time has passed as the iterations take that    *)
(* are done.                                                                *)
Since(s) ==
  /\ start_time_val = TIMER_PERIOD - (s % TIMER_PERIOD)
  /\ clock = s + Ticks(iteration)
ClockInv ==
  /\ Iterating => iteration < iterations
  /\ pc = "stop" => iteration = iterations
  /\ Iterating \/ pc = "stop" => \E s \in Nat : Since(s)
  /\ pc \in {"timed", "done"} => total_time = Ticks(iterations)
  /\ pc = "done" => ~ calibrating

TInv == PcInv /\ PlanInv /\ ClockInv

(* The cost of more iterations.                                            *)
LEMMA TicksAdd ==
  ASSUME config \in Configs, NEW n \in Nat
  PROVE  /\ config.cost \in Nat \ {0} /\ Ticks(n) \in Nat
         /\ Ticks(n + 1) = Ticks(n) + config.cost
         /\ Ticks(0) = 0
         /\ \A k \in Nat : Ticks(k * n) = k * Ticks(n)
<1>1. config.cost \in Nat \ {0}
  BY ConfigsAssumption
<1> DEFINE c == config.cost
<1> HIDE DEF c
<1>2. c \in Nat
  BY <1>1 DEF c
<1>3. n * c \in Nat /\ (n + 1) * c = n * c + c /\ 0 * c = 0
  BY <1>2
<1>4. ASSUME NEW k \in Nat PROVE (k * n) * c = k * (n * c)
  BY <1>2
<1> QED
  BY <1>1, <1>3, <1>4 DEF Ticks, c

(* The difference of two values of the timer is the time between them.     *)
LEMMA TurnOnce ==
  ASSUME NEW s \in Nat, NEW t \in Nat, t < TIMER_PERIOD
  PROVE  MYTIMEDIFF(TIMER_PERIOD - ((s + t) % TIMER_PERIOD),
                    TIMER_PERIOD - (s % TIMER_PERIOD)) = t
BY DEF MYTIMEDIFF, TIMER_PERIOD

(* The plan: main's factor brings a try of at least a second to ten, and   *)
(* one of less to less than ten.                                           *)
LEMMA Factor ==
  ASSUME NEW t \in Nat, t < TIMER_PERIOD,
         NEW q, q = t \div EE_TICKS_PER_SEC
  PROVE  /\ q < 1 => 10 * t < TIMER_PERIOD
         /\ q >= 1 => /\ 1 + 10 \div q \in Nat \ {0}
                      /\ (1 + 10 \div q) * t < TIMER_PERIOD
                      /\ (1 + 10 \div q) * t >= 10 * EE_TICKS_PER_SEC
<1> USE DEF TIMER_PERIOD, EE_TICKS_PER_SEC
<1>1. q \in 0 .. 24 /\ 175 * q <= t /\ t < 175 * q + 175
  OBVIOUS
<1>2. CASE q >= 11
  <2>1. 10 \div q = 0
    BY <1>1, <1>2
  <2> QED
    BY <1>1, <1>2, <2>1
<1>3. CASE q < 1
  BY <1>1, <1>3
<1>4. CASE q \in {1, 2, 3, 4, 5}
  <2>1. /\ 10 \div 1 = 10 /\ 10 \div 2 = 5 /\ 10 \div 3 = 3 /\ 10 \div 4 = 2
        /\ 10 \div 5 = 2
    OBVIOUS
  <2> QED
    BY <1>1, <1>4, <2>1
<1>5. CASE q \in {6, 7, 8, 9, 10}
  <2>1. /\ 10 \div 6 = 1 /\ 10 \div 7 = 1 /\ 10 \div 8 = 1 /\ 10 \div 9 = 1
        /\ 10 \div 10 = 1
    OBVIOUS
  <2> QED
    BY <1>1, <1>5, <2>1
<1> QED
  BY <1>1, <1>2, <1>3, <1>4, <1>5

-----------------------------------------------------------------------------
LEMMA InitPc ==
  Init => PcInv
BY DEF Init, PcInv, SetupPcs

LEMMA InitTimed ==
  ASSUME ShortRuns, Init
  PROVE  TInv
<1>1. PcInv
  BY InitPc
<1>2. /\ config \in Configs /\ iteration = 0 /\ clock = 0 /\ total_time = 0
      /\ calibrating = (config.iterations = 0) /\ pc = "insert"
      /\ iterations = IF calibrating THEN 10 ELSE config.iterations
  BY DEF Init
<1>3. iterations \in Nat \ {0}
  <2>1. config.iterations \in Nat
    BY <1>2, ConfigsAssumption
  <2>2. CASE config.iterations = 0
    <3>1. calibrating
      BY <1>2, <2>2
    <3> QED
      BY <1>2, <3>1
  <2>3. CASE config.iterations # 0
    BY <1>2, <2>1, <2>3
  <2> QED
    BY <2>2, <2>3
<1>4. Ticks(iterations) < TIMER_PERIOD
  BY <1>2 DEF ShortRuns, Ticks
<1>5. PlanInv
  BY <1>2, <1>3, <1>4 DEF PlanInv
<1>6. ClockInv
  BY <1>2 DEF ClockInv, Iterating, BenchPcs
<1> QED
  BY <1>1, <1>5, <1>6 DEF TInv

(* The operations of the benchmarks touch nothing of the timing.           *)
LEMMA BenchmarkTimed ==
  ASSUME TInv, BenchmarkStep, UNCHANGED mainVars
  PROVE  TInv'
<1>1. /\ PcInv'
      /\ Iterating' <=> Iterating
      /\ pc' \in {"stop", "timed", "done"} <=> pc \in {"stop", "timed", "done"}
      /\ pc' \in {"stop", "timed", "done"} => pc' = pc
  BY BenchmarkPc DEF TInv
<1>2. PlanInv'
  BY DEF TInv, PlanInv, Ticks, mainVars
<1>3. \A s : Since(s)' <=> Since(s)
  BY DEF Since, Ticks, mainVars
<1>4. ClockInv'
  BY <1>1, <1>3 DEF TInv, ClockInv, mainVars, Ticks
<1> QED
  BY <1>1, <1>2, <1>4 DEF TInv

LEMMA StartTimed ==
  ASSUME TInv, StartTime
  PROVE  TInv'
<1> USE DEF TInv
<1>1. /\ pc = "start" /\ pc' = "bench" /\ iteration' = 0
      /\ start_time_val' = TimerValue
      /\ UNCHANGED <<sort, config, iterations, calibrating, clock, total_time>>
  BY DEF StartTime, listVars
<1>2. PcInv'
  BY <1>1 DEF PcInv, BenchPcs
<1>3. PlanInv'
  BY <1>1 DEF PlanInv, Ticks
<1>4. Since(clock)'
  <2>1. config.cost \in Nat
    BY ConfigsAssumption DEF PlanInv
  <2> QED
    BY <1>1, <2>1 DEF Since, Ticks, TimerValue, PlanInv
<1>5. ClockInv'
  <2>1. iteration' < iterations' /\ clock' \in Nat
    BY <1>1 DEF PlanInv
  <2>2. pc' \notin {"stop", "timed", "done"} /\ clock' = clock
    BY <1>1
  <2>3. \E s \in Nat : Since(s)'
    BY <1>4, <2>1, <2>2
  <2> QED
    BY <2>1, <2>2, <2>3 DEF ClockInv
<1> QED
  BY <1>2, <1>3, <1>5

LEMMA StopTimed ==
  ASSUME TInv, StopTime
  PROVE  TInv'
<1> USE DEF TInv
<1>1. /\ pc = "stop" /\ pc' = "timed"
      /\ total_time' = MYTIMEDIFF(TimerValue, start_time_val)
      /\ UNCHANGED <<sort, config, iterations, iteration, calibrating, clock,
                     start_time_val>>
  BY DEF StopTime, listVars
<1>2. PcInv'
  BY <1>1 DEF PcInv, SetupPcs
<1>3. total_time' = Ticks(iterations) /\ Ticks(iterations) \in Nat
  <2>1. PICK s \in Nat : Since(s)
    BY <1>1 DEF ClockInv
  <2>2. /\ iteration = iterations /\ Ticks(iterations) \in Nat
        /\ Ticks(iterations) < TIMER_PERIOD
    BY <1>1, TicksAdd DEF ClockInv, PlanInv
  <2> QED
    BY <1>1, <2>1, <2>2, TurnOnce DEF Since, TimerValue
<1>4. PlanInv'
  BY <1>1, <1>3 DEF PlanInv, Ticks
<1>5. ClockInv'
  BY <1>1, <1>3 DEF ClockInv, Iterating, BenchPcs, Ticks
<1> QED
  BY <1>2, <1>4, <1>5

LEMMA CalibrateTimed ==
  ASSUME TInv, Calibrate
  PROVE  TInv'
<1> USE DEF TInv
<1>1. /\ pc = "timed" /\ pc' = "start" /\ calibrating
      /\ iterations' = Iterations /\ calibrating' = (secs < 1)
      /\ UNCHANGED <<sort, config, iteration, clock, start_time_val, total_time>>
  BY DEF Calibrate, listVars
<1>2. PcInv'
  BY <1>1 DEF PcInv, SetupPcs
<1>3. /\ config \in Configs /\ iterations \in Nat \ {0}
      /\ Ticks(iterations) \in Nat /\ Ticks(iterations) < TIMER_PERIOD
      /\ total_time = Ticks(iterations)
  BY <1>1, TicksAdd DEF PlanInv, ClockInv
<1>4. /\ secs \in Nat
      /\ secs < 1 => 10 * Ticks(iterations) < TIMER_PERIOD
      /\ secs >= 1 => /\ 1 + 10 \div secs \in Nat \ {0}
                      /\ (1 + 10 \div secs) * Ticks(iterations) < TIMER_PERIOD
                      /\ (1 + 10 \div secs) * Ticks(iterations)
                           >= 10 * EE_TICKS_PER_SEC
  <2>1. secs = Ticks(iterations) \div EE_TICKS_PER_SEC
    BY <1>3 DEF secs
  <2>2. secs \in Nat
    BY <1>3, <2>1 DEF EE_TICKS_PER_SEC
  <2> QED
    BY <1>3, <2>1, <2>2, Factor
<1>5. /\ iterations' \in Nat \ {0} /\ Ticks(iterations') < TIMER_PERIOD
      /\ ~ calibrating' => Ticks(iterations') >= 10 * EE_TICKS_PER_SEC
  <2>1. CASE secs < 1
    <3>1. iterations' = 10 * iterations /\ calibrating'
      BY <1>1, <2>1 DEF Iterations
    <3>2. Ticks(10 * iterations) = 10 * Ticks(iterations)
      BY <1>3, TicksAdd
    <3> QED
      BY <1>3, <1>4, <2>1, <3>1, <3>2
  <2>2. CASE secs >= 1
    <3> DEFINE k == 1 + 10 \div secs
    <3>0. /\ k \in Nat \ {0} /\ k * Ticks(iterations) < TIMER_PERIOD
          /\ k * Ticks(iterations) >= 10 * EE_TICKS_PER_SEC
      BY <1>4, <2>2
    <3>1. iterations' = k * iterations
      BY <1>1, <1>4, <2>2 DEF Iterations
    <3> HIDE DEF k
    <3>2. Ticks(k * iterations) = k * Ticks(iterations)
      BY <1>3, <3>0, TicksAdd
    <3>3. k * iterations \in Nat \ {0}
      BY <1>3, <3>0
    <3> QED
      BY <3>0, <3>1, <3>2, <3>3
  <2> QED
    BY <1>4, <2>1, <2>2
<1>6. calibrating' \in BOOLEAN
  BY <1>1
<1>7. PlanInv'
  BY <1>1, <1>5, <1>6 DEF PlanInv, Ticks
<1>8. ClockInv'
  BY <1>1 DEF ClockInv, Iterating, BenchPcs
<1> QED
  BY <1>2, <1>7, <1>8

(* The end of an iteration, and the steps in the middle.                   *)
LEMMA IterateTimed ==
  ASSUME TInv, Iterate \/ SecondList
  PROVE  TInv'
<1> USE DEF TInv
<1>1. /\ pc \in BenchPcs /\ pc' = "find"
      /\ UNCHANGED <<sort, config, iterations, iteration, calibrating, clock,
                     start_time_val, total_time>>
  BY DEF Iterate, SecondList, BeginList, BenchPcs, mainVars
<1>2. PcInv'
  BY <1>1 DEF PcInv, BenchPcs
<1>3. PlanInv'
  BY <1>1 DEF PlanInv, Ticks
<1>4. ClockInv'
  <2>1. \A s : Since(s)' <=> Since(s)
    BY <1>1 DEF Since, Ticks
  <2> QED
    BY <1>1, <2>1 DEF ClockInv, Iterating, BenchPcs
<1> QED
  BY <1>2, <1>3, <1>4

LEMMA EndIterationTimed ==
  ASSUME TInv, EndIteration
  PROVE  TInv'
<1> USE DEF TInv
<1>1. /\ pc = "return" /\ iteration' = iteration + 1
      /\ pc' = IF iteration + 1 < iterations THEN "bench" ELSE "stop"
      /\ clock' = clock + config.cost
      /\ UNCHANGED <<sort, config, iterations, calibrating, start_time_val,
                     total_time>>
  BY DEF EndIteration, listVars
<1>2. PcInv'
  BY <1>1 DEF PcInv, BenchPcs
<1>3. /\ config \in Configs /\ iteration \in Nat /\ iterations \in Nat
      /\ clock \in Nat /\ config.cost \in Nat /\ Ticks(iteration) \in Nat
      /\ Ticks(iteration + 1) = Ticks(iteration) + config.cost
  BY TicksAdd DEF PlanInv
<1>4. PlanInv'
  BY <1>1, <1>3 DEF PlanInv, Ticks
<1>5. \E s \in Nat : Since(s)'
  <2>1. PICK s \in Nat : Since(s)
    BY <1>1 DEF ClockInv, Iterating, BenchPcs
  <2>2. clock' = s + Ticks(iteration + 1)
    BY <1>1, <1>3, <2>1 DEF Since
  <2>3. Since(s)'
    BY <1>1, <2>1, <2>2 DEF Since, Ticks
  <2> QED
    BY <2>3
<1>6. ClockInv'
  <2>1. iteration < iterations
    BY <1>1 DEF ClockInv, Iterating, BenchPcs
  <2>2. CASE iteration + 1 < iterations
    BY <1>1, <1>5, <2>2 DEF ClockInv, Iterating, BenchPcs
  <2>3. CASE ~ (iteration + 1 < iterations)
    <3>1. iteration + 1 = iterations
      BY <1>3, <2>1, <2>3
    <3> QED
      BY <1>1, <1>5, <2>3, <3>1 DEF ClockInv, Iterating, BenchPcs
  <2> QED
    BY <2>2, <2>3
<1> QED
  BY <1>2, <1>4, <1>6

LEMMA ReportTimed ==
  ASSUME TInv, Report
  PROVE  TInv'
<1> USE DEF TInv
<1>1. /\ pc = "timed" /\ pc' = "done" /\ ~ calibrating
      /\ UNCHANGED <<sort, config, iterations, iteration, calibrating, clock,
                     start_time_val, total_time>>
  BY DEF Report, listVars
<1>2. PcInv'
  BY <1>1 DEF PcInv, SetupPcs
<1>3. PlanInv'
  BY <1>1 DEF PlanInv, Ticks
<1>4. ClockInv'
  BY <1>1 DEF ClockInv, Iterating, BenchPcs, Ticks
<1> QED
  BY <1>2, <1>3, <1>4

LEMMA StepTimed ==
  ASSUME TInv, [Next]_vars
  PROVE  TInv'
<1>1. CASE UNCHANGED vars
  <2>1. UNCHANGED <<sort, pc, config, iterations, iteration, calibrating, clock,
                    start_time_val, total_time>>
    BY <1>1 DEF vars, listVars, mainVars
  <2>2. \A s : Since(s)' <=> Since(s)
    BY <2>1 DEF Since, Ticks
  <2>3. PcInv' /\ PlanInv'
    BY <2>1 DEF TInv, PcInv, PlanInv, Ticks
  <2>4. ClockInv'
    BY <2>1, <2>2 DEF TInv, ClockInv, Iterating, Ticks
  <2> QED
    BY <2>3, <2>4 DEF TInv
<1>2. CASE BenchmarkStep /\ UNCHANGED mainVars
  BY <1>2, BenchmarkTimed
<1>3. CASE Next /\ ~ (BenchmarkStep /\ UNCHANGED mainVars)
  BY <1>3, StartTimed, StopTimed, CalibrateTimed, IterateTimed,
     EndIterationTimed, ReportTimed
     DEF Next, BenchmarkStep
<1> QED
  BY <1>1, <1>2, <1>3

(* What main measures is what the iterations took, and the number it       *)
(* chooses makes that ten seconds or more, for every configuration whose   *)
(* runs and tries are shorter than a turn of the timer (core_main.c:196,   *)
(* core_portme.c).                                                         *)
THEOREM TimeMeasured ==
  ASSUME ShortRuns
  PROVE  Spec => []Timed
<1>1. TInv => Timed
  <2> SUFFICES ASSUME TInv PROVE Timed
    OBVIOUS
  <2>1. pc \in {"timed", "done"} => total_time = iterations * config.cost
    BY DEF TInv, ClockInv, Ticks
  <2>2. ASSUME pc = "done", config.iterations = 0 PROVE secs \in 10 .. 100
    <3>1. /\ total_time \in Nat /\ total_time = Ticks(iterations)
          /\ total_time < TIMER_PERIOD
          /\ total_time >= 10 * EE_TICKS_PER_SEC
      BY <2>2 DEF TInv, ClockInv, PlanInv
    <3> QED
      BY <3>1 DEF secs, TIMER_PERIOD, EE_TICKS_PER_SEC
  <2> QED
    BY <2>1, <2>2 DEF Timed
<1> QED
  BY <1>1, InitTimed, StepTimed, PTL DEF Spec

-----------------------------------------------------------------------------
(* Bytes and their exclusive or.                                           *)
Byte == 0 .. 255
ByteOf(b0, b1, b2, b3, b4, b5, b6, b7) ==
  b0 + 2 * b1 + 4 * b2 + 8 * b3 + 16 * b4 + 32 * b5 + 64 * b6 + 128 * b7
LEMMA BitsOfByte ==
  ASSUME NEW x \in Byte
  PROVE  /\ \A w \in {1, 2, 4, 8, 16, 32, 64, 128} : Bit(x, w) \in {0, 1}
         /\ x = ByteOf(Bit(x, 1), Bit(x, 2), Bit(x, 4), Bit(x, 8), Bit(x, 16),
                       Bit(x, 32), Bit(x, 64), Bit(x, 128))
<1>1. x \in Int /\ x >= 0 /\ x < 256
  BY DEF Byte
<1> QED
BY <1>1, SMTT(30) DEF Bit, ByteOf

LEMMA BitOfBits ==
  ASSUME NEW b0 \in {0,1}, NEW b1 \in {0,1}, NEW b2 \in {0,1}, NEW b3 \in {0,1},
  NEW b4 \in {0,1}, NEW b5 \in {0,1}, NEW b6 \in {0,1}, NEW b7 \in {0,1}
  PROVE LET n == ByteOf(b0, b1, b2, b3, b4, b5, b6, b7) IN
   /\ n \in Byte
   /\ Bit(n, 1) = b0 /\ Bit(n, 2) = b1 /\ Bit(n, 4) = b2 /\ Bit(n, 8) = b3
   /\ Bit(n, 16) = b4 /\ Bit(n, 32) = b5 /\ Bit(n, 64) = b6 /\ Bit(n, 128) = b7
BY  SMTT(60) DEF Bit, ByteOf, Byte

(* Applying the same byte twice with an exclusive or does nothing.         *)
LEMMA XorUndoes ==
  ASSUME NEW x \in Byte, NEW y \in Byte
  PROVE  Xor8(x, y) \in Byte /\ Xor8(Xor8(x, y), y) = x
<1> DEFINE W == {1, 2, 4, 8, 16, 32, 64, 128}
           d(w) == (Bit(x, w) + Bit(y, w)) % 2
           z == Xor8(x, y)
<1>1. ASSUME NEW w \in W
      PROVE  d(w) \in {0, 1} /\ (d(w) + Bit(y, w)) % 2 = Bit(x, w)
  <2>1. Bit(x, w) \in {0, 1} /\ Bit(y, w) \in {0, 1}
    BY BitsOfByte
  <2> QED
    BY <2>1
<1>2. z = ByteOf(d(1), d(2), d(4), d(8), d(16), d(32), d(64), d(128))
  <2>1. /\ d(1) \in Int /\ d(2) \in Int /\ d(4) \in Int /\ d(8) \in Int
        /\ d(16) \in Int /\ d(32) \in Int /\ d(64) \in Int /\ d(128) \in Int
    <3> HIDE DEF d
    <3> QED
      BY <1>1
  <2>2. z = 1 * d(1) + 2 * d(2) + 4 * d(4) + 8 * d(8)
            + 16 * d(16) + 32 * d(32) + 64 * d(64) + 128 * d(128)
    BY DEF Xor8, Differ
  <2> HIDE DEF d, z
  <2> QED
    BY <2>1, <2>2 DEF ByteOf
<1> HIDE DEF d
<1>3. /\ z \in Byte
      /\ \A w \in W : Bit(z, w) = d(w)
  <2> HIDE DEF z
  <2>1. /\ d(1) \in {0, 1} /\ d(2) \in {0, 1} /\ d(4) \in {0, 1} /\ d(8) \in {0, 1}
        /\ d(16) \in {0, 1} /\ d(32) \in {0, 1} /\ d(64) \in {0, 1}
        /\ d(128) \in {0, 1}
    BY <1>1
  <2> QED
    BY <1>2, <2>1, BitOfBits
<1>4. ASSUME NEW w \in W PROVE (Bit(z, w) + Bit(y, w)) % 2 = Bit(x, w)
  BY <1>1, <1>3
<1>5. Xor8(z, y) = ByteOf(Bit(x, 1), Bit(x, 2), Bit(x, 4), Bit(x, 8), Bit(x, 16),
                          Bit(x, 32), Bit(x, 64), Bit(x, 128))
  <2> HIDE DEF z
  <2>1. Xor8(z, y) = 1 * Bit(x, 1) + 2 * Bit(x, 2) + 4 * Bit(x, 4) + 8 * Bit(x, 8)
            + 16 * Bit(x, 16) + 32 * Bit(x, 32) + 64 * Bit(x, 64) + 128 * Bit(x, 128)
    BY <1>4 DEF Xor8, Differ
  <2>2. \A w \in W : Bit(x, w) \in Int
    BY BitsOfByte
  <2> QED
    BY <2>1, <2>2 DEF ByteOf
<1> QED
  BY <1>3, <1>5, BitsOfByte

-----------------------------------------------------------------------------
(* The dimension of the matrices is the greatest that fits.                *)
LEMMA DimensionFits ==
  ASSUME NEW size \in Nat \ {0}
  PROVE  /\ Dimension(size) \in 0 .. size
         /\ Dimension(size) * Dimension(size) * 2 * 4 < size
<1> DEFINE Fits(n) == n * n * 2 * 4 < size
           S == {n \in 0 .. size : Fits(n)}
<1>1. S \in SUBSET (0 .. size) /\ S # {}
  <2>1. 0 \in S
    OBVIOUS
  <2> QED
    BY <2>1
<1>2. PICK n \in S : \A j \in S : n >= j
  <2> HIDE DEF S
  <2> QED
    BY <1>1, GreatestExists
<1>3. n \in 0 .. size /\ Fits(n)
  OBVIOUS
<1>4. (n + 1) * (n + 1) * 2 * 4 >= size
  <2>1. n + 1 \in Int /\ (n + 1) * (n + 1) \in Int
    BY <1>3
  <2>2. CASE n + 1 \in 0 .. size
    <3>1. n + 1 \notin S
      <4> HIDE DEF S
      <4> QED
        BY <1>2, <1>3
    <3>2. ~ Fits(n + 1)
      BY <2>2, <3>1
    <3> QED
      BY <2>1, <3>2
  <2>3. CASE n + 1 \notin 0 .. size
    <3>1. n = size
      BY <1>3, <2>3
    <3>2. (size + 1) * (size + 1) >= size
      <4>1. (size + 1) * (size + 1) = size * size + 2 * size + 1 /\ size * size \in Nat
        OBVIOUS
      <4> QED
        BY <4>1
    <3>3. (size + 1) * (size + 1) \in Nat
      OBVIOUS
    <3> DEFINE q == (size + 1) * (size + 1)
    <3> HIDE DEF q
    <3>4. q * 2 * 4 >= size
      BY <3>2, <3>3 DEF q
    <3> QED
      BY <3>1, <3>4 DEF q
  <2> QED
    BY <2>2, <2>3
<1> DEFINE P(m) == m * m * 2 * 4 < size /\ (m + 1) * (m + 1) * 2 * 4 >= size
<1>5. \E m \in 0 .. size : P(m)
  BY <1>3, <1>4
<1>6. Dimension(size) = CHOOSE m \in 0 .. size : P(m)
  BY DEF Dimension
<1> HIDE DEF P
<1>7. Dimension(size) \in 0 .. size /\ P(Dimension(size))
  BY <1>5, <1>6
<1> QED
  BY <1>7 DEF P

(* The pseudo random numbers of the matrix.                                *)
NextSeed(order, seed) == (order * seed) % 65536
SeedRecursion(f, K, seed0) ==
  f = [order \in 0 .. K |->
         IF order = 0 THEN IF seed0 = 0 THEN 1 ELSE seed0
                      ELSE NextSeed(order, f[order - 1])]
LEMMA NextSeedType ==
  \A order \in Nat : \A seed \in Int : NextSeed(order, seed) \in Int
BY DEF NextSeed

LEMMA SeedsExist ==
  ASSUME NEW K \in Nat, NEW seed0 \in Int
  PROVE  \E f : SeedRecursion(f, K, seed0)
<1> DEFINE first == IF seed0 = 0 THEN 1 ELSE seed0
           step == [n \in Nat |-> [x \in Int |-> NextSeed(n + 1, x)]]
           S == Int
<1>1. first \in S /\ step \in [Nat -> [S -> S]]
  BY NextSeedType
<1>2. \A n \in Nat : \A x \in Int : step[n][x] = NextSeed(n + 1, x)
  OBVIOUS
<1> HIDE DEF step, first, S
<1>3. PICK g \in [Nat -> S] : Recursion(g, first, step)
  BY <1>1, RecursionExists, Zenon
<1> USE DEF S
<1> DEFINE f0 == [order \in 0 .. K |-> g[order]]
<1>4. ASSUME NEW order \in 0 .. K
      PROVE  g[order] = IF order = 0 THEN first ELSE NextSeed(order, f0[order - 1])
  <2>1. CASE order = 0
    BY <1>3, <2>1 DEF Recursion
  <2>2. CASE order # 0
    <3>1. PICK n \in Nat : order = n + 1
      <4>1. order - 1 \in Nat /\ order = (order - 1) + 1
        BY <2>2
      <4> QED
        BY <4>1
    <3>2. n \in 0 .. K /\ n = order - 1 /\ g[n] \in Int /\ f0[n] = g[n]
      BY <3>1
    <3>3. g[n + 1] = NextSeed(n + 1, g[n])
      <4>1. g[n + 1] = step[n][g[n]]
        BY <1>3 DEF Recursion
      <4> DEFINE x == g[n]
      <4>2. x \in Int
        BY <3>2
      <4> HIDE DEF x
      <4>3. step[n][x] = NextSeed(n + 1, x)
        BY <1>2, <3>1, <4>2
      <4> QED
        BY <4>1, <4>3 DEF x
    <3> QED
      BY <2>2, <3>1, <3>2, <3>3
  <2> QED
    BY <2>1, <2>2
<1>5. SeedRecursion(f0, K, seed0)
  BY <1>4 DEF SeedRecursion, first
<1> QED
  BY <1>5

LEMMA SeedNumbers ==
  ASSUME NEW K \in Nat, NEW seed0 \in Int, NEW seed,
         SeedRecursion(seed, K, seed0)
  PROVE  \A order \in 0 .. K : seed[order] \in Int
<1> DEFINE Good == {n \in Nat : n <= K => seed[n] \in Int}
<1>1. 0 \in Good
  <2>1. 0 \in 0 .. K
    OBVIOUS
  <2>2. seed[0] = IF seed0 = 0 THEN 1 ELSE seed0
    BY <2>1 DEF SeedRecursion
  <2> QED
    BY <2>2
<1>2. ASSUME NEW n \in Nat, n \in Good PROVE n + 1 \in Good
  <2> SUFFICES ASSUME n + 1 <= K PROVE seed[n + 1] \in Int
    OBVIOUS
  <2>1. seed[n] \in Int
    BY <1>2
  <2> DEFINE m == n + 1
  <2>2. m \in 0 .. K /\ m - 1 = n /\ m # 0
    OBVIOUS
  <2>3. seed[m] = NextSeed(m, seed[m - 1])
    <3> HIDE DEF m
    <3> QED
      BY <2>2 DEF SeedRecursion
  <2> QED
    BY <2>1, <2>2, <2>3, NextSeedType
<1>3. \A n \in Nat : n \in Good
  <2> HIDE DEF Good
  <2> QED
    BY <1>1, <1>2, AllNumbers
<1> QED
  BY <1>3

(* core_init_matrix fills A with bytes.                                    *)
MatrixOK(m) ==
  /\ m = [N |-> m.N, A |-> m.A, B |-> m.B, a |-> m.a, end |-> m.end]
  /\ m.N \in Nat /\ m.A \in [Elements(m.N) -> 0 .. 255]
  /\ m.B \in [Elements(m.N) -> Int]

LEMMA MatrixStarts ==
  ASSUME NEW size \in Nat \ {0}, NEW memblk, NEW seed0 \in Int
  PROVE  MatrixOK(core_init_matrix(size, memblk, seed0))
<1> DEFINE N == Dimension(size)
           seed == CHOOSE f : f = [order \in 0 .. N * N |->
                         IF order = 0 THEN IF seed0 = 0 THEN 1 ELSE seed0
                         ELSE (order * f[order - 1]) % 65536]
           B == [e \in Elements(N) |-> s16(seed[e + 1] + e + 1)]
           A == [e \in Elements(N) |-> (B[e] + e + 1) % 256]
           a == align_mem(memblk)
           m == core_init_matrix(size, memblk, seed0)
<1>1. m = [N |-> N, A |-> A, B |-> B, a |-> a,
           end |-> align_mem(a + 4 * N * N) + 4 * N * N]
  BY DEF core_init_matrix
<1>2. N \in Nat /\ N * N \in Nat
  <2>1. N \in Nat
    BY DimensionFits
  <2> HIDE DEF N
  <2> QED
    BY <2>1
<1>3. \A order \in 0 .. N * N : seed[order] \in Int
  <2>1. seed = CHOOSE f : SeedRecursion(f, N * N, seed0)
    BY DEF SeedRecursion, NextSeed
  <2> HIDE DEF seed, N
  <2>2. SeedRecursion(seed, N * N, seed0)
    BY <1>2, <2>1, SeedsExist
  <2> QED
    BY <1>2, <2>2, SeedNumbers
<1> HIDE DEF seed
<1>4. ASSUME NEW e \in Elements(N) PROVE A[e] \in 0 .. 255 /\ B[e] \in Int
  <2> HIDE DEF N
  <2>1. e \in Nat /\ e + 1 \in 0 .. N * N
    BY <1>2 DEF Elements
  <2>2. B[e] \in Int
    BY <1>3, <2>1 DEF s16
  <2> HIDE DEF B
  <2>3. (B[e] + e + 1) % 256 \in 0 .. 255
    BY <2>1, <2>2
  <2> QED
    BY <2>2, <2>3
<1>5. A \in [Elements(N) -> 0 .. 255] /\ B \in [Elements(N) -> Int]
  BY <1>4
<1> HIDE DEF A, B, N, a, m
<1> QED
  BY <1>1, <1>2, <1>5 DEF MatrixOK, m

-----------------------------------------------------------------------------
(* The patterns are strings of characters.                                 *)
LEMMA PatternType ==
  ASSUME NEW k \in Nat
  PROVE  Pattern(k) \in Seq(Byte) /\ Len(Pattern(k)) \in Nat
<1> DEFINE j == ((k \div 8) % 4) + 1
<1>1. j \in {1, 2, 3, 4} /\ k % 8 \in {0, 1, 2, 3, 4, 5, 6, 7}
  OBVIOUS
<1>2. \A i \in {1, 2, 3, 4} :
        intpat[i] \in Seq(Byte) /\ floatpat[i] \in Seq(Byte)
        /\ scipat[i] \in Seq(Byte) /\ errpat[i] \in Seq(Byte)
  <2> SUFFICES ASSUME NEW i \in {1, 2, 3, 4}
               PROVE  /\ intpat[i] \in Seq(Byte) /\ floatpat[i] \in Seq(Byte)
                      /\ scipat[i] \in Seq(Byte) /\ errpat[i] \in Seq(Byte)
    OBVIOUS
  <2>1. intpat[i] \in Seq(Byte)
    <3>1. /\ intpat[1] \in Seq(Byte) /\ intpat[2] \in Seq(Byte)
          /\ intpat[3] \in Seq(Byte) /\ intpat[4] \in Seq(Byte)
      BY DEF intpat, Byte
    <3> QED
      BY <3>1
  <2>2. floatpat[i] \in Seq(Byte)
    <3>1. /\ floatpat[1] \in Seq(Byte) /\ floatpat[2] \in Seq(Byte)
          /\ floatpat[3] \in Seq(Byte) /\ floatpat[4] \in Seq(Byte)
      BY DEF floatpat, Byte
    <3> QED
      BY <3>1
  <2>3. scipat[i] \in Seq(Byte)
    <3>1. /\ scipat[1] \in Seq(Byte) /\ scipat[2] \in Seq(Byte)
          /\ scipat[3] \in Seq(Byte) /\ scipat[4] \in Seq(Byte)
      BY DEF scipat, Byte
    <3> QED
      BY <3>1
  <2>4. errpat[i] \in Seq(Byte)
    <3>1. /\ errpat[1] \in Seq(Byte) /\ errpat[2] \in Seq(Byte)
          /\ errpat[3] \in Seq(Byte) /\ errpat[4] \in Seq(Byte)
      BY DEF errpat, Byte
    <3> QED
      BY <3>1
  <2> QED
    BY <2>1, <2>2, <2>3, <2>4
<1> HIDE DEF j
<1>3. \/ Pattern(k) = intpat[j] \/ Pattern(k) = floatpat[j]
      \/ Pattern(k) = scipat[j] \/ Pattern(k) = errpat[j]
  BY <1>1 DEF Pattern, j
<1>4. Pattern(k) \in Seq(Byte)
  BY <1>1, <1>2, <1>3
<1> QED
  BY <1>4

Piece(k) == Append(Pattern(k), COMMA)
LEMMA PieceType ==
  ASSUME NEW k \in Nat
  PROVE  Piece(k) \in Seq(Byte)
<1>1. COMMA \in Byte
  BY DEF COMMA, Byte
<1> QED
  BY <1>1, PatternType DEF Piece

(* The string from a place on, with what follows the pattern there.        *)
Positions == Nat \X Nat
Total(at) == at[1] + Len(Pattern(at[2])) + 1
Behind(at) == <<Total(at), at[2] + 1>>
FitsHere(at, size) == Total(at) < size - 1
TextHere(f, at, size) ==
  IF FitsHere(at, size) THEN Piece(at[2]) \o f[Behind(at)] ELSE <<>>
TextRecursion(f, size) ==
  f = [left \in Nat |-> [at \in Positions |->
         IF left > 0 /\ FitsHere(at, size)
           THEN Piece(at[2]) \o f[left - 1][Behind(at)] ELSE <<>>]]

(* It is made of bytes and leaves two of the block for zeroes.             *)
Text(at, size) ==
  {w \in Seq(Byte) : at[1] <= size - 2 => at[1] + Len(w) <= size - 2}

LEMMA BehindType ==
  ASSUME NEW at \in Positions
  PROVE  /\ Behind(at) \in Positions /\ at[1] \in Nat /\ Behind(at)[1] = Total(at)
         /\ Total(at) \in Nat /\ Piece(at[2]) \in Seq(Byte)
         /\ Len(Piece(at[2])) = Total(at) - at[1]
<1>1. at[1] \in Nat /\ at[2] \in Nat
  BY DEF Positions
<1> DEFINE w == Len(Pattern(at[2]))
<1>2. w \in Nat /\ Pattern(at[2]) \in Seq(Byte)
  BY <1>1, PatternType
<1>3. Total(at) = at[1] + w + 1
  BY DEF Total
<1>4. Piece(at[2]) \in Seq(Byte)
  BY <1>1, PieceType
<1>5. Len(Piece(at[2])) = w + 1
  BY <1>2 DEF Piece
<1> HIDE DEF w
<1>6. Total(at) \in Nat /\ Len(Piece(at[2])) = Total(at) - at[1]
  BY <1>1, <1>2, <1>3, <1>5
<1>7. Behind(at) \in Positions /\ Behind(at)[1] = Total(at)
  BY <1>1, <1>6 DEF Behind, Positions
<1> QED
  BY <1>1, <1>4, <1>6, <1>7

LEMMA TextHereType ==
  ASSUME NEW at \in Positions, NEW size \in Nat, NEW f,
         f[Behind(at)] \in Text(Behind(at), size)
  PROVE  TextHere(f, at, size) \in Text(at, size)
<1>1. CASE FitsHere(at, size)
  <2> DEFINE v == Piece(at[2])
             w == f[Behind(at)]
  <2>1. /\ v \in Seq(Byte) /\ Len(v) = Total(at) - at[1]
        /\ at[1] \in Nat /\ Total(at) \in Nat /\ Behind(at)[1] = Total(at)
        /\ TextHere(f, at, size) = v \o w
    BY <1>1, BehindType DEF TextHere
  <2>2. Total(at) < size - 1
    BY <1>1 DEF FitsHere
  <2>3. w \in Seq(Byte) /\ (Total(at) <= size - 2 => Total(at) + Len(w) <= size - 2)
    BY <2>1 DEF Text
  <2> HIDE DEF v, w
  <2>4. v \o w \in Seq(Byte) /\ Len(v \o w) = Len(v) + Len(w)
    BY <2>1, <2>3, ConcatProperties
  <2> DEFINE u == v \o w
             l == Len(u)
  <2>5. u \in Seq(Byte) /\ Len(w) \in Nat /\ l = Len(v) + Len(w)
    BY <2>3, <2>4
  <2>6. at[1] + l <= size - 2
    <3> DEFINE k == Len(w)
               t == Total(at)
    <3>1. /\ k \in Nat /\ t \in Nat /\ at[1] \in Nat /\ l = (t - at[1]) + k
          /\ t < size - 1
          /\ t <= size - 2 => t + k <= size - 2
      BY <2>1, <2>2, <2>3, <2>5
    <3> HIDE DEF l, k, t
    <3> QED
      BY <3>1
  <2> HIDE DEF u
  <2> QED
    BY <2>1, <2>5, <2>6 DEF Text, u
<1>2. CASE ~ FitsHere(at, size)
  <2>1. TextHere(f, at, size) = <<>>
    BY <1>2 DEF TextHere
  <2>2. at[1] \in Nat
    BY BehindType
  <2> QED
    BY <2>1, <2>2 DEF Text
<1> QED
  BY <1>1, <1>2

LEMMA TextExists ==
  ASSUME NEW size \in Nat
  PROVE  \E f : TextRecursion(f, size)
<1> DEFINE S == [Positions -> Seq(Byte)]
           first == [at \in Positions |-> <<>>]
           step == [n \in Nat |->
                      [f \in S |-> [at \in Positions |-> TextHere(f, at, size)]]]
<1>1. ASSUME NEW f \in S
      PROVE  [at \in Positions |-> TextHere(f, at, size)] \in S
  <2>1. ASSUME NEW at \in Positions PROVE TextHere(f, at, size) \in Seq(Byte)
    <3>1. f[Behind(at)] \in Seq(Byte) /\ Piece(at[2]) \in Seq(Byte)
      BY BehindType
    <3>2. Piece(at[2]) \o f[Behind(at)] \in Seq(Byte) /\ <<>> \in Seq(Byte)
      BY <3>1, ConcatProperties
    <3> QED
      BY <3>2 DEF TextHere
  <2> QED
    BY <2>1
<1>2. first \in S /\ step \in [Nat -> [S -> S]]
  <2>1. first \in S
    OBVIOUS
  <2>2. step \in [Nat -> [S -> S]]
    <3> HIDE DEF S
    <3> QED
      BY <1>1
  <2> QED
    BY <2>1, <2>2
<1>3. \A n \in Nat : \A f \in S :
        step[n][f] = [at \in Positions |-> TextHere(f, at, size)]
  <2> HIDE DEF S
  <2> QED
    OBVIOUS
<1> HIDE DEF S, step
<1>4. PICK g \in [Nat -> S] : Recursion(g, first, step)
  <2> HIDE DEF first
  <2> QED
    BY <1>2, RecursionExists, Zenon
<1>5. g[0] = first /\ \A n \in Nat : g[n + 1] = step[n][g[n]]
  BY <1>4 DEF Recursion
<1>6. ASSUME NEW left \in Nat
      PROVE  g[left] = [at \in Positions |->
                          IF left > 0 /\ FitsHere(at, size)
                            THEN Piece(at[2]) \o g[left - 1][Behind(at)] ELSE <<>>]
  <2>1. CASE left = 0
    BY <1>5, <2>1
  <2>2. CASE left # 0
    <3> DEFINE n == left - 1
    <3>1. n \in Nat /\ left = n + 1
      BY <2>2
    <3> HIDE DEF n
    <3>2. g[n + 1] = [at \in Positions |-> TextHere(g[n], at, size)]
      <4>1. g[n] \in S /\ g[n + 1] = step[n][g[n]]
        BY <1>4, <1>5, <3>1
      <4> QED
        BY <1>3, <3>1, <4>1
    <3>3. left > 0
      BY <2>2
    <3> QED
      BY <3>1, <3>2, <3>3 DEF TextHere, n
  <2> QED
    BY <2>1, <2>2
<1>7. TextRecursion(g, size)
  BY <1>4, <1>6 DEF TextRecursion
<1> QED
  BY <1>7

(* Whatever solves the recursion has such texts.                           *)
LEMMA TextType ==
  ASSUME NEW size \in Nat, NEW f, TextRecursion(f, size)
  PROVE  \A left \in Nat : \A at \in Positions : f[left][at] \in Text(at, size)
<1> DEFINE Good == {n \in Nat : \A at \in Positions : f[n][at] \in Text(at, size)}
<1>1. 0 \in Good
  <2> SUFFICES ASSUME NEW at \in Positions PROVE f[0][at] \in Text(at, size)
    OBVIOUS
  <2>1. f[0][at] = <<>>
    BY DEF TextRecursion
  <2>2. at[1] \in Nat
    BY BehindType
  <2> QED
    BY <2>1, <2>2 DEF Text
<1>2. ASSUME NEW n \in Nat, n \in Good PROVE n + 1 \in Good
  <2> SUFFICES ASSUME NEW at \in Positions PROVE f[n + 1][at] \in Text(at, size)
    OBVIOUS
  <2>1. f[n + 1][at] = TextHere(f[n], at, size)
    <3> DEFINE m == n + 1
    <3>1. m \in Nat /\ m > 0 /\ m - 1 = n
      OBVIOUS
    <3> HIDE DEF m
    <3>2. f[m] = [p \in Positions |->
                    IF m > 0 /\ FitsHere(p, size)
                      THEN Piece(p[2]) \o f[m - 1][Behind(p)] ELSE <<>>]
      BY <3>1, Zenon DEF TextRecursion
    <3> QED
      BY <3>1, <3>2 DEF TextHere, m
  <2>2. f[n][Behind(at)] \in Text(Behind(at), size)
    BY <1>2, BehindType
  <2> DEFINE g == f[n]
  <2> HIDE DEF g
  <2>3. TextHere(g, at, size) \in Text(at, size)
    BY <2>2, TextHereType DEF g
  <2> QED
    BY <2>1, <2>3 DEF g
<1>3. \A n \in Nat : n \in Good
  <2> HIDE DEF Good
  <2> QED
    BY <1>1, <1>2, AllNumbers
<1> QED
  BY <1>3

(* core_init_state fills the block with bytes, the last two of them zero.  *)
LEMMA StringStarts ==
  ASSUME NEW size \in Nat, NEW seed \in Nat
  PROVE  /\ core_init_state(size, seed) \in [0 .. size - 1 -> Byte]
         /\ size >= 2 => /\ core_init_state(size, seed)[size - 1] = 0
                         /\ core_init_state(size, seed)[size - 2] = 0
<1> DEFINE text == CHOOSE f : f =
             [left \in Nat |-> [at \in Nat \X Nat |->
                LET pattern == Pattern(at[2])
                    total == at[1] + Len(pattern) + 1
                IN  IF left > 0 /\ total < size - 1
                      THEN Append(pattern, COMMA)
                             \o f[left - 1][<<total, at[2] + 1>>]
                      ELSE <<>>]]
           chars == text[size][<<0, seed + 1>>]
<1>1. core_init_state(size, seed)
        = [i \in 0 .. size - 1 |-> IF i < Len(chars) THEN chars[i + 1] ELSE 0]
  BY DEF core_init_state
<1>2. text = CHOOSE f : TextRecursion(f, size)
  BY DEF TextRecursion, FitsHere, Total, Piece, Behind, Positions
<1> HIDE DEF text
<1>3. TextRecursion(text, size)
  BY <1>2, TextExists
<1>4. chars \in Seq(Byte) /\ (size >= 2 => Len(chars) <= size - 2)
  <2> DEFINE at == <<0, seed + 1>>
  <2>1. at \in Positions /\ at[1] = 0
    BY DEF Positions
  <2> HIDE DEF at
  <2>2. text[size][at] \in Text(at, size)
    BY <1>3, <2>1, TextType
  <2>3. chars = text[size][at]
    BY DEF at
  <2> HIDE DEF chars
  <2>4. chars \in Seq(Byte) /\ (0 <= size - 2 => 0 + Len(chars) <= size - 2)
    BY <2>1, <2>2, <2>3 DEF Text
  <2> QED
    BY <2>4
<1> HIDE DEF chars
<1>5. ASSUME NEW i \in 0 .. size - 1
      PROVE  (IF i < Len(chars) THEN chars[i + 1] ELSE 0) \in Byte
  <2>1. Len(chars) \in Nat /\ 0 \in Byte
    BY <1>4 DEF Byte
  <2>2. i < Len(chars) => i + 1 \in 1 .. Len(chars)
    BY <2>1
  <2> QED
    BY <1>4, <2>1, <2>2
<1>6. size >= 2 => /\ core_init_state(size, seed)[size - 1] = 0
                   /\ core_init_state(size, seed)[size - 2] = 0
  <2>1. Len(chars) \in Nat
    BY <1>4
  <2> QED
    BY <1>1, <1>4, <2>1
<1> QED
  BY <1>1, <1>5, <1>6

-----------------------------------------------------------------------------
(* The blocks.                                                              *)

(* matrix_test takes away from A what it added.                            *)
LEMMA MatrixRestored ==
  ASSUME MatrixOK(mat), NEW dtype \in Dtypes, NEW crc
  PROVE  [mat EXCEPT !.A = core_bench_matrix(dtype, crc).A] = mat
<1> DEFINE A == mat.A
           up == matrix_add_const(A, dtype)
           S == Elements(mat.N)
<1>1. A \in [S -> 0 .. 255] /\ dtype \in 0 .. 255
  BY DEF MatrixOK, Dtypes
<1>2. up \in [S -> Int]
  BY <1>1 DEF matrix_add_const, s16
<1>3. matrix_add_const(up, - dtype) = A
  <2>1. DOMAIN up = S /\ DOMAIN A = S
    BY <1>1, <1>2
  <2>2. ASSUME NEW e \in S PROVE s16(up[e] + (- dtype)) = A[e]
    <3>1. up[e] = s16(A[e] + dtype) /\ A[e] \in 0 .. 255
      BY <1>1, <2>1 DEF matrix_add_const
    <3> HIDE DEF A, up
    <3> QED
      BY <1>1, <3>1 DEF s16
  <2>3. matrix_add_const(up, - dtype) = [e \in S |-> s16(up[e] + (- dtype))]
    BY <2>1 DEF matrix_add_const
  <2>4. A = [e \in S |-> A[e]]
    BY <1>1
  <2> HIDE DEF A, up, S
  <2> QED
    BY <2>2, <2>3, <2>4
<1>4. matrix_test(mat.N, A, mat.B, dtype).A = matrix_add_const(up, - dtype)
  BY <1>2, Zenon DEF matrix_test
<1>5. core_bench_matrix(dtype, crc).A = A
  <2>1. core_bench_matrix(dtype, crc).A = matrix_test(mat.N, mat.A, mat.B, dtype).A
    BY Zenon DEF core_bench_matrix
  <2> QED
    BY <1>3, <1>4, <2>1
<1> QED
  BY <1>5 DEF MatrixOK

(* The corruption of a string, and that the second one undoes the first.   *)
Changed(s, step, seed) ==
  [i \in DOMAIN s |-> IF i % step = 0 /\ s[i] # COMMA
                        THEN Xor8(s[i], seed % 256) ELSE s[i]]
LEMMA ChangedBack ==
  ASSUME NEW D, NEW s \in [D -> Byte], NEW step \in Steps, NEW seed \in Nat,
         Undoable(s, seed)
  PROVE  Changed(Changed(s, step, seed), step, seed) = s
<1> DEFINE t == Changed(s, step, seed)
           k == seed % 256
<1>1. k \in Byte
  BY DEF Byte
<1>2. DOMAIN t = D /\ DOMAIN s = D
  BY DEF Changed
<1>3. ASSUME NEW i \in D
      PROVE  (IF i % step = 0 /\ t[i] # COMMA THEN Xor8(t[i], k) ELSE t[i]) = s[i]
  <2>1. s[i] \in Byte
    OBVIOUS
  <2>2. t[i] = IF i % step = 0 /\ s[i] # COMMA THEN Xor8(s[i], k) ELSE s[i]
    BY DEF Changed
  <2>3. i % step = 0 /\ s[i] # COMMA => Xor8(s[i], k) # COMMA
    BY <1>2 DEF Undoable
  <2>4. Xor8(Xor8(s[i], k), k) = s[i]
    BY <1>1, <2>1, XorUndoes
  <2> HIDE DEF t, k
  <2> QED
    BY <2>2, <2>3, <2>4
<1>4. Changed(t, step, seed) = [i \in D |-> s[i]]
  <2>1. Changed(t, step, seed)
          = [i \in D |-> IF i % step = 0 /\ t[i] # COMMA THEN Xor8(t[i], k) ELSE t[i]]
    BY <1>2 DEF Changed
  <2> HIDE DEF t, k
  <2> QED
    BY <1>3, <2>1
<1> QED
  BY <1>4

(* The blocks as main initialised them.                                    *)
Seed == Seeds(config)[1]
String0 == core_init_state(config.total \div NUM_ALGORITHMS, Seed)
Matrix0 == core_init_matrix(config.total \div NUM_ALGORITHMS,
                            config.total \div NUM_ALGORITHMS, Seed + 65536 * Seed)
Blocks0 == <<Matrix0.A, String0>>

SeedsInv ==
  /\ config \in Configs /\ CanUndo(config)
  /\ {"seed1", "seed2"} \subseteq DOMAIN res
  /\ res.seed1 = Seed /\ res.seed2 = Seed

(* The string machine runs while a comparison waits for it, and between    *)
(* its two loops the string is the corrupted one.                          *)
ScanInv ==
  /\ {"phase", "step"} \subseteq DOMAIN scan
  /\ scan.phase \in {"idle", "first", "second", "done"}
  /\ scan.phase # "idle" =>
       /\ pc = "sort" /\ sort.psize > 0 /\ sort.qsize > 0 /\ sort.q # NULL
       /\ scan.step \in Steps
BlocksInv ==
  /\ mat = Matrix0
  /\ state_mem = IF scan.phase = "second" THEN Changed(String0, scan.step, Seed)
                                          ELSE String0
InitialInv ==
  /\ initial = <<>> \/ initial.blocks = Blocks0
  /\ Iterating /\ pc # "bench" => initial.blocks = Blocks0

RInv == PcInv /\ SeedsInv /\ ScanInv /\ BlocksInv /\ InitialInv

LEMMA SeedType ==
  ASSUME config \in Configs
  PROVE  /\ Seed \in Nat
         /\ config.total \div NUM_ALGORITHMS \in Nat \ {0}
<1>1. /\ config.seed1 \in Nat /\ config.seed2 \in Nat /\ config.seed3 \in Nat
      /\ config.total \in Nat /\ config.total >= 3 * 120
  BY ConfigsAssumption
<1>2. Seed \in Nat
  <2>1. \/ Seeds(config) = <<0, 0, 102>>
        \/ Seeds(config) = <<13333, 13333, 102>>
        \/ Seeds(config) = <<config.seed1, config.seed2, config.seed3>>
    BY DEF Seeds
  <2> QED
    BY <1>1, <2>1 DEF Seed
<1>3. config.total \div NUM_ALGORITHMS \in Nat \ {0}
  BY <1>1 DEF NUM_ALGORITHMS
<1> QED
  BY <1>2, <1>3

LEMMA BlocksStart ==
  ASSUME config \in Configs
  PROVE  /\ MatrixOK(Matrix0)
         /\ String0 \in [0 .. (config.total \div NUM_ALGORITHMS) - 1 -> Byte]
<1> DEFINE size == config.total \div NUM_ALGORITHMS
<1>1. Seed \in Nat /\ size \in Nat \ {0}
  BY SeedType
<1> HIDE DEF size
<1>2. Seed + 65536 * Seed \in Int
  BY <1>1
<1>3. MatrixOK(core_init_matrix(size, size, Seed + 65536 * Seed))
  BY <1>1, <1>2, MatrixStarts
<1>4. core_init_state(size, Seed) \in [0 .. size - 1 -> Byte]
  BY <1>1, StringStarts
<1> QED
  BY <1>3, <1>4 DEF Matrix0, String0, size

LEMMA InitRestored ==
  ASSUME \A c \in Configs : CanUndo(c), Init
  PROVE  RInv
<1> DEFINE size == config.total \div NUM_ALGORITHMS
<1>1. PcInv
  BY InitPc
<1>2. /\ config \in Configs /\ pc = "insert" /\ initial = <<>> /\ scan = NoScan
      /\ res = [seed1 |-> Seeds(config)[1], seed2 |-> Seeds(config)[2],
                seed3 |-> Seeds(config)[3], size |-> size, list |-> 0]
      /\ mat = core_init_matrix(res.size, res.size, res.seed1 + 65536 * res.seed2)
      /\ state_mem = core_init_state(res.size, res.seed1)
  BY DEF Init
<1>3. res.seed1 = Seed /\ res.seed2 = Seed /\ res.size = size
  BY <1>2 DEF CanUndo, Seed
<1>4. SeedsInv
  BY <1>2, <1>3 DEF SeedsInv
<1>5. ScanInv
  BY <1>2 DEF ScanInv, NoScan
<1>6. BlocksInv
  <2>1. scan.phase # "second"
    BY <1>2 DEF NoScan
  <2> QED
    BY <1>2, <1>3, <2>1 DEF BlocksInv, Matrix0, String0
<1>7. InitialInv
  BY <1>2 DEF InitialInv, Iterating, BenchPcs
<1> QED
  BY <1>1, <1>4, <1>5, <1>6, <1>7 DEF RInv

-----------------------------------------------------------------------------
(* The steps.                                                               *)

(* A step that leaves the blocks and a running string machine alone.       *)
Quiet ==
  /\ UNCHANGED <<res, state_mem, scan, mat>>
  /\ scan.phase = "idle" \/ UNCHANGED <<pc, sort>>

Untouched == SeedsInv /\ ScanInv /\ BlocksInv

LEMMA QuietStep ==
  ASSUME Untouched, UNCHANGED config, Quiet
  PROVE  Untouched'
<1>1. SeedsInv'
  BY DEF Untouched, SeedsInv, Quiet, Seed
<1>2. ScanInv'
  BY DEF Untouched, ScanInv, Quiet
<1>3. BlocksInv'
  BY DEF Untouched, BlocksInv, Quiet, Matrix0, String0, Seed, Changed
<1> QED
  BY <1>1, <1>2, <1>3 DEF Untouched

(* The operations on the list, and what a sort does to it.                 *)
LEMMA ListIsQuiet ==
  ASSUME ScanInv, InsertNew \/ IndexItems \/ ListBenchmark
  PROVE  Quiet
<1>1. CASE InsertNew
  BY <1>1 DEF InsertNew, Quiet, ScanInv
<1>2. CASE IndexItems
  BY <1>2 DEF IndexItems, Quiet, ScanInv
<1>3. CASE FindOne \/ EndFind
  BY <1>3 DEF FindOne, EndFind, Quiet, ScanInv
<1>4. CASE RemoveOne \/ CrcFromFound \/ UndoRemove
  BY <1>4 DEF RemoveOne, CrcFromFound, UndoRemove, Quiet, ScanInv
<1>5. CASE SortBack \/ CrcOfAll
  BY <1>5 DEF SortBack, CrcOfAll, Quiet, ScanInv
<1> QED
  BY <1>1, <1>2, <1>3, <1>4, <1>5 DEF ListBenchmark

LEMMA MergeIsQuiet ==
  ASSUME ScanInv,
         NextRun \/ MergeRest \/ CompareData \/ CompareIdx \/ EndPass
  PROVE  Quiet
<1>1. CASE NextRun
  BY <1>1 DEF NextRun, RunIsMerged, Quiet, ScanInv
<1>2. ASSUME TakeP \/ TakeQ, scan.phase = "idle" PROVE Quiet
  BY <1>2 DEF TakeP, TakeQ, Take, Quiet
<1>3. CASE MergeRest
  <2>1. scan.phase = "idle"
    BY <1>3 DEF MergeRest, ScanInv
  <2> QED
    BY <1>2, <1>3, <2>1 DEF MergeRest
<1>4. CASE CompareData
  BY <1>2, <1>4 DEF CompareData, Comparing
<1>5. CASE CompareIdx
  BY <1>2, <1>5 DEF CompareIdx, Comparing
<1>6. CASE EndPass
  BY <1>6 DEF EndPass, RunIsMerged, Quiet, ScanInv
<1> QED
  BY <1>1, <1>3, <1>4, <1>5, <1>6

(* A calculation starts the string machine, or changes the matrix forth    *)
(* and back, or neither.                                                    *)
LEMMA CalculateRestores ==
  ASSUME Untouched, UNCHANGED config, Calculate
  PROVE  Untouched'
<1>1. /\ UNCHANGED <<pc, sort, res>> /\ scan.phase = "idle" /\ Comparing
  BY DEF Calculate, Comparing
<1> DEFINE d == IF ~ Cached(heap.info[sort.p]) THEN heap.info[sort.p]
                                               ELSE heap.info[sort.q]
<1>2. PICK dtype \in Dtypes :
        CallState(d, dtype) \/ CallMatrix(d, dtype) \/ KeepValue(d)
  BY DEF Calculate
<1> HIDE DEF d
<1>3. CASE CallState(d, dtype)
  <2> DEFINE step == IF dtype < 34 THEN 34 ELSE dtype
  <2>1. step \in Steps
    BY <1>2 DEF Steps, Dtypes
  <2>2. /\ scan' = [NoScan EXCEPT !.phase = "first", !.step = step, !.crc = crcs.crc]
        /\ UNCHANGED <<state_mem, mat>>
    BY <1>3 DEF CallState, StartScan
  <2> HIDE DEF step
  <2>3. /\ {"phase", "step"} \subseteq DOMAIN scan'
        /\ scan'.phase = "first" /\ scan'.step = step
    BY <2>2 DEF NoScan
  <2>4. SeedsInv'
    BY <1>1 DEF Untouched, SeedsInv, Seed
  <2>5. ScanInv'
    BY <1>1, <2>1, <2>3 DEF ScanInv, Comparing
  <2>6. BlocksInv'
    BY <1>1, <2>2, <2>3 DEF Untouched, BlocksInv, Matrix0, String0, Seed
  <2> QED
    BY <2>4, <2>5, <2>6 DEF Untouched
<1>4. CASE CallMatrix(d, dtype)
  <2>1. /\ mat' = [mat EXCEPT !.A = core_bench_matrix(dtype, crcs.crc).A]
        /\ UNCHANGED <<state_mem, scan>>
    BY <1>4 DEF CallMatrix
  <2>2. mat' = mat
    <3>1. MatrixOK(mat)
      BY BlocksStart DEF Untouched, SeedsInv, BlocksInv
    <3> QED
      BY <1>2, <2>1, <3>1, MatrixRestored
  <2> QED
    BY <1>1, <2>1, <2>2, QuietStep DEF Quiet
<1>5. CASE KeepValue(d)
  <2>1. UNCHANGED <<state_mem, scan, mat>>
    BY <1>5, Zenon DEF KeepValue
  <2> QED
    BY <1>1, <2>1, QuietStep DEF Quiet
<1> QED
  BY <1>2, <1>3, <1>4, <1>5

LEMMA ReturnRestores ==
  ASSUME Untouched, UNCHANGED config, StateReturns
  PROVE  Untouched'
<1>1. /\ scan.phase = "done" /\ scan' = NoScan
      /\ UNCHANGED <<res, state_mem, mat>>
  BY DEF StateReturns
<1>2. SeedsInv'
  BY <1>1 DEF Untouched, SeedsInv, Seed
<1>3. ScanInv'
  BY <1>1 DEF ScanInv, NoScan
<1>4. BlocksInv'
  BY <1>1 DEF Untouched, BlocksInv, Matrix0, String0, Seed, NoScan
<1> QED
  BY <1>2, <1>3, <1>4 DEF Untouched

(* The string machine corrupts the string once and undoes it.              *)
LEMMA ScanRestores ==
  ASSUME Untouched, UNCHANGED config, StateBenchmark
  PROVE  Untouched'
<1>1. /\ UNCHANGED <<sort, pc, res, mat>>
      /\ scan.phase # "idle" => scan.step \in Steps
      /\ {"phase", "step"} \subseteq DOMAIN scan
      /\ res.seed1 = Seed /\ res.seed2 = Seed
      /\ config \in Configs /\ CanUndo(config)
  BY DEF StateBenchmark, listVars, Untouched, ScanInv, SeedsInv
<1>2. SeedsInv'
  BY <1>1 DEF Untouched, SeedsInv, Seed
<1>3. /\ Matrix0' = Matrix0 /\ String0' = String0 /\ Seed' = Seed
  BY DEF Matrix0, String0, Seed
<1>4. \A seed : Corrupted(seed) = Changed(state_mem, scan.step, seed)
  BY DEF Corrupted, Changed
<1>5. CASE ScanToken
  <2>1. /\ scan.phase \in {"first", "second"} /\ UNCHANGED state_mem
        /\ scan'.phase = scan.phase /\ scan'.step = scan.step
        /\ DOMAIN scan' = DOMAIN scan
    BY <1>5 DEF ScanToken
  <2>2. ScanInv'
    BY <1>1, <2>1 DEF Untouched, ScanInv
  <2>3. BlocksInv'
    BY <1>1, <1>3, <2>1 DEF Untouched, BlocksInv
  <2> QED
    BY <1>2, <2>2, <2>3 DEF Untouched
<1>6. CASE Corrupt(res.seed1)
  <2>1. /\ scan.phase = "first" /\ state_mem' = Changed(state_mem, scan.step, Seed)
        /\ scan' = [scan EXCEPT !.phase = "second", !.p = 0]
    BY <1>1, <1>4, <1>6 DEF Corrupt, EndOfString
  <2>2. /\ scan'.phase = "second" /\ scan'.step = scan.step
        /\ DOMAIN scan' = DOMAIN scan
    BY <1>1, <2>1
  <2>3. ScanInv'
    BY <1>1, <2>1, <2>2 DEF Untouched, ScanInv
  <2>4. BlocksInv'
    BY <1>1, <1>3, <2>1, <2>2 DEF Untouched, BlocksInv
  <2> QED
    BY <1>2, <2>3, <2>4 DEF Untouched
<1>7. CASE UndoCorruption(res.seed2)
  <2>1. /\ scan.phase = "second" /\ state_mem' = Changed(state_mem, scan.step, Seed)
        /\ scan' = [scan EXCEPT !.phase = "done", !.p = 0]
    BY <1>1, <1>4, <1>7 DEF UndoCorruption, EndOfString
  <2>2. /\ scan'.phase = "done" /\ scan'.step = scan.step
        /\ DOMAIN scan' = DOMAIN scan
    BY <1>1, <2>1
  <2>3. state_mem' = String0
    <3>1. state_mem = Changed(String0, scan.step, Seed) /\ scan.step \in Steps
      BY <1>1, <2>1 DEF Untouched, BlocksInv
    <3>2. /\ String0 \in [0 .. (config.total \div NUM_ALGORITHMS) - 1 -> Byte]
          /\ Seed \in Nat /\ Undoable(String0, Seed)
      BY <1>1, BlocksStart, SeedType DEF CanUndo, Seed, String0
    <3> HIDE DEF Changed
    <3> QED
      BY <2>1, <3>1, <3>2, ChangedBack
  <2>4. ScanInv'
    BY <1>1, <2>1, <2>2 DEF Untouched, ScanInv
  <2>5. BlocksInv'
    BY <1>1, <1>3, <2>2, <2>3 DEF Untouched, BlocksInv
  <2> QED
    BY <1>2, <2>4, <2>5 DEF Untouched
<1> QED
  BY <1>5, <1>6, <1>7 DEF StateBenchmark

LEMMA BenchmarkRestores ==
  ASSUME RInv, BenchmarkStep, UNCHANGED mainVars
  PROVE  RInv'
<1>1. /\ PcInv' /\ (Iterating' <=> Iterating) /\ (pc = "bench" => pc' = pc)
  BY BenchmarkPc DEF RInv
<1>2. UNCHANGED <<config, initial>>
  BY DEF mainVars
<1>3. Untouched'
  <2>1. Untouched /\ ScanInv
    BY DEF RInv, Untouched
  <2>2. CASE InsertNew \/ IndexItems \/ ListBenchmark
    BY <1>2, <2>1, <2>2, ListIsQuiet, QuietStep
  <2>3. CASE MergeSort
    <3>1. CASE NextRun \/ MergeRest \/ CompareData \/ CompareIdx \/ EndPass
      BY <1>2, <2>1, <3>1, MergeIsQuiet, QuietStep
    <3> QED
      BY <1>2, <2>1, <2>3, <3>1, CalculateRestores, ReturnRestores DEF MergeSort
  <2>4. CASE StateBenchmark
    BY <1>2, <2>1, <2>4, ScanRestores
  <2> QED
    BY <2>2, <2>3, <2>4 DEF BenchmarkStep
<1>4. InitialInv'
  BY <1>1, <1>2 DEF RInv, InitialInv, Blocks0, Matrix0, String0, Seed
<1> QED
  BY <1>1, <1>3, <1>4 DEF RInv, Untouched

(* iterate records the memory when the string machine is idle; the other   *)
(* operations of main touch neither the blocks nor the machine.            *)
LEMMA MainRestores ==
  ASSUME RInv,
         StartTime \/ StopTime \/ Calibrate \/ Iterate \/ SecondList
         \/ EndIteration \/ Report
  PROVE  RInv'
<1>1. PcInv /\ Untouched /\ InitialInv
  BY DEF RInv, Untouched
<1>2. /\ UNCHANGED <<config, state_mem, scan, mat, sort>>
      /\ pc # "sort" /\ pc' # "sort"
      /\ pc' \in SetupPcs \cup BenchPcs \cup {"stop"}
      /\ res' = res \/ res' = [res EXCEPT !.list = IF initial = <<>> THEN list ELSE @]
  BY DEF StartTime, StopTime, Calibrate, Iterate, SecondList, EndIteration,
         Report, BeginList, mainVars, listVars, SetupPcs, BenchPcs
<1>3. PcInv'
  BY <1>1, <1>2 DEF PcInv
<1>4. scan.phase = "idle"
  BY <1>1, <1>2 DEF Untouched, ScanInv
<1>5. SeedsInv'
  <2>1. /\ {"seed1", "seed2"} \subseteq DOMAIN res'
        /\ res'.seed1 = res.seed1 /\ res'.seed2 = res.seed2
    BY <1>1, <1>2 DEF Untouched, SeedsInv
  <2> QED
    BY <1>1, <1>2, <2>1 DEF Untouched, SeedsInv, Seed
<1>6. ScanInv' /\ BlocksInv'
  BY <1>1, <1>2, <1>4
     DEF Untouched, ScanInv, BlocksInv, Matrix0, String0, Seed, Changed
<1>7. Blocks0' = Blocks0
  BY <1>2 DEF Blocks0, Matrix0, String0, Seed
<1>8. InitialInv'
  <2>1. CASE Iterate
    <3>1. initial' = IF initial = <<>> THEN Memory ELSE initial
      BY <2>1 DEF Iterate
    <3>2. Memory.blocks = Blocks0
      BY <1>1, <1>4 DEF Untouched, BlocksInv, Memory, Blocks0
    <3> QED
      BY <1>1, <1>7, <3>1, <3>2 DEF InitialInv
  <2>2. CASE SecondList
    BY <1>1, <1>7, <2>2
       DEF SecondList, InitialInv, mainVars, Iterating, BenchPcs
  <2>3. CASE StartTime \/ StopTime \/ Calibrate \/ EndIteration \/ Report
    <3>1. UNCHANGED initial /\ pc' \in {"bench", "start", "stop", "timed", "done"}
      BY <2>3 DEF StartTime, StopTime, Calibrate, EndIteration, Report
    <3> QED
      BY <1>1, <1>7, <3>1 DEF InitialInv, Iterating, BenchPcs
  <2> QED
    BY <2>1, <2>2, <2>3
<1> QED
  BY <1>3, <1>5, <1>6, <1>8 DEF RInv

LEMMA StepRestores ==
  ASSUME RInv, [Next]_vars
  PROVE  RInv'
<1>1. CASE UNCHANGED vars
  <2>1. UNCHANGED <<pc, sort, config, res, scan, mat, state_mem, initial>>
    BY <1>1 DEF vars, listVars, mainVars
  <2>2. PcInv' /\ InitialInv'
    BY <2>1 DEF RInv, PcInv, InitialInv, Iterating, Blocks0, Matrix0, String0, Seed
  <2>3. Untouched'
    BY <2>1, QuietStep DEF RInv, Untouched, Quiet
  <2> QED
    BY <2>2, <2>3 DEF RInv, Untouched
<1>2. CASE BenchmarkStep /\ UNCHANGED mainVars
  BY <1>2, BenchmarkRestores
<1>3. CASE Next /\ ~ (BenchmarkStep /\ UNCHANGED mainVars)
  BY <1>3, MainRestores DEF Next, BenchmarkStep
<1> QED
  BY <1>1, <1>2, <1>3

(* Matrix and string are what they were before the first iteration, for    *)
(* every configuration whose two seeds are the same and turn no character  *)
(* into a comma: core_matrix.c:127 and core_state.c:99 take away what they *)
(* added, so that iterations are identical (core_main.c:98).               *)
THEOREM BlocksAreRestored ==
  ASSUME \A c \in Configs : CanUndo(c)
  PROVE  Spec => []BlocksRestored
<1>1. RInv => BlocksRestored
  <2> SUFFICES ASSUME RInv, pc = "return" PROVE Memory.blocks = initial.blocks
    BY DEF BlocksRestored
  <2>1. scan.phase = "idle"
    BY DEF RInv, ScanInv
  <2>2. Memory.blocks = Blocks0
    BY <2>1 DEF RInv, BlocksInv, Memory, Blocks0
  <2>3. initial.blocks = Blocks0
    BY DEF RInv, InitialInv, Iterating, BenchPcs
  <2> QED
    BY <2>2, <2>3
<1> QED
  BY <1>1, InitRestored, StepRestores, PTL DEF Spec

-----------------------------------------------------------------------------
(* Following the pointers.                                                  *)

(* Pointers to n cells.                                                     *)
Pointers(n) == CellsOf(n) \cup {NULL}
LinkType(next, n) == next \in [CellsOf(n) -> Pointers(n)]
(* The cells at the places a to z of a sequence s are linked.              *)
Links(next, s, a, z) == \A i \in a .. z - 1 : next[s[i]] = s[i + 1]

LEMMA CellCount ==
  ASSUME NEW n \in Nat, NEW next, LinkType(next, n)
  PROVE  /\ Cardinality(DOMAIN next) = n /\ DOMAIN next = CellsOf(n)
         /\ NULL \notin CellsOf(n)
<1>1. DOMAIN next = 0 .. n - 1
  BY DEF LinkType, CellsOf
<1>2. Cardinality(0 .. n - 1) = n
  <2>1. Cardinality(0 .. n - 1) = IF 0 > n - 1 THEN 0 ELSE (n - 1) - 0 + 1
    BY FS_Interval
  <2> QED
    BY <2>1
<1> QED
  BY <1>1, <1>2, NullAssumption DEF CellsOf

(* Chain's recursion.                                                       *)
ChainRecursion(f, next) ==
  f = [steps \in Nat |->
         [c \in DOMAIN next \cup {NULL} |->
            IF c = NULL THEN <<>>
            ELSE IF steps = 0 THEN <<c>>
            ELSE <<c>> \o f[steps - 1][next[c]]]]

LEMMA ChainExists ==
  ASSUME NEW n \in Nat, NEW next, LinkType(next, n)
  PROVE  \E f \in [Nat -> [Pointers(n) -> Seq(CellsOf(n))]] : ChainRecursion(f, next)
<1> DEFINE D == CellsOf(n)
           P == Pointers(n)
           S == [P -> Seq(D)]
           first == [c \in P |-> IF c = NULL THEN <<>> ELSE <<c>>]
           Later(f) == [c \in P |-> IF c = NULL THEN <<>> ELSE <<c>> \o f[next[c]]]
           step == [k \in Nat |-> [f \in S |-> Later(f)]]
<1>0. /\ \A c \in P : c # NULL => c \in D /\ next[c] \in P
      /\ DOMAIN next \cup {NULL} = P
      /\ NULL \in P
  BY CellCount DEF LinkType, Pointers
<1>1. first \in S
  <2>1. ASSUME NEW c \in P PROVE (IF c = NULL THEN <<>> ELSE <<c>>) \in Seq(D)
    BY <1>0
  <2> QED
    BY <2>1
<1>2. ASSUME NEW f \in S PROVE Later(f) \in S
  <2>1. ASSUME NEW c \in P
        PROVE  (IF c = NULL THEN <<>> ELSE <<c>> \o f[next[c]]) \in Seq(D)
    <3>1. CASE c = NULL
      BY <3>1
    <3>2. CASE c # NULL
      <4>1. <<c>> \in Seq(D) /\ f[next[c]] \in Seq(D)
        BY <1>0, <3>2
      <4>2. <<c>> \o f[next[c]] \in Seq(D)
        BY <4>1, ConcatProperties
      <4> QED
        BY <3>2, <4>2
    <3> QED
      BY <3>1, <3>2
  <2> QED
    BY <2>1
<1>3. step \in [Nat -> [S -> S]]
  <2> HIDE DEF S, Later
  <2> QED
    BY <1>2
<1>4. \A k \in Nat : \A f \in S : step[k][f] = Later(f)
  <2> HIDE DEF S, Later
  <2> QED
    OBVIOUS
<1> HIDE DEF S, step, first
<1>5. PICK g \in [Nat -> S] : Recursion(g, first, step)
  BY <1>1, <1>3, RecursionExists, Zenon
<1>6. ASSUME NEW steps \in Nat
      PROVE  g[steps] = [c \in DOMAIN next \cup {NULL} |->
                           IF c = NULL THEN <<>>
                           ELSE IF steps = 0 THEN <<c>>
                           ELSE <<c>> \o g[steps - 1][next[c]]]
  <2>1. CASE steps = 0
    <3>1. g[0] = first
      BY <1>5 DEF Recursion
    <3> QED
      BY <1>0, <2>1, <3>1 DEF first
  <2>2. CASE steps # 0
    <3> DEFINE k == steps - 1
    <3>1. k \in Nat /\ steps = k + 1
      BY <2>2
    <3> HIDE DEF k
    <3>2. g[k] \in S /\ g[k + 1] = step[k][g[k]]
      BY <1>5, <3>1 DEF Recursion
    <3>3. g[k + 1] = Later(g[k])
      BY <1>4, <3>1, <3>2
    <3> QED
      BY <1>0, <2>2, <3>1, <3>3 DEF k
  <2> QED
    BY <2>1, <2>2
<1>7. ChainRecursion(g, next)
  BY <1>5, <1>6 DEF ChainRecursion
<1> QED
  BY <1>5, <1>7 DEF S

LEMMA ChainSteps ==
  ASSUME NEW n \in Nat, NEW next, LinkType(next, n), NEW f, ChainRecursion(f, next)
  PROVE  /\ \A steps \in Nat : f[steps][NULL] = <<>>
         /\ \A c \in CellsOf(n) : f[0][c] = <<c>>
         /\ \A k \in Nat : \A c \in CellsOf(n) :
              f[k + 1][c] = <<c>> \o f[k][next[c]]
         /\ \A k \in Nat : \A c \in Pointers(n) : f[k][c] \in Seq(CellsOf(n))
<1>0. /\ DOMAIN next \cup {NULL} = Pointers(n) /\ NULL \notin CellsOf(n)
      /\ CellsOf(n) \subseteq Pointers(n) /\ NULL \in Pointers(n)
      /\ \A c \in CellsOf(n) : next[c] \in Pointers(n)
  BY CellCount DEF LinkType, Pointers
<1>1. ASSUME NEW steps \in Nat, NEW c \in Pointers(n)
      PROVE  f[steps][c] = IF c = NULL THEN <<>>
                           ELSE IF steps = 0 THEN <<c>>
                           ELSE <<c>> \o f[steps - 1][next[c]]
  <2>1. f[steps] = [d \in Pointers(n) |->
                      IF d = NULL THEN <<>>
                      ELSE IF steps = 0 THEN <<d>>
                      ELSE <<d>> \o f[steps - 1][next[d]]]
    BY <1>0, Zenon DEF ChainRecursion
  <2> QED
    BY <2>1
<1>2. \A steps \in Nat : f[steps][NULL] = <<>>
  BY <1>0, <1>1
<1>3. \A c \in CellsOf(n) : f[0][c] = <<c>>
  BY <1>0, <1>1
<1>4. ASSUME NEW k \in Nat, NEW c \in CellsOf(n)
      PROVE  f[k + 1][c] = <<c>> \o f[k][next[c]]
  <2> DEFINE m == k + 1
  <2>1. m \in Nat /\ m # 0 /\ m - 1 = k
    OBVIOUS
  <2> HIDE DEF m
  <2>2. f[m][c] = <<c>> \o f[m - 1][next[c]]
    BY <1>0, <1>1, <2>1
  <2> QED
    BY <2>1, <2>2 DEF m
<1> DEFINE Good == {k \in Nat : \A c \in Pointers(n) : f[k][c] \in Seq(CellsOf(n))}
<1>5. 0 \in Good
  <2> SUFFICES ASSUME NEW c \in Pointers(n) PROVE f[0][c] \in Seq(CellsOf(n))
    OBVIOUS
  <2>1. CASE c = NULL
    <3>1. f[0][NULL] = <<>> /\ <<>> \in Seq(CellsOf(n))
      BY <1>2
    <3> QED
      BY <2>1, <3>1
  <2>2. CASE c # NULL
    <3>1. c \in CellsOf(n)
      BY <2>2 DEF Pointers
    <3>2. f[0][c] = <<c>> /\ <<c>> \in Seq(CellsOf(n))
      BY <1>3, <3>1
    <3> QED
      BY <3>2
  <2> QED
    BY <2>1, <2>2
<1>6. ASSUME NEW k \in Nat, k \in Good PROVE k + 1 \in Good
  <2> SUFFICES ASSUME NEW c \in Pointers(n) PROVE f[k + 1][c] \in Seq(CellsOf(n))
    OBVIOUS
  <2>1. CASE c = NULL
    <3>1. f[k + 1][NULL] = <<>>
      BY <1>2
    <3> QED
      BY <2>1, <3>1
  <2>2. CASE c # NULL
    <3>1. c \in CellsOf(n)
      BY <2>2 DEF Pointers
    <3>2. <<c>> \in Seq(CellsOf(n)) /\ f[k][next[c]] \in Seq(CellsOf(n))
      BY <1>0, <1>6, <3>1
    <3>3. <<c>> \o f[k][next[c]] \in Seq(CellsOf(n))
      BY <3>2, ConcatProperties
    <3> QED
      BY <1>4, <3>1, <3>3
  <2> QED
    BY <2>1, <2>2
<1>7. \A k \in Nat : k \in Good
  <2> HIDE DEF Good
  <2> QED
    BY <1>5, <1>6, AllNumbers
<1> QED
  BY <1>2, <1>3, <1>4, <1>7

(* The chain from place a of s meets the cells up to z, and nothing else   *)
(* if the one at z is the last one.                                         *)
ChainHas(h, s, a, z, n) ==
  \E w \in Seq(CellsOf(n)) :
    /\ Chain(h, s[a]) = SubSeq(s, a, z) \o w
    /\ h.next[s[z]] = NULL => w = <<>>

LEMMA OnePart ==
  ASSUME NEW S, NEW s, NEW z \in Int, s[z] \in S
  PROVE  /\ SubSeq(s, z, z) \in Seq(S) /\ Len(SubSeq(s, z, z)) = 1
         /\ SubSeq(s, z, z)[1] = s[z]
<1>1. \A i \in z .. z : s[i] \in S
  OBVIOUS
<1>2. PICK n \in Int : n = z
  OBVIOUS
<1>3. \A i \in z .. n : s[i] \in S
  BY <1>1, <1>2
<1>4. PICK v : v = SubSeq(s, z, n)
  OBVIOUS
<1>5. /\ v \in Seq(S) /\ Len(v) = IF z <= n THEN n - z + 1 ELSE 0
      /\ \A i \in 1 .. n - z + 1 : v[i] = s[z + i - 1]
  BY <1>3, <1>4, SubSeqProperties
<1>6. z <= n /\ n - z + 1 = 1 /\ z + 1 - 1 = z /\ 1 \in 1 .. 1
  BY <1>2
<1>7. v \in Seq(S) /\ Len(v) = 1 /\ v[1] = s[z]
  BY <1>5, <1>6
<1> QED
  BY <1>2, <1>4, <1>7

LEMMA ChainSegment ==
  ASSUME NEW n \in Nat, NEW h, LinkType(h.next, n),
         NEW s \in Seq(CellsOf(n)), NEW a \in 1 .. Len(s), NEW z \in a .. Len(s),
         z - a < n, Links(h.next, s, a, z)
  PROVE  ChainHas(h, s, a, z, n)
<1> DEFINE D == CellsOf(n)
           f == CHOOSE x : ChainRecursion(x, h.next)
<1>1. ChainRecursion(f, h.next)
  BY ChainExists
<1>2. Chain(h, s[a]) = f[n][s[a]]
  <2>1. Chain(h, s[a]) = f[Cardinality(DOMAIN h.next)][s[a]]
    BY DEF Chain, ChainRecursion
  <2> QED
    BY <2>1, CellCount
<1> HIDE DEF f
<1>3. /\ \A steps \in Nat : f[steps][NULL] = <<>>
      /\ \A c \in D : f[0][c] = <<c>>
      /\ \A k \in Nat : \A c \in D : f[k + 1][c] = <<c>> \o f[k][h.next[c]]
      /\ \A k \in Nat : \A c \in Pointers(n) : f[k][c] \in Seq(D)
  BY <1>1, ChainSteps
<1>4. /\ \A i \in 1 .. Len(s) : s[i] \in D
      /\ Len(s) \in Nat /\ a \in Nat /\ z \in Nat
      /\ \A c \in D : h.next[c] \in Pointers(n)
  BY ElementOfSeq DEF LinkType
<1> DEFINE Follow(k, i, w) == /\ f[k][s[i]] = SubSeq(s, i, z) \o w
                              /\ h.next[s[z]] = NULL => w = <<>>
           Good == {k \in Nat : \A i \in a .. z :
                      z - i <= k => \E w \in Seq(D) : Follow(k, i, w)}
<1> HIDE DEF Follow
<1>5. SubSeq(s, z, z) = <<s[z]>>
  <2> HIDE DEF Good
  <2>1. z \in Int /\ s[z] \in D /\ z - z + 1 = 1 /\ z + 1 - 1 = z
    BY <1>4
  <2> DEFINE v == SubSeq(s, z, z)
  <2>2. v \in Seq(D) /\ Len(v) = 1 /\ v[1] = s[z]
    BY <2>1, OnePart
  <2>3. <<s[z]>> \in Seq(D) /\ Len(<<s[z]>>) = 1 /\ <<s[z]>>[1] = s[z]
    BY <2>1
  <2> HIDE DEF v
  <2>4. \A i \in 1 .. Len(v) : v[i] = <<s[z]>>[i]
    BY <2>2, <2>3
  <2>5. v = <<s[z]>>
    BY <2>2, <2>3, <2>4, SeqEqual
  <2> QED
    BY <2>5 DEF v
<1>6. 0 \in Good
  <2> SUFFICES ASSUME NEW i \in a .. z, z - i <= 0
               PROVE  \E w \in Seq(D) : Follow(0, i, w)
    OBVIOUS
  <2>1. i = z /\ s[z] \in D
    BY <1>4
  <2>2. f[0][s[z]] = SubSeq(s, z, z) \o <<>>
    <3>1. <<s[z]>> \in Seq(D)
      BY <2>1
    <3> QED
      BY <1>3, <1>5, <2>1, <3>1, ConcatEmptySeq
  <2>3. <<>> \in Seq(D)
    OBVIOUS
  <2> QED
    BY <2>1, <2>2, <2>3 DEF Follow
<1>7. ASSUME NEW k \in Nat, k \in Good PROVE k + 1 \in Good
  <2> SUFFICES ASSUME NEW i \in a .. z, z - i <= k + 1
               PROVE  \E w \in Seq(D) : Follow(k + 1, i, w)
    OBVIOUS
  <2>0. s[i] \in D /\ f[k + 1][s[i]] = <<s[i]>> \o f[k][h.next[s[i]]]
    <3>1. i \in 1 .. Len(s)
      BY <1>4
    <3>2. s[i] \in D
      BY <1>4, <3>1
    <3> QED
      BY <1>3, <3>2
  <2>1. CASE i = z
    <3> DEFINE w == f[k][h.next[s[z]]]
    <3>1. w \in Seq(D)
      BY <1>3, <1>4, <2>0, <2>1
    <3>2. h.next[s[z]] = NULL => w = <<>>
      BY <1>3
    <3>3. f[k + 1][s[i]] = SubSeq(s, i, z) \o w
      BY <1>5, <2>0, <2>1
    <3> HIDE DEF w
    <3> QED
      BY <3>1, <3>2, <3>3 DEF Follow
  <2>2. CASE i # z
    <3>1. i + 1 \in a .. z /\ z - (i + 1) <= k /\ i \in a .. z - 1
      BY <1>4, <2>2
    <3>2. PICK w \in Seq(D) : Follow(k, i + 1, w)
      BY <1>7, <3>1
    <3>3. h.next[s[i]] = s[i + 1]
      BY <3>1 DEF Links
    <3>4. f[k + 1][s[i]] = <<s[i]>> \o (SubSeq(s, i + 1, z) \o w)
      BY <2>0, <3>2, <3>3 DEF Follow
    <3>5. i \in 1 .. Len(s) /\ z \in i .. Len(s)
      BY <1>4
    <3>6. SubSeq(s, i, z) = <<s[i]>> \o SubSeq(s, i + 1, z)
      BY <3>5, SubSeqRecursiveFirst
    <3>7. <<s[i]>> \in Seq(D) /\ SubSeq(s, i + 1, z) \in Seq(D)
      <4>1. i + 1 \in Int /\ z \in Int /\ \A j \in i + 1 .. z : s[j] \in D
        BY <1>4, <3>5
      <4> QED
        BY <2>0, <4>1, SubSeqProperties
    <3>8. f[k + 1][s[i]] = SubSeq(s, i, z) \o w
      <4> DEFINE x == <<s[i]>>
                 y == SubSeq(s, i + 1, z)
      <4>1. x \in Seq(D) /\ y \in Seq(D) /\ w \in Seq(D)
        BY <3>2, <3>7
      <4> HIDE DEF x, y, D
      <4>2. (x \o y) \o w = x \o (y \o w)
        BY <4>1, ConcatAssociative
      <4> QED
        BY <3>4, <3>6, <4>2 DEF x, y
    <3> QED
      BY <3>2, <3>8 DEF Follow
  <2> QED
    BY <2>1, <2>2
<1>8. \A k \in Nat : k \in Good
  <2> HIDE DEF Good
  <2> QED
    BY <1>6, <1>7, AllNumbers
<1>9. n \in Good /\ a \in a .. z /\ z - a <= n
  <2>1. n \in Good
    BY <1>8
  <2> HIDE DEF Good
  <2> QED
    BY <1>4, <2>1
<1>10. \E w \in Seq(D) : Follow(n, a, w)
  BY <1>9
<1> QED
  BY <1>2, <1>10 DEF Follow, ChainHas

(* A search, whatever it is for, ends at a cell of the list or at its end. *)
FindRecursion(f, h, infos) ==
  f = [steps \in Nat |->
         [c \in DOMAIN h.next \cup {NULL} |->
            IF c = NULL \/ steps = 0 THEN c
            ELSE IF h.info[c] \in infos THEN c
            ELSE f[steps - 1][h.next[c]]]]

LEMMA FindExists ==
  ASSUME NEW n \in Nat, NEW h, LinkType(h.next, n), NEW infos
  PROVE  \E f : FindRecursion(f, h, infos)
<1> DEFINE P == Pointers(n)
           S == [P -> P]
           first == [c \in P |-> c]
           Later(f) == [c \in P |-> IF c = NULL THEN c
                                    ELSE IF h.info[c] \in infos THEN c
                                    ELSE f[h.next[c]]]
           step == [k \in Nat |-> [f \in S |-> Later(f)]]
<1>0. /\ \A c \in P : c # NULL => h.next[c] \in P
      /\ DOMAIN h.next \cup {NULL} = P
  BY CellCount DEF LinkType, Pointers
<1>1. first \in S
  OBVIOUS
<1>2. ASSUME NEW f \in S PROVE Later(f) \in S
  BY <1>0
<1>3. step \in [Nat -> [S -> S]]
  <2> HIDE DEF S, Later
  <2> QED
    BY <1>2
<1>4. \A k \in Nat : \A f \in S : step[k][f] = Later(f)
  <2> HIDE DEF S, Later
  <2> QED
    OBVIOUS
<1> HIDE DEF S, step, first
<1>5. PICK g \in [Nat -> S] : Recursion(g, first, step)
  BY <1>1, <1>3, RecursionExists, Zenon
<1>6. ASSUME NEW steps \in Nat
      PROVE  g[steps] = [c \in DOMAIN h.next \cup {NULL} |->
                           IF c = NULL \/ steps = 0 THEN c
                           ELSE IF h.info[c] \in infos THEN c
                           ELSE g[steps - 1][h.next[c]]]
  <2>1. CASE steps = 0
    <3>1. g[0] = first
      BY <1>5 DEF Recursion
    <3> QED
      BY <1>0, <2>1, <3>1 DEF first
  <2>2. CASE steps # 0
    <3> DEFINE k == steps - 1
    <3>1. k \in Nat /\ steps = k + 1
      BY <2>2
    <3> HIDE DEF k
    <3>2. g[k] \in S /\ g[k + 1] = step[k][g[k]]
      BY <1>5, <3>1 DEF Recursion
    <3>3. g[k + 1] = Later(g[k])
      BY <1>4, <3>1, <3>2
    <3> QED
      BY <1>0, <2>2, <3>1, <3>3 DEF k
  <2> QED
    BY <2>1, <2>2
<1>7. FindRecursion(g, h, infos)
  BY <1>5, <1>6 DEF FindRecursion
<1> QED
  BY <1>7

LEMMA FindCell ==
  ASSUME NEW n \in Nat, NEW h, LinkType(h.next, n),
         NEW s \in Seq(CellsOf(n)), NEW a \in 1 .. Len(s), NEW z \in a .. Len(s),
         Links(h.next, s, a, z), h.next[s[z]] = NULL, NEW infos
  PROVE  core_list_find(h, s[a], infos) \in {s[i] : i \in a .. z} \cup {NULL}
<1> DEFINE D == CellsOf(n)
           f == CHOOSE x : FindRecursion(x, h, infos)
           R == {s[i] : i \in a .. z} \cup {NULL}
<1>1. FindRecursion(f, h, infos)
  BY FindExists
<1>2. core_list_find(h, s[a], infos) = f[n][s[a]]
  <2>1. core_list_find(h, s[a], infos) = f[Cardinality(DOMAIN h.next)][s[a]]
    BY DEF core_list_find, FindRecursion
  <2> QED
    BY <2>1, CellCount
<1> HIDE DEF f
<1>3. \A i \in a .. z : s[i] \in D
  BY ElementOfSeq
<1>4. \A c \in R : c \in Pointers(n) /\ (c # NULL => h.next[c] \in R)
  <2> SUFFICES ASSUME NEW i \in a .. z
               PROVE  s[i] \in D /\ h.next[s[i]] \in R
    BY <1>3 DEF Pointers
  <2>1. i + 1 \in a .. z \/ i = z
    OBVIOUS
  <2> QED
    BY <1>3, <2>1 DEF Links
<1>5. ASSUME NEW k \in Nat, NEW c \in Pointers(n)
      PROVE  f[k][c] = IF c = NULL \/ k = 0 THEN c
                       ELSE IF h.info[c] \in infos THEN c
                       ELSE f[k - 1][h.next[c]]
  <2>1. f[k] = [d \in DOMAIN h.next \cup {NULL} |->
                           IF d = NULL \/ k = 0 THEN d
                           ELSE IF h.info[d] \in infos THEN d
                           ELSE f[k - 1][h.next[d]]]
    BY <1>1, Zenon DEF FindRecursion
  <2>2. DOMAIN h.next \cup {NULL} = Pointers(n)
    BY CellCount DEF Pointers
  <2> QED
    BY <2>1, <2>2
<1> DEFINE Good == {k \in Nat : \A c \in R : f[k][c] \in R}
<1>6. 0 \in Good
  BY <1>4, <1>5
<1>7. ASSUME NEW k \in Nat, k \in Good PROVE k + 1 \in Good
  <2> SUFFICES ASSUME NEW c \in R PROVE f[k + 1][c] \in R
    OBVIOUS
  <2> HIDE DEF R
  <2>1. c \in Pointers(n) /\ (c # NULL => f[k][h.next[c]] \in R)
    BY <1>4, <1>7
  <2> DEFINE m == k + 1
  <2>2. m \in Nat /\ m # 0 /\ m - 1 = k
    OBVIOUS
  <2> HIDE DEF m
  <2>3. f[m][c] = IF c = NULL THEN c ELSE IF h.info[c] \in infos THEN c
                  ELSE f[m - 1][h.next[c]]
    BY <1>5, <2>1, <2>2
  <2> QED
    BY <2>1, <2>2, <2>3 DEF m
<1>8. \A k \in Nat : k \in Good
  <2> HIDE DEF Good
  <2> QED
    BY <1>6, <1>7, AllNumbers
<1> QED
  BY <1>2, <1>8

-----------------------------------------------------------------------------
(* A reversal links each cell to the one before it.                        *)
ReverseRecursion(f, h) ==
  f = [steps \in Nat |->
         [at \in (DOMAIN h.next \cup {NULL}) \X (DOMAIN h.next \cup {NULL})
                 \X [DOMAIN h.next -> DOMAIN h.next \cup {NULL}] |->
            IF at[1] = NULL \/ steps = 0
              THEN [list |-> at[2], heap |-> [h EXCEPT !.next = at[3]]]
              ELSE f[steps - 1][<<at[3][at[1]], at[1],
                                  [at[3] EXCEPT ![at[1]] = at[2]]>>]]]
NextTypes(n) == [CellsOf(n) -> Pointers(n)]
Turning(n) == Pointers(n) \X Pointers(n) \X NextTypes(n)
Turned(at) == <<at[3][at[1]], at[1], [at[3] EXCEPT ![at[1]] = at[2]]>>

LEMMA TurnedType ==
  ASSUME NEW n \in Nat, NEW at \in Turning(n), at[1] # NULL
  PROVE  Turned(at) \in Turning(n)
<1>1. at[1] \in CellsOf(n) /\ at[2] \in Pointers(n) /\ at[3] \in NextTypes(n)
  BY DEF Turning, Pointers
<1> DEFINE x == at[3]
<1> HIDE DEF x
<1>2. x[at[1]] \in Pointers(n) /\ [x EXCEPT ![at[1]] = at[2]] \in NextTypes(n)
  BY <1>1 DEF NextTypes, x
<1>3. at[1] \in Pointers(n)
  BY <1>1 DEF Pointers
<1> QED
  BY <1>2, <1>3 DEF Turned, Turning, x

LEMMA ReverseExists ==
  ASSUME NEW n \in Nat, NEW h, LinkType(h.next, n)
  PROVE  \E f : ReverseRecursion(f, h)
<1> DEFINE P == Turning(n)
           Result(at) == [list |-> at[2], heap |-> [h EXCEPT !.next = at[3]]]
           T == {Result(at) : at \in P}
           S == [P -> T]
           first == [at \in P |-> Result(at)]
           Later(f) == [at \in P |-> IF at[1] = NULL THEN Result(at)
                                     ELSE f[Turned(at)]]
           step == [k \in Nat |-> [f \in S |-> Later(f)]]
<1>0. (DOMAIN h.next \cup {NULL}) \X (DOMAIN h.next \cup {NULL})
                 \X [DOMAIN h.next -> DOMAIN h.next \cup {NULL}] = P
  BY CellCount, Zenon DEF Pointers, NextTypes, Turning
<1>1. first \in S
  <2> HIDE DEF P, Result
  <2> QED
    OBVIOUS
<1>2. ASSUME NEW f \in S PROVE Later(f) \in S
  <2>1. ASSUME NEW at \in P
        PROVE  (IF at[1] = NULL THEN Result(at) ELSE f[Turned(at)]) \in T
    <3>1. at[1] # NULL => Turned(at) \in P
      BY TurnedType
    <3> HIDE DEF P, Result
    <3> QED
      BY <3>1
  <2> HIDE DEF P, Result, T
  <2> QED
    BY <2>1
<1>3. step \in [Nat -> [S -> S]]
  <2> HIDE DEF S, Later
  <2> QED
    BY <1>2
<1>4. \A k \in Nat : \A f \in S : step[k][f] = Later(f)
  <2> HIDE DEF S, Later
  <2> QED
    OBVIOUS
<1> HIDE DEF S, step, first, P, T
<1>5. PICK g \in [Nat -> S] : Recursion(g, first, step)
  BY <1>1, <1>3, RecursionExists, Zenon
<1>6. ASSUME NEW steps \in Nat
      PROVE  g[steps] = [at \in P |->
                           IF at[1] = NULL \/ steps = 0 THEN Result(at)
                           ELSE g[steps - 1][Turned(at)]]
  <2>1. CASE steps = 0
    <3>1. g[0] = first
      BY <1>5 DEF Recursion
    <3> HIDE DEF Result
    <3> QED
      BY <2>1, <3>1 DEF first
  <2>2. CASE steps # 0
    <3> DEFINE k == steps - 1
    <3>1. k \in Nat /\ steps = k + 1
      BY <2>2
    <3> HIDE DEF k
    <3>2. g[k] \in S /\ g[k + 1] = step[k][g[k]]
      BY <1>5, <3>1 DEF Recursion
    <3>3. g[k + 1] = Later(g[k])
      BY <1>4, <3>1, <3>2
    <3> HIDE DEF Result
    <3> QED
      BY <2>2, <3>1, <3>3 DEF k
  <2> QED
    BY <2>1, <2>2
<1>7. ReverseRecursion(g, h)
  <2>1. g = [steps \in Nat |-> g[steps]]
    BY <1>5
  <2>2. g = [steps \in Nat |-> [at \in P |->
                           IF at[1] = NULL \/ steps = 0 THEN Result(at)
                           ELSE g[steps - 1][Turned(at)]]]
    <3> HIDE DEF Result
    <3> QED
      BY <1>6, <2>1
  <2> QED
    BY <1>0, <2>2, Zenon DEF ReverseRecursion, Turned
<1> QED
  BY <1>7

Injective(s) == \A i, j \in 1 .. Len(s) : s[i] = s[j] => i = j
Place(s, i) == IF i \in 1 .. Len(s) THEN s[i] ELSE NULL
(* The cells before place j are turned.                                     *)
Halfway(next, s, j) ==
  \A i \in 1 .. Len(s) :
    next[s[i]] = IF i < j THEN Place(s, i - 1) ELSE Place(s, i + 1)

LEMMA ReverseStep ==
  ASSUME NEW n \in Nat, NEW s \in Seq(CellsOf(n)),
         Injective(s),
         NEW next \in NextTypes(n), NEW j \in 1 .. Len(s), Halfway(next, s, j)
  PROVE  LET at == <<Place(s, j), Place(s, j - 1), next>>
             new == [next EXCEPT ![s[j]] = Place(s, j - 1)]
         IN  /\ at \in Turning(n) /\ at[1] # NULL
             /\ Turned(at) = <<Place(s, j + 1), Place(s, j), new>>
             /\ new \in NextTypes(n) /\ Halfway(new, s, j + 1)
<1> DEFINE at == <<Place(s, j), Place(s, j - 1), next>>
           new == [next EXCEPT ![s[j]] = Place(s, j - 1)]
<1>1. /\ Len(s) \in Nat /\ \A i \in 1 .. Len(s) : s[i] \in CellsOf(n)
      /\ NULL \notin CellsOf(n)
  BY ElementOfSeq, NullAssumption DEF CellsOf
<1>2. \A i \in Int : Place(s, i) \in Pointers(n)
  BY <1>1 DEF Place, Pointers
<1>3. Place(s, j) = s[j] /\ s[j] \in CellsOf(n) /\ s[j] # NULL
  BY <1>1 DEF Place
<1>4. at \in Turning(n)
  BY <1>2 DEF Turning
<1>5. new \in NextTypes(n)
  BY <1>2 DEF NextTypes
<1>6. next[s[j]] = Place(s, j + 1)
  BY <1>1 DEF Halfway
<1>7. Turned(at) = <<Place(s, j + 1), Place(s, j), new>>
  BY <1>3, <1>6 DEF Turned
<1>8. Halfway(new, s, j + 1)
  <2> SUFFICES ASSUME NEW i \in 1 .. Len(s)
               PROVE  new[s[i]] = IF i < j + 1 THEN Place(s, i - 1)
                                  ELSE Place(s, i + 1)
    BY DEF Halfway
  <2>1. new[s[i]] = IF s[i] = s[j] THEN Place(s, j - 1) ELSE next[s[i]]
    BY <1>1 DEF NextTypes
  <2>2. CASE i = j
    BY <1>1, <2>1, <2>2
  <2>3. CASE i # j
    <3>1. s[i] # s[j] /\ (i < j + 1 <=> i < j)
      BY <1>1, <2>3 DEF Injective
    <3> QED
      BY <2>1, <3>1 DEF Halfway
  <2> QED
    BY <2>2, <2>3
<1> QED
  BY <1>3, <1>4, <1>5, <1>7, <1>8

(* The heap with its cells linked in another way.                          *)
Relinked(h, next) == [h EXCEPT !.next = next]

ReversedTo(h, s, next) ==
  /\ core_list_reverse(h, s[1])
       = [list |-> s[Len(s)], heap |-> Relinked(h, next)]
  /\ next[s[1]] = NULL
  /\ \A i \in 2 .. Len(s) : next[s[i]] = s[i - 1]

LEMMA ReverseLinks ==
  ASSUME NEW n \in Nat, NEW h, LinkType(h.next, n),
         NEW s \in Seq(CellsOf(n)), Len(s) \in 1 .. n,
         Injective(s),
         Links(h.next, s, 1, Len(s)), h.next[s[Len(s)]] = NULL
  PROVE  \E next \in NextTypes(n) : ReversedTo(h, s, next)
<1> DEFINE f == CHOOSE x : ReverseRecursion(x, h)
           k == Len(s)
           Result(at) == [list |-> at[2], heap |-> Relinked(h, at[3])]
           At0(j, next) == <<Place(s, j), Place(s, j - 1), next>>
           Done(r) == \E next \in NextTypes(n) :
                        Halfway(next, s, k + 1) /\ r = Result(At0(k + 1, next))
<1>1. ReverseRecursion(f, h)
  BY ReverseExists
<1>2. core_list_reverse(h, s[1]) = f[n][<<s[1], NULL, h.next>>]
  <2>1. core_list_reverse(h, s[1]) = f[Cardinality(DOMAIN h.next)][<<s[1], NULL, h.next>>]
    BY DEF core_list_reverse, ReverseRecursion
  <2> QED
    BY <2>1, CellCount
<1> HIDE DEF f
<1>3. /\ k \in Nat /\ k >= 1 /\ k <= n
      /\ \A i \in 1 .. k : s[i] \in CellsOf(n)
  BY ElementOfSeq
<1>4. ASSUME NEW steps \in Nat, NEW at \in Turning(n)
      PROVE  f[steps][at] = IF at[1] = NULL \/ steps = 0 THEN Result(at)
                            ELSE f[steps - 1][Turned(at)]
  <2> DEFINE X == (DOMAIN h.next \cup {NULL}) \X (DOMAIN h.next \cup {NULL})
                  \X [DOMAIN h.next -> DOMAIN h.next \cup {NULL}]
  <2>1. X = Turning(n)
    BY CellCount, Zenon DEF Pointers, NextTypes, Turning
  <2>2. f = [l \in Nat |-> [p \in X |->
                      IF p[1] = NULL \/ l = 0 THEN Result(p)
                      ELSE f[l - 1][Turned(p)]]]
    BY <1>1, Zenon DEF ReverseRecursion, Turned, Relinked
  <2> HIDE DEF X
  <2>3. f[steps] = [p \in X |->
                      IF p[1] = NULL \/ steps = 0 THEN Result(p)
                      ELSE f[steps - 1][Turned(p)]]
    <3> HIDE DEF Result
    <3> QED
      BY <2>2, Zenon
  <2> HIDE DEF Result
  <2> QED
    BY <2>1, <2>3
<1>5. ASSUME NEW steps \in Nat, NEW next \in NextTypes(n), Halfway(next, s, k + 1)
      PROVE  Done(f[steps][At0(k + 1, next)])
  <2> DEFINE at == At0(k + 1, next)
  <2>1. at \in Turning(n) /\ at[1] = NULL
    <3>1. k + 1 \notin 1 .. k /\ (k + 1) - 1 = k /\ k \in 1 .. k
      BY <1>3
    <3>2. at = <<NULL, s[k], next>> /\ s[k] \in CellsOf(n)
      BY <1>3, <3>1 DEF Place
    <3> QED
      BY <3>2 DEF Turning, Pointers
  <2> HIDE DEF at, Result
  <2>2. f[steps][at] = Result(at)
    BY <1>4, <2>1
  <2> QED
    BY <1>5, <2>2 DEF at
<1> DEFINE Good == {steps \in Nat :
                      \A j \in 1 .. k + 1 : \A next \in NextTypes(n) :
                        k + 1 - j <= steps /\ Halfway(next, s, j)
                          => Done(f[steps][At0(j, next)])}
<1> HIDE DEF Done, Result
<1>6. 0 \in Good
  <2> SUFFICES ASSUME NEW j \in 1 .. k + 1, NEW next \in NextTypes(n),
                      k + 1 - j <= 0, Halfway(next, s, j)
               PROVE  Done(f[0][At0(j, next)])
    OBVIOUS
  <2>1. j = k + 1
    BY <1>3
  <2> QED
    BY <1>5, <2>1
<1>7. ASSUME NEW steps \in Nat, steps \in Good PROVE steps + 1 \in Good
  <2> SUFFICES ASSUME NEW j \in 1 .. k + 1, NEW next \in NextTypes(n),
                      k + 1 - j <= steps + 1, Halfway(next, s, j)
               PROVE  Done(f[steps + 1][At0(j, next)])
    OBVIOUS
  <2>1. CASE j = k + 1
    <3>1. steps + 1 \in Nat
      OBVIOUS
    <3> QED
      BY <1>5, <2>1, <3>1
  <2>2. CASE j # k + 1
    <3> DEFINE at == At0(j, next)
               new == [next EXCEPT ![s[j]] = Place(s, j - 1)]
               m == steps + 1
    <3>1. /\ j \in 1 .. k /\ j + 1 \in 1 .. k + 1 /\ k + 1 - (j + 1) <= steps
          /\ (j + 1) - 1 = j
          /\ m \in Nat /\ m # 0 /\ m - 1 = steps
      BY <1>3, <2>2
    <3>2. /\ at \in Turning(n) /\ at[1] # NULL
          /\ Turned(at) = <<Place(s, j + 1), Place(s, j), new>>
          /\ new \in NextTypes(n) /\ Halfway(new, s, j + 1)
      BY <3>1, ReverseStep
    <3>3. Turned(at) = At0(j + 1, new)
      BY <3>1, <3>2
    <3> HIDE DEF new, m
    <3>4. Done(f[steps][At0(j + 1, new)])
      BY <1>7, <3>1, <3>2
    <3> HIDE DEF at
    <3>5. f[m][at] = f[steps][Turned(at)]
      BY <1>4, <3>1, <3>2
    <3> QED
      BY <3>3, <3>4, <3>5 DEF at, m
  <2> QED
    BY <2>1, <2>2
<1>8. \A steps \in Nat : steps \in Good
  <2> HIDE DEF Good
  <2> QED
    BY <1>6, <1>7, AllNumbers
<1>9. Halfway(h.next, s, 1) /\ h.next \in NextTypes(n)
  <2>1. ASSUME NEW i \in 1 .. k PROVE h.next[s[i]] = Place(s, i + 1)
    <3>1. CASE i = k
      BY <1>3, <3>1 DEF Place
    <3>2. CASE i # k
      BY <1>3, <3>2 DEF Links, Place
    <3> QED
      BY <3>1, <3>2
  <2>2. \A i \in 1 .. k : ~ (i < 1)
    OBVIOUS
  <2> QED
    BY <2>1, <2>2 DEF Halfway, LinkType, NextTypes
<1>10. At0(1, h.next) = <<s[1], NULL, h.next>>
  <2>1. 1 \in 1 .. k /\ 1 - 1 \notin 1 .. k
    BY <1>3
  <2> QED
    BY <2>1 DEF Place
<1>11. Done(core_list_reverse(h, s[1]))
  <2>1. n \in Good /\ 1 \in 1 .. k + 1 /\ k + 1 - 1 <= n
    BY <1>3, <1>8
  <2>2. Done(f[n][At0(1, h.next)])
    BY <1>9, <2>1
  <2> QED
    BY <1>2, <1>10, <2>2
<1>12. PICK next \in NextTypes(n) :
         /\ Halfway(next, s, k + 1)
         /\ core_list_reverse(h, s[1]) = Result(At0(k + 1, next))
  BY <1>11 DEF Done
<1>13. At0(k + 1, next)[2] = s[k] /\ At0(k + 1, next)[3] = next
  <2>1. k \in 1 .. k /\ (k + 1) - 1 = k
    BY <1>3
  <2> QED
    BY <2>1 DEF Place
<1>14. core_list_reverse(h, s[1]) = [list |-> s[k], heap |-> Relinked(h, next)]
  <2> DEFINE at == At0(k + 1, next)
  <2> HIDE DEF at
  <2> QED
    BY <1>12, <1>13, Zenon DEF Result, at
<1>15. next[s[1]] = NULL /\ \A i \in 2 .. k : next[s[i]] = s[i - 1]
  <2>1. \A i \in 1 .. k : next[s[i]] = Place(s, i - 1)
    BY <1>3, <1>12 DEF Halfway
  <2>2. 1 \in 1 .. k /\ 1 - 1 \notin 1 .. k
    BY <1>3
  <2>3. ASSUME NEW i \in 2 .. k PROVE next[s[i]] = s[i - 1]
    <3>1. i \in 1 .. k /\ i - 1 \in 1 .. k
      BY <1>3
    <3> QED
      BY <2>1, <3>1 DEF Place
  <2> QED
    BY <2>1, <2>2, <2>3 DEF Place
<1> QED
  BY <1>14, <1>15 DEF ReversedTo

-----------------------------------------------------------------------------
(* The operations on a list.                                                *)

(* The list has the first k cells of an order.                             *)
Listed(next, s, k) == Links(next, s, 1, k) /\ next[s[k]] = NULL

(* Numbers of cells: n of them in use, of c.                               *)
Fit(n, c) == n \in Nat \ {0} /\ c \in Nat /\ n <= c

LEMMA CellsFit ==
  ASSUME NEW n, NEW c, Fit(n, c), NEW s, Order(s, n)
  PROVE  /\ n \in Nat /\ c \in Nat /\ n >= 1
         /\ \A i \in 1 .. n : /\ s[i] \in CellsOf(n) /\ s[i] \in CellsOf(c)
                              /\ s[i] \in Pointers(c) /\ s[i] # NULL
         /\ s \in Seq(CellsOf(c)) /\ Len(s) = n
         /\ NULL \in Pointers(c)
<1>1. n \in Nat /\ c \in Nat /\ n >= 1 /\ CellsOf(n) \subseteq CellsOf(c)
  BY DEF Fit, CellsOf
<1>2. /\ s \in Seq(CellsOf(n)) /\ Len(s) = n
      /\ \A i \in 1 .. n : s[i] \in CellsOf(n)
  BY <1>1, OrderIsSeq
<1>3. s \in Seq(CellsOf(c))
  BY <1>1, <1>2, SeqMonotonic
<1>4. NULL \notin CellsOf(c)
  BY <1>1, NullAssumption DEF CellsOf
<1>5. \A i \in 1 .. n : s[i] \in CellsOf(c)
  BY <1>1, <1>2
<1> QED
  BY <1>1, <1>2, <1>3, <1>4, <1>5 DEF Pointers

(* A fresh cell, behind the first one.                                      *)
Inserted(s, n) ==
  [i \in 1 .. n + 1 |-> IF i = 1 THEN s[1] ELSE IF i = 2 THEN n ELSE s[i - 1]]
LEMMA InsertListed ==
  ASSUME NEW n, NEW c, Fit(n, c), n < c, NEW next, LinkType(next, c),
         NEW s, Order(s, n), Listed(next, s, n),
         NEW next2, next2 = [next EXCEPT ![n] = next[s[1]], ![s[1]] = n]
  PROVE  /\ LinkType(next2, c)
         /\ Order(Inserted(s, n), n + 1) /\ Inserted(s, n)[1] = s[1]
         /\ Listed(next2, Inserted(s, n), n + 1)
<1> DEFINE t == Inserted(s, n)
<1>1. /\ n \in Nat /\ c \in Nat /\ n >= 1
      /\ \A i \in 1 .. n : s[i] \in CellsOf(n) /\ s[i] \in CellsOf(c)
  BY CellsFit
<1>2. n \in CellsOf(c) /\ n \notin CellsOf(n) /\ n \in CellsOf(n + 1)
      /\ CellsOf(n) \subseteq CellsOf(n + 1) /\ n \in Pointers(c)
      /\ CellsOf(n + 1) = CellsOf(n) \cup {n}
  BY <1>1 DEF CellsOf, Pointers
<1>3. next \in [CellsOf(c) -> Pointers(c)]
  BY DEF LinkType
<1>4. LinkType(next2, c)
  <2>1. 1 \in 1 .. n /\ s[1] \in CellsOf(c)
    BY <1>1
  <2>2. next[s[1]] \in Pointers(c)
    BY <1>3, <2>1
  <2> QED
    BY <1>2, <1>3, <2>2 DEF LinkType
<1>5. \A d \in CellsOf(c) : next2[d] = IF d = s[1] THEN n
                                       ELSE IF d = n THEN next[s[1]] ELSE next[d]
  <2>1. 1 \in 1 .. n /\ s[1] \in CellsOf(n) /\ s[1] \in CellsOf(c) /\ s[1] # n
    BY <1>1, <1>2
  <2> QED
    BY <1>2, <1>3, <2>1
<1>6. /\ t \in [1 .. n + 1 -> CellsOf(n + 1)]
      /\ t[1] = s[1] /\ t[2] = n /\ \A i \in 3 .. n + 1 : t[i] = s[i - 1]
  <2>1. \A i \in 1 .. n + 1 : i # 1 /\ i # 2 => i - 1 \in 1 .. n
    BY <1>1
  <2> QED
    BY <1>1, <1>2, <2>1 DEF Inserted
<1> HIDE DEF t
<1>7. Order(t, n + 1)
  <2>1. ASSUME NEW i \in 1 .. n + 1, NEW j \in 1 .. n + 1, t[i] = t[j] PROVE i = j
    <3>1. \A k \in 1 .. n + 1 : \/ k = 1 /\ t[k] = s[1]
                                \/ k = 2 /\ t[k] = n
                                \/ k - 1 \in 2 .. n /\ t[k] = s[k - 1]
      BY <1>1, <1>6
    <3>2. \A k, l \in 1 .. n : s[k] = s[l] => k = l
      BY DEF Order
    <3>3. \A k \in 1 .. n : s[k] # n
      BY <1>1, <1>2
    <3> QED
      BY <1>1, <2>1, <3>1, <3>2, <3>3
  <2>2. ASSUME NEW d \in CellsOf(n + 1) PROVE \E i \in 1 .. n + 1 : t[i] = d
    <3>1. CASE d = n
      BY <1>1, <1>6, <3>1
    <3>2. CASE d # n
      <4>1. PICK i \in 1 .. n : s[i] = d
        BY <1>2, <3>2 DEF Order
      <4>2. CASE i = 1
        BY <1>1, <1>6, <4>1, <4>2
      <4>3. CASE i # 1
        <5>1. i + 1 \in 3 .. n + 1 /\ (i + 1) - 1 = i
          BY <1>1, <4>3
        <5>2. t[i + 1] = d
          BY <1>6, <4>1, <5>1
        <5> QED
          BY <5>1, <5>2
      <4> QED
        BY <4>2, <4>3
    <3> QED
      BY <3>1, <3>2
  <2> QED
    BY <1>6, <2>1, <2>2 DEF Order
<1>8. ASSUME NEW i \in 1 .. n
      PROVE  next2[t[i]] = t[i + 1]
  <2>1. CASE i = 1
    <3>1. 1 \in 1 .. n /\ s[1] \in CellsOf(c)
      BY <1>1
    <3>2. next2[s[1]] = n
      BY <1>5, <3>1
    <3>3. i + 1 = 2
      BY <2>1
    <3> QED
      BY <1>6, <2>1, <3>2, <3>3
  <2>2. CASE i = 2
    <3>1. t[2] = n /\ t[3] = s[2] /\ next2[n] = next[s[1]]
      <4>1. 3 \in 3 .. n + 1 /\ 1 \in 1 .. n /\ s[1] \in CellsOf(n) /\ s[1] # n
        BY <1>1, <1>2, <2>2
      <4>2. t[3] = s[3 - 1]
        BY <1>6, <4>1
      <4> QED
        <5>1. t[2] = n /\ t[3] = s[2]
          BY <1>6, <4>2
        <5>2. next2[n] = next[s[1]]
          BY <1>2, <1>5, <4>1
        <5> QED
          BY <5>1, <5>2
    <3>2. next[s[1]] = s[2]
      BY <1>1, <2>2 DEF Listed, Links
    <3> QED
      BY <2>2, <3>1, <3>2
  <2>3. CASE i > 2
    <3> DEFINE j == i - 1
    <3>1. j \in 2 .. n - 1 /\ j \in 1 .. n /\ j + 1 = i /\ i \in 3 .. n + 1
          /\ i + 1 \in 3 .. n + 1 /\ (i + 1) - 1 = i
      BY <1>1, <2>3
    <3>2. t[i] = s[j] /\ t[i + 1] = s[i]
      BY <1>6, <3>1
    <3> HIDE DEF j
    <3>3. s[j] # s[1] /\ s[j] # n /\ s[j] \in CellsOf(c)
      <4>1. 1 \in 1 .. n /\ j # 1
        BY <1>1, <3>1
      <4> QED
        BY <1>1, <1>2, <3>1, <4>1 DEF Order
    <3>4. next[s[j]] = s[j + 1]
      BY <3>1 DEF Listed, Links
    <3> QED
      BY <1>5, <3>1, <3>2, <3>3, <3>4
  <2> QED
    BY <2>1, <2>2, <2>3
<1>9. next2[t[n + 1]] = NULL
  <2>1. next[s[n]] = NULL
    BY DEF Listed
  <2>2. CASE n = 1
    <3>1. s[1] \in CellsOf(n) /\ s[1] # n
      BY <1>1, <1>2, <2>2
    <3>2. t[n + 1] = n
      BY <1>6, <2>2
    <3> QED
      BY <1>2, <1>5, <2>1, <2>2, <3>1, <3>2
  <2>3. CASE n # 1
    <3>1. n \in 1 .. n /\ 1 \in 1 .. n /\ n + 1 \in 3 .. n + 1 /\ (n + 1) - 1 = n
      BY <1>1, <2>3
    <3>2. t[n + 1] = s[n] /\ s[n] # s[1] /\ s[n] # n /\ s[n] \in CellsOf(c)
      BY <1>1, <1>2, <1>6, <2>3, <3>1 DEF Order
    <3> QED
      BY <1>5, <2>1, <3>2
  <2> QED
    BY <2>2, <2>3
<1>10. Listed(next2, t, n + 1)
  <2>1. (n + 1) - 1 = n
    BY <1>1
  <2> QED
    BY <1>8, <1>9, <2>1 DEF Listed, Links
<1> QED
  BY <1>4, <1>6, <1>7, <1>10 DEF t

(* The reversed list.                                                       *)
LEMMA ReverseListed ==
  ASSUME NEW n, NEW c, Fit(n, c), NEW h, LinkType(h.next, c),
         NEW s, Order(s, n), Listed(h.next, s, n)
  PROVE  \E next \in NextTypes(c) :
           /\ core_list_reverse(h, s[1])
                = [list |-> Backwards(s)[1], heap |-> Relinked(h, next)]
           /\ LinkType(next, c) /\ Listed(next, Backwards(s), n)
           /\ Order(Backwards(s), n)
<1>1. /\ n \in Nat /\ c \in Nat /\ n >= 1
      /\ s \in Seq(CellsOf(c)) /\ Len(s) = n
  BY CellsFit
<1>2. PICK next \in NextTypes(c) : ReversedTo(h, s, next)
  <2>1. n <= c /\ \A i, j \in 1 .. n : s[i] = s[j] => i = j
    BY DEF Fit, Order
  <2>2. Len(s) \in 1 .. c
    BY <1>1, <2>1
  <2>3. Links(h.next, s, 1, Len(s)) /\ h.next[s[Len(s)]] = NULL
    BY <1>1 DEF Listed
  <2>4. Injective(s)
    BY <1>1, <2>1 DEF Injective
  <2> QED
    BY <1>1, <2>2, <2>3, <2>4, ReverseLinks
<1> DEFINE t == Backwards(s)
<1>3. Order(t, n) /\ \A i \in 1 .. n : t[i] = s[n + 1 - i]
  BY <1>1, BackwardsOrder
<1> HIDE DEF t
<1>4. t[1] = s[n] /\ t[n] = s[1]
  BY <1>1, <1>3
<1>5. ASSUME NEW i \in 1 .. n - 1 PROVE next[t[i]] = t[i + 1]
  <2> DEFINE j == n + 1 - i
  <2>1. j \in 2 .. n /\ j - 1 = n + 1 - (i + 1) /\ i \in 1 .. n /\ i + 1 \in 1 .. n
    BY <1>1
  <2>2. t[i] = s[j] /\ t[i + 1] = s[j - 1]
    BY <1>3, <2>1
  <2> HIDE DEF j
  <2> QED
    BY <1>1, <1>2, <2>1, <2>2 DEF ReversedTo
<1>6. Listed(next, t, n)
  BY <1>2, <1>4, <1>5 DEF Listed, Links, ReversedTo
<1>7. LinkType(next, c)
  BY DEF LinkType, NextTypes
<1> QED
  BY <1>1, <1>2, <1>3, <1>4, <1>6, <1>7 DEF t, ReversedTo

(* What follows the place i of the first k cells of an order.              *)
Follower(s, k, i) == IF i < k THEN s[i + 1] ELSE NULL

LEMMA ListedAfter ==
  ASSUME NEW k \in Nat, k >= 1, NEW s, NEW next
  PROVE  Listed(next, s, k) <=> \A i \in 1 .. k : next[s[i]] = Follower(s, k, i)
<1>1. ASSUME Listed(next, s, k), NEW i \in 1 .. k
      PROVE  next[s[i]] = Follower(s, k, i)
  BY <1>1 DEF Listed, Links, Follower
<1>2. ASSUME \A i \in 1 .. k : next[s[i]] = Follower(s, k, i)
      PROVE  Listed(next, s, k)
  <2>1. k \in 1 .. k /\ ~ (k < k)
    OBVIOUS
  <2>2. next[s[k]] = NULL
    BY <1>2, <2>1 DEF Follower
  <2>3. ASSUME NEW i \in 1 .. k - 1 PROVE next[s[i]] = s[i + 1]
    <3>1. i \in 1 .. k /\ i < k
      OBVIOUS
    <3> QED
      BY <1>2, <3>1 DEF Follower
  <2> QED
    BY <2>2, <2>3 DEF Listed, Links
<1> QED
  BY <1>1, <1>2

(* The successor of a cell goes to the second place.                       *)
LEMMA MoveListed ==
  ASSUME NEW n, NEW c, Fit(n, c), NEW next, LinkType(next, c),
         NEW s, Order(s, n), Listed(next, s, n), NEW k \in 1 .. n - 1,
         NEW cut, cut = [next EXCEPT ![s[k]] = next[s[k + 1]]],
         NEW next2, next2 = [cut EXCEPT ![s[k + 1]] = cut[s[1]], ![s[1]] = s[k + 1]]
  PROVE  /\ LinkType(next2, c) /\ Order(Forward(s, 2, k + 1), n)
         /\ Listed(next2, Forward(s, 2, k + 1), n)
<1> DEFINE t == Forward(s, 2, k + 1)
<1>1. /\ n \in Nat /\ c \in Nat /\ n >= 1 /\ NULL \in Pointers(c)
      /\ \A i \in 1 .. n : s[i] \in CellsOf(c) /\ s[i] \in Pointers(c)
  BY CellsFit
<1>2. k \in 1 .. n /\ k + 1 \in 1 .. n /\ 1 \in 1 .. n /\ 2 \in 1 .. n
      /\ k + 1 \in 2 .. n
  BY <1>1
<1>3. \A i \in 1 .. n : next[s[i]] = Follower(s, n, i)
  BY <1>1, ListedAfter
<1>4. next \in [CellsOf(c) -> Pointers(c)] /\ \A d \in CellsOf(c) : next[d] \in Pointers(c)
  BY DEF LinkType
<1>5. /\ cut \in [CellsOf(c) -> Pointers(c)]
      /\ \A d \in CellsOf(c) : cut[d] = IF d = s[k] THEN next[s[k + 1]] ELSE next[d]
  BY <1>1, <1>2, <1>4
<1>6. /\ next2 \in [CellsOf(c) -> Pointers(c)]
      /\ \A d \in CellsOf(c) : next2[d] = IF d = s[1] THEN s[k + 1]
                                          ELSE IF d = s[k + 1] THEN cut[s[1]]
                                          ELSE cut[d]
  <2>1. cut[s[1]] \in Pointers(c)
    BY <1>1, <1>2, <1>5
  <2> QED
    BY <1>1, <1>2, <1>5, <2>1
<1>7. Order(t, n) /\ \A i \in 1 .. n :
        t[i] = IF i = 2 THEN s[k + 1]
               ELSE IF 2 < i /\ i <= k + 1 THEN s[i - 1] ELSE s[i]
  BY <1>1, <1>2, ForwardOrder
<1> HIDE DEF t
<1>8. \A i, j \in 1 .. n : s[i] = s[j] => i = j
  BY DEF Order
<1>9. ASSUME NEW i \in 1 .. n PROVE next2[t[i]] = Follower(t, n, i)
  <2>0. i < n => i + 1 \in 1 .. n
    BY <1>1
  <2>1. CASE i = 1
    <3>1. t[1] = s[1] /\ t[2] = s[k + 1] /\ 1 < n /\ i + 1 = 2
      BY <1>1, <1>2, <1>7, <2>1
    <3>2. next2[s[1]] = s[k + 1]
      BY <1>1, <1>2, <1>6
    <3> QED
      BY <2>1, <3>1, <3>2 DEF Follower
  <2>2. CASE i = 2
    <3>1. t[2] = s[k + 1] /\ s[k + 1] # s[1] /\ s[k + 1] \in CellsOf(c)
      BY <1>1, <1>2, <1>7, <1>8
    <3>2. next2[s[k + 1]] = cut[s[1]]
      BY <1>6, <3>1
    <3>3. CASE k = 1
      <4>1. cut[s[1]] = next[s[2]]
        BY <1>1, <1>2, <1>5, <3>3
      <4>2. next[s[2]] = Follower(s, n, 2)
        BY <1>2, <1>3
      <4>3. 2 < n => t[3] = s[3]
        BY <1>1, <1>7, <3>3
      <4> QED
        BY <2>2, <3>1, <3>2, <4>1, <4>2, <4>3 DEF Follower
    <3>4. CASE k # 1
      <4>1. s[1] # s[k] /\ cut[s[1]] = next[s[1]] /\ 2 < n
        BY <1>1, <1>2, <1>5, <1>8, <3>4
      <4>2. next[s[1]] = s[2]
        <5>1. next[s[1]] = Follower(s, n, 1) /\ 1 < n
          BY <1>1, <1>2, <1>3, <4>1
        <5> QED
          BY <5>1 DEF Follower
      <4>3. t[3] = s[2]
        <5>1. 3 \in 1 .. n /\ 2 < 3 /\ 3 <= k + 1 /\ 3 - 1 = 2
          BY <1>1, <1>2, <3>4
        <5> QED
          BY <1>7, <5>1
      <4> QED
        BY <2>2, <3>1, <3>2, <4>1, <4>2, <4>3 DEF Follower
    <3> QED
      BY <3>3, <3>4
  <2>3. CASE 2 < i /\ i <= k + 1
    <3> DEFINE j == i - 1
    <3>1. j \in 1 .. n /\ j # 1 /\ j # k + 1 /\ j + 1 = i /\ j <= k /\ j < n
      BY <1>1, <1>2, <2>3
    <3>2. t[i] = s[j]
      BY <1>7, <2>3
    <3> HIDE DEF j
    <3>3. next2[s[j]] = cut[s[j]]
      BY <1>1, <1>2, <1>6, <1>8, <3>1
    <3>4. CASE j = k
      <4>1. cut[s[j]] = next[s[k + 1]]
        BY <1>1, <1>2, <1>5, <3>4
      <4>2. next[s[k + 1]] = Follower(s, n, k + 1)
        BY <1>2, <1>3
      <4>3. i < n => t[i + 1] = s[i + 1]
        BY <1>2, <1>7, <2>0, <3>1, <3>4
      <4> QED
        BY <3>1, <3>2, <3>3, <3>4, <4>1, <4>2, <4>3 DEF Follower
    <3>5. CASE j # k
      <4>1. cut[s[j]] = next[s[j]]
        BY <1>1, <1>2, <1>5, <1>8, <3>1, <3>5
      <4>2. next[s[j]] = s[i]
        BY <1>3, <3>1 DEF Follower
      <4>3. i < n /\ i + 1 \in 1 .. n /\ 2 < i + 1 /\ i + 1 <= k + 1 /\ (i + 1) - 1 = i
        BY <1>1, <1>2, <2>0, <2>3, <3>1, <3>5
      <4>4. t[i + 1] = s[i]
        BY <1>7, <4>3
      <4> QED
        BY <3>2, <3>3, <4>1, <4>2, <4>3, <4>4 DEF Follower
    <3> QED
      BY <3>4, <3>5
  <2>4. CASE i > k + 1
    <3>1. t[i] = s[i] /\ i # 1 /\ i # k /\ i # k + 1 /\ (i < n => t[i + 1] = s[i + 1])
      BY <1>2, <1>7, <2>0, <2>4
    <3>2. next2[s[i]] = next[s[i]]
      <4>1. s[i] # s[1] /\ s[i] # s[k] /\ s[i] # s[k + 1] /\ s[i] \in CellsOf(c)
        BY <1>1, <1>2, <1>8, <3>1
      <4> QED
        BY <1>5, <1>6, <4>1
    <3> QED
      BY <1>3, <3>1, <3>2 DEF Follower
  <2> QED
    BY <1>2, <2>1, <2>2, <2>3, <2>4
<1>10. Listed(next2, t, n)
  BY <1>1, <1>9, ListedAfter
<1> QED
  BY <1>6, <1>7, <1>10 DEF t, LinkType

(* The third cell is taken out.                                             *)
LEMMA RemoveListed ==
  ASSUME NEW n, NEW c, Fit(n, c), n >= 3, NEW next, LinkType(next, c),
         NEW s, Order(s, n), Listed(next, s, n),
         NEW next2, next2 = [next EXCEPT ![s[2]] = next[s[3]], ![s[3]] = NULL]
  PROVE  /\ LinkType(next2, c) /\ Order(Back(s, 3, n), n)
         /\ Listed(next2, Back(s, 3, n), n - 1)
         /\ Back(s, 3, n)[n] = s[3]
<1> DEFINE t == Back(s, 3, n)
           m == n - 1
<1>1. /\ n \in Nat /\ c \in Nat /\ n >= 1 /\ NULL \in Pointers(c)
      /\ \A i \in 1 .. n : s[i] \in CellsOf(c) /\ s[i] \in Pointers(c)
  BY CellsFit
<1>2. 1 \in 1 .. n /\ 2 \in 1 .. n /\ 3 \in 1 .. n /\ n \in 3 .. n
  BY <1>1
<1>3. \A i \in 1 .. n : next[s[i]] = Follower(s, n, i)
  BY <1>1, ListedAfter
<1>4. next \in [CellsOf(c) -> Pointers(c)] /\ \A d \in CellsOf(c) : next[d] \in Pointers(c)
  BY DEF LinkType
<1>5. next[s[3]] \in Pointers(c)
  BY <1>1, <1>2, <1>4
<1>6. /\ next2 \in [CellsOf(c) -> Pointers(c)]
      /\ \A d \in CellsOf(c) : next2[d] = IF d = s[3] THEN NULL
                                          ELSE IF d = s[2] THEN next[s[3]]
                                          ELSE next[d]
  BY <1>1, <1>2, <1>4, <1>5
<1>7. Order(t, n) /\ \A i \in 1 .. n :
        t[i] = IF i = n THEN s[3]
               ELSE IF 3 <= i /\ i < n THEN s[i + 1] ELSE s[i]
  BY <1>1, <1>2, BackOrder
<1> HIDE DEF t
<1>8. \A i, j \in 1 .. n : s[i] = s[j] => i = j
  BY DEF Order
<1>9. m \in Nat /\ m >= 2 /\ n = m + 1 /\ \A i \in 1 .. m : i \in 1 .. n /\ i + 1 \in 1 .. n
  BY <1>1
<1>10. ASSUME NEW i \in 1 .. m PROVE next2[t[i]] = Follower(t, m, i)
  <2> HIDE DEF m
  <2>0. i \in 1 .. n /\ i # n /\ i + 1 \in 1 .. n
    BY <1>9
  <2>1. CASE i = 1
    <3>1. t[1] = s[1] /\ t[2] = s[2] /\ 1 < m /\ i + 1 = 2
      BY <1>2, <1>7, <1>9, <2>1
    <3>2. s[1] # s[2] /\ s[1] # s[3] /\ s[1] \in CellsOf(c)
      BY <1>1, <1>2, <1>8
    <3>3. next2[s[1]] = next[s[1]] /\ next[s[1]] = Follower(s, n, 1)
      BY <1>2, <1>3, <1>6, <3>2
    <3> QED
      BY <1>9, <2>1, <3>1, <3>3 DEF Follower
  <2>2. CASE i = 2
    <3>1. t[2] = s[2] /\ i + 1 = 3
      BY <1>2, <1>7, <1>9, <2>2
    <3>2. s[2] # s[3] /\ s[2] \in CellsOf(c)
      BY <1>1, <1>2, <1>8
    <3>3. next2[s[2]] = next[s[3]] /\ next[s[3]] = Follower(s, n, 3)
      BY <1>2, <1>3, <1>6, <3>2
    <3>4. 2 < m => t[3] = s[4]
      BY <1>2, <1>7, <1>9
    <3> QED
      BY <1>9, <2>2, <3>1, <3>3, <3>4 DEF Follower
  <2>3. CASE i > 2
    <3> DEFINE j == i + 1
    <3>1. j \in 1 .. n /\ j # 2 /\ j # 3 /\ t[i] = s[j] /\ (i < m <=> j < n)
      BY <1>7, <1>9, <2>0, <2>3
    <3>2. s[j] # s[2] /\ s[j] # s[3] /\ s[j] \in CellsOf(c)
      BY <1>1, <1>2, <1>8, <3>1
    <3>3. next2[s[j]] = next[s[j]] /\ next[s[j]] = Follower(s, n, j)
      BY <1>3, <1>6, <3>1, <3>2
    <3>4. i < m => t[i + 1] = s[j + 1]
      BY <1>7, <1>9, <2>0, <2>3
    <3> QED
      BY <3>1, <3>3, <3>4 DEF Follower
  <2> QED
    BY <2>1, <2>2, <2>3
<1>11. Listed(next2, t, m)
  <2> HIDE DEF m
  <2>1. m >= 1
    BY <1>9
  <2> QED
    BY <1>9, <1>10, <2>1, ListedAfter
<1>12. t[n] = s[3]
  BY <1>2, <1>7
<1> QED
  BY <1>6, <1>7, <1>11, <1>12 DEF t, LinkType

(* It comes back.                                                           *)
LEMMA UndoListed ==
  ASSUME NEW n, NEW c, Fit(n, c), n >= 3, NEW next, LinkType(next, c),
         NEW s, Order(s, n), Listed(next, s, n - 1),
         NEW next2, next2 = [next EXCEPT ![s[n]] = next[s[2]], ![s[2]] = s[n]]
  PROVE  /\ LinkType(next2, c) /\ Order(Forward(s, 3, n), n)
         /\ Listed(next2, Forward(s, 3, n), n)
<1> DEFINE t == Forward(s, 3, n)
           m == n - 1
<1>1. /\ n \in Nat /\ c \in Nat /\ n >= 1 /\ NULL \in Pointers(c)
      /\ \A i \in 1 .. n : s[i] \in CellsOf(c) /\ s[i] \in Pointers(c)
  BY CellsFit
<1>2. 1 \in 1 .. n /\ 2 \in 1 .. n /\ 3 \in 1 .. n /\ n \in 1 .. n /\ n \in 3 .. n
      /\ m \in Nat /\ m >= 2 /\ n = m + 1 /\ 1 \in 1 .. m /\ 2 \in 1 .. m
  BY <1>1
<1>3. \A i \in 1 .. m : next[s[i]] = Follower(s, m, i)
  <2>1. m >= 1
    BY <1>2
  <2> QED
    BY <1>2, <2>1, ListedAfter
<1>4. next \in [CellsOf(c) -> Pointers(c)] /\ \A d \in CellsOf(c) : next[d] \in Pointers(c)
  BY DEF LinkType
<1>5. next[s[2]] \in Pointers(c)
  BY <1>1, <1>2, <1>4
<1>6. /\ next2 \in [CellsOf(c) -> Pointers(c)]
      /\ \A d \in CellsOf(c) : next2[d] = IF d = s[2] THEN s[n]
                                          ELSE IF d = s[n] THEN next[s[2]]
                                          ELSE next[d]
  BY <1>1, <1>2, <1>4, <1>5
<1>7. Order(t, n) /\ \A i \in 1 .. n :
        t[i] = IF i = 3 THEN s[n]
               ELSE IF 3 < i /\ i <= n THEN s[i - 1] ELSE s[i]
  BY <1>1, <1>2, ForwardOrder
<1> HIDE DEF t
<1>8. \A i, j \in 1 .. n : s[i] = s[j] => i = j
  BY DEF Order
<1>9. ASSUME NEW i \in 1 .. n PROVE next2[t[i]] = Follower(t, n, i)
  <2> HIDE DEF m
  <2>0. i < n => i + 1 \in 1 .. n
    BY <1>1
  <2>1. CASE i = 1
    <3>1. t[1] = s[1] /\ t[2] = s[2] /\ 1 < n /\ 1 < m /\ i + 1 = 2
      BY <1>2, <1>7, <2>1
    <3>2. s[1] # s[2] /\ s[1] # s[n] /\ s[1] \in CellsOf(c)
      BY <1>1, <1>2, <1>8
    <3>3. next2[s[1]] = next[s[1]] /\ next[s[1]] = Follower(s, m, 1)
      BY <1>2, <1>3, <1>6, <3>2
    <3> QED
      BY <2>1, <3>1, <3>3 DEF Follower
  <2>2. CASE i = 2
    <3>1. t[2] = s[2] /\ t[3] = s[n] /\ i + 1 = 3 /\ 2 < n
      BY <1>2, <1>7, <2>2
    <3>2. next2[s[2]] = s[n]
      BY <1>1, <1>2, <1>6
    <3> QED
      BY <2>2, <3>1, <3>2 DEF Follower
  <2>3. CASE i = 3
    <3>1. t[3] = s[n] /\ s[n] # s[2] /\ s[n] \in CellsOf(c)
      BY <1>1, <1>2, <1>7, <1>8
    <3>2. next2[s[n]] = next[s[2]] /\ next[s[2]] = Follower(s, m, 2)
      BY <1>2, <1>3, <1>6, <3>1
    <3>3. (2 < m <=> 3 < n) /\ (3 < n => t[4] = s[3])
      BY <1>2, <1>7
    <3> QED
      BY <2>3, <3>1, <3>2, <3>3 DEF Follower
  <2>4. CASE i > 3
    <3> DEFINE j == i - 1
    <3>1. j \in 1 .. n /\ j \in 1 .. m /\ j # 2 /\ j # n /\ j + 1 = i
          /\ t[i] = s[j] /\ (j < m <=> i < n)
      BY <1>2, <1>7, <2>4
    <3>2. i < n => t[i + 1] = s[i]
      <4>1. i < n => i + 1 \in 1 .. n /\ 3 < i + 1 /\ i + 1 <= n /\ (i + 1) - 1 = i /\ i + 1 # 3
        BY <1>1, <2>4
      <4> QED
        BY <1>7, <4>1
    <3> HIDE DEF j
    <3>3. s[j] # s[2] /\ s[j] # s[n] /\ s[j] \in CellsOf(c)
      BY <1>1, <1>2, <1>8, <3>1
    <3>4. next2[s[j]] = next[s[j]] /\ next[s[j]] = Follower(s, m, j)
      BY <1>3, <1>6, <3>1, <3>3
    <3> QED
      BY <3>1, <3>2, <3>4 DEF Follower
  <2> QED
    BY <2>1, <2>2, <2>3, <2>4
<1>10. Listed(next2, t, n)
  BY <1>1, <1>9, ListedAfter
<1> QED
  BY <1>6, <1>7, <1>10 DEF t, LinkType

-----------------------------------------------------------------------------
(* How core_list_mergesort links the cells: those before the place m are   *)
(* merged, those after it up to e are the rest of the run at p.  The last  *)
(* one of each may point anywhere.                                          *)
SortLinks(next, s, n, m, e) ==
  \A i \in 1 .. n : i # m /\ i # e => next[s[i]] = Follower(s, n, i)

LEMMA LinkP ==
  ASSUME NEW n, NEW c, Fit(n, c), NEW next, LinkType(next, c), NEW s, Order(s, n),
         NEW m \in Nat, NEW e \in Nat, m < e, e <= n, SortLinks(next, s, n, m, e),
         NEW next2, next2 = IF m = 0 THEN next ELSE [next EXCEPT ![s[m]] = s[m + 1]]
  PROVE  LinkType(next2, c) /\ SortLinks(next2, s, n, m + 1, e)
<1>1. /\ n \in Nat /\ c \in Nat /\ n >= 1
      /\ \A i \in 1 .. n : s[i] \in CellsOf(c) /\ s[i] \in Pointers(c)
  BY CellsFit
<1>2. next \in [CellsOf(c) -> Pointers(c)]
  BY DEF LinkType
<1>3. CASE m = 0
  BY <1>1, <1>3 DEF SortLinks
<1>4. CASE m # 0
  <2>1. m \in 1 .. n /\ m + 1 \in 1 .. n /\ m < n
    BY <1>1, <1>4
  <2>2. /\ next2 \in [CellsOf(c) -> Pointers(c)]
        /\ \A d \in CellsOf(c) : next2[d] = IF d = s[m] THEN s[m + 1] ELSE next[d]
    BY <1>1, <1>2, <1>4, <2>1
  <2>3. ASSUME NEW i \in 1 .. n, i # m + 1, i # e
        PROVE  next2[s[i]] = Follower(s, n, i)
    <3>1. CASE i = m
      BY <1>1, <2>1, <2>2, <3>1 DEF Follower
    <3>2. CASE i # m
      <4>1. s[i] # s[m] /\ s[i] \in CellsOf(c)
        BY <1>1, <2>1, <3>2 DEF Order
      <4> QED
        BY <2>2, <2>3, <3>2, <4>1 DEF SortLinks
    <3> QED
      BY <3>1, <3>2
  <2> QED
    BY <2>2, <2>3 DEF LinkType, SortLinks
<1> QED
  BY <1>3, <1>4

LEMMA LinkQ ==
  ASSUME NEW n, NEW c, Fit(n, c), NEW next, LinkType(next, c), NEW s, Order(s, n),
         NEW m \in Nat, NEW e \in Nat, m <= e, e < n, SortLinks(next, s, n, m, e),
         NEW next2, next2 = IF m = 0 THEN next ELSE [next EXCEPT ![s[m]] = s[e + 1]]
  PROVE  /\ LinkType(next2, c) /\ Order(Forward(s, m + 1, e + 1), n)
         /\ SortLinks(next2, Forward(s, m + 1, e + 1), n, m + 1, e + 1)
<1> DEFINE t == Forward(s, m + 1, e + 1)
<1>1. /\ n \in Nat /\ c \in Nat /\ n >= 1
      /\ \A i \in 1 .. n : s[i] \in CellsOf(c) /\ s[i] \in Pointers(c)
      /\ m + 1 \in 1 .. n /\ e + 1 \in 1 .. n /\ e + 1 \in m + 1 .. n
  BY CellsFit
<1>2. next \in [CellsOf(c) -> Pointers(c)]
  BY DEF LinkType
<1>3. /\ next2 \in [CellsOf(c) -> Pointers(c)]
      /\ \A d \in CellsOf(c) : next2[d] = IF m # 0 /\ d = s[m] THEN s[e + 1] ELSE next[d]
  <2>1. CASE m = 0
    BY <1>2, <2>1
  <2>2. CASE m # 0
    <3>1. m \in 1 .. n
      BY <1>1, <2>2
    <3> QED
      BY <1>1, <1>2, <2>2, <3>1
  <2> QED
    BY <2>1, <2>2
<1>4. Order(t, n) /\ \A i \in 1 .. n :
        t[i] = IF i = m + 1 THEN s[e + 1]
               ELSE IF m + 1 < i /\ i <= e + 1 THEN s[i - 1] ELSE s[i]
  BY <1>1, ForwardOrder
<1> HIDE DEF t
<1>5. /\ \A i \in 1 .. n : i <= m => t[i] = s[i]
      /\ t[m + 1] = s[e + 1]
      /\ \A i \in 1 .. n : m + 1 < i /\ i <= e + 1 => t[i] = s[i - 1] /\ i - 1 \in m + 1 .. e
      /\ \A i \in 1 .. n : e + 1 < i => t[i] = s[i]
  BY <1>1, <1>4
<1>6. \A i \in 1 .. n : i # m => next2[s[i]] = next[s[i]]
  <2>1. \A i \in 1 .. n : m # 0 => m \in 1 .. n
    BY <1>1
  <2> QED
    BY <1>1, <1>3, <2>1 DEF Order
<1>7. ASSUME NEW i \in 1 .. n, i # m + 1, i # e + 1
      PROVE  next2[t[i]] = Follower(t, n, i)
  <2>0. i < n => i + 1 \in 1 .. n
    BY <1>1
  <2>1. CASE i < m
    <3>1. t[i] = s[i] /\ t[i + 1] = s[i + 1] /\ i # e /\ i < n
      BY <1>1, <1>5, <2>0, <2>1
    <3>2. next[s[i]] = s[i + 1]
      BY <2>1, <3>1 DEF SortLinks, Follower
    <3> QED
      BY <1>6, <2>1, <3>1, <3>2 DEF Follower
  <2>2. CASE i = m
    <3>1. t[i] = s[m] /\ t[i + 1] = s[e + 1] /\ i < n /\ s[m] \in CellsOf(c) /\ m # 0
      BY <1>1, <1>5, <2>2
    <3>2. next2[s[m]] = s[e + 1]
      BY <1>3, <3>1
    <3> QED
      BY <3>1, <3>2 DEF Follower
  <2>3. CASE m + 1 < i /\ i < e + 1
    <3>1. t[i] = s[i - 1] /\ i - 1 \in 1 .. n /\ i - 1 # m /\ i - 1 # e /\ i - 1 < n /\ i < n
      BY <1>1, <1>5, <2>3
    <3>2. t[i + 1] = s[i]
      <4>1. m + 1 < i + 1 /\ i + 1 <= e + 1 /\ (i + 1) - 1 = i
        BY <1>1, <2>3
      <4> QED
        BY <1>5, <2>0, <3>1, <4>1
    <3>3. next[s[i - 1]] = s[i]
      <4>1. (i - 1) + 1 = i
        OBVIOUS
      <4>2. next[s[i - 1]] = Follower(s, n, i - 1)
        BY <3>1 DEF SortLinks
      <4> QED
        BY <3>1, <4>1, <4>2 DEF Follower
    <3> QED
      BY <1>6, <3>1, <3>2, <3>3 DEF Follower
  <2>4. CASE e + 1 < i
    <3>1. t[i] = s[i] /\ (i < n => t[i + 1] = s[i + 1]) /\ i # m /\ i # e
      BY <1>1, <1>5, <2>0, <2>4
    <3> QED
      BY <1>6, <3>1 DEF SortLinks, Follower
  <2> QED
    BY <1>1, <1>7, <2>1, <2>2, <2>3, <2>4
<1> QED
  BY <1>3, <1>4, <1>7 DEF t, LinkType, SortLinks

LEMMA LinkEnd ==
  ASSUME NEW n, NEW c, Fit(n, c), NEW next, LinkType(next, c), NEW s, Order(s, n),
         SortLinks(next, s, n, n, n), NEW next2, next2 = [next EXCEPT ![s[n]] = NULL]
  PROVE  LinkType(next2, c) /\ Listed(next2, s, n)
<1>1. /\ n \in Nat /\ c \in Nat /\ n >= 1 /\ n \in 1 .. n /\ NULL \in Pointers(c)
      /\ \A i \in 1 .. n : s[i] \in CellsOf(c) /\ s[i] \in Pointers(c)
  BY CellsFit
<1>2. next \in [CellsOf(c) -> Pointers(c)]
  BY DEF LinkType
<1>3. /\ next2 \in [CellsOf(c) -> Pointers(c)]
      /\ \A d \in CellsOf(c) : next2[d] = IF d = s[n] THEN NULL ELSE next[d]
  BY <1>1, <1>2
<1>4. ASSUME NEW i \in 1 .. n PROVE next2[s[i]] = Follower(s, n, i)
  <2>1. CASE i = n
    BY <1>1, <1>3, <2>1 DEF Follower
  <2>2. CASE i # n
    <3>1. s[i] # s[n] /\ s[i] \in CellsOf(c)
      BY <1>1, <2>2 DEF Order
    <3> QED
      BY <1>3, <2>2, <3>1 DEF SortLinks
  <2> QED
    BY <2>1, <2>2
<1>5. Listed(next2, s, n)
  BY <1>1, <1>4, ListedAfter
<1> QED
  BY <1>3, <1>5 DEF LinkType

(* A list is where a pass starts.                                           *)
LEMMA LinkStart ==
  ASSUME NEW n \in Nat, n >= 1, NEW next, NEW s, Listed(next, s, n)
  PROVE  SortLinks(next, s, n, 0, 0)
BY ListedAfter DEF SortLinks

(* The cells that a run at q has.                                           *)
LEMMA ChainOfRest ==
  ASSUME NEW n, NEW c, Fit(n, c), NEW h, LinkType(h.next, c), NEW s, Order(s, n),
         NEW m \in Nat, m < n, \A i \in m + 1 .. n : h.next[s[i]] = Follower(s, n, i)
  PROVE  Chain(h, s[m + 1]) = SubSeq(s, m + 1, n)
<1>1. /\ n \in Nat /\ c \in Nat /\ n >= 1 /\ s \in Seq(CellsOf(c)) /\ Len(s) = n
      /\ n <= c
  BY CellsFit DEF Fit
<1>2. Links(h.next, s, m + 1, n)
  <2>1. \A i \in m + 1 .. n - 1 : i \in m + 1 .. n /\ i < n
    BY <1>1
  <2> QED
    BY <2>1 DEF Links, Follower
<1>3. h.next[s[n]] = NULL
  <2>1. n \in m + 1 .. n /\ ~ (n < n)
    BY <1>1
  <2> QED
    BY <2>1 DEF Follower
<1>4. m + 1 \in 1 .. Len(s) /\ n \in m + 1 .. Len(s) /\ n - (m + 1) < c
  BY <1>1
<1>5. PICK w \in Seq(CellsOf(c)) :
        /\ Chain(h, s[m + 1]) = SubSeq(s, m + 1, n) \o w
        /\ h.next[s[n]] = NULL => w = <<>>
  <2> DEFINE a == m + 1
  <2>1. a \in 1 .. Len(s) /\ n \in a .. Len(s) /\ n - a < c /\ Links(h.next, s, a, n)
    BY <1>2, <1>4
  <2> HIDE DEF a
  <2>2. ChainHas(h, s, a, n, c)
    BY <1>1, <2>1, ChainSegment
  <2> QED
    BY <2>2 DEF a, ChainHas
<1>6. SubSeq(s, m + 1, n) \in Seq(CellsOf(c))
  <2>1. \A i \in m + 1 .. n : s[i] \in CellsOf(c)
    BY <1>1, CellsFit
  <2> QED
    BY <1>1, <1>4, <2>1, SubSeqProperties
<1> QED
  BY <1>3, <1>5, <1>6

-----------------------------------------------------------------------------
(* Types of what the loops compute.                                         *)
LoopBody(body, S, n) == \A x \in S, i \in 0 .. n - 1 : body[x][i] \in S
LEMMA LoopType ==
  ASSUME NEW S, NEW n \in Nat, NEW x0 \in S, NEW body, LoopBody(body, S, n)
  PROVE  Loop(n, x0, body) \in S
<1> DEFINE step == [k \in Nat |-> [x \in S |-> IF k < n THEN body[x][k] ELSE x]]
           Runs(f) == f = [i \in 0 .. n |-> IF i = 0 THEN x0 ELSE body[f[i - 1]][i - 1]]
           run == CHOOSE f : Runs(f)
<1>1. step \in [Nat -> [S -> S]]
  BY DEF LoopBody
<1>2. PICK g \in [Nat -> S] : Recursion(g, x0, step)
  <2> HIDE DEF step
  <2> QED
    BY <1>1, RecursionExists
<1>3. g[0] = x0 /\ \A i \in Nat : g[i + 1] = step[i][g[i]] /\ g[i] \in S
  BY <1>2 DEF Recursion
<1>4. \A i \in 1 .. n : g[i] = body[g[i - 1]][i - 1]
  <2> SUFFICES ASSUME NEW i \in 1 .. n PROVE g[i] = body[g[i - 1]][i - 1]
    OBVIOUS
  <2>1. i - 1 \in Nat /\ (i - 1) + 1 = i /\ i - 1 < n
    OBVIOUS
  <2>2. step[i - 1][g[i - 1]] = body[g[i - 1]][i - 1]
    BY <1>3, <2>1
  <2> HIDE DEF step
  <2> QED
    BY <1>3, <2>1, <2>2
<1> HIDE DEF step
<1>5. Runs([i \in 0 .. n |-> g[i]])
  <2> DEFINE f == [i \in 0 .. n |-> g[i]]
  <2>1. \A i \in 0 .. n : i # 0 => i - 1 \in 0 .. n /\ i \in 1 .. n
    OBVIOUS
  <2>2. \A i \in 0 .. n : f[i] = IF i = 0 THEN x0 ELSE body[f[i - 1]][i - 1]
    BY <1>3, <1>4, <2>1
  <2>3. f = [i \in 0 .. n |-> f[i]]
    OBVIOUS
  <2> HIDE DEF f
  <2>4. Runs(f)
    BY <2>2, <2>3
  <2> QED
    BY <2>4 DEF f
<1>6. Runs(run)
  <2> HIDE DEF Runs
  <2> QED
    BY <1>5
<1>7. Loop(n, x0, body) = run[n]
  BY DEF Loop
<1> HIDE DEF run
<1> DEFINE Good == {i \in Nat : i <= n => run[i] \in S}
<1>8. 0 \in Good
  BY <1>6
<1>9. ASSUME NEW i \in Nat, i \in Good PROVE i + 1 \in Good
  <2> SUFFICES ASSUME i + 1 <= n PROVE run[i + 1] \in S
    OBVIOUS
  <2>1. run[i + 1] = body[run[i]][i] /\ run[i] \in S /\ i \in 0 .. n - 1
    BY <1>6, <1>9
  <2> QED
    BY <2>1 DEF LoopBody
<1>10. n \in Good
  <2> HIDE DEF Good
  <2> QED
    BY <1>8, <1>9, AllNumbers
<1> QED
  BY <1>7, <1>10

LEMMA WordsAre ==
  Words \subseteq Nat /\ \A k \in Nat : k \in Words <=> k <= 65535
<1> DEFINE top == 65535
<1>1. Words = 0 .. top
  BY DEF Words
<1>2. top \in Nat
  OBVIOUS
<1> HIDE DEF top
<1>3. Words \subseteq Nat /\ \A k \in Nat : k \in Words <=> k <= top
  BY <1>1, <1>2
<1> QED
  BY <1>3 DEF top

LEMMA ShiftType ==
  ASSUME NEW bit, NEW crc \in Nat
  PROVE  /\ ShiftBit(bit, crc) \in Nat
         /\ crc \in Words => ShiftBit(bit, crc) \in Words
<1> DEFINE h == crc \div 2
<1>0. \A k \in Nat : k \in Words <=> k <= 65535
  BY WordsAre
<1>1. h \in Nat /\ (crc \in Words => h <= 32767)
  <2>1. h \in Nat /\ crc >= 2 * h
    OBVIOUS
  <2> HIDE DEF h
  <2> QED
    BY <1>0, <2>1
<1>2. ASSUME NEW k \in Nat
      PROVE  /\ Flip(k, 1) \in Nat /\ Flip(k, 8192) \in Nat
             /\ k <= 32767 => Flip(k, 1) <= 32767 /\ Flip(k, 8192) <= 32767
  BY DEF Flip, Bit
<1>3. Flip(h, 1) \in Nat /\ (h <= 32767 => Flip(h, 1) <= 32767)
  BY <1>1, <1>2
<1>4. /\ Flip(Flip(h, 1), 8192) \in Nat
      /\ h <= 32767 => Flip(Flip(h, 1), 8192) <= 32767
  BY <1>2, <1>3
<1>5. /\ ShiftBit(bit, crc) \in Nat
      /\ crc \in Words => ShiftBit(bit, crc) <= 65535
  <2> DEFINE turned == Flip(Flip(h, 1), 8192)
  <2>1. ShiftBit(bit, crc) = IF bit = crc % 2 THEN h ELSE turned + 32768
    BY DEF ShiftBit
  <2>2. turned \in Nat /\ (h <= 32767 => turned <= 32767)
    BY <1>4
  <2> HIDE DEF turned, h
  <2> QED
    BY <1>1, <2>1, <2>2
<1> QED
  BY <1>0, <1>5

(* A checksum remains a natural number, and in 16 bits.                     *)
Keeps(f, S) == \A crc \in S : f[crc] \in S
Crcs(f) == Keeps(f, Nat) /\ Keeps(f, Words)

LEMMA Crc8Type ==
  ASSUME NEW newval \in Nat
  PROVE  Crcs(crcu8[newval])
<1> DEFINE body == [x \in Nat |-> [i \in Nat |-> ShiftBit((newval \div 2^i) % 2, x)]]
<1>1. \A crc \in Nat : crcu8[newval][crc] = Loop(8, crc, body)
  BY Zenon DEF crcu8
<1>2. \A x, i \in Nat : \E bit : body[x][i] = ShiftBit(bit, x)
  <2> SUFFICES ASSUME NEW x \in Nat, NEW i \in Nat
               PROVE  \E bit : body[x][i] = ShiftBit(bit, x)
    OBVIOUS
  <2> DEFINE bit == (newval \div 2^i) % 2
  <2>1. body[x][i] = ShiftBit(bit, x)
    BY Zenon
  <2> HIDE DEF bit, body
  <2> QED
    BY <2>1
<1> HIDE DEF body
<1>3. LoopBody(body, Nat, 8)
  BY <1>2, ShiftType DEF LoopBody
<1>4. LoopBody(body, Words, 8)
  <2>1. Words \subseteq Nat
    BY WordsAre
  <2>2. \A i \in 0 .. 8 - 1 : i \in Nat
    OBVIOUS
  <2> QED
    BY <1>2, <2>1, <2>2, ShiftType DEF LoopBody
<1>5. \A crc \in Words : crc \in Nat
  BY WordsAre
<1> QED
  BY <1>1, <1>3, <1>4, <1>5, LoopType DEF Crcs, Keeps

LEMMA Crc16Type ==
  ASSUME NEW newval \in Nat
  PROVE  Crcs(crcu16[newval])
<1>1. newval \div 256 \in Nat /\ newval % 256 \in Nat
  OBVIOUS
<1>2. \A crc \in Nat :
        crcu16[newval][crc] = crcu8[newval \div 256][crcu8[newval % 256][crc]]
  BY Zenon DEF crcu16
<1>3. Crcs(crcu8[newval \div 256]) /\ Crcs(crcu8[newval % 256])
  BY <1>1, Crc8Type
<1>4. \A crc \in Words : crc \in Nat
  BY WordsAre
<1> HIDE DEF crcu16
<1> QED
  BY <1>2, <1>3, <1>4 DEF Crcs, Keeps

LEMMA Crc32Type ==
  ASSUME NEW newval \in Nat
  PROVE  Crcs(crcu32[newval])
<1>1. newval \div 65536 \in Nat /\ u16(newval) \in Nat
  BY DEF u16
<1>2. \A crc \in Nat :
        crcu32[newval][crc] = crcu16[newval \div 65536][crcu16[u16(newval)][crc]]
  BY SMT DEF crcu32
<1>3. Crcs(crcu16[newval \div 65536]) /\ Crcs(crcu16[u16(newval)])
  BY <1>1, Crc16Type
<1>4. \A crc \in Words : crc \in Nat
  BY WordsAre
<1> QED
  BY <1>2, <1>3, <1>4 DEF Crcs, Keeps

LEMMA CrcSignedType ==
  ASSUME NEW newval \in Int
  PROVE  Crcs(crc16[newval])
<1>1. u16(newval) \in Nat
  BY DEF u16
<1>2. crc16[newval] = crcu16[u16(newval)]
  BY Zenon DEF crc16
<1> QED
  BY <1>1, <1>2, Crc16Type

(* The state benchmark returns a word.                                      *)
LEMMA StateResultType ==
  ASSUME scan.crc \in Words,
         scan.track \in [StateSet -> Nat], scan.final \in [StateSet -> Nat]
  PROVE  state_result \in Words
<1> DEFINE new(i, crc) == crcu32[scan.track[CoreStates[i + 1]]]
                                [crcu32[scan.final[CoreStates[i + 1]]][crc]]
           body == [crc \in Nat |-> [i \in Nat |-> new(i, crc)]]
<1>1. state_result = Loop(8, scan.crc, body)
  BY Zenon DEF state_result
<1>2. ASSUME NEW i \in 0 .. 8 - 1, NEW crc \in Words
      PROVE  new(i, crc) \in Words
  <2>1. CoreStates[i + 1] \in StateSet
    <3>1. i + 1 \in 1 .. 8
      OBVIOUS
    <3> QED
      BY <3>1 DEF StateSet
  <2>2. scan.track[CoreStates[i + 1]] \in Nat /\ scan.final[CoreStates[i + 1]] \in Nat
    BY <2>1
  <2> QED
    BY <2>2, Crc32Type DEF Crcs, Keeps
<1>3. LoopBody(body, Words, 8)
  <2>1. \A crc \in Words : crc \in Nat
    BY WordsAre
  <2>2. \A i \in 0 .. 8 - 1 : i \in Nat
    OBVIOUS
  <2>3. \A crc, i \in Nat : body[crc][i] = new(i, crc)
    BY Zenon
  <2> HIDE DEF new, body
  <2> QED
    BY <1>2, <2>1, <2>2, <2>3 DEF LoopBody
<1> HIDE DEF body
<1> QED
  BY <1>1, <1>3, LoopType

(* Rows and columns.                                                        *)
LEMMA Places ==
  ASSUME NEW N \in Nat
  PROVE  /\ \A r, k \in 0 .. N - 1 : r * N + k \in Elements(N)
         /\ \A e \in Elements(N) : e \div N \in 0 .. N - 1 /\ e % N \in 0 .. N - 1
<1>1. ASSUME NEW r \in 0 .. N - 1, NEW k \in 0 .. N - 1
      PROVE  r * N + k \in 0 .. N * N - 1
  <2> DEFINE x == r * N
             y == (N - 1 - r) * N
  <2>1. x \in Int /\ y \in Int /\ x >= 0 /\ y >= 0
    OBVIOUS
  <2>2. N * N = x + y + N
    OBVIOUS
  <2> HIDE DEF x, y
  <2>3. x + k \in 0 .. (x + y + N) - 1
    BY <2>1
  <2> QED
    BY <2>2, <2>3 DEF x
<1>2. ASSUME NEW e \in 0 .. N * N - 1
      PROVE  e \div N \in 0 .. N - 1 /\ e % N \in 0 .. N - 1
  <2>1. N >= 1
    <3>1. N = 0 => N * N = 0
      OBVIOUS
    <3> QED
      BY <3>1
  <2> DEFINE q == e \div N
             m == e % N
             x == q * N
  <2>2. q \in Int /\ m \in 0 .. N - 1 /\ e = x + m /\ x \in Int
    BY <2>1
  <2>3. q >= 0
    BY <2>1
  <2>4. q < N
    <3> SUFFICES ASSUME q >= N PROVE FALSE
      BY <2>2
    <3>1. (q - N) * N >= 0 /\ x = (q - N) * N + N * N
      BY <2>2
    <3> DEFINE u == (q - N) * N
               v == N * N
    <3>2. u >= 0 /\ x = u + v /\ e <= v - 1 /\ u \in Int /\ v \in Int
      BY <2>2, <3>1
    <3> HIDE DEF u, v, x, q, m
    <3> QED
      BY <2>2, <3>2
  <2> QED
    BY <2>2, <2>3, <2>4
<1> QED
  BY <1>1, <1>2 DEF Elements

LEMMA DotType ==
  ASSUME NEW N \in Nat, NEW term \in [0 .. N - 1 -> Int]
  PROVE  Dot(N, term) \in Int
<1> DEFINE body == [sum \in Int |-> [k \in Nat |-> sum + term[k]]]
<1>1. LoopBody(body, Int, N)
  BY DEF LoopBody
<1> HIDE DEF body
<1> QED
  BY <1>1, LoopType DEF Dot, body

LEMMA ProductType ==
  ASSUME NEW N \in Nat, NEW A \in [Elements(N) -> Int], NEW B \in [Elements(N) -> Int],
         NEW extract \in [Int -> Int]
  PROVE  MatrixProduct(N, A, B, extract) \in [Elements(N) -> Int]
<1>1. ASSUME NEW e \in Elements(N)
      PROVE  Dot(N, [k \in 0 .. N - 1 |->
                 extract[A[(e \div N) * N + k] * B[k * N + (e % N)]]]) \in Int
  <2>1. ASSUME NEW k \in 0 .. N - 1
        PROVE  extract[A[(e \div N) * N + k] * B[k * N + (e % N)]] \in Int
    <3> DEFINE i == (e \div N) * N + k
               j == k * N + (e % N)
    <3>1. i \in Elements(N) /\ j \in Elements(N)
      BY Places
    <3> HIDE DEF i, j
    <3>2. A[i] \in Int /\ B[j] \in Int
      BY <3>1
    <3>3. A[i] * B[j] \in Int
      BY <3>2
    <3>4. extract[A[i] * B[j]] \in Int
      BY <3>3
    <3> QED
      BY <3>4 DEF i, j
  <2> DEFINE term == [k \in 0 .. N - 1 |->
                 extract[A[(e \div N) * N + k] * B[k * N + (e % N)]]]
  <2>2. term \in [0 .. N - 1 -> Int]
    BY <2>1
  <2> HIDE DEF term
  <2>3. Dot(N, term) \in Int
    BY <2>2, DotType
  <2> QED
    BY <2>3 DEF term
<1>2. DOMAIN A = Elements(N)
  OBVIOUS
<1> QED
  BY <1>1, <1>2 DEF MatrixProduct

LEMMA SumType ==
  ASSUME NEW N \in Nat, NEW C \in [Elements(N) -> Int], NEW clipval \in Int
  PROVE  matrix_sum(N, C, clipval) \in Nat
<1> DEFINE Sums == [ret : Nat, tmp : Int, prev : Int]
           next(was, e) ==
         IF was.tmp + C[e] > clipval
          THEN [ret |-> was.ret + 10, tmp |-> 0, prev |-> C[e]]
          ELSE [ret |-> was.ret + (IF C[e] > was.prev THEN 1 ELSE 0),
                tmp |-> was.tmp + C[e], prev |-> C[e]]
           body == [was \in Sums |-> [e \in Nat |-> next(was, e)]]
           zero == [ret |-> 0, tmp |-> 0, prev |-> 0]
<1>1. ASSUME NEW was \in Sums, NEW e \in 0 .. N * N - 1
      PROVE  next(was, e) \in Sums
  <2>1. C[e] \in Int
    BY DEF Elements
  <2> QED
    BY <2>1
<1>2. N * N \in Nat
  OBVIOUS
<1>3. LoopBody(body, Sums, N * N)
  <2>1. \A was \in Sums, e \in Nat : body[was][e] = next(was, e)
    BY Zenon
  <2>2. \A e \in 0 .. N * N - 1 : e \in Nat
    BY <1>2
  <2> HIDE DEF Sums, next, body
  <2> QED
    BY <1>1, <2>1, <2>2 DEF LoopBody
<1>4. zero \in Sums
  OBVIOUS
<1>5. matrix_sum(N, C, clipval) = Loop(N * N, zero, body).ret
  BY Zenon DEF matrix_sum
<1>6. Loop(N * N, zero, body) \in Sums
  <2> DEFINE n == N * N
  <2>1. n \in Nat /\ LoopBody(body, Sums, n)
    BY <1>2, <1>3
  <2> HIDE DEF n, Sums, body, zero
  <2>2. Loop(n, zero, body) \in Sums
    BY <1>4, <2>1, LoopType
  <2> QED
    BY <2>2 DEF n
<1> HIDE DEF body, zero
<1> QED
  BY <1>5, <1>6

(* So does the matrix benchmark.                                            *)
ChecksumOf(N, C, clipval, crc) == crc16[matrix_sum(N, C, clipval)][crc]
LEMMA ChecksumType ==
  ASSUME NEW N \in Nat, NEW C \in [Elements(N) -> Int], NEW clipval \in Int,
         NEW crc \in Words
  PROVE  ChecksumOf(N, C, clipval, crc) \in Words
<1>1. matrix_sum(N, C, clipval) \in Int
  BY SumType
<1>2. Crcs(crc16[matrix_sum(N, C, clipval)])
  BY <1>1, CrcSignedType
<1> QED
  BY <1>2 DEF Crcs, Keeps, ChecksumOf

LEMMA MatrixCrcType ==
  ASSUME MatrixOK(mat), NEW val \in Int, NEW crc \in Words
  PROVE  core_bench_matrix(val, crc).crc \in Words
<1> DEFINE N == mat.N
           A == matrix_add_const(mat.A, val)
           B == mat.B
           clip == matrix_big(val)
           C1 == matrix_mul_const(A, val)
           C2 == matrix_mul_vect(N, C1, A, B)
           C3 == matrix_mul_matrix(N, A, B)
           C4 == matrix_mul_matrix_bitextract(N, A, B)
           S == [Elements(N) -> Int]
           t == matrix_test(N, mat.A, B, val)
<1>1. N \in Nat /\ B \in S /\ mat.A \in S
  <2>1. 0 .. 255 \subseteq Int
    OBVIOUS
  <2> QED
    BY <2>1 DEF MatrixOK
<1>2. A \in S
  BY <1>1 DEF matrix_add_const, s16
<1>3. clip \in Int
  BY DEF matrix_big, s16
<1>4. t.crc = ChecksumOf(N, C4, clip, ChecksumOf(N, C3, clip,
                ChecksumOf(N, C2, clip, ChecksumOf(N, C1, clip, 0))))
  <2>1. mat.A \in S /\ A \in S
    BY <1>1, <1>2
  <2> QED
    BY <2>1, Zenon DEF matrix_test, ChecksumOf
<1> HIDE DEF A, clip
<1>5. C1 \in S
  BY <1>2 DEF matrix_mul_const
<1> HIDE DEF C1
<1>6. C2 \in S
  <2>1. ASSUME NEW e \in Elements(N), e < N
        PROVE  Dot(N, [j \in 0 .. N - 1 |-> A[e * N + j] * B[j]]) \in Int
    <3> DEFINE term == [j \in 0 .. N - 1 |-> A[e * N + j] * B[j]]
    <3>1. ASSUME NEW j \in 0 .. N - 1 PROVE A[e * N + j] * B[j] \in Int
      <4>1. e \in 0 .. N - 1 /\ 0 \in 0 .. N - 1
        BY <1>1, <2>1 DEF Elements
      <4>2. e * N + j \in Elements(N) /\ 0 * N + j \in Elements(N)
        BY <1>1, <4>1, Places
      <4>3. j \in Elements(N)
        BY <1>1, <4>2
      <4> DEFINE i == e * N + j
      <4>4. i \in Elements(N)
        BY <4>2
      <4> HIDE DEF i, N, B
      <4>5. A[i] \in Int /\ B[j] \in Int
        BY <1>1, <1>2, <4>3, <4>4
      <4>6. A[i] * B[j] \in Int
        BY <4>5
      <4> QED
        BY <4>6 DEF i
    <3>2. term \in [0 .. N - 1 -> Int]
      BY <3>1
    <3> HIDE DEF term
    <3>3. Dot(N, term) \in Int
      BY <1>1, <3>2, DotType
    <3> QED
      BY <3>3 DEF term
  <2>2. DOMAIN C1 = Elements(N) /\ \A e \in Elements(N) : C1[e] \in Int
    BY <1>5
  <2> HIDE DEF N, B
  <2> QED
    BY <2>1, <2>2 DEF matrix_mul_vect
<1>7. C3 \in S
  <2> DEFINE same == [x \in Int |-> x]
  <2>1. same \in [Int -> Int]
    OBVIOUS
  <2> HIDE DEF same
  <2>2. MatrixProduct(N, A, B, same) \in S
    BY <1>1, <1>2, <2>1, ProductType
  <2> QED
    BY <2>2 DEF same, matrix_mul_matrix
<1>8. C4 \in S
  <2> DEFINE bits == [x \in Int |-> bit_extract(x, 4, 16) * bit_extract(x, 32, 128)]
  <2>1. ASSUME NEW x \in Int PROVE bit_extract(x, 4, 16) * bit_extract(x, 32, 128) \in Int
    <3>1. bit_extract(x, 4, 16) \in Int /\ bit_extract(x, 32, 128) \in Int
      BY DEF bit_extract
    <3> QED
      BY <3>1
  <2>2. bits \in [Int -> Int]
    BY <2>1
  <2> HIDE DEF bits
  <2>3. MatrixProduct(N, A, B, bits) \in S
    BY <1>1, <1>2, <2>2, ProductType
  <2> QED
    BY <2>3 DEF bits, matrix_mul_matrix_bitextract
<1> HIDE DEF C2, C3, C4, t, N
<1>9. 0 \in Words
  BY WordsAre
<1>10. t.crc \in Words
  BY <1>1, <1>3, <1>4, <1>5, <1>6, <1>7, <1>8, <1>9, ChecksumType
<1>11. t.crc \in Int
  <2>1. \A w \in Words : w \in Int
    BY WordsAre
  <2> QED
    BY <1>10, <2>1, Zenon
<1>12. Crcs(crc16[t.crc])
  BY <1>11, CrcSignedType
<1>13. core_bench_matrix(val, crc).crc = crc16[t.crc][crc]
  BY Zenon DEF core_bench_matrix, t, N
<1> QED
  BY <1>12, <1>13 DEF Crcs, Keeps

-----------------------------------------------------------------------------
(* What core_state_transition computes.                                     *)
CountType == [StateSet -> Nat]
Running == Nat \X StateSet \X CountType
Halts(at) == At(at[1]) \in {0, COMMA} \/ at[2] = "INVALID"
Halted(at) ==
  [state |-> at[2], end |-> at[1], counts |-> at[3],
   next |-> IF At(at[1]) = COMMA /\ at[2] # "INVALID" THEN at[1] + 1 ELSE at[1]]
Moved(at) ==
  <<at[1] + 1, After(at[2], At(at[1])),
    [s \in StateSet |->
       IF s \in Counted(at[2], After(at[2], At(at[1]))) THEN at[3][s] + 1
                                                         ELSE at[3][s]]>>

LEMMA MovedType ==
  ASSUME NEW at \in Running, ~ Halts(at)
  PROVE  Moved(at) \in Running
<1>1. at[1] \in Nat /\ at[2] \in StateSet /\ at[3] \in CountType /\ at[2] # "INVALID"
  BY DEF Running, Halts
<1>2. After(at[2], At(at[1])) \in StateSet
  <2> DEFINE c == At(at[1])
  <2>1. StateSet = {"START", "INVALID", "S1", "S2", "INT", "FLOAT", "EXPONENT", "SCIENTIFIC"}
    <3>1. StateSet = {CoreStates[1], CoreStates[2], CoreStates[3], CoreStates[4],
                      CoreStates[5], CoreStates[6], CoreStates[7], CoreStates[8]}
      <4>1. 1 .. 8 = {1, 2, 3, 4, 5, 6, 7, 8}
        OBVIOUS
      <4> QED
        BY <4>1 DEF StateSet
    <3> QED
      BY <3>1 DEF CoreStates
  <2>2. DOMAIN NextState = StateSet \ {"INVALID"}
    BY <2>1 DEF NextState
  <2>3. \A s \in StateSet \ {"INVALID"} :
          \A k \in DOMAIN NextState[s] : NextState[s][k] \in StateSet
    BY <2>1 DEF NextState
  <2> HIDE DEF c
  <2> QED
    BY <1>1, <2>1, <2>3 DEF After, c
<1>3. [s \in StateSet |->
         IF s \in Counted(at[2], After(at[2], At(at[1]))) THEN at[3][s] + 1
                                                          ELSE at[3][s]] \in CountType
  <2> DEFINE counted == Counted(at[2], After(at[2], At(at[1])))
             x == at[3]
  <2>1. \A s \in StateSet : x[s] \in Nat
    BY <1>1 DEF CountType
  <2> HIDE DEF counted, x
  <2>2. \A s \in StateSet : (IF s \in counted THEN x[s] + 1 ELSE x[s]) \in Nat
    BY <2>1
  <2>3. [s \in StateSet |-> IF s \in counted THEN x[s] + 1 ELSE x[s]] \in CountType
    BY <2>2 DEF CountType
  <2> QED
    BY <2>3 DEF counted, x
<1>4. at[1] + 1 \in Nat
  BY <1>1
<1> QED
  BY <1>2, <1>3, <1>4 DEF Moved, Running

TokenRecursion(f) ==
  f = [left \in Nat |->
         [at \in Nat \X StateSet \X [StateSet -> Nat] |->
           LET c == At(at[1])
               state == at[2]
               new == After(state, c)
           IN  IF left = 0 \/ c \in {0, COMMA} \/ state = "INVALID"
                 THEN [state |-> state, end |-> at[1], counts |-> at[3],
                       next |-> IF c = COMMA /\ state # "INVALID"
                                  THEN at[1] + 1 ELSE at[1]]
                 ELSE f[left - 1][<<at[1] + 1, new,
                        [s \in StateSet |->
                           IF s \in Counted(state, new) THEN at[3][s] + 1
                                                        ELSE at[3][s]]>>]]]

LEMMA TokenExists == \E f : TokenRecursion(f)
<1> DEFINE P == Running
           T == {Halted(at) : at \in P}
           S == [P -> T]
           first == [at \in P |-> Halted(at)]
           Later(f) == [at \in P |-> IF Halts(at) THEN Halted(at) ELSE f[Moved(at)]]
           step == [k \in Nat |-> [f \in S |-> Later(f)]]
<1>1. first \in S
  <2> HIDE DEF P
  <2> QED
    OBVIOUS
<1>2. ASSUME NEW f \in S PROVE Later(f) \in S
  <2>1. ASSUME NEW at \in P
        PROVE  (IF Halts(at) THEN Halted(at) ELSE f[Moved(at)]) \in T
    <3>1. ~ Halts(at) => Moved(at) \in P
      BY MovedType
    <3> HIDE DEF P
    <3> QED
      BY <3>1
  <2> HIDE DEF P, T
  <2> QED
    BY <2>1
<1>3. step \in [Nat -> [S -> S]]
  <2> HIDE DEF S, Later
  <2> QED
    BY <1>2
<1>4. \A k \in Nat : \A f \in S : step[k][f] = Later(f)
  <2> HIDE DEF S, Later
  <2> QED
    OBVIOUS
<1> HIDE DEF S, step, first, P, T
<1>5. PICK g \in [Nat -> S] : Recursion(g, first, step)
  BY <1>1, <1>3, RecursionExists, Zenon
<1>6. ASSUME NEW left \in Nat
      PROVE  g[left] = [at \in P |-> IF left = 0 \/ Halts(at) THEN Halted(at)
                                     ELSE g[left - 1][Moved(at)]]
  <2>1. CASE left = 0
    <3>1. g[0] = first
      BY <1>5 DEF Recursion
    <3> QED
      BY <2>1, <3>1 DEF first
  <2>2. CASE left # 0
    <3> DEFINE k == left - 1
    <3>1. k \in Nat /\ left = k + 1
      BY <2>2
    <3> HIDE DEF k
    <3>2. g[k] \in S /\ g[k + 1] = step[k][g[k]]
      BY <1>5, <3>1 DEF Recursion
    <3>3. g[k + 1] = Later(g[k])
      BY <1>4, <3>1, <3>2
    <3> QED
      BY <2>2, <3>1, <3>3 DEF k
  <2> QED
    BY <2>1, <2>2
<1>7. TokenRecursion(g)
  <2>1. g = [left \in Nat |-> g[left]]
    BY <1>5
  <2>2. g = [left \in Nat |-> [at \in P |->
                           IF left = 0 \/ Halts(at) THEN Halted(at)
                           ELSE g[left - 1][Moved(at)]]]
    BY <1>6, <2>1
  <2>3. P = Nat \X StateSet \X [StateSet -> Nat]
    BY DEF P, Running, CountType
  <2> QED
    BY <2>2, <2>3, Zenon DEF TokenRecursion, Moved, Halts, Halted
<1> QED
  BY <1>7

(* A token ends in a state, and the next one starts before or at the first *)
(* zero in front of which this one started.                                 *)
Zero(z) == z \in DOMAIN state_mem /\ z \in Nat /\ state_mem[z] = 0
TokenOK(t, p) ==
  /\ t.state \in StateSet /\ t.next \in Nat /\ t.counts \in CountType
  /\ \A z : Zero(z) /\ p <= z => t.next <= z

LEMMA HaltedOK ==
  ASSUME NEW at \in Running
  PROVE  TokenOK(Halted(at), at[1])
<1>1. at[1] \in Nat /\ at[2] \in StateSet /\ at[3] \in CountType
  BY DEF Running
<1>2. ASSUME NEW z, Zero(z), at[1] <= z, At(at[1]) = COMMA PROVE at[1] + 1 <= z
  BY <1>1, <1>2 DEF Zero, At, COMMA
<1> QED
  BY <1>1, <1>2 DEF TokenOK, Halted

LEMMA MovedOK ==
  ASSUME NEW at \in Running, ~ Halts(at), NEW t, TokenOK(t, Moved(at)[1])
  PROVE  TokenOK(t, at[1])
<1>1. at[1] \in Nat /\ Moved(at)[1] = at[1] + 1 /\ At(at[1]) # 0
  BY DEF Running, Halts, Moved
<1>2. ASSUME NEW z, Zero(z), at[1] <= z PROVE at[1] + 1 <= z
  BY <1>1, <1>2 DEF Zero, At
<1> QED
  BY <1>1, <1>2 DEF TokenOK

(* Induction over the characters of a token: what holds of the start and   *)
(* the result of each run, for a relation given as a set.                  *)
Results == {Halted(at) : at \in Running}
LEMMA TokenInduction ==
  ASSUME IsFiniteSet(DOMAIN state_mem),
         NEW p \in Nat, NEW counts \in CountType, NEW R,
         \A at \in Running : <<at, Halted(at)>> \in R,
         \A at \in Running : \A t \in Results :
           ~ Halts(at) /\ <<Moved(at), t>> \in R => <<at, t>> \in R
  PROVE  <<<<p, "START", counts>>, core_state_transition(p, counts)>> \in R
<1> DEFINE f == CHOOSE x : TokenRecursion(x)
           start == <<p, "START", counts>>
           n == Cardinality(DOMAIN state_mem)
<1>1. TokenRecursion(f)
  BY TokenExists
<1>2. core_state_transition(p, counts) = f[n][start]
  BY Zenon DEF core_state_transition, TokenRecursion
<1>3. n \in Nat
  BY FS_CardinalityType
<1>4. start \in Running
  <2>1. CoreStates[1] = "START" /\ CoreStates[1] \in StateSet
    BY DEF StateSet, CoreStates
  <2> QED
    BY <2>1 DEF Running
<1> HIDE DEF f, start, n
<1>5. ASSUME NEW left \in Nat, NEW at \in Running
      PROVE  f[left][at] = IF left = 0 \/ Halts(at) THEN Halted(at)
                           ELSE f[left - 1][Moved(at)]
  <2>1. Running = Nat \X StateSet \X [StateSet -> Nat]
    BY DEF Running, CountType
  <2>2. f = [l \in Nat |-> [x \in Running |->
                IF l = 0 \/ Halts(x) THEN Halted(x) ELSE f[l - 1][Moved(x)]]]
    BY <1>1, <2>1, Zenon DEF TokenRecursion, Moved, Halts, Halted
  <2>3. f[left] = [x \in Running |->
                IF left = 0 \/ Halts(x) THEN Halted(x) ELSE f[left - 1][Moved(x)]]
    BY <2>2, Zenon
  <2> QED
    BY <2>3, Zenon
<1> DEFINE Good == {k \in Nat : \A at \in Running :
                      f[k][at] \in Results /\ <<at, f[k][at]>> \in R}
<1>6. 0 \in Good
  BY <1>5 DEF Results
<1>7. ASSUME NEW k \in Nat, k \in Good PROVE k + 1 \in Good
  <2> SUFFICES ASSUME NEW at \in Running
               PROVE  f[k + 1][at] \in Results /\ <<at, f[k + 1][at]>> \in R
    OBVIOUS
  <2>1. CASE Halts(at)
    <3>1. f[k + 1][at] = Halted(at)
      BY <1>5, <2>1
    <3> QED
      BY <3>1 DEF Results
  <2>2. CASE ~ Halts(at)
    <3>1. f[k + 1][at] = f[k][Moved(at)]
      <4>1. k + 1 \in Nat /\ k + 1 # 0 /\ (k + 1) - 1 = k
        OBVIOUS
      <4> QED
        BY <1>5, <2>2, <4>1
    <3>2. Moved(at) \in Running
      BY <2>2, MovedType
    <3>3. f[k][Moved(at)] \in Results /\ <<Moved(at), f[k][Moved(at)]>> \in R
      BY <1>7, <3>2
    <3> QED
      BY <2>2, <3>1, <3>3
  <2> QED
    BY <2>1, <2>2
<1>8. n \in Good
  <2> HIDE DEF Good
  <2> QED
    BY <1>3, <1>6, <1>7, AllNumbers
<1> QED
  BY <1>2, <1>4, <1>8 DEF start

LEMMA TokenType ==
  ASSUME IsFiniteSet(DOMAIN state_mem),
         NEW p \in Nat, NEW counts \in CountType
  PROVE  TokenOK(core_state_transition(p, counts), p)
<1> DEFINE R == {x \in Running \X Results : TokenOK(x[2], x[1][1])}
           start == <<p, "START", counts>>
<1>1. \A at \in Running : <<at, Halted(at)>> \in R
  BY HaltedOK DEF Results
<1>2. ASSUME NEW at \in Running, NEW t \in Results, ~ Halts(at), <<Moved(at), t>> \in R
      PROVE  <<at, t>> \in R
  <2>1. TokenOK(t, Moved(at)[1])
    BY <1>2
  <2>2. TokenOK(t, at[1])
    BY <1>2, <2>1, MovedOK
  <2> QED
    BY <2>2
<1>3. <<start, core_state_transition(p, counts)>> \in R
  <2> HIDE DEF R
  <2> QED
    BY <1>1, <1>2, TokenInduction
<1> QED
  BY <1>3

-----------------------------------------------------------------------------
(* The invariant of the list benchmark, said of an order s of the cells,   *)
(* of which a sort has merged the first m.                                  *)

(* The inputs, and what main makes of them.                                *)
InputsInv ==
  /\ config \in Configs
  /\ res = [seed1 |-> Seeds(config)[1], seed2 |-> Seeds(config)[2],
            seed3 |-> Seeds(config)[3],
            size |-> config.total \div NUM_ALGORITHMS, list |-> 0]

(* How many cells are in use.                                              *)
CountInv ==
  /\ Fit(free, items)
  /\ free = IF pc = "insert" /\ b.i + 1 < items - 1 THEN b.i + 1 ELSE items - 1

Locals(c) ==
  [i : Nat, finder_idx : Int, idx : Int, retval : Words, found : Nat,
   missed : Nat, remover : Pointers(c)]
SortLocals(c) ==
  [by : {"idx", "data"}, then : {"start", "remove", "crc"}, p : Pointers(c),
   q : Pointers(c), psize : Nat, qsize : Nat, head : Pointers(c),
   tail : Pointers(c), insize : Nat, nmerges : Nat, before : Seq(CellsOf(c))]
LocalsInv ==
  /\ b \in Locals(items)
  /\ pc # "insert" => sort \in SortLocals(items)
  /\ pc = "insert" => "then" \in DOMAIN sort /\ sort.then = "none"

(* Where a sort goes on, and which one was the last.                       *)
SortingPcs == {"remove", "tail", "undo", "unsorted", "sort"}
AfterPcs == {"crc", "return", "stop", "timed"}
ThenInv ==
  /\ pc = "sort" => sort.by = IF sort.then = "remove" THEN "data" ELSE "idx"
  /\ pc \notin SortingPcs => sort.then # "remove"
  /\ pc \in AfterPcs => sort.then = "crc"

(* The cells, and what their infos point to.                               *)
Window == pc \in {"tail", "undo"}
InfoPlace(i) ==
  IF Window THEN IF i = 2 THEN free ELSE IF i = free THEN 2 ELSE i ELSE i
HeapInv(s) ==
  /\ heap \in [next : NextTypes(items), info : NextTypes(items)]
  /\ Order(s, free)
  /\ \A i \in 1 .. free : heap.info[s[i]] = s[InfoPlace(i)]
  /\ b.remover = IF Window THEN s[free] ELSE NULL

(* The list when it is not being sorted, and when it is.                   *)
ListInv(s) ==
  pc # "sort" =>
    /\ list = s[1]
    /\ Listed(heap.next, s, IF Window THEN free - 1 ELSE free)
MergeInv(s, m) ==
  pc = "sort" =>
    /\ m \in Nat /\ m + sort.psize <= free
    /\ sort.q = Follower(s, free, m + sort.psize)
    /\ sort.psize > 0 => sort.p = s[m + 1]
    /\ sort.tail = IF m = 0 THEN NULL ELSE s[m]
    /\ m > 0 => sort.head = s[1]
    /\ SortLinks(heap.next, s, free, m, m + sort.psize)

(* The keys of the data, and when they do not change any more.             *)
KeyOf(d) == IF sort.by = "data" THEN data[d].lo ELSE data[d].idx
Settled(d) == IF sort.by = "data" THEN Cached(d) ELSE data[d].lo = data[d].hi
BothSettled(cd) == Settled(cd[1]) /\ Settled(cd[2])
CameFirst(cd) ==
  \E i, j \in 1 .. free : i < j /\ sort.before[i] = cd[1] /\ sort.before[j] = cd[2]
Pairs == CellsOf(free) \X CellsOf(free)
Le == {cd \in Pairs : BothSettled(cd) /\ KeyOf(cd[1]) <= KeyOf(cd[2])}
St == {cd \in Pairs : CameFirst(cd) \/ (BothSettled(cd) /\ KeyOf(cd[1]) < KeyOf(cd[2]))}
OrderInv(s, m) ==
  pc = "sort" =>
    /\ SortParts(s, free, m, m + sort.psize, m + sort.psize + sort.qsize,
                 sort.insize, Le, St)
    /\ Order(sort.before, free)
    /\ sort.nmerges = 0 => m = 0 /\ sort.psize = 0 /\ sort.qsize = 0
    /\ sort.nmerges = 1 => m + sort.psize + sort.qsize <= 2 * sort.insize
SortedInv(s) ==
  pc = sort.then =>
    /\ Order(sort.before, free)
    /\ \A i, j \in 1 .. free :
         i < j => Related(Le, s[i], s[j]) /\ Related(St, s[i], s[j])

(* The data: the fake head has the smallest number.                        *)
DataTypes(c) == [CellsOf(c) -> [hi : Bytes, lo : Bytes, idx : Indexes]]
DataInv ==
  /\ data \in DataTypes(items)
  /\ data[0].idx = 0
  /\ \A d \in 1 .. free - 1 : data[d].idx > 0

(* It is the head whenever the list was sorted by number.                  *)
HeadPcs == {"insert", "start", "bench", "done"} \cup AfterPcs
HeadInv == pc \in HeadPcs => list = 0

(* The two other benchmarks.                                               *)
WaitInv ==
  /\ DOMAIN scan = {"phase", "p", "step", "crc", "final", "track", "token"}
  /\ scan.phase \in {"idle", "first", "second", "done"}
  /\ scan.phase # "idle" =>
       /\ pc = "sort" /\ sort.by = "data"
       /\ sort.psize > 0 /\ sort.qsize > 0 /\ sort.q # NULL
       /\ calc \in CellsOf(free) /\ ~ Cached(calc)
CrcTypes == [crc : Words, list : Words, matrix : Words, state : Words]
BlockInv ==
  /\ MatrixOK(mat)
  /\ state_mem \in [0 .. res.size - 1 -> Byte]
  /\ scan.crc \in Words /\ scan.final \in CountType /\ scan.track \in CountType
  /\ scan.p \in Nat
  /\ scan.phase # "idle" => scan.step \in Steps
CrcInv == crcs \in CrcTypes

CoreInv(s, m) ==
  /\ InputsInv /\ CountInv /\ LocalsInv /\ ThenInv
  /\ HeapInv(s) /\ ListInv(s) /\ MergeInv(s, m) /\ OrderInv(s, m) /\ SortedInv(s)
  /\ DataInv /\ HeadInv /\ WaitInv /\ BlockInv /\ CrcInv

-----------------------------------------------------------------------------
(* What the inputs are.                                                    *)
LEMMA InputFacts ==
  ASSUME InputsInv
  PROVE  /\ res.seed1 \in Nat /\ res.seed2 \in Nat /\ res.seed3 \in Nat
         /\ res.size \in Nat /\ res.size >= 120 /\ res.list = 0
         /\ items \in Nat /\ items >= 4 /\ items < 65536
<1>1. /\ config.seed1 \in Nat /\ config.seed2 \in Nat /\ config.seed3 \in Nat
      /\ config.total \in Nat /\ config.total >= 3 * 120
      /\ config.total < 3 * 20 * 65536
  BY ConfigsAssumption DEF InputsInv
<1>2. /\ res.size = config.total \div 3 /\ res.list = 0
      /\ res.seed1 = Seeds(config)[1] /\ res.seed2 = Seeds(config)[2]
      /\ res.seed3 = Seeds(config)[3]
  BY DEF InputsInv, NUM_ALGORITHMS
<1>3. res.seed1 \in Nat /\ res.seed2 \in Nat /\ res.seed3 \in Nat
  <2>1. \/ Seeds(config) = <<0, 0, 102>>
        \/ Seeds(config) = <<13333, 13333, 102>>
        \/ Seeds(config) = <<config.seed1, config.seed2, config.seed3>>
    BY DEF Seeds
  <2> QED
    BY <1>1, <1>2, <2>1
<1>4. res.size \in Nat /\ res.size >= 120 /\ res.size < 20 * 65536
  BY <1>1, <1>2
<1>5. items = res.size \div 20 - 2
  BY DEF items, Items
<1> QED
  BY <1>2, <1>3, <1>4, <1>5

-----------------------------------------------------------------------------
(* Which operations change what.                                           *)
TakeStep == MergeRest \/ CompareData \/ CompareIdx
Writes ==
  /\ UNCHANGED config
  /\ UNCHANGED res \/ StartTime
  /\ UNCHANGED free \/ InsertNew
  /\ UNCHANGED data \/ InsertNew \/ IndexItems \/ Calculate \/ StateReturns
                   \/ CompareIdx
  /\ UNCHANGED heap \/ InsertNew \/ TakeStep \/ EndPass \/ FindOne \/ RemoveOne
                   \/ UndoRemove
  /\ UNCHANGED list \/ EndPass \/ FindOne \/ Iterate \/ SecondList
  /\ UNCHANGED sort \/ IndexItems \/ NextRun \/ TakeStep \/ EndPass \/ EndFind
                   \/ SortBack
  /\ UNCHANGED calc \/ Calculate \/ StateReturns
  /\ UNCHANGED b \/ InsertNew \/ FindOne \/ EndFind \/ RemoveOne \/ CrcFromFound
                \/ UndoRemove \/ CrcOfAll \/ Iterate \/ SecondList
  /\ UNCHANGED pc \/ IndexItems \/ EndPass \/ EndFind \/ RemoveOne \/ CrcFromFound
                 \/ UndoRemove \/ SortBack \/ CrcOfAll \/ StartTime \/ StopTime
                 \/ Calibrate \/ Iterate \/ SecondList \/ EndIteration \/ Report
  /\ UNCHANGED crcs \/ Calculate \/ StateReturns \/ StartTime \/ SecondList
                   \/ EndIteration
  /\ UNCHANGED scan \/ Calculate \/ StateReturns \/ StateBenchmark
  /\ UNCHANGED state_mem \/ StateBenchmark
  /\ UNCHANGED mat \/ Calculate
LEMMA WhoWrites ==
  ASSUME [Next]_vars
  PROVE  Writes

<1>1. ASSUME InsertNew, UNCHANGED mainVars PROVE Writes
  BY <1>1 DEF Writes, mainVars, TakeStep, InsertNew
<1>2. ASSUME IndexItems, UNCHANGED mainVars PROVE Writes
  BY <1>2 DEF Writes, mainVars, TakeStep, IndexItems, StartSort
<1>3. ASSUME NextRun, UNCHANGED mainVars PROVE Writes
  BY <1>3 DEF Writes, mainVars, TakeStep, NextRun
<1>4. ASSUME MergeRest, UNCHANGED mainVars PROVE Writes
  BY <1>4 DEF Writes, mainVars, TakeStep, MergeRest, TakeP, TakeQ, Take
<1>5. ASSUME Calculate, UNCHANGED mainVars PROVE Writes
  BY <1>5 DEF Writes, mainVars, TakeStep, Calculate, CallState, CallMatrix, KeepValue, StartScan, Comparing
<1>6. ASSUME StateReturns, UNCHANGED mainVars PROVE Writes
  BY <1>6 DEF Writes, mainVars, TakeStep, StateReturns
<1>7. ASSUME CompareData, UNCHANGED mainVars PROVE Writes
  BY <1>7 DEF Writes, mainVars, TakeStep, CompareData, Comparing, TakeP, TakeQ, Take
<1>8. ASSUME CompareIdx, UNCHANGED mainVars PROVE Writes
  BY <1>8 DEF Writes, mainVars, TakeStep, CompareIdx, Comparing, TakeP, TakeQ, Take
<1>9. ASSUME EndPass, UNCHANGED mainVars PROVE Writes
  BY <1>9 DEF Writes, mainVars, TakeStep, EndPass
<1>10. ASSUME FindOne, UNCHANGED mainVars PROVE Writes
  BY <1>10 DEF Writes, mainVars, TakeStep, FindOne
<1>11. ASSUME EndFind, UNCHANGED mainVars PROVE Writes
  BY <1>11 DEF Writes, mainVars, TakeStep, EndFind, StartSort
<1>12. ASSUME RemoveOne, UNCHANGED mainVars PROVE Writes
  BY <1>12 DEF Writes, mainVars, TakeStep, RemoveOne
<1>13. ASSUME CrcFromFound, UNCHANGED mainVars PROVE Writes
  BY <1>13 DEF Writes, mainVars, TakeStep, CrcFromFound
<1>14. ASSUME UndoRemove, UNCHANGED mainVars PROVE Writes
  BY <1>14 DEF Writes, mainVars, TakeStep, UndoRemove
<1>15. ASSUME SortBack, UNCHANGED mainVars PROVE Writes
  BY <1>15 DEF Writes, mainVars, TakeStep, SortBack, StartSort
<1>16. ASSUME CrcOfAll, UNCHANGED mainVars PROVE Writes
  BY <1>16 DEF Writes, mainVars, TakeStep, CrcOfAll
<1>17. ASSUME StateBenchmark, UNCHANGED mainVars PROVE Writes
  BY <1>17 DEF Writes, mainVars, TakeStep, StateBenchmark, ScanToken, Corrupt, UndoCorruption, EndOfString, listVars
<1>18. CASE StartTime
  BY <1>18 DEF Writes, mainVars, StartTime, listVars
<1>19. CASE StopTime
  BY <1>19 DEF Writes, mainVars, StopTime, listVars
<1>20. CASE Calibrate
  BY <1>20 DEF Writes, mainVars, Calibrate, listVars
<1>21. CASE Iterate
  BY <1>21 DEF Writes, mainVars, Iterate, BeginList
<1>22. CASE SecondList
  BY <1>22 DEF Writes, mainVars, SecondList, BeginList
<1>23. CASE EndIteration
  BY <1>23 DEF Writes, mainVars, EndIteration, listVars
<1>24. CASE Report
  BY <1>24 DEF Writes, mainVars, Report, listVars
<1>25. CASE UNCHANGED vars
  BY <1>25 DEF Writes, vars, listVars, mainVars
<1> QED
  BY <1>1, <1>2, <1>3, <1>4, <1>5, <1>6, <1>7, <1>8, <1>9, <1>10, <1>11, <1>12, <1>13, <1>14, <1>15, <1>16, <1>17, <1>18, <1>19, <1>20, <1>21, <1>22, <1>23, <1>24, <1>25
     DEF Next, MergeSort, ListBenchmark

-----------------------------------------------------------------------------
(* The inputs stay what they are, and the number of cells is as expected.  *)
LEMMA InputsKept ==
  ASSUME InputsInv, HeadInv, [Next]_vars
  PROVE  InputsInv' /\ res' = res /\ items' = items
<1>1. Writes
  BY WhoWrites
<1>2. res' = res
  <2>1. CASE StartTime
    BY <2>1 DEF StartTime, listVars, InputsInv, HeadInv, HeadPcs
  <2> QED
    BY <1>1, <2>1 DEF Writes
<1> QED
  BY <1>1, <1>2 DEF Writes, InputsInv, items

LEMMA CountKept ==
  ASSUME InputsInv, HeadInv, LocalsInv, CountInv, [Next]_vars
  PROVE  CountInv'
<1>1. Writes /\ items' = items /\ items \in Nat /\ items >= 4
  BY WhoWrites, InputsKept, InputFacts
<1> HIDE DEF items
<1>2. CASE InsertNew
  BY <1>1, <1>2 DEF InsertNew, CountInv, Fit, LocalsInv, Locals
<1>3. CASE IndexItems
  BY <1>1, <1>3 DEF IndexItems, StartSort, CountInv, Fit, LocalsInv, Locals
<1>4. CASE pc = "insert" /\ ~ InsertNew /\ ~ IndexItems
  <2>1. UNCHANGED <<pc, b>>
    BY <1>1, <1>4 DEF Writes, TakeStep, EndPass, FindOne, EndFind, RemoveOne, CrcFromFound,
       UndoRemove, SortBack, CrcOfAll, StartTime, StopTime, Calibrate, Iterate, SecondList,
       EndIteration, Report
  <2> QED
    BY <1>1, <1>4, <2>1 DEF CountInv, Writes
<1>5. CASE pc # "insert"
  <2>1. pc' # "insert"
    BY <1>1, <1>5 DEF Writes, IndexItems, EndPass, EndFind, StartSort, RemoveOne, CrcFromFound,
       UndoRemove, SortBack, CrcOfAll, StartTime, StopTime, Calibrate, Iterate, SecondList,
       EndIteration, Report, BeginList, LocalsInv, SortLocals
  <2>2. free' = free
    BY <1>1, <1>5 DEF Writes, InsertNew
  <2> QED
    BY <1>1, <1>5, <2>1, <2>2 DEF CountInv
<1> QED
  BY <1>2, <1>3, <1>4, <1>5

-----------------------------------------------------------------------------
(* The cells that a comparison is about.                                   *)
LEMMA ComparedCells ==
  ASSUME CountInv, LocalsInv, NEW s, HeapInv(s), NEW m, MergeInv(s, m), Comparing
  PROVE  /\ m \in Nat /\ sort.psize \in Nat /\ sort.qsize \in Nat
         /\ m + sort.psize + 1 \in 1 .. free /\ m + 1 \in 1 .. free
         /\ sort.p = s[m + 1] /\ sort.q = s[m + sort.psize + 1]
         /\ sort.p \in CellsOf(free) /\ sort.q \in CellsOf(free)
         /\ heap.info[sort.p] = sort.p /\ heap.info[sort.q] = sort.q
         /\ sort.p # sort.q
<1>1. pc = "sort" /\ sort.psize > 0 /\ sort.qsize > 0 /\ sort.q # NULL
  BY DEF Comparing
<1>2. free \in Nat /\ items \in Nat /\ free <= items /\ free >= 1
  BY DEF CountInv, Fit
<1>3. sort.psize \in Nat /\ sort.qsize \in Nat
  BY <1>1 DEF LocalsInv, SortLocals
<1>4. /\ m \in Nat /\ m + sort.psize <= free /\ sort.p = s[m + 1]
      /\ sort.q = Follower(s, free, m + sort.psize)
  BY <1>1 DEF MergeInv
<1>5. m + sort.psize < free /\ sort.q = s[m + sort.psize + 1]
  BY <1>1, <1>2, <1>3, <1>4 DEF Follower
<1>6. m + sort.psize + 1 \in 1 .. free /\ m + 1 \in 1 .. free /\ m + 1 # m + sort.psize + 1
  BY <1>1, <1>2, <1>3, <1>4, <1>5
<1>7. \A i \in 1 .. free : heap.info[s[i]] = s[i]
  BY <1>1 DEF HeapInv, InfoPlace, Window
<1>8. /\ \A i \in 1 .. free : s[i] \in CellsOf(free)
      /\ \A i, j \in 1 .. free : s[i] = s[j] => i = j
  BY DEF HeapInv, Order
<1> QED
  BY <1>3, <1>4, <1>5, <1>6, <1>7, <1>8

(* A result is kept in a cell whose value was not known.                   *)
Caches(d, r) == d \in CellsOf(free) /\ ~ Cached(d) /\ r \in Words /\ CacheResult(d, r)
LEMMA IndexesAre ==
  Indexes \subseteq Nat /\ \A k \in Nat : k \in Indexes <=> k <= 32767
<1> DEFINE top == 32767
<1>1. top \in Nat /\ Indexes = 0 .. top
  BY DEF Indexes
<1>2. \A k \in Nat : k <= 32767 <=> k <= top
  OBVIOUS
<1> HIDE DEF top
<1> QED
  BY <1>1, <1>2

LEMMA IndexIsNat == \A x \in Indexes : x \in Nat
  BY DEF Indexes

LEMMA BytesAre == Bytes \subseteq Nat /\ \A k \in Nat : k \in Bytes <=> k <= 255
  BY DEF Bytes
LEMMA DataFacts ==
  ASSUME CountInv, DataInv, NEW d \in CellsOf(free)
  PROVE  /\ d \in DOMAIN data /\ data[d].lo \in Bytes /\ data[d].hi \in Bytes
         /\ data[d].idx \in Nat /\ data16(d) \in Nat /\ data16(d) \in Words
         /\ data \in DataTypes(items)
<1>1. free \in Nat /\ items \in Nat /\ free <= items
  BY DEF CountInv, Fit
<1>2. d \in CellsOf(items)
  BY <1>1 DEF CellsOf
<1>3. data \in DataTypes(items)
  BY DEF DataInv
<1>4. /\ d \in DOMAIN data /\ data[d].lo \in Bytes /\ data[d].hi \in Bytes
      /\ data[d].idx \in Nat
  <2>1. data[d] \in [hi : Bytes, lo : Bytes, idx : Indexes] /\ d \in DOMAIN data
    BY <1>2, <1>3 DEF DataTypes
  <2>2. data[d].hi \in Bytes /\ data[d].lo \in Bytes /\ data[d].idx \in Indexes
    BY <2>1
  <2>3. data[d].idx \in Nat
    BY <2>2, IndexIsNat
  <2> QED
    BY <2>1, <2>2, <2>3
<1>5. /\ data[d].lo \in Nat /\ data[d].hi \in Nat
      /\ data[d].lo <= 255 /\ data[d].hi <= 255
  BY <1>4, BytesAre
<1>6. data16(d) \in Nat /\ data16(d) <= 65535
  BY <1>5 DEF data16
<1> QED
  BY <1>3, <1>4, <1>6, WordsAre

LEMMA KeepType ==
  ASSUME CrcInv, NEW field \in {"state", "matrix"}, NEW r \in Words, Keep(field, r)
  PROVE  CrcInv'
<1>1. Keeps(crcu16[r], Words)
  BY Crc16Type, WordsAre DEF Crcs
<1>2. crcu16[r][crcs.crc] \in Words
  BY <1>1 DEF CrcInv, CrcTypes, Keeps
<1> DEFINE new == crcu16[r][crcs.crc]
<1>3. crcs' = [crcs EXCEPT !.crc = new, ![field] = IF @ = 0 THEN r ELSE @]
  BY DEF Keep
<1> HIDE DEF new
<1>4. new \in Words
  BY <1>2 DEF new
<1> QED
  BY <1>3, <1>4 DEF CrcInv, CrcTypes

LEMMA CalculateCases ==
  ASSUME CountInv, LocalsInv, NEW s, HeapInv(s), NEW m, MergeInv(s, m), Calculate
  PROVE  /\ Comparing /\ sort.by = "data"
         /\ \E d, dtype : /\ d \in CellsOf(free) /\ ~ Cached(d) /\ dtype \in Dtypes
                          /\ \/ CallState(d, dtype)
                             \/ CallMatrix(d, dtype)
                             \/ KeepValue(d)
<1>1. Comparing /\ sort.by = "data"
  BY DEF Calculate
<1>2. /\ sort.p \in CellsOf(free) /\ sort.q \in CellsOf(free)
      /\ heap.info[sort.p] = sort.p /\ heap.info[sort.q] = sort.q
  BY <1>1, ComparedCells
<1> DEFINE todo == IF ~ Cached(heap.info[sort.p]) THEN heap.info[sort.p]
                                                  ELSE heap.info[sort.q]
<1>3. todo \in CellsOf(free)
  BY <1>2
<1>4. /\ ~ Cached(todo)
      /\ \E dtype \in Dtypes :
           CallState(todo, dtype) \/ CallMatrix(todo, dtype) \/ KeepValue(todo)
  BY DEF Calculate
<1> HIDE DEF todo
<1>5. PICK dtype \in Dtypes :
        CallState(todo, dtype) \/ CallMatrix(todo, dtype) \/ KeepValue(todo)
  BY <1>4
<1> QED
  BY <1>1, <1>3, <1>4, <1>5

LEMMA DtypeIsInt == \A dtype \in Dtypes : dtype \in Int
  BY DEF Dtypes

LEMMA MatrixEffect ==
  ASSUME BlockInv, CrcInv, NEW d \in CellsOf(free), ~ Cached(d), NEW dtype \in Dtypes,
         CallMatrix(d, dtype)
  PROVE  mat' = mat /\ CrcInv' /\ \E r : Caches(d, r)
<1> DEFINE r == core_bench_matrix(dtype, crcs.crc)
<1>1. mat' = [mat EXCEPT !.A = r.A] /\ Keep("matrix", r.crc) /\ CacheResult(d, r.crc)
  BY DEF CallMatrix
<1>2. MatrixOK(mat) /\ crcs.crc \in Words
  BY DEF BlockInv, CrcInv, CrcTypes
<1>3. r.crc \in Words
  BY <1>2, MatrixCrcType, DtypeIsInt
<1>4. [mat EXCEPT !.A = r.A] = mat
  BY <1>2, MatrixRestored
<1> HIDE DEF r
<1>5. CrcInv'
  BY <1>1, <1>3, KeepType
<1> QED
  BY <1>1, <1>3, <1>4, <1>5 DEF Caches

LEMMA ValueEffect ==
  ASSUME CountInv, DataInv, CrcInv, NEW d \in CellsOf(free), ~ Cached(d), KeepValue(d)
  PROVE  mat' = mat /\ CrcInv' /\ \E r : Caches(d, r)
<1>1. /\ data[d].lo \in Bytes /\ data16(d) \in Nat
  BY DataFacts
<1>2. data[d].lo \in Words
  BY <1>1, WordsAre DEF Bytes
<1>3. /\ crcs' = [crcs EXCEPT !.crc = crcu16[data16(d)][@]]
      /\ CacheResult(d, data[d].lo) /\ mat' = mat
  BY DEF KeepValue
<1>4. crcu16[data16(d)][crcs.crc] \in Words
  BY <1>1, Crc16Type DEF Crcs, Keeps, CrcInv, CrcTypes
<1>5. CrcInv'
  BY <1>3, <1>4 DEF CrcInv, CrcTypes
<1> QED
  BY <1>2, <1>3, <1>5 DEF Caches

(* What a calculation does, and the return of the string machine.         *)
Machine(d, dtype) == CallState(d, dtype) /\ d \in CellsOf(free) /\ ~ Cached(d)
LEMMA CalculateEffect ==
  ASSUME CountInv, LocalsInv, NEW s, HeapInv(s), NEW m, MergeInv(s, m),
         DataInv, BlockInv, CrcInv, Calculate
  PROVE  /\ Comparing /\ sort.by = "data" /\ mat' = mat /\ CrcInv'
         /\ \/ \E d, dtype : dtype \in Dtypes /\ Machine(d, dtype) /\ UNCHANGED data
            \/ scan' = scan /\ \E d, r : Caches(d, r)
<1>1. Comparing /\ sort.by = "data"
  BY CalculateCases
<1>2. PICK d, dtype : /\ d \in CellsOf(free) /\ ~ Cached(d) /\ dtype \in Dtypes
                      /\ CallState(d, dtype) \/ CallMatrix(d, dtype) \/ KeepValue(d)
  BY CalculateCases
<1>3. CASE CallState(d, dtype)
  <2>1. mat' = mat /\ crcs' = crcs /\ data' = data
    BY <1>3 DEF CallState
  <2> QED
    BY <1>1, <1>2, <1>3, <2>1 DEF Machine, CrcInv
<1>4. CASE CallMatrix(d, dtype)
  <2>1. scan' = scan
    BY <1>4 DEF CallMatrix
  <2> QED
    BY <1>1, <1>2, <1>4, <2>1, MatrixEffect
<1>5. CASE KeepValue(d)
  <2>1. scan' = scan
    BY <1>5 DEF KeepValue
  <2> QED
    BY <1>1, <1>2, <1>5, <2>1, ValueEffect
<1> QED
  BY <1>2, <1>3, <1>4, <1>5

LEMMA ReturnEffect ==
  ASSUME WaitInv, BlockInv, CrcInv, StateReturns
  PROVE  CrcInv' /\ Caches(calc, state_result) /\ scan' = NoScan
<1>1. /\ Keep("state", state_result) /\ CacheResult(calc, state_result)
      /\ scan' = NoScan /\ scan.phase = "done"
  BY DEF StateReturns
<1>2. state_result \in Words
  BY StateResultType DEF BlockInv, CountType
<1>3. calc \in CellsOf(free) /\ ~ Cached(calc)
  BY <1>1 DEF WaitInv
<1> QED
  BY <1>1, <1>2, <1>3, KeepType DEF Caches

-----------------------------------------------------------------------------
(* The parts of the invariant that do not depend on the order.             *)
LEMMA ThenKept ==
  ASSUME LocalsInv, ThenInv, [Next]_vars
  PROVE  ThenInv'
<1> USE DEF ThenInv, SortingPcs, AfterPcs, LocalsInv, SortLocals
<1>1. Writes
  BY WhoWrites
<1>2. CASE UNCHANGED <<pc, sort>>
  BY <1>2
<1>3. CASE IndexItems \/ SortBack
  BY <1>3 DEF IndexItems, SortBack, StartSort
<1>4. CASE EndFind
  BY <1>4 DEF EndFind, StartSort
<1>5. CASE TakeStep
  <2>1. /\ pc = "sort" /\ pc' = pc
        /\ TakeP \/ TakeQ
    BY <1>5 DEF TakeStep, MergeRest, CompareData, CompareIdx, Comparing, TakeP, TakeQ, Take
  <2>2. sort'.by = sort.by /\ sort'.then = sort.then
    BY <2>1 DEF TakeP, TakeQ, Take
  <2> QED
    BY <2>1, <2>2
<1>6. CASE NextRun
  BY <1>6 DEF NextRun
<1>7. CASE EndPass
  BY <1>7 DEF EndPass
<1>8. CASE RemoveOne \/ CrcFromFound \/ UndoRemove \/ CrcOfAll
  BY <1>8 DEF RemoveOne, CrcFromFound, UndoRemove, CrcOfAll
<1>9. CASE StartTime \/ StopTime \/ Calibrate \/ Iterate \/ SecondList \/ EndIteration \/ Report
  BY <1>9 DEF StartTime, StopTime, Calibrate, Iterate, SecondList, EndIteration, Report,
     listVars, BeginList
<1> QED
  BY <1>1, <1>2, <1>3, <1>4, <1>5, <1>6, <1>7, <1>8, <1>9 DEF Writes

(* While a comparison waits for the string machine, nothing else happens.  *)
LEMMA OnlyTheMachine ==
  ASSUME WaitInv, scan.phase # "idle", [Next]_vars
  PROVE  StateBenchmark \/ StateReturns \/ UNCHANGED vars
<1>1. pc = "sort" /\ sort.psize > 0 /\ sort.qsize > 0 /\ sort.q # NULL
  BY DEF WaitInv
<1>2. ~ NextRun /\ ~ MergeRest /\ ~ Calculate /\ ~ CompareData /\ ~ CompareIdx /\ ~ EndPass
  BY <1>1 DEF NextRun, MergeRest, Calculate, CompareData, CompareIdx, EndPass, RunIsMerged,
     Comparing
<1>3. ~ InsertNew /\ ~ IndexItems /\ ~ ListBenchmark
  BY <1>1 DEF InsertNew, IndexItems, ListBenchmark, FindOne, EndFind, RemoveOne,
     CrcFromFound, UndoRemove, SortBack, CrcOfAll
<1>4. ~ StartTime /\ ~ StopTime /\ ~ Calibrate /\ ~ Iterate /\ ~ SecondList
      /\ ~ EndIteration /\ ~ Report
  BY <1>1 DEF StartTime, StopTime, Calibrate, Iterate, SecondList, EndIteration, Report
<1> QED
  BY <1>2, <1>3, <1>4 DEF Next, MergeSort

ScanFields == {"phase", "p", "step", "crc", "final", "track", "token"}
LEMMA ScanChange ==
  ASSUME DOMAIN scan = ScanFields, StateBenchmark
  PROVE  /\ DOMAIN scan' = ScanFields
         /\ scan.phase \in {"first", "second"} /\ scan'.phase \in {"first", "second", "done"}
         /\ scan'.step = scan.step /\ scan'.crc = scan.crc
         /\ UNCHANGED <<pc, sort, calc, data, free, mat, res, crcs>>
<1> USE DEF ScanFields
<1>1. UNCHANGED <<pc, sort, calc, data, free, mat, res, crcs>>
  BY DEF StateBenchmark, listVars
<1>2. CASE ScanToken
  <2>1. PICK t : scan' = [scan EXCEPT !.p = t.next, !.track = t.counts,
                  !.final[t.state] = @ + 1,
                  !.token = [first |-> scan.p, end |-> t.end, state |-> t.state]]
    BY <1>2 DEF ScanToken
  <2> QED
    BY <1>1, <1>2, <2>1 DEF ScanToken
<1>3. CASE Corrupt(res.seed1) \/ UndoCorruption(res.seed2)
  BY <1>1, <1>3 DEF Corrupt, UndoCorruption, EndOfString
<1> QED
  BY <1>2, <1>3 DEF StateBenchmark

LEMMA WaitKept ==
  ASSUME CountInv, LocalsInv, NEW s, HeapInv(s), NEW m, MergeInv(s, m),
         DataInv, BlockInv, CrcInv, WaitInv, [Next]_vars
  PROVE  WaitInv'
<1>1. Writes
  BY WhoWrites
<1>2. CASE StateBenchmark
  BY <1>2, ScanChange DEF WaitInv, ScanFields, CellsOf, Cached
<1>3. CASE StateReturns
  BY <1>3, ReturnEffect DEF WaitInv, NoScan
<1>4. CASE Calculate
  <2>1. Comparing /\ sort.by = "data" /\ pc' = pc /\ sort' = sort /\ free' = free
    BY <1>4, CalculateEffect DEF Calculate
  <2>2. CASE \E d, dtype : dtype \in Dtypes /\ Machine(d, dtype) /\ UNCHANGED data
    <3>1. PICK d, dtype : dtype \in Dtypes /\ Machine(d, dtype) /\ UNCHANGED data
      BY <2>2
    <3>2. calc' = d /\ scan'.phase = "first" /\ DOMAIN scan' = DOMAIN NoScan
      BY <3>1 DEF Machine, CallState, StartScan, NoScan
    <3>3. d \in CellsOf(free) /\ ~ Cached(d) /\ data' = data
      BY <3>1 DEF Machine
    <3>4. pc = "sort" /\ sort.psize > 0 /\ sort.qsize > 0 /\ sort.q # NULL
      BY <2>1 DEF Comparing
    <3>5. DOMAIN NoScan = {"phase", "p", "step", "crc", "final", "track", "token"}
      BY DEF NoScan
    <3> QED
      BY <2>1, <3>2, <3>3, <3>4, <3>5 DEF WaitInv, Cached, CellsOf
  <2>3. CASE scan' = scan
    BY <2>1, <2>3 DEF WaitInv, Comparing
  <2> QED
    BY <1>4, <2>2, <2>3, CalculateEffect
<1>5. CASE scan.phase # "idle"
  <2>1. CASE UNCHANGED vars
    BY <2>1 DEF WaitInv, vars, listVars, Cached, CellsOf
  <2> QED
    BY <1>2, <1>3, <1>5, <2>1, OnlyTheMachine
<1>6. CASE scan.phase = "idle" /\ scan' = scan
  BY <1>6 DEF WaitInv
<1> QED
  BY <1>1, <1>2, <1>3, <1>4, <1>5, <1>6 DEF Writes

LEMMA WordIsNat == \A x \in Words : x \in Nat
  BY DEF Words

LEMMA CrcKept ==
  ASSUME CountInv, LocalsInv, NEW s, HeapInv(s), NEW m, MergeInv(s, m),
         DataInv, BlockInv, CrcInv, WaitInv, [Next]_vars
  PROVE  CrcInv'
<1>1. Writes
  BY WhoWrites
<1>2. CASE UNCHANGED crcs
  BY <1>2 DEF CrcInv
<1>3. CASE Calculate \/ StateReturns
  BY <1>3, CalculateEffect, ReturnEffect
<1>4. CASE StartTime
  BY <1>4, WordsAre DEF StartTime, NoCrcs, CrcInv, CrcTypes
<1>5. CASE SecondList \/ EndIteration
  <2>1. b.retval \in Words /\ crcs.crc \in Words
    BY DEF LocalsInv, Locals, CrcInv, CrcTypes
  <2>3. b.retval \in Nat
    BY <2>1, WordIsNat
  <2>2. Returned \in Words
    BY <2>1, <2>3, Crc16Type DEF Crcs, Keeps, Returned
  <2> QED
    BY <1>5, <2>2 DEF SecondList, EndIteration, CrcInv, CrcTypes
<1> QED
  BY <1>1, <1>2, <1>3, <1>4, <1>5 DEF Writes

LEMMA BlockKept ==
  ASSUME CountInv, LocalsInv, NEW s, HeapInv(s), NEW m, MergeInv(s, m), InputsInv, HeadInv,
         DataInv, BlockInv, CrcInv, WaitInv, [Next]_vars
  PROVE  BlockInv'
<1>1. Writes /\ res' = res
  BY WhoWrites, InputsKept
<1>2. CASE Calculate
  <2>1. state_mem' = state_mem /\ mat' = mat
    BY <1>1, <1>2, CalculateEffect DEF Writes, Calculate, CallState, CallMatrix, KeepValue, StartScan
  <2>2. CASE \E d, dtype : dtype \in Dtypes /\ Machine(d, dtype) /\ UNCHANGED data
    <3>1. PICK d, dtype : dtype \in Dtypes /\ Machine(d, dtype)
      BY <2>2
    <3> DEFINE step == IF dtype < 34 THEN 34 ELSE dtype
    <3>2. scan' = [NoScan EXCEPT !.phase = "first", !.step = step, !.crc = crcs.crc]
      BY <3>1 DEF Machine, CallState, StartScan
    <3>3. step \in Steps
      <4>1. PICK k \in 0 .. 15 : dtype = 17 * k
        BY <3>1 DEF Dtypes
      <4>2. k \in Int /\ 34 = 17 * 2
        OBVIOUS
      <4> QED
        BY <4>1, <4>2 DEF Dtypes, Steps
    <3> HIDE DEF step
    <3>4. NoCounts \in CountType
      BY DEF NoCounts, CountType
    <3>5. crcs.crc \in Words
      BY DEF CrcInv, CrcTypes
    <3> QED
      BY <1>1, <2>1, <3>2, <3>3, <3>4, <3>5 DEF BlockInv, NoScan
  <2>3. CASE scan' = scan
    BY <1>1, <2>1, <2>3 DEF BlockInv
  <2> QED
    BY <1>2, <2>2, <2>3, CalculateEffect
<1>3. CASE StateReturns
  <2>1. scan' = NoScan /\ mat' = mat /\ state_mem' = state_mem
    BY <1>3 DEF StateReturns
  <2>2. NoCounts \in CountType
    BY DEF NoCounts, CountType
  <2>3. 0 \in Words
    BY WordsAre
  <2> QED
    BY <1>1, <2>1, <2>2, <2>3 DEF BlockInv, NoScan
<1>4. CASE StateBenchmark
  <2>1. /\ scan.phase # "idle" /\ scan.step \in Steps /\ scan'.step = scan.step
        /\ scan'.crc = scan.crc /\ mat' = mat
    BY <1>4, ScanChange DEF WaitInv, ScanFields, BlockInv
  <2>2. DOMAIN scan = {"phase", "p", "step", "crc", "final", "track", "token"}
    BY DEF WaitInv
  <2>3. CASE ScanToken
    <3> DEFINE t == core_state_transition(scan.p, scan.track)
    <3>1. /\ scan' = [scan EXCEPT !.p = t.next, !.track = t.counts,
                  !.final[t.state] = @ + 1,
                  !.token = [first |-> scan.p, end |-> t.end, state |-> t.state]]
          /\ state_mem' = state_mem
      BY <2>3 DEF ScanToken
    <3>2. TokenOK(t, scan.p)
      <4>1. IsFiniteSet(DOMAIN state_mem)
        <5>1. res.size \in Int /\ DOMAIN state_mem = 0 .. res.size - 1
          BY InputFacts DEF BlockInv
        <5>2. 0 \in Int /\ res.size - 1 \in Int
          BY <5>1
        <5> QED
          BY <5>1, <5>2, FS_Interval
      <4> QED
        BY <4>1, TokenType DEF BlockInv
    <3> HIDE DEF t
    <3>3. t.next \in Nat /\ t.counts \in CountType /\ t.state \in StateSet
      BY <3>2 DEF TokenOK
    <3>4. scan'.p = t.next /\ scan'.track = t.counts
          /\ scan'.final = [scan.final EXCEPT ![t.state] = @ + 1]
      BY <2>2, <3>1
    <3>5. scan'.final \in CountType
      BY <3>3, <3>4 DEF BlockInv, CountType
    <3> QED
      BY <1>1, <2>1, <3>1, <3>3, <3>4, <3>5 DEF BlockInv
  <2>4. ASSUME NEW phase, NEW next, NEW seed \in Nat, EndOfString(phase, next, seed)
        PROVE  BlockInv'
    <3>1. scan' = [scan EXCEPT !.phase = next, !.p = 0] /\ state_mem' = Corrupted(seed)
      BY <2>4 DEF EndOfString
    <3>2. /\ scan'.p = 0 /\ scan'.track = scan.track /\ scan'.final = scan.final
      BY <2>2, <3>1
    <3>3. state_mem \in [0 .. res.size - 1 -> Byte]
      BY DEF BlockInv
    <3>4. seed % 256 \in Byte
      BY <2>4 DEF Byte
    <3>5. \A i \in DOMAIN state_mem : Xor8(state_mem[i], seed % 256) \in Byte
      BY <3>3, <3>4, XorUndoes
    <3>6. Corrupted(seed) \in [0 .. res.size - 1 -> Byte]
      BY <3>3, <3>5 DEF Corrupted
    <3> QED
      BY <1>1, <2>1, <3>1, <3>2, <3>6 DEF BlockInv
  <2> QED
    BY <1>4, <2>3, <2>4, InputFacts DEF StateBenchmark, Corrupt, UndoCorruption
<1>5. CASE UNCHANGED <<scan, state_mem, mat>>
  BY <1>1, <1>5 DEF BlockInv
<1> QED
  BY <1>1, <1>2, <1>3, <1>4, <1>5 DEF Writes

-----------------------------------------------------------------------------
(* The data.                                                                *)
LEMMA BitType ==
  ASSUME NEW x \in Int, NEW y \in Int
  PROVE  Xor16(x, y) \in Int /\ Or16(x, y) \in Int
<1> DEFINE W == {1, 2, 4, 8, 16, 32, 64, 128}
<1>1. ASSUME NEW p \in Int, NEW r \in Int, NEW w \in W PROVE Differ(p, r, w) \in Int
  <2>1. p \div w \in Int /\ r \div w \in Int /\ w \in Int
    OBVIOUS
  <2>2. Bit(p, w) \in Int /\ Bit(r, w) \in Int
    BY <2>1 DEF Bit
  <2>3. (Bit(p, w) + Bit(r, w)) % 2 \in {0, 1}
    BY <2>2
  <2> QED
    BY <2>1, <2>3 DEF Differ
<1>2. ASSUME NEW p \in Int, NEW r \in Int PROVE Xor8(p, r) \in Int
  <2>1. /\ Differ(p, r, 1) \in Int /\ Differ(p, r, 2) \in Int /\ Differ(p, r, 4) \in Int
        /\ Differ(p, r, 8) \in Int /\ Differ(p, r, 16) \in Int /\ Differ(p, r, 32) \in Int
        /\ Differ(p, r, 64) \in Int /\ Differ(p, r, 128) \in Int
    BY <1>1
  <2> QED
    BY <2>1 DEF Xor8
<1>3. x \div 256 \in Int /\ y \div 256 \in Int /\ x % 256 \in Int /\ y % 256 \in Int
  OBVIOUS
<1>4. Xor16(x, y) \in Int
  <2>1. Xor8(x \div 256, y \div 256) \in Int /\ Xor8(x % 256, y % 256) \in Int
    BY <1>2, <1>3
  <2>2. Xor16(x, y) = 256 * Xor8(x \div 256, y \div 256) + Xor8(x % 256, y % 256)
    BY DEF Xor16
  <2> HIDE DEF W
  <2> QED
    BY <2>1, <2>2
<1> QED
  BY <1>4 DEF Or16

LEMMA IndexType ==
  ASSUME NEW n \in Nat, n < 65536, NEW k \in Nat, NEW seed \in Int
  PROVE  /\ IndexAt(k, n, seed) \in Indexes /\ IndexAt(k, n, seed) \in Nat
         /\ IndexAt(k, n, seed) < 32767
<1>1. ((k + 1) % 8) * 256 \in Int
  OBVIOUS
<1>2. Or16(((k + 1) % 8) * 256, Xor16(k, seed)) \in Int
  BY <1>1, BitType
<1> DEFINE wide == Or16(((k + 1) % 8) * 256, Xor16(k, seed))
<1> HIDE DEF wide
<1>3. IndexAt(k, n, seed) = IF k < n \div 5 THEN k ELSE wide % 16384
  BY DEF IndexAt, wide
<1>4. wide % 16384 \in Nat /\ wide % 16384 < 32767
  BY <1>2 DEF wide
<1>5. k < n \div 5 => k < 32767
  OBVIOUS
<1>6. IndexAt(k, n, seed) \in Nat /\ IndexAt(k, n, seed) < 32767
  BY <1>3, <1>4, <1>5
<1> QED
  BY <1>6, IndexesAre

DataType == [hi : Bytes, lo : Bytes, idx : Indexes]
LEMMA StartData ==
  /\ HeadData \in DataType /\ TailData \in DataType /\ Blank \in DataType
  /\ TailData.idx = 32767 /\ HeadData.idx = 0
<1>1. 0 \in Indexes /\ 32767 \in Indexes
  BY IndexesAre
<1>2. 0 \in Bytes /\ 128 \in Bytes /\ 255 \in Bytes
  BY BytesAre
<1> QED
  BY <1>1, <1>2 DEF HeadData, TailData, Blank, DataType

LEMMA ItemType ==
  ASSUME InputsInv, NEW i \in Int
  PROVE  ItemData(i) \in DataType /\ ItemData(i).idx = 32767 /\ ItemData(i).lo = ItemData(i).hi
<1>1. res.seed1 \in Int
  BY InputFacts
<1>2. Xor16(res.seed1, i) \in Int
  BY <1>1, BitType
<1> DEFINE x == Xor16(res.seed1, i)
           dat == (x % 16) * 8 + (i % 8)
<1>3. ItemData(i) = [hi |-> dat, lo |-> dat, idx |-> 32767]
  BY DEF ItemData
<1> HIDE DEF x
<1>4. dat \in Nat /\ dat <= 255
  BY <1>2 DEF x
<1> HIDE DEF dat
<1>5. dat \in Bytes /\ 32767 \in Indexes
  BY <1>4, BytesAre, IndexesAre
<1> QED
  BY <1>3, <1>5 DEF DataType

LEMMA InsertData ==
  ASSUME InputsInv, CountInv, LocalsInv, DataInv, InsertNew, items' = items
  PROVE  DataInv'
<1>1. free \in Nat /\ items \in Nat /\ free >= 1 /\ free <= items /\ b.i \in Nat
  BY DEF CountInv, Fit, LocalsInv, Locals
<1> HIDE DEF items
<1>2. CASE free + 1 >= items
  BY <1>2 DEF InsertNew, DataInv
<1>3. CASE ~ (free + 1 >= items)
  <2> DEFINE d == IF b.i = 0 THEN TailData ELSE ItemData(b.i - 1)
  <2>1. data' = [data EXCEPT ![free] = d] /\ free' = free + 1
    BY <1>3 DEF InsertNew
  <2>2. d \in DataType /\ d.idx = 32767
    <3>1. b.i - 1 \in Int
      BY <1>1
    <3> QED
      BY <3>1, StartData, ItemType
  <2> HIDE DEF d
  <2>3. data \in [CellsOf(items) -> DataType] /\ free \in CellsOf(items) /\ free # 0
    BY <1>1, <1>3 DEF DataInv, DataTypes, DataType, CellsOf
  <2>4. data' \in [CellsOf(items) -> DataType]
    BY <2>1, <2>2, <2>3
  <2>5. data'[0] = data[0] /\ data'[free] = d
    BY <1>1, <2>1, <2>3 DEF CellsOf
  <2>6. ASSUME NEW c \in 1 .. free' - 1 PROVE data'[c].idx > 0
    <3>1. CASE c = free
      BY <2>2, <2>5, <3>1
    <3>2. CASE c # free
      <4>1. c \in 1 .. free - 1 /\ c \in CellsOf(items)
        BY <1>1, <2>1, <3>2 DEF CellsOf
      <4>2. data'[c] = data[c]
        BY <2>1, <2>3, <3>2, <4>1
      <4> QED
        BY <4>1, <4>2 DEF DataInv
    <3> QED
      BY <3>1, <3>2
  <2> QED
    BY <2>4, <2>5, <2>6 DEF DataInv, DataTypes, DataType
<1> QED
  BY <1>2, <1>3

(* Indexing gives a number to all cells but the first and the last one.    *)
Numbered(s, d) ==
  IF \E i \in 2 .. free - 1 : s[i] = d
    THEN [data[d] EXCEPT !.idx = IndexOf((CHOOSE i \in 2 .. free - 1 : s[i] = d) - 1)]
    ELSE data[d]
LEMMA IndexedCells ==
  ASSUME InputsInv, CountInv, LocalsInv, NEW s, HeapInv(s), ListInv(s), IndexItems
  PROVE  /\ free = items - 1 /\ free >= 3 /\ free \in Nat /\ list = s[1]
         /\ Chain(heap, heap.next[list]) = SubSeq(s, 2, free)
         /\ \A i \in 2 .. free : heap.info[s[i]] = s[i]
<1>1. pc = "insert" /\ b.i > items /\ items \in Nat /\ items >= 4 /\ b.i \in Nat
  BY InputFacts DEF IndexItems, LocalsInv, Locals
<1> HIDE DEF items
<1>2. free = items - 1 /\ Fit(free, items)
  BY <1>1 DEF CountInv
<1>3. free \in Nat /\ free >= 3
  BY <1>1, <1>2
<1>4. list = s[1] /\ Listed(heap.next, s, free)
  BY <1>1 DEF ListInv, Window
<1>5. Order(s, free) /\ LinkType(heap.next, items)
  BY DEF HeapInv, LinkType, NextTypes
<1>6. \A i \in 1 .. free : heap.next[s[i]] = Follower(s, free, i)
  BY <1>3, <1>4, ListedAfter
<1>7. heap.next[list] = s[2]
  BY <1>3, <1>4, <1>6 DEF Follower
<1>8. Chain(heap, s[1 + 1]) = SubSeq(s, 1 + 1, free)
  BY <1>2, <1>3, <1>5, <1>6, ChainOfRest
<1>9. \A i \in 1 .. free : heap.info[s[i]] = s[i]
  BY <1>1 DEF HeapInv, InfoPlace, Window
<1> QED
  BY <1>2, <1>3, <1>4, <1>7, <1>8, <1>9

LEMMA IndexedData ==
  ASSUME InputsInv, CountInv, LocalsInv, NEW s, HeapInv(s), ListInv(s), IndexItems
  PROVE  data' = [d \in DOMAIN data |-> Numbered(s, d)]
<1> DEFINE r == SubSeq(s, 2, free)
           Indexed == 1 .. free - 2
<1>1. /\ free >= 3 /\ free \in Nat /\ Order(s, free)
      /\ Chain(heap, heap.next[list]) = r
      /\ \A i \in 2 .. free : heap.info[s[i]] = s[i]
  BY IndexedCells DEF HeapInv
<1>2. s \in Seq(CellsOf(free)) /\ Len(s) = free
  BY <1>1, OrderIsSeq
<1>3. Len(r) = free - 1 /\ \A k \in 1 .. free - 1 : r[k] = s[k + 1]
  BY <1>1, <1>2
<1>4. data' = [d \in DOMAIN data |->
                 IF \E k \in 1 .. Len(r) - 1 : heap.info[r[k]] = d
                   THEN [data[d] EXCEPT !.idx =
                           IndexOf(CHOOSE k \in 1 .. Len(r) - 1 : heap.info[r[k]] = d)]
                   ELSE data[d]]
  <2>1. PICK w \in {Chain(heap, heap.next[list])} :
          data' = [d \in DOMAIN data |->
                 IF \E k \in 1 .. Len(w) - 1 : heap.info[w[k]] = d
                   THEN [data[d] EXCEPT !.idx =
                           IndexOf(CHOOSE k \in 1 .. Len(w) - 1 : heap.info[w[k]] = d)]
                   ELSE data[d]]
    BY DEF IndexItems
  <2>2. w = r
    BY <1>1
  <2> HIDE DEF r
  <2> QED
    BY <2>1, <2>2
<1>5. 1 .. Len(r) - 1 = Indexed /\ \A k \in Indexed : heap.info[r[k]] = s[k + 1]
  BY <1>1, <1>3
<1> HIDE DEF r
<1>6. ASSUME NEW d \in DOMAIN data PROVE data'[d] = Numbered(s, d)
  <2>1. (\E k \in Indexed : heap.info[r[k]] = d) <=> \E i \in 2 .. free - 1 : s[i] = d
    <3>1. ASSUME NEW k \in Indexed, heap.info[r[k]] = d PROVE \E i \in 2 .. free - 1 : s[i] = d
      <4>1. k + 1 \in 2 .. free - 1 /\ s[k + 1] = d
        BY <1>1, <1>5, <3>1
      <4> QED
        BY <4>1
    <3>2. ASSUME NEW i \in 2 .. free - 1, s[i] = d PROVE \E k \in Indexed : heap.info[r[k]] = d
      <4>1. i - 1 \in Indexed /\ (i - 1) + 1 = i
        BY <1>1
      <4> QED
        BY <1>5, <3>2, <4>1
    <3> QED
      BY <3>1, <3>2
  <2>2. ASSUME NEW i \in 2 .. free - 1, s[i] = d
        PROVE  (CHOOSE k \in Indexed : heap.info[r[k]] = d)
                 = (CHOOSE j \in 2 .. free - 1 : s[j] = d) - 1
    <3>1. i - 1 \in Indexed /\ heap.info[r[i - 1]] = d
      <4>1. i - 1 \in Indexed /\ (i - 1) + 1 = i
        BY <1>1
      <4> QED
        BY <1>5, <2>2, <4>1
    <3>2. \A j \in 2 .. free - 1 : s[j] = d => j = i
      BY <1>1, <2>2 DEF Order
    <3>3. (CHOOSE j \in 2 .. free - 1 : s[j] = d) = i
      BY <2>2, <3>2
    <3>4. ASSUME NEW k \in Indexed, heap.info[r[k]] = d PROVE k = i - 1
      <4>1. k + 1 \in 2 .. free - 1 /\ s[k + 1] = d
        BY <1>1, <1>5, <3>4
      <4> QED
        BY <1>1, <3>2, <4>1
    <3>5. (CHOOSE k \in Indexed : heap.info[r[k]] = d) = i - 1
      BY <3>1, <3>4
    <3> QED
      BY <3>3, <3>5
  <2>3. CASE \E i \in 2 .. free - 1 : s[i] = d
    BY <1>4, <1>5, <1>6, <2>1, <2>2, <2>3 DEF Numbered
  <2>4. CASE ~ \E i \in 2 .. free - 1 : s[i] = d
    BY <1>4, <1>5, <1>6, <2>1, <2>4 DEF Numbered
  <2> QED
    BY <2>3, <2>4
<1>7. data' = [d \in DOMAIN data' |-> data'[d]] /\ DOMAIN data' = DOMAIN data
  BY <1>4
<1> QED
  BY <1>6, <1>7

LEMMA NumberPositive ==
  ASSUME InputsInv, HeadFirst(config), NEW k \in 1 .. items - 3
  PROVE  IndexOf(k) \in Indexes /\ IndexOf(k) > 0
<1>1. items \in Nat /\ items < 65536 /\ res.seed1 \in Int
  BY InputFacts
<1>2. items = Items(config.total \div NUM_ALGORITHMS) /\ res.seed1 = Seeds(config)[1]
  BY DEF items, InputsInv
<1> HIDE DEF items
<1>3. k \in NumbersOf(config) /\ k \in Nat
  BY <1>1, <1>2 DEF NumbersOf
<1>4. NumberOf(config, k) = IndexOf(k)
  BY <1>2 DEF NumberOf, IndexOf
<1>5. IndexOf(k) # 0
  BY <1>3, <1>4 DEF HeadFirst
<1>6. IndexOf(k) \in Indexes /\ IndexOf(k) \in Nat
  BY <1>1, <1>3, IndexType DEF IndexOf
<1> QED
  BY <1>5, <1>6

LEMMA IndexData ==
  ASSUME InputsInv, HeadFirst(config), CountInv, LocalsInv, NEW s, HeapInv(s), ListInv(s),
         HeadInv, DataInv, IndexItems, items' = items, free' = free
  PROVE  DataInv'
<1>1. /\ free = items - 1 /\ free \in Nat /\ free >= 3 /\ items \in Nat /\ s[1] = 0
      /\ Order(s, free)
  BY IndexedCells, InputFacts DEF HeadInv, HeadPcs, IndexItems, HeapInv
<1> HIDE DEF items
<1>2. data' = [d \in DOMAIN data |-> Numbered(s, d)]
  BY IndexedData
<1>3. data \in [CellsOf(items) -> DataType] /\ data[0].idx = 0
      /\ \A d \in 1 .. free - 1 : data[d].idx > 0
  BY DEF DataInv, DataTypes, DataType
<1>4. ASSUME NEW d \in CellsOf(items)
      PROVE  /\ Numbered(s, d) \in DataType
             /\ \/ Numbered(s, d) = data[d]
                \/ Numbered(s, d).idx > 0 /\ d # 0
  <2>1. CASE \E i \in 2 .. free - 1 : s[i] = d
    <3> DEFINE i == CHOOSE j \in 2 .. free - 1 : s[j] = d
    <3>1. i \in 2 .. free - 1 /\ s[i] = d
      BY <2>1
    <3>2. Numbered(s, d) = [data[d] EXCEPT !.idx = IndexOf(i - 1)]
      BY <2>1 DEF Numbered
    <3> HIDE DEF i
    <3>3. i - 1 \in 1 .. items - 3
      BY <1>1, <3>1
    <3> DEFINE number == IndexOf(i - 1)
    <3>4. number \in Indexes /\ number > 0
      BY <3>3, NumberPositive
    <3> HIDE DEF number
    <3>5. d # 0
      BY <1>1, <3>1 DEF Order
    <3>6. data[d] \in DataType
      BY <1>3
    <3>7. Numbered(s, d) = [data[d] EXCEPT !.idx = number]
      BY <3>2 DEF number
    <3> QED
      BY <3>4, <3>5, <3>6, <3>7 DEF DataType
  <2>2. CASE ~ \E i \in 2 .. free - 1 : s[i] = d
    BY <1>3, <2>2 DEF Numbered
  <2> QED
    BY <2>1, <2>2
<1>5. data' \in [CellsOf(items) -> DataType]
  BY <1>2, <1>3, <1>4
<1>6. 0 \in CellsOf(items) /\ \A d \in 1 .. free - 1 : d \in CellsOf(items) /\ d # 0
  BY <1>1 DEF CellsOf
<1>7. data'[0].idx = 0
  BY <1>2, <1>3, <1>4, <1>6
<1>8. \A d \in 1 .. free - 1 : data'[d].idx > 0
  BY <1>2, <1>3, <1>4, <1>6
<1> QED
  BY <1>5, <1>7, <1>8 DEF DataInv, DataTypes, DataType

(* A result that is kept, and the end of its validity, leave the index and *)
(* the backup alone.                                                        *)
Refreshed ==
  /\ data' \in DataTypes(items)
  /\ \A d \in CellsOf(items) : data'[d].idx = data[d].idx /\ data'[d].hi = data[d].hi
LEMMA RefreshedData ==
  ASSUME CountInv, DataInv, Refreshed, items' = items, free' = free
  PROVE  DataInv'
<1>1. free \in Nat /\ items \in Nat /\ free <= items /\ free >= 1
  BY DEF CountInv, Fit
<1> HIDE DEF items
<1>2. 0 \in CellsOf(items) /\ \A d \in 1 .. free - 1 : d \in CellsOf(items)
  BY <1>1 DEF CellsOf
<1> QED
  BY <1>2 DEF Refreshed, DataInv

LEMMA CachedData ==
  ASSUME CountInv, DataInv, NEW d, NEW r, Caches(d, r)
  PROVE  /\ Refreshed
         /\ \A c \in CellsOf(free) : Cached(c) => data'[c] = data[c]
<1>1. d \in CellsOf(free) /\ ~ Cached(d) /\ r \in Nat /\ data \in DataTypes(items)
      /\ d \in DOMAIN data
  BY WordIsNat, DataFacts DEF Caches
<1>2. data' = [data EXCEPT ![d].lo = 128 + (r % 128)]
  BY DEF Caches, CacheResult
<1> DEFINE lo == 128 + (r % 128)
<1>3. lo \in Nat /\ lo <= 255
  BY <1>1
<1> HIDE DEF lo
<1>4. lo \in Bytes
  BY <1>3, BytesAre
<1>5. data' = [data EXCEPT ![d].lo = lo]
  BY <1>2 DEF lo
<1>6. data[d] \in DataType /\ data \in [CellsOf(items) -> DataType]
  BY <1>1 DEF DataTypes, DataType
<1>7. [data[d] EXCEPT !.lo = lo] \in DataType
  BY <1>4, <1>6 DEF DataType
<1>8. data' \in [CellsOf(items) -> DataType]
  BY <1>5, <1>6, <1>7
<1>9. data'[d] = [data[d] EXCEPT !.lo = lo] /\ \A c \in CellsOf(items) : c # d => data'[c] = data[c]
  BY <1>1, <1>5, <1>6
<1>10. data'[d].idx = data[d].idx /\ data'[d].hi = data[d].hi
  BY <1>6, <1>9 DEF DataType
<1>11. \A c \in CellsOf(items) : data'[c].idx = data[c].idx /\ data'[c].hi = data[c].hi
  BY <1>9, <1>10
<1>12. \A c \in CellsOf(free) : c \in CellsOf(items)
  BY DEF CountInv, Fit, CellsOf
<1> QED
  BY <1>1, <1>8, <1>9, <1>11, <1>12 DEF Refreshed, DataTypes, DataType

LEMMA RegeneratedData ==
  ASSUME CountInv, DataInv, NEW p \in CellsOf(free), NEW q \in CellsOf(free), p # q,
         data' = [data EXCEPT ![p] = Regenerated(p), ![q] = Regenerated(q)]
  PROVE  /\ Refreshed
         /\ \A c \in CellsOf(free) : data[c].lo = data[c].hi => data'[c].lo = data'[c].hi
         /\ data'[p].lo = data'[p].hi /\ data'[q].lo = data'[q].hi
<1>1. \A c \in CellsOf(free) : c \in CellsOf(items)
  BY DEF CountInv, Fit, CellsOf
<1>2. data \in [CellsOf(items) -> DataType]
  BY DEF DataInv, DataTypes, DataType
<1>3. \A d \in CellsOf(items) :
        /\ Regenerated(d) \in DataType /\ Regenerated(d).lo = Regenerated(d).hi
        /\ Regenerated(d).idx = data[d].idx /\ Regenerated(d).hi = data[d].hi
  BY <1>2 DEF Regenerated, DataType
<1>4. /\ data' \in [CellsOf(items) -> DataType]
      /\ data'[p] = Regenerated(p) /\ data'[q] = Regenerated(q)
      /\ \A c \in CellsOf(items) : c # p /\ c # q => data'[c] = data[c]
  BY <1>1, <1>2, <1>3
<1>5. \A d \in CellsOf(items) : data'[d].idx = data[d].idx /\ data'[d].hi = data[d].hi
  BY <1>1, <1>3, <1>4
<1>6. \A c \in CellsOf(free) : data[c].lo = data[c].hi => data'[c].lo = data'[c].hi
  BY <1>1, <1>3, <1>4
<1> QED
  BY <1>1, <1>3, <1>4, <1>5, <1>6 DEF Refreshed, DataTypes, DataType

-----------------------------------------------------------------------------
(* The pairs known to be in order: they only become more during a sort.    *)
SortStays == /\ sort'.by = sort.by /\ sort'.before = sort.before
             /\ items' = items /\ free' = free
LEMMA LeExtends ==
  ASSUME CountInv, DataInv, SortStays,
         \A d \in CellsOf(free) :
           Settled(d) => Settled(d)' /\ KeyOf(d)' = KeyOf(d)
  PROVE  Extends(Le, Le') /\ Extends(St, St')
<1>1. sort'.by = sort.by /\ sort'.before = sort.before /\ free' = free
  BY DEF SortStays
<1>2. ASSUME NEW c, NEW d, Related(Le, c, d) PROVE Related(Le', c, d)
  <2>1. /\ c \in CellsOf(free) /\ d \in CellsOf(free) /\ Settled(c) /\ Settled(d)
        /\ KeyOf(c) <= KeyOf(d)
    BY <1>2 DEF Related, Le, Pairs, BothSettled
  <2>2. Settled(c)' /\ Settled(d)' /\ KeyOf(c)' = KeyOf(c) /\ KeyOf(d)' = KeyOf(d)
    BY <2>1
  <2>3. KeyOf(c)' <= KeyOf(d)'
    BY <2>1, <2>2
  <2> HIDE DEF KeyOf, Settled
  <2> QED
    BY <1>1, <2>1, <2>2, <2>3 DEF Related, Le, Pairs, BothSettled
<1>3. ASSUME NEW c, NEW d, Related(St, c, d) PROVE Related(St', c, d)
  <2>1. c \in CellsOf(free) /\ d \in CellsOf(free)
    BY <1>3 DEF Related, St, Pairs
  <2>2. CASE CameFirst(<<c, d>>)
    <3>1. PICK i, j \in 1 .. free : i < j /\ sort.before[i] = c /\ sort.before[j] = d
      BY <2>2 DEF CameFirst
    <3> QED
      BY <1>1, <2>1, <3>1 DEF Related, St, Pairs, CameFirst
  <2>3. CASE Settled(c) /\ Settled(d) /\ KeyOf(c) < KeyOf(d)
    <3>1. Settled(c)' /\ Settled(d)' /\ KeyOf(c)' = KeyOf(c) /\ KeyOf(d)' = KeyOf(d)
      BY <2>1, <2>3
    <3>2. KeyOf(c)' < KeyOf(d)'
      BY <2>3, <3>1
    <3> QED
      BY <1>1, <2>1, <3>1, <3>2 DEF Related, St, Pairs, BothSettled
  <2> QED
    BY <1>3, <2>2, <2>3 DEF Related, St, BothSettled
<1> QED
  BY <1>2, <1>3 DEF Extends

(* A comparison: why the next cell is taken from p, or from q.             *)
PIsFirst(p, q) == Related(Le', p, q)
QIsFirst(p, q) == Related(Le', q, p) /\ KeyOf(q)' < KeyOf(p)'
Compared ==
  \E p, q : /\ p = sort.p /\ q = sort.q
            /\ (TakeP /\ PIsFirst(p, q)) \/ (TakeQ /\ QIsFirst(p, q))
LEMMA TakeStays ==
  ASSUME pc = "sort", LocalsInv, TakeP \/ TakeQ
  PROVE  /\ sort'.by = sort.by /\ sort'.before = sort.before /\ sort'.then = sort.then
         /\ UNCHANGED <<list, free, calc, b, pc, res, crcs, state_mem, scan, mat>>
  BY DEF LocalsInv, SortLocals, TakeP, TakeQ, Take

LEMMA Decided ==
  ASSUME pc = "sort", LocalsInv, NEW p \in CellsOf(free), NEW q \in CellsOf(free),
         p = sort.p, q = sort.q, Settled(p)', Settled(q)',
         KeyOf(p)' \in Nat, KeyOf(q)' \in Nat,
         IF KeyOf(p)' <= KeyOf(q)' THEN TakeP ELSE TakeQ
  PROVE  Compared
<1>1. free' = free
  BY TakeStays
<1> DEFINE kp == KeyOf(p)'
           kq == KeyOf(q)'
<1>2. kp <= kq => Related(Le', p, q)
  BY <1>1 DEF Related, Le, Pairs, BothSettled
<1>3. kq <= kp => Related(Le', q, p)
  BY <1>1 DEF Related, Le, Pairs, BothSettled
<1>4. kp \in Nat /\ kq \in Nat /\ (kp <= kq => TakeP) /\ (~ (kp <= kq) => TakeQ)
  OBVIOUS
<1> HIDE DEF kp, kq
<1>5. CASE kp <= kq
  BY <1>2, <1>4, <1>5 DEF Compared, PIsFirst
<1>6. CASE ~ (kp <= kq)
  <2>1. kq < kp /\ kq <= kp /\ TakeQ
    BY <1>4, <1>6
  <2>2. QIsFirst(p, q)
    BY <1>3, <2>1 DEF QIsFirst, kp, kq
  <2> QED
    BY <2>1, <2>2 DEF Compared
<1> QED
  BY <1>5, <1>6

Parts(s, m) ==
  /\ InputsInv /\ CountInv /\ LocalsInv /\ HeapInv(s) /\ MergeInv(s, m) /\ DataInv
LEMMA ComparedByData ==
  ASSUME NEW s, NEW m, Parts(s, m), items' = items, CompareData
  PROVE  Comparing /\ Compared /\ Refreshed /\ Extends(Le, Le') /\ Extends(St, St')
<1> USE DEF Parts
<1>1. /\ Comparing /\ sort.by = "data" /\ data' = data /\ pc = "sort"
      /\ TakeP \/ TakeQ
  BY DEF CompareData, Comparing
<1>2. /\ sort.p \in CellsOf(free) /\ sort.q \in CellsOf(free)
      /\ heap.info[sort.p] = sort.p /\ heap.info[sort.q] = sort.q
  BY <1>1, ComparedCells
<1>3. sort'.by = sort.by /\ sort'.before = sort.before /\ free' = free
  BY <1>1, TakeStays
<1>4. PICK p, q : p = sort.p /\ q = sort.q /\ p \in CellsOf(free) /\ q \in CellsOf(free)
  BY <1>2
<1>5. KeyOf(p)' = data[p].lo /\ KeyOf(q)' = data[q].lo /\ Settled(p)' /\ Settled(q)'
  BY <1>1, <1>2, <1>3, <1>4 DEF KeyOf, Settled, Cached, CompareData
<1>6. data[p].lo \in Nat /\ data[q].lo \in Nat
  BY <1>4, DataFacts, BytesAre
<1>7. IF data[p].lo <= data[q].lo THEN TakeP ELSE TakeQ
  BY <1>2, <1>4 DEF CompareData, First, InfoOf, InfoAt
<1>8. Compared
  <2>1. Settled(p)' /\ Settled(q)' /\ KeyOf(p)' \in Nat /\ KeyOf(q)' \in Nat
    BY <1>5, <1>6
  <2>2. IF KeyOf(p)' <= KeyOf(q)' THEN TakeP ELSE TakeQ
    BY <1>5, <1>7
  <2> QED
    BY <1>1, <1>4, <2>1, <2>2, Decided
<1>9. SortStays
  BY <1>3 DEF SortStays
<1>10. \A d \in CellsOf(free) : Settled(d) => Settled(d)' /\ KeyOf(d)' = KeyOf(d)
  BY <1>1, <1>3 DEF Settled, KeyOf, Cached
<1>11. Refreshed
  BY <1>1 DEF Refreshed, DataInv
<1> QED
  BY <1>1, <1>8, <1>9, <1>10, <1>11, LeExtends

LEMMA ComparedByIdx ==
  ASSUME NEW s, NEW m, Parts(s, m), items' = items, CompareIdx
  PROVE  Comparing /\ Compared /\ Refreshed /\ Extends(Le, Le') /\ Extends(St, St')
<1> USE DEF Parts
<1>1. Comparing /\ sort.by = "idx"
  BY DEF CompareIdx, Comparing
<1>2. /\ sort.p \in CellsOf(free) /\ sort.q \in CellsOf(free) /\ sort.p # sort.q
      /\ heap.info[sort.p] = sort.p /\ heap.info[sort.q] = sort.q
  BY <1>1, ComparedCells
<1>3. sort'.by = sort.by /\ sort'.before = sort.before /\ free' = free
  <2>1. TakeP \/ TakeQ
    BY DEF CompareIdx
  <2>2. pc = "sort"
    BY DEF CompareIdx, Comparing
  <2> QED
    BY <2>1, <2>2, TakeStays
<1>4. PICK p, q : /\ p = sort.p /\ q = sort.q /\ p \in CellsOf(free) /\ q \in CellsOf(free)
                  /\ p # q
  BY <1>2
<1>5. /\ data' = [data EXCEPT ![p] = Regenerated(p), ![q] = Regenerated(q)]
      /\ IF data[p].idx <= data[q].idx THEN TakeP ELSE TakeQ
  BY <1>2, <1>4 DEF CompareIdx, First
<1>6. /\ Refreshed
      /\ \A c \in CellsOf(free) : data[c].lo = data[c].hi => data'[c].lo = data'[c].hi
      /\ data'[p].lo = data'[p].hi /\ data'[q].lo = data'[q].hi
  BY <1>4, <1>5, RegeneratedData
<1>7. \A c \in CellsOf(free) : c \in CellsOf(items)
  BY DEF CountInv, Fit, CellsOf
<1>8. \A c \in CellsOf(free) : data'[c].idx = data[c].idx
  BY <1>6, <1>7 DEF Refreshed
<1>9. Compared
  <2>1. KeyOf(p)' = data[p].idx /\ KeyOf(q)' = data[q].idx /\ Settled(p)' /\ Settled(q)'
    BY <1>1, <1>3, <1>4, <1>6, <1>8 DEF KeyOf, Settled, CompareIdx
  <2>2. data[p].idx \in Nat /\ data[q].idx \in Nat
    BY <1>4, DataFacts
  <2>3. KeyOf(p)' \in Nat /\ KeyOf(q)' \in Nat
    BY <2>1, <2>2
  <2>4. IF KeyOf(p)' <= KeyOf(q)' THEN TakeP ELSE TakeQ
    BY <1>5, <2>1
  <2>5. pc = "sort"
    BY DEF CompareIdx, Comparing
  <2> QED
    BY <1>4, <2>1, <2>3, <2>4, <2>5, Decided
<1>10. SortStays
  BY <1>3 DEF SortStays
<1>11. \A d \in CellsOf(free) : Settled(d) => Settled(d)' /\ KeyOf(d)' = KeyOf(d)
  <2>1. sort.by = "idx" /\ sort'.by = "idx"
    BY <1>3 DEF CompareIdx
  <2> QED
    BY <1>6, <1>8, <2>1 DEF Settled, KeyOf
<1>12. Comparing
  BY DEF CompareIdx
<1> QED
  BY <1>6, <1>9, <1>10, <1>11, <1>12, LeExtends

-----------------------------------------------------------------------------
(* A cell is taken from p or from q.                                       *)
TakesP ==
  /\ sort.psize > 0 /\ TakeP
  /\ sort.qsize > 0 /\ sort.q # NULL =>
       \E p, q : p = sort.p /\ q = sort.q /\ PIsFirst(p, q)
TakesQ ==
  /\ sort.qsize > 0 /\ sort.q # NULL /\ TakeQ
  /\ sort.psize > 0 => \E p, q : p = sort.p /\ q = sort.q /\ QIsFirst(p, q)
LEMMA TakeCases ==
  ASSUME NEW s, NEW m, Parts(s, m), items' = items, TakeStep
  PROVE  /\ pc = "sort" /\ Refreshed /\ Extends(Le, Le') /\ Extends(St, St')
         /\ TakesP \/ TakesQ
<1>1. CASE CompareData \/ CompareIdx
  <2>1. Comparing /\ Compared /\ Refreshed /\ Extends(Le, Le') /\ Extends(St, St')
    BY <1>1, ComparedByData, ComparedByIdx
  <2>2. pc = "sort" /\ sort.psize > 0 /\ sort.qsize > 0 /\ sort.q # NULL
    BY <2>1 DEF Comparing
  <2> QED
    BY <2>1, <2>2 DEF Compared, TakesP, TakesQ
<1>2. CASE MergeRest
  <2>1. pc = "sort" /\ data' = data
    BY <1>2 DEF MergeRest
  <2>2. sort.psize \in Nat /\ sort.qsize \in Nat
    BY <2>1 DEF Parts, LocalsInv, SortLocals
  <2>3. \/ sort.psize = 0 /\ sort.qsize > 0 /\ sort.q # NULL /\ TakeQ
        \/ sort.psize > 0 /\ (sort.qsize = 0 \/ sort.q = NULL) /\ TakeP
    BY <1>2 DEF MergeRest
  <2>4. TakesP \/ TakesQ
    BY <2>2, <2>3 DEF TakesP, TakesQ
  <2>5. sort'.by = sort.by /\ sort'.before = sort.before /\ free' = free
    BY <2>1, <2>3, TakeStays DEF Parts
  <2>6. SortStays
    BY <2>5 DEF SortStays
  <2>7. \A d \in CellsOf(free) : Settled(d) => Settled(d)' /\ KeyOf(d)' = KeyOf(d)
    BY <2>1, <2>5 DEF Settled, KeyOf, Cached
  <2>8. Refreshed
    BY <2>1 DEF Refreshed, Parts, DataInv
  <2> QED
    BY <2>1, <2>4, <2>6, <2>7, <2>8, LeExtends DEF Parts
<1> QED
  BY <1>1, <1>2 DEF TakeStep

LEMMA FitCells ==
  ASSUME NEW n, NEW c, Fit(n, c)
  PROVE  \A z \in CellsOf(n) : z \in CellsOf(c)
  BY DEF Fit, CellsOf

(* The new pairs are as good as an order.                                  *)
LEMMA LeFirst ==
  ASSUME CountInv', DataInv', NEW c, NEW d
  PROVE  /\ Related(Le', c, d) => ComesFirst(c, d, Le', Le')
         /\ Related(Le', c, d) /\ KeyOf(c)' < KeyOf(d)' => ComesFirst(c, d, St', Le')
<1>1. ASSUME NEW x, NEW y, Related(Le', x, y)
      PROVE  /\ x \in CellsOf(free') /\ y \in CellsOf(free')
             /\ Settled(x)' /\ Settled(y)' /\ KeyOf(x)' <= KeyOf(y)'
             /\ KeyOf(x)' \in Nat /\ KeyOf(y)' \in Nat
  <2>1. /\ x \in CellsOf(free') /\ y \in CellsOf(free') /\ Settled(x)' /\ Settled(y)'
        /\ KeyOf(x)' <= KeyOf(y)'
    BY <1>1 DEF Related, Le, Pairs, BothSettled
  <2>2. \A z \in CellsOf(free') : z \in CellsOf(items')
    <3>1. Fit(free', items')
      BY DEF CountInv
    <3> QED
      BY <3>1, FitCells
  <2>3. \A z \in CellsOf(items') : data'[z] \in DataType
    BY DEF DataInv, DataTypes, DataType
  <2>4. \A z \in CellsOf(free') : data'[z].lo \in Nat /\ data'[z].idx \in Nat
    BY <2>2, <2>3, BytesAre, IndexIsNat DEF DataType
  <2> QED
    BY <2>1, <2>4 DEF KeyOf
<1>2. ASSUME NEW x, NEW y, x \in CellsOf(free'), y \in CellsOf(free'),
             Settled(x)', Settled(y)'
      PROVE  /\ KeyOf(x)' <= KeyOf(y)' => Related(Le', x, y)
             /\ KeyOf(x)' < KeyOf(y)' => Related(St', x, y)
  BY <1>2 DEF Related, Le, St, Pairs, BothSettled
<1>3. ASSUME Related(Le', c, d), NEW x, x = d \/ Related(Le', d, x)
      PROVE  Related(Le', c, x)
  <2>1. CASE x = d
    BY <1>3, <2>1
  <2>2. CASE Related(Le', d, x)
    <3>1. KeyOf(c)' <= KeyOf(d)' /\ KeyOf(d)' <= KeyOf(x)'
          /\ KeyOf(c)' \in Nat /\ KeyOf(d)' \in Nat /\ KeyOf(x)' \in Nat
      BY <1>1, <1>3, <2>2
    <3> HIDE DEF KeyOf
    <3>2. KeyOf(c)' <= KeyOf(x)'
      BY <3>1
    <3> QED
      BY <1>1, <1>2, <1>3, <2>2, <3>2
  <2> QED
    BY <1>3, <2>1, <2>2
<1>4. ASSUME Related(Le', c, d), KeyOf(c)' < KeyOf(d)', NEW x, x = d \/ Related(Le', d, x)
      PROVE  Related(St', c, x)
  <2>1. CASE x = d
    BY <1>1, <1>2, <1>4, <2>1
  <2>2. CASE Related(Le', d, x)
    <3>1. KeyOf(c)' < KeyOf(d)' /\ KeyOf(d)' <= KeyOf(x)'
          /\ KeyOf(c)' \in Nat /\ KeyOf(d)' \in Nat /\ KeyOf(x)' \in Nat
      BY <1>1, <1>4, <2>2
    <3>2. KeyOf(c)' < KeyOf(x)'
      BY <3>1
    <3> QED
      BY <1>1, <1>2, <1>4, <2>2, <3>2
  <2> QED
    BY <1>4, <2>1, <2>2
<1> QED
  BY <1>3, <1>4 DEF ComesFirst

(* The infos outside the window.                                           *)
LEMMA InfoSame ==
  ASSUME NEW s, Order(s, free), ~ Window
  PROVE  (\A i \in 1 .. free : heap.info[s[i]] = s[InfoPlace(i)])
           <=> \A c \in CellsOf(free) : heap.info[c] = c
<1>1. \A i \in 1 .. free : InfoPlace(i) = i
  BY DEF InfoPlace
<1> QED
  BY <1>1 DEF Order

(* What is the case in the middle of a sort.                               *)
LEMMA SortFacts ==
  ASSUME NEW s, NEW m, Parts(s, m), pc = "sort"
  PROVE  /\ free \in Nat /\ free >= 1 /\ m \in Nat /\ sort.psize \in Nat /\ sort.qsize \in Nat
         /\ m + sort.psize \in Nat /\ m + sort.psize <= free
         /\ Fit(free, items) /\ Order(s, free)
         /\ LinkType(heap.next, items)
         /\ heap = [next |-> heap.next, info |-> heap.info]
         /\ SortLinks(heap.next, s, free, m, m + sort.psize)
         /\ \A c \in CellsOf(free) : heap.info[c] = c
         /\ \A i \in 1 .. free : s[i] \in CellsOf(free) /\ s[i] \in Pointers(items) /\ s[i] # NULL
         /\ b.remover = NULL
<1>1. free \in Nat /\ free >= 1 /\ Fit(free, items)
  BY DEF Parts, CountInv, Fit
<1>2. m \in Nat /\ sort.psize \in Nat /\ sort.qsize \in Nat /\ m + sort.psize <= free
      /\ SortLinks(heap.next, s, free, m, m + sort.psize)
  BY DEF Parts, LocalsInv, SortLocals, MergeInv
<1>3. Order(s, free) /\ ~ Window /\ b.remover = NULL
  BY DEF Parts, HeapInv, Window
<1>4. LinkType(heap.next, items) /\ heap = [next |-> heap.next, info |-> heap.info]
  BY DEF Parts, HeapInv, LinkType, NextTypes
<1>5. \A c \in CellsOf(free) : heap.info[c] = c
  BY <1>3, InfoSame DEF Parts, HeapInv
<1>6. \A i \in 1 .. free : s[i] \in CellsOf(free) /\ s[i] \in Pointers(items) /\ s[i] # NULL
  BY <1>1, <1>3, CellsFit DEF Order
<1> QED
  BY <1>1, <1>2, <1>3, <1>4, <1>5, <1>6

-----------------------------------------------------------------------------
(* What a sort changes when it takes a cell.                               *)
SameFields(fields) == \A x \in fields : sort'[x] = sort[x]
TakenFrom(from, size, c) ==
  /\ sort'[from] = heap.next[c] /\ sort'[size] = sort[size] - 1
  /\ sort'.head = (IF sort.tail = NULL THEN c ELSE sort.head) /\ sort'.tail = c
  /\ SameFields({"by", "then", "insize", "nmerges", "before"})
  /\ sort' \in SortLocals(items)
  /\ heap' = IF sort.tail = NULL THEN heap
             ELSE [heap EXCEPT !.next = [@ EXCEPT ![sort.tail] = c]]
LEMMA TakenP ==
  ASSUME sort \in SortLocals(items), TakeP, sort.p \in Pointers(items),
         heap.next[sort.p] \in Pointers(items), sort.psize > 0
  PROVE  TakenFrom("p", "psize", sort.p) /\ SameFields({"q", "qsize"})
<1>1. sort.psize - 1 \in Nat
  BY DEF SortLocals
<1>2. sort' = [sort EXCEPT !.p = heap.next[sort.p], !.psize = sort.psize - 1,
                 !.head = IF sort.tail = NULL THEN sort.p ELSE sort.head, !.tail = sort.p]
  BY DEF TakeP, Take
<1>3. heap' = IF sort.tail = NULL THEN heap
              ELSE [heap EXCEPT !.next = [@ EXCEPT ![sort.tail] = sort.p]]
  BY DEF TakeP, Take
<1> DEFINE less == sort.psize - 1
           then == heap.next[sort.p]
           first == IF sort.tail = NULL THEN sort.p ELSE sort.head
<1>4. less \in Nat /\ then \in Pointers(items) /\ first \in Pointers(items)
  BY <1>1 DEF SortLocals
<1>5. sort' = [sort EXCEPT !.p = then, !.psize = less, !.head = first, !.tail = sort.p]
  BY <1>2
<1> HIDE DEF less, then, first
<1>6. sort' \in SortLocals(items)
  BY <1>4, <1>5 DEF SortLocals
<1>7. /\ sort'.p = then /\ sort'.psize = less /\ sort'.head = first /\ sort'.tail = sort.p
      /\ sort'.by = sort.by /\ sort'.then = sort.then /\ sort'.insize = sort.insize
      /\ sort'.nmerges = sort.nmerges /\ sort'.before = sort.before
      /\ sort'.q = sort.q /\ sort'.qsize = sort.qsize
  BY <1>5 DEF SortLocals
<1> QED
  BY <1>3, <1>6, <1>7 DEF TakenFrom, SameFields, less, then, first

LEMMA TakenQ ==
  ASSUME sort \in SortLocals(items), TakeQ, sort.q \in Pointers(items),
         heap.next[sort.q] \in Pointers(items), sort.qsize > 0
  PROVE  TakenFrom("q", "qsize", sort.q) /\ SameFields({"p", "psize"})
<1>1. sort.qsize - 1 \in Nat
  BY DEF SortLocals
<1>2. sort' = [sort EXCEPT !.q = heap.next[sort.q], !.qsize = sort.qsize - 1,
                 !.head = IF sort.tail = NULL THEN sort.q ELSE sort.head, !.tail = sort.q]
  BY DEF TakeQ, Take
<1>3. heap' = IF sort.tail = NULL THEN heap
              ELSE [heap EXCEPT !.next = [@ EXCEPT ![sort.tail] = sort.q]]
  BY DEF TakeQ, Take
<1> DEFINE less == sort.qsize - 1
           then == heap.next[sort.q]
           first == IF sort.tail = NULL THEN sort.q ELSE sort.head
<1>4. less \in Nat /\ then \in Pointers(items) /\ first \in Pointers(items)
  BY <1>1 DEF SortLocals
<1>5. sort' = [sort EXCEPT !.q = then, !.qsize = less, !.head = first, !.tail = sort.q]
  BY <1>2
<1> HIDE DEF less, then, first
<1>6. sort' \in SortLocals(items)
  BY <1>4, <1>5 DEF SortLocals
<1>7. /\ sort'.q = then /\ sort'.qsize = less /\ sort'.head = first /\ sort'.tail = sort.q
      /\ sort'.by = sort.by /\ sort'.then = sort.then /\ sort'.insize = sort.insize
      /\ sort'.nmerges = sort.nmerges /\ sort'.before = sort.before
      /\ sort'.p = sort.p /\ sort'.psize = sort.psize
  BY <1>5 DEF SortLocals
<1> QED
  BY <1>3, <1>6, <1>7 DEF TakenFrom, SameFields, less, then, first

(* The invariant of the list, for an order of the cells.                   *)
ShapeInv(s, m) ==
  HeapInv(s) /\ ListInv(s) /\ MergeInv(s, m) /\ OrderInv(s, m) /\ SortedInv(s)
(* In the middle of a sort, what is left to show of it.                    *)
LEMMA SortShape ==
  ASSUME pc' = "sort", items' = items, free' = free, b'.remover = NULL,
         sort' \in SortLocals(items), NEW t, NEW k, Order(t, free),
         LinkType(heap'.next, items), LinkType(heap'.info, items),
         heap' = [next |-> heap'.next, info |-> heap'.info],
         \A c \in CellsOf(free) : heap'.info[c] = c,
         MergeInv(t, k)', OrderInv(t, k)'
  PROVE  ShapeInv(t, k)'
<1>1. ~ Window' /\ \A i \in 1 .. free : InfoPlace(i)' = i
  BY DEF Window, InfoPlace
<1>2. \A i \in 1 .. free : heap'.info[t[i]] = t[i]
  BY DEF Order
<1>3. heap' \in [next : NextTypes(items), info : NextTypes(items)]
  BY DEF LinkType, NextTypes
<1>4. \A i \in 1 .. free : heap'.info[t[i]] = t[InfoPlace(i)']
  BY <1>1, <1>2
<1>5. HeapInv(t)'
  BY <1>1, <1>3, <1>4 DEF HeapInv
<1>6. ListInv(t)'
  BY DEF ListInv
<1>7. sort'.then # "sort"
  BY DEF SortLocals
<1>8. SortedInv(t)'
  BY <1>7 DEF SortedInv
<1> QED
  BY <1>5, <1>6, <1>8 DEF ShapeInv

LEMMA TakePKeeps ==
  ASSUME NEW s, NEW m, Parts(s, m), OrderInv(s, m), pc = "sort", items' = items,
         CountInv', DataInv', Extends(Le, Le'), Extends(St, St'), TakesP,
         NEW k, k = m + 1
  PROVE  ShapeInv(s, k)' /\ sort' \in SortLocals(items)
<1> DEFINE e == m + sort.psize
<1>1. /\ free \in Nat /\ free >= 1 /\ m \in Nat /\ sort.psize \in Nat /\ sort.qsize \in Nat
      /\ e \in Nat /\ e <= free /\ Fit(free, items) /\ Order(s, free)
      /\ LinkType(heap.next, items) /\ heap = [next |-> heap.next, info |-> heap.info]
      /\ SortLinks(heap.next, s, free, m, e)
      /\ \A c \in CellsOf(free) : heap.info[c] = c
      /\ \A i \in 1 .. free : s[i] \in CellsOf(free) /\ s[i] \in Pointers(items) /\ s[i] # NULL
      /\ b.remover = NULL
  BY SortFacts
<1>2. sort.psize > 0 /\ TakeP /\ sort \in SortLocals(items)
  BY DEF TakesP, Parts, LocalsInv
<1>3. /\ sort.p = s[m + 1] /\ sort.q = Follower(s, free, e)
      /\ sort.tail = IF m = 0 THEN NULL ELSE s[m]
      /\ m > 0 => sort.head = s[1]
  BY <1>2 DEF Parts, MergeInv
<1>4. UNCHANGED <<list, free, calc, b, pc, res, crcs, state_mem, scan, mat>>
  BY <1>2, TakeStays DEF Parts
<1>5. m < e /\ m + 1 <= e /\ m + 1 \in 1 .. free
  BY <1>1, <1>2
<1>6. heap.next[sort.p] \in Pointers(items)
  <2>1. sort.p \in CellsOf(items)
    BY <1>1, <1>3, <1>5, FitCells
  <2> QED
    BY <1>1, <2>1 DEF LinkType
<1>7. TakenFrom("p", "psize", sort.p) /\ SameFields({"q", "qsize"})
  BY <1>1, <1>2, <1>3, <1>5, <1>6, TakenP
<1>8. /\ sort'.p = heap.next[s[m + 1]] /\ sort'.psize = sort.psize - 1
      /\ sort'.head = (IF sort.tail = NULL THEN s[m + 1] ELSE sort.head)
      /\ sort'.tail = s[m + 1] /\ sort'.q = sort.q /\ sort'.qsize = sort.qsize
      /\ sort'.by = sort.by /\ sort'.then = sort.then /\ sort'.insize = sort.insize
      /\ sort'.nmerges = sort.nmerges /\ sort'.before = sort.before
      /\ sort' \in SortLocals(items)
      /\ heap' = IF sort.tail = NULL THEN heap
                 ELSE [heap EXCEPT !.next = [@ EXCEPT ![sort.tail] = s[m + 1]]]
  BY <1>3, <1>7 DEF TakenFrom, SameFields
<1>9. k + sort'.psize = e /\ k \in Nat /\ k > 0
  BY <1>1, <1>2, <1>8
<1>10. m > 0 => m \in 1 .. free
  BY <1>1, <1>5
<1>11. /\ heap'.next = (IF m = 0 THEN heap.next ELSE [heap.next EXCEPT ![s[m]] = s[m + 1]])
       /\ heap'.info = heap.info
       /\ heap' = [next |-> heap'.next, info |-> heap'.info]
  <2>1. CASE m = 0
    BY <1>1, <1>3, <1>8, <2>1
  <2>2. CASE m # 0
    <3>1. sort.tail = s[m] /\ s[m] # NULL
      BY <1>1, <1>3, <1>10, <2>2
    <3>2. heap' = [heap EXCEPT !.next = [heap.next EXCEPT ![s[m]] = s[m + 1]]]
      BY <1>8, <3>1
    <3> QED
      BY <1>1, <2>2, <3>2
  <2> QED
    BY <2>1, <2>2
<1>12. LinkType(heap'.next, items) /\ SortLinks(heap'.next, s, free, m + 1, e)
  BY <1>1, <1>5, <1>11, LinkP
<1>13. MergeInv(s, k)'
  <2>1. sort'.psize > 0 => sort'.p = s[k + 1]
    <3>1. ASSUME sort'.psize > 0 PROVE sort'.p = s[m + 2]
      <4>1. sort.psize > 1
        BY <1>1, <1>8, <3>1
      <4>2. m + 1 # m /\ m + 1 # e /\ m + 1 < free
        BY <1>1, <4>1
      <4>3. heap.next[s[m + 1]] = Follower(s, free, m + 1)
        BY <1>1, <1>5, <4>2 DEF SortLinks
      <4>4. Follower(s, free, m + 1) = s[m + 2]
        BY <1>1, <4>2 DEF Follower
      <4> QED
        BY <1>8, <4>3, <4>4
    <3>2. k + 1 = m + 2
      BY <1>1
    <3> QED
      BY <3>1, <3>2
  <2>2. sort'.head = s[1]
    <3>1. CASE m = 0
      BY <1>3, <1>8, <3>1
    <3>2. CASE m # 0
      BY <1>1, <1>3, <1>8, <1>10, <3>2
    <3> QED
      BY <3>1, <3>2
  <2>3. sort'.tail = s[k] /\ k # 0
    BY <1>1, <1>8
  <2>4. sort'.q = Follower(s, free, k + sort'.psize) /\ free' = free
    BY <1>3, <1>4, <1>8, <1>9
  <2>5. SortLinks(heap'.next, s, free, k, k + sort'.psize) /\ k + sort'.psize <= free
    BY <1>1, <1>9, <1>12
  <2> QED
    BY <1>9, <2>1, <2>2, <2>3, <2>4, <2>5 DEF MergeInv
<1>14. OrderInv(s, k)'
  <2> DEFINE z == m + sort.psize + sort.qsize
             w == sort.insize
  <2>1. /\ SortParts(s, free, m, e, z, w, Le, St) /\ Order(sort.before, free)
        /\ sort.nmerges = 0 => m = 0 /\ sort.psize = 0 /\ sort.qsize = 0
        /\ sort.nmerges = 1 => z <= 2 * w
    BY DEF OrderInv
  <2>2. SortParts(s, free, m, e, z, w, Le', St')
    BY <2>1, MorePairs
  <2>3. e < free /\ e < z => ComesFirst(s[m + 1], s[e + 1], Le', Le')
    <3>1. ASSUME e < free, e < z PROVE ComesFirst(s[m + 1], s[e + 1], Le', Le')
      <4>1. sort.q = s[e + 1] /\ sort.qsize > 0 /\ e + 1 \in 1 .. free
        BY <1>1, <1>3, <3>1 DEF Follower
      <4>2. sort.q # NULL
        BY <1>1, <4>1
      <4>3. PICK p, q : p = sort.p /\ q = sort.q /\ PIsFirst(p, q)
        BY <4>1, <4>2 DEF TakesP
      <4>4. Related(Le', s[m + 1], s[e + 1])
        BY <1>3, <4>1, <4>3 DEF PIsFirst
      <4> QED
        BY <4>4, LeFirst
    <3> QED
      BY <3>1
  <2>4. SortParts(s, free, m + 1, e, z, w, Le', St')
    BY <1>5, <2>2, <2>3, TakePParts
  <2>5. k + sort'.psize + sort'.qsize = z /\ sort'.insize = w
    BY <1>1, <1>8
  <2>6. SortParts(s, free, k, k + sort'.psize, k + sort'.psize + sort'.qsize,
                  sort'.insize, Le', St')
    BY <1>9, <2>4, <2>5
  <2>7. sort'.nmerges # 0 /\ (sort'.nmerges = 1 => z <= 2 * w)
    BY <1>2, <1>8, <2>1
  <2> HIDE DEF e, z, w
  <2> QED
    BY <1>4, <1>8, <2>1, <2>5, <2>6, <2>7 DEF OrderInv
<1>15. LinkType(heap'.info, items)
  BY <1>11 DEF Parts, HeapInv, LinkType, NextTypes
<1> QED
  BY <1>1, <1>4, <1>8, <1>11, <1>12, <1>13, <1>14, <1>15, SortShape

LEMMA TakeQKeeps ==
  ASSUME NEW s, NEW m, Parts(s, m), OrderInv(s, m), pc = "sort", items' = items,
         CountInv', DataInv', Extends(Le, Le'), Extends(St, St'), TakesQ,
         NEW k, k = m + 1, NEW t, t = Forward(s, m + 1, m + sort.psize + 1)
  PROVE  ShapeInv(t, k)' /\ sort' \in SortLocals(items)
<1> DEFINE e == m + sort.psize
<1>1. /\ free \in Nat /\ free >= 1 /\ m \in Nat /\ sort.psize \in Nat /\ sort.qsize \in Nat
      /\ e \in Nat /\ e <= free /\ Fit(free, items) /\ Order(s, free)
      /\ LinkType(heap.next, items) /\ heap = [next |-> heap.next, info |-> heap.info]
      /\ SortLinks(heap.next, s, free, m, e)
      /\ \A c \in CellsOf(free) : heap.info[c] = c
      /\ \A i \in 1 .. free : s[i] \in CellsOf(free) /\ s[i] \in Pointers(items) /\ s[i] # NULL
      /\ b.remover = NULL
  BY SortFacts
<1>2. sort.qsize > 0 /\ sort.q # NULL /\ TakeQ /\ sort \in SortLocals(items)
  BY DEF TakesQ, Parts, LocalsInv
<1>3. /\ sort.psize > 0 => sort.p = s[m + 1]
      /\ sort.q = Follower(s, free, e)
      /\ sort.tail = IF m = 0 THEN NULL ELSE s[m]
      /\ m > 0 => sort.head = s[1]
  BY DEF Parts, MergeInv
<1>4. UNCHANGED <<list, free, calc, b, pc, res, crcs, state_mem, scan, mat>>
  BY <1>2, TakeStays DEF Parts
<1>5. e < free /\ sort.q = s[e + 1] /\ e + 1 \in 1 .. free /\ m + 1 \in 1 .. free /\ m <= e
  BY <1>1, <1>2, <1>3 DEF Follower
<1>6. heap.next[sort.q] \in Pointers(items)
  <2>1. sort.q \in CellsOf(items)
    BY <1>1, <1>5, FitCells
  <2> QED
    BY <1>1, <2>1 DEF LinkType
<1>7. TakenFrom("q", "qsize", sort.q) /\ SameFields({"p", "psize"})
  BY <1>1, <1>2, <1>5, <1>6, TakenQ
<1>8. /\ sort'.q = heap.next[s[e + 1]] /\ sort'.qsize = sort.qsize - 1
      /\ sort'.head = (IF sort.tail = NULL THEN s[e + 1] ELSE sort.head)
      /\ sort'.tail = s[e + 1] /\ sort'.p = sort.p /\ sort'.psize = sort.psize
      /\ sort'.by = sort.by /\ sort'.then = sort.then /\ sort'.insize = sort.insize
      /\ sort'.nmerges = sort.nmerges /\ sort'.before = sort.before
      /\ sort' \in SortLocals(items)
      /\ heap' = IF sort.tail = NULL THEN heap
                 ELSE [heap EXCEPT !.next = [@ EXCEPT ![sort.tail] = s[e + 1]]]
  BY <1>5, <1>7 DEF TakenFrom, SameFields
<1>9. k + sort'.psize = e + 1 /\ k \in Nat /\ k > 0 /\ e + 1 \in Nat
  BY <1>1, <1>8
<1>10. m > 0 => m \in 1 .. free
  BY <1>1, <1>5
<1>11. /\ heap'.next = (IF m = 0 THEN heap.next ELSE [heap.next EXCEPT ![s[m]] = s[e + 1]])
       /\ heap'.info = heap.info
       /\ heap' = [next |-> heap'.next, info |-> heap'.info]
  <2>1. CASE m = 0
    BY <1>1, <1>3, <1>8, <2>1
  <2>2. CASE m # 0
    <3>1. sort.tail = s[m] /\ s[m] # NULL
      BY <1>1, <1>3, <1>10, <2>2
    <3>2. heap' = [heap EXCEPT !.next = [heap.next EXCEPT ![s[m]] = s[e + 1]]]
      BY <1>8, <3>1
    <3> QED
      BY <1>1, <2>2, <3>2
  <2> QED
    BY <2>1, <2>2
<1>12. t = Forward(s, m + 1, e + 1) /\ m + 1 \in 1 .. free /\ e + 1 \in (m + 1) .. free
  BY <1>1, <1>5
<1>13. /\ LinkType(heap'.next, items) /\ Order(t, free)
       /\ SortLinks(heap'.next, t, free, m + 1, e + 1)
  BY <1>1, <1>5, <1>11, <1>12, LinkQ
<1>14. \A i \in 1 .. free :
         t[i] = IF i = m + 1 THEN s[e + 1]
                ELSE IF m + 1 < i /\ i <= e + 1 THEN s[i - 1] ELSE s[i]
  BY <1>1, <1>12, ForwardOrder
<1>15. MergeInv(t, k)'
  <2>1. sort'.psize > 0 => sort'.p = t[k + 1]
    <3>1. ASSUME sort'.psize > 0 PROVE sort'.p = t[m + 2]
      <4>1. sort.psize > 0 /\ m + 2 <= e + 1 /\ m + 2 \in 1 .. free /\ (m + 2) - 1 = m + 1
            /\ m + 2 # m + 1 /\ m + 1 < m + 2
        BY <1>1, <1>5, <1>8, <3>1
      <4>2. t[m + 2] = s[m + 1]
        BY <1>14, <4>1
      <4> QED
        BY <1>3, <1>8, <4>1, <4>2
    <3>2. k + 1 = m + 2
      BY <1>1
    <3> QED
      BY <3>1, <3>2
  <2>2. sort'.head = t[1]
    <3>1. CASE m = 0
      <4>1. t[1] = s[e + 1]
        BY <1>1, <1>5, <1>14, <3>1
      <4> QED
        BY <1>3, <1>8, <3>1, <4>1
    <3>2. CASE m # 0
      <4>1. 1 # m + 1 /\ ~ (m + 1 < 1) /\ 1 \in 1 .. free
        BY <1>1, <3>2
      <4>2. t[1] = s[1]
        BY <1>14, <4>1
      <4>3. sort.tail = s[m] /\ s[m] # NULL /\ m > 0
        BY <1>1, <1>3, <1>10, <3>2
      <4> QED
        BY <1>3, <1>8, <4>2, <4>3
    <3> QED
      BY <3>1, <3>2
  <2>3. sort'.tail = t[k] /\ k # 0
    BY <1>1, <1>5, <1>8, <1>14
  <2>4. sort'.q = Follower(t, free, k + sort'.psize) /\ free' = free
    <3>1. e + 1 # m /\ e + 1 # e
      BY <1>1, <1>5
    <3>2. heap.next[s[e + 1]] = Follower(s, free, e + 1)
      BY <1>1, <1>5, <3>1 DEF SortLinks
    <3>3. Follower(t, free, e + 1) = Follower(s, free, e + 1)
      <4>1. ASSUME e + 1 < free PROVE t[(e + 1) + 1] = s[(e + 1) + 1]
        <5>1. (e + 1) + 1 \in 1 .. free /\ (e + 1) + 1 # m + 1 /\ ~ ((e + 1) + 1 <= e + 1)
          BY <1>1, <1>5, <4>1
        <5> QED
          BY <1>14, <5>1
      <4> QED
        BY <4>1 DEF Follower
    <3> QED
      BY <1>4, <1>8, <1>9, <3>2, <3>3
  <2>5. SortLinks(heap'.next, t, free, k, k + sort'.psize) /\ k + sort'.psize <= free
    BY <1>1, <1>5, <1>9, <1>13
  <2> QED
    BY <1>9, <2>1, <2>2, <2>3, <2>4, <2>5 DEF MergeInv
<1>16. OrderInv(t, k)'
  <2> DEFINE z == m + sort.psize + sort.qsize
             w == sort.insize
  <2>1. /\ SortParts(s, free, m, e, z, w, Le, St) /\ Order(sort.before, free)
        /\ sort.nmerges = 0 => m = 0 /\ sort.psize = 0 /\ sort.qsize = 0
        /\ sort.nmerges = 1 => z <= 2 * w
    BY DEF OrderInv
  <2>2. SortParts(s, free, m, e, z, w, Le', St')
    BY <2>1, MorePairs
  <2>3. m < e => /\ ComesFirst(s[e + 1], s[m + 1], Le', Le')
                 /\ ComesFirst(s[e + 1], s[m + 1], St', Le')
    <3>1. ASSUME m < e PROVE /\ ComesFirst(s[e + 1], s[m + 1], Le', Le')
                             /\ ComesFirst(s[e + 1], s[m + 1], St', Le')
      <4>1. sort.psize > 0
        BY <1>1, <3>1
      <4>2. PICK p, q : p = sort.p /\ q = sort.q /\ QIsFirst(p, q)
        BY <4>1 DEF TakesQ
      <4>3. p = s[m + 1] /\ q = s[e + 1]
        BY <1>3, <1>5, <4>1, <4>2
      <4>4. Related(Le', q, p) /\ KeyOf(q)' < KeyOf(p)'
        BY <4>2 DEF QIsFirst
      <4>5. ComesFirst(q, p, Le', Le') /\ ComesFirst(q, p, St', Le')
        BY <4>4, LeFirst
      <4> QED
        BY <4>3, <4>5
    <3> QED
      BY <3>1
  <2>4. e < free /\ e < z
    BY <1>1, <1>2, <1>5
  <2>5. SortParts(t, free, m + 1, e + 1, z, w, Le', St')
    BY <1>14, <2>2, <2>3, <2>4, TakeQParts
  <2>6. k + sort'.psize + sort'.qsize = z /\ sort'.insize = w
    BY <1>1, <1>8
  <2>7. SortParts(t, free, k, k + sort'.psize, k + sort'.psize + sort'.qsize,
                  sort'.insize, Le', St')
    BY <1>9, <2>5, <2>6
  <2>8. sort'.nmerges # 0 /\ (sort'.nmerges = 1 => z <= 2 * w)
    BY <1>2, <1>8, <2>1
  <2> HIDE DEF e, z, w
  <2> QED
    BY <1>4, <1>8, <2>1, <2>6, <2>7, <2>8 DEF OrderInv
<1>17. LinkType(heap'.info, items)
  BY <1>11 DEF Parts, HeapInv, LinkType, NextTypes
<1> QED
  BY <1>1, <1>4, <1>8, <1>11, <1>13, <1>15, <1>16, <1>17, SortShape

LEMMA SamePairs ==
  ASSUME data' = data, free' = free, sort'.by = sort.by, sort'.before = sort.before
  PROVE  Le' = Le /\ St' = St
  BY DEF Le, St, Pairs, BothSettled, Settled, Cached, KeyOf, CameFirst, CellsOf

LEMMA NextRunKeeps ==
  ASSUME NEW s, NEW m, Parts(s, m), OrderInv(s, m), items' = items, NextRun
  PROVE  ShapeInv(s, m)' /\ sort' \in SortLocals(items)
<1>1. /\ pc = "sort" /\ RunIsMerged /\ sort.q # NULL
      /\ UNCHANGED <<heap, data, list, free, calc, b, pc, res, crcs, state_mem, scan, mat>>
  BY DEF NextRun
<1>2. /\ free \in Nat /\ free >= 1 /\ m \in Nat /\ sort.psize \in Nat /\ sort.qsize \in Nat
      /\ m + sort.psize <= free /\ Fit(free, items) /\ Order(s, free)
      /\ LinkType(heap.next, items) /\ heap = [next |-> heap.next, info |-> heap.info]
      /\ SortLinks(heap.next, s, free, m, m + sort.psize)
      /\ \A c \in CellsOf(free) : heap.info[c] = c
      /\ \A i \in 1 .. free : s[i] \in CellsOf(free) /\ s[i] \in Pointers(items) /\ s[i] # NULL
      /\ b.remover = NULL
  BY <1>1, SortFacts
<1>3. sort.psize = 0 /\ sort.qsize = 0 /\ sort \in SortLocals(items)
  BY <1>1 DEF RunIsMerged, Parts, LocalsInv
<1>4. m < free /\ sort.q = s[m + 1] /\ m + 1 \in 1 .. free /\ m + 0 = m
  BY <1>1, <1>2, <1>3 DEF Parts, MergeInv, Follower
<1> DEFINE w == sort.insize
<1>5. SortParts(s, free, m, m, m, w, Le, St) /\ Order(sort.before, free)
      /\ (sort.nmerges = 0 => m = 0) /\ sort.nmerges \in Nat
  <2>1. m + sort.psize = m /\ m + sort.psize + sort.qsize = m
    BY <1>2, <1>3
  <2> QED
    BY <1>1, <1>3, <2>1 DEF OrderInv, SortLocals
<1>6. w \in Nat /\ w >= 1
  BY <1>5 DEF SortParts, Sizes
<1>7. Chain(heap, s[m + 1]) = SubSeq(s, m + 1, free)
  <2>1. \A i \in m + 1 .. free : heap.next[s[i]] = Follower(s, free, i)
    BY <1>2, <1>3, <1>4 DEF SortLinks
  <2> QED
    BY <1>2, <1>4, <2>1, ChainOfRest
<1> DEFINE r == SubSeq(s, m + 1, free)
<1>8. Len(r) = free - m /\ \A k \in 1 .. free - m : r[k] = s[m + k]
  <2>1. s \in Seq(CellsOf(free)) /\ Len(s) = free
    BY <1>2, OrderIsSeq
  <2> QED
    BY <1>2, <1>4, <2>1
<1> DEFINE size == IF free - m > w THEN w ELSE free - m
           after == IF free - m > w THEN r[w + 1] ELSE NULL
<1>9. sort' = [sort EXCEPT !.p = sort.q, !.nmerges = @ + 1, !.psize = size,
                 !.q = after, !.qsize = w]
  BY <1>4, <1>7, <1>8 DEF NextRun
<1>10. size \in Nat /\ size <= w /\ m + size <= free /\ m + size \in Nat
  BY <1>2, <1>4, <1>6
<1>11. after = Follower(s, free, m + size)
  <2>1. CASE free - m > w
    <3>1. w + 1 \in 1 .. free - m /\ m + (w + 1) = (m + w) + 1 /\ m + w < free /\ size = w
      BY <1>2, <1>4, <1>6, <2>1
    <3>2. after = r[w + 1] /\ r[w + 1] = s[m + (w + 1)]
      BY <1>8, <2>1, <3>1
    <3>3. after = s[(m + w) + 1]
      BY <3>1, <3>2
    <3> HIDE DEF after
    <3> QED
      BY <3>1, <3>3 DEF Follower
  <2>2. CASE ~ (free - m > w)
    <3>1. ~ (m + size < free)
      BY <1>2, <1>4, <1>6, <2>2
    <3> QED
      BY <2>2, <3>1 DEF Follower
  <2> QED
    BY <2>1, <2>2
<1>12. after \in Pointers(items)
  <2>1. m + size < free => (m + size) + 1 \in 1 .. free
    BY <1>2, <1>10
  <2> QED
    BY <1>2, <1>11, <2>1 DEF Follower, Pointers
<1> HIDE DEF size, after, r
<1>13. sort' \in SortLocals(items)
  <2> DEFINE more == sort.nmerges + 1
  <2>1. more \in Nat /\ sort.q \in Pointers(items)
    BY <1>2, <1>4, <1>5
  <2>2. sort' = [sort EXCEPT !.p = sort.q, !.nmerges = more, !.psize = size,
                   !.q = after, !.qsize = w]
    BY <1>9
  <2> HIDE DEF more, w
  <2> QED
    BY <1>3, <1>6, <1>10, <1>12, <2>1, <2>2 DEF SortLocals
<1>14. /\ sort'.p = s[m + 1] /\ sort'.nmerges = sort.nmerges + 1 /\ sort'.psize = size
       /\ sort'.q = after /\ sort'.qsize = w /\ sort'.by = sort.by
       /\ sort'.before = sort.before /\ sort'.insize = w /\ sort'.tail = sort.tail
       /\ sort'.head = sort.head
  BY <1>3, <1>4, <1>9 DEF SortLocals
<1>15. MergeInv(s, m)'
  <2>1. SortLinks(heap.next, s, free, m, m + size)
    BY <1>2, <1>3, <1>4 DEF SortLinks
  <2>2. /\ sort.tail = IF m = 0 THEN NULL ELSE s[m]
        /\ m > 0 => sort.head = s[1]
    BY <1>1 DEF Parts, MergeInv
  <2> QED
    BY <1>1, <1>2, <1>10, <1>11, <1>14, <2>1, <2>2 DEF MergeInv
<1>16. OrderInv(s, m)'
  <2>1. Le' = Le /\ St' = St
    BY <1>1, <1>14, SamePairs
  <2>2. SortParts(s, free, m, m + size, (m + size) + w, w, Le, St)
    BY <1>4, <1>5, NextRunParts DEF size
  <2>3. sort'.nmerges = 1 => m + size + w <= 2 * w
    BY <1>2, <1>5, <1>6, <1>10, <1>14
  <2>4. sort'.nmerges # 0
    BY <1>5, <1>14
  <2> QED
    BY <1>1, <1>5, <1>14, <2>1, <2>2, <2>3, <2>4 DEF OrderInv
<1>17. LinkType(heap.info, items)
  BY DEF Parts, HeapInv, LinkType, NextTypes
<1> QED
  BY <1>1, <1>2, <1>13, <1>15, <1>16, <1>17, SortShape

(* A step in the middle of a sort that leaves it alone.                    *)
LEMMA SortWaits ==
  ASSUME NEW s, NEW m, Parts(s, m), OrderInv(s, m), pc = "sort", items' = items,
         UNCHANGED <<heap, list, free, sort, b, pc>>, Extends(Le, Le'), Extends(St, St')
  PROVE  ShapeInv(s, m)'
<1>1. MergeInv(s, m)'
  BY DEF Parts, MergeInv
<1>2. OrderInv(s, m)'
  <2>1. /\ SortParts(s, free, m, m + sort.psize, m + sort.psize + sort.qsize,
                 sort.insize, Le, St)
        /\ Order(sort.before, free)
        /\ sort.nmerges = 0 => m = 0 /\ sort.psize = 0 /\ sort.qsize = 0
        /\ sort.nmerges = 1 => m + sort.psize + sort.qsize <= 2 * sort.insize
    BY DEF OrderInv
  <2>2. SortParts(s, free, m, m + sort.psize, m + sort.psize + sort.qsize,
                 sort.insize, Le', St')
    BY <2>1, MorePairs
  <2> QED
    BY <2>1, <2>2 DEF OrderInv
<1>3. /\ Order(s, free) /\ LinkType(heap.next, items)
      /\ heap = [next |-> heap.next, info |-> heap.info]
      /\ \A c \in CellsOf(free) : heap.info[c] = c
      /\ b.remover = NULL
  BY SortFacts
<1>4. LinkType(heap.info, items) /\ sort \in SortLocals(items)
  BY DEF Parts, HeapInv, LinkType, NextTypes, LocalsInv
<1> QED
  BY <1>1, <1>2, <1>3, <1>4, SortShape

(* A list that is not being sorted.                                         *)
LEMMA ListShape ==
  ASSUME pc' \notin {"sort", "tail", "undo"}, items' = items, NEW n, free' = n,
         b'.remover = NULL, NEW t, Order(t, n),
         LinkType(heap'.next, items), LinkType(heap'.info, items),
         heap' = [next |-> heap'.next, info |-> heap'.info],
         \A c \in CellsOf(n) : heap'.info[c] = c,
         list' = t[1], Listed(heap'.next, t, n), SortedInv(t)', NEW k
  PROVE  ShapeInv(t, k)'
<1>1. ~ Window' /\ \A i \in 1 .. n : InfoPlace(i)' = i
  BY DEF Window, InfoPlace
<1>2. \A i \in 1 .. n : heap'.info[t[i]] = t[i]
  BY DEF Order
<1>3. heap' \in [next : NextTypes(items), info : NextTypes(items)]
  BY DEF LinkType, NextTypes
<1>4. \A i \in 1 .. n : heap'.info[t[i]] = t[InfoPlace(i)']
  BY <1>1, <1>2
<1>5. HeapInv(t)'
  BY <1>1, <1>3, <1>4 DEF HeapInv
<1>6. ListInv(t)'
  BY <1>1 DEF ListInv
<1>7. MergeInv(t, k)' /\ OrderInv(t, k)'
  BY DEF MergeInv, OrderInv
<1> QED
  BY <1>5, <1>6, <1>7 DEF ShapeInv

LEMMA ListChain ==
  ASSUME NEW n, NEW c, Fit(n, c), NEW h, LinkType(h.next, c), NEW s, Order(s, n),
         Listed(h.next, s, n)
  PROVE  Chain(h, s[1]) = s /\ s \in Seq(CellsOf(c)) /\ Len(s) = n
<1>1. n \in Nat /\ n >= 1
  BY DEF Fit
<1>2. \A i \in 0 + 1 .. n : h.next[s[i]] = Follower(s, n, i)
  BY <1>1, ListedAfter
<1>3. Chain(h, s[0 + 1]) = SubSeq(s, 0 + 1, n)
  BY <1>1, <1>2, ChainOfRest
<1>4. s \in Seq(CellsOf(n)) /\ Len(s) = n /\ s \in Seq(CellsOf(c))
  BY <1>1, OrderIsSeq, CellsFit
<1>5. SubSeq(s, 1, n) = s
  BY <1>4, SubSeqFull
<1> QED
  BY <1>3, <1>4, <1>5

(* A sort starts with the list in the order that it has.                   *)
LEMMA SortStarts ==
  ASSUME CountInv, NEW s, HeapInv(s), ~ Window, list = s[1], Listed(heap.next, s, free),
         UNCHANGED <<heap, list, free>>, items' = items, b'.remover = NULL,
         NEW by \in {"idx", "data"}, NEW then \in {"start", "remove", "crc"},
         StartSort(by, then), NEW k, k = 0
  PROVE  ShapeInv(s, k)' /\ sort' \in SortLocals(items)
<1>1. Fit(free, items) /\ Order(s, free) /\ LinkType(heap.next, items)
      /\ LinkType(heap.info, items) /\ heap = [next |-> heap.next, info |-> heap.info]
  BY DEF CountInv, HeapInv, LinkType, NextTypes
<1>2. Chain(heap, list) = s /\ s \in Seq(CellsOf(items)) /\ Len(s) = free
  BY <1>1, ListChain
<1>3. free \in Nat /\ free >= 1 /\ \A i \in 1 .. free : s[i] \in CellsOf(free) /\ s[i] \in Pointers(items) /\ s[i] # NULL
  BY <1>1, CellsFit DEF Fit
<1>4. sort' = [by |-> by, then |-> then, p |-> NULL, q |-> s[1], psize |-> 0,
               qsize |-> 0, head |-> NULL, tail |-> NULL, insize |-> 1,
               nmerges |-> 0, before |-> s]
      /\ pc' = "sort"
  BY <1>2 DEF StartSort
<1>5. sort' \in SortLocals(items)
  BY <1>2, <1>3, <1>4 DEF SortLocals, Pointers
<1>6. MergeInv(s, k)'
  <2>1. SortLinks(heap.next, s, free, 0, 0)
    BY <1>3, LinkStart
  <2>2. s[1] = Follower(s, free, 0)
    BY <1>3 DEF Follower
  <2>3. sort'.psize = 0 /\ sort'.q = s[1] /\ sort'.tail = NULL /\ k + sort'.psize = 0
        /\ k = 0
    BY <1>4
  <2> QED
    BY <1>3, <2>1, <2>2, <2>3 DEF MergeInv
<1>7. OrderInv(s, k)'
  <2>1. ASSUME NEW i \in 1 .. free, NEW j \in 1 .. free, i < j
        PROVE  Related(St', s[i], s[j])
    <3>1. CameFirst(<<s[i], s[j]>>)'
      BY <1>4, <2>1 DEF CameFirst
    <3> QED
      BY <1>3, <3>1 DEF Related, St, Pairs
  <2>2. Stable(s, free, St')
    BY <2>1 DEF Stable
  <2>3. SortParts(s, free, 0, 0, 0, 1, Le', St')
    BY <1>3, <2>2, StartParts
  <2>4. /\ sort'.psize = 0 /\ sort'.qsize = 0 /\ sort'.insize = 1 /\ sort'.nmerges = 0
        /\ sort'.before = s /\ k + 0 = 0 /\ k + 0 + 0 = 0
    BY <1>4
  <2> QED
    BY <1>1, <2>3, <2>4 DEF OrderInv
<1>8. \A c \in CellsOf(free) : heap.info[c] = c
  BY <1>1, InfoSame DEF HeapInv
<1> QED
  BY <1>1, <1>4, <1>5, <1>6, <1>7, <1>8, SortShape

(* The end of a pass, of the last one and of another one.                  *)
LEMMA PassIsDone ==
  ASSUME NEW s, NEW m, Parts(s, m), EndPass
  PROVE  /\ pc = "sort" /\ m = free /\ sort.psize = 0 /\ sort.tail = s[free]
         /\ sort.head = s[1] /\ sort \in SortLocals(items)
         /\ Fit(free, items) /\ Order(s, free) /\ free \in Nat /\ free >= 1
         /\ LinkType(heap'.next, items) /\ Listed(heap'.next, s, free)
         /\ LinkType(heap'.info, items)
         /\ heap' = [next |-> heap'.next, info |-> heap'.info]
         /\ \A c \in CellsOf(free) : heap'.info[c] = c
         /\ b.remover = NULL /\ sort.qsize \in Nat
         /\ UNCHANGED <<data, free, calc, b, res, crcs, state_mem, scan, mat>>
<1>1. /\ pc = "sort" /\ RunIsMerged /\ sort.q = NULL
      /\ heap' = [heap EXCEPT !.next = [@ EXCEPT ![sort.tail] = NULL]]
      /\ UNCHANGED <<data, free, calc, b, res, crcs, state_mem, scan, mat>>
  BY DEF EndPass
<1>2. /\ free \in Nat /\ free >= 1 /\ m \in Nat /\ sort.psize \in Nat /\ sort.qsize \in Nat
      /\ m + sort.psize <= free /\ Fit(free, items) /\ Order(s, free)
      /\ LinkType(heap.next, items) /\ heap = [next |-> heap.next, info |-> heap.info]
      /\ SortLinks(heap.next, s, free, m, m + sort.psize)
      /\ \A c \in CellsOf(free) : heap.info[c] = c
      /\ \A i \in 1 .. free : s[i] \in CellsOf(free) /\ s[i] \in Pointers(items) /\ s[i] # NULL
      /\ b.remover = NULL
  BY <1>1, SortFacts
<1>3. sort.psize = 0 /\ sort \in SortLocals(items)
  BY <1>1 DEF RunIsMerged, Parts, LocalsInv
<1>4. /\ sort.q = Follower(s, free, m + sort.psize)
      /\ sort.tail = IF m = 0 THEN NULL ELSE s[m]
      /\ m > 0 => sort.head = s[1]
  BY <1>1 DEF Parts, MergeInv
<1>5. m = free
  <2>1. m + sort.psize = m
    BY <1>2, <1>3
  <2>2. m < free => m + 1 \in 1 .. free /\ Follower(s, free, m) = s[m + 1]
    BY <1>2 DEF Follower
  <2>3. ~ (m < free)
    BY <1>1, <1>2, <1>4, <2>1, <2>2
  <2> QED
    BY <1>2, <1>3, <2>3
<1>6. sort.tail = s[free] /\ sort.head = s[1] /\ m + sort.psize = free
  BY <1>2, <1>3, <1>4, <1>5
<1>7. /\ heap'.next = [heap.next EXCEPT ![s[free]] = NULL] /\ heap'.info = heap.info
      /\ heap' = [next |-> heap'.next, info |-> heap'.info]
  BY <1>1, <1>2, <1>6
<1>8. LinkType(heap'.next, items) /\ Listed(heap'.next, s, free)
  BY <1>2, <1>5, <1>6, <1>7, LinkEnd
<1>9. LinkType(heap.info, items)
  BY DEF Parts, HeapInv, LinkType, NextTypes
<1> QED
  BY <1>1, <1>2, <1>3, <1>5, <1>6, <1>7, <1>8, <1>9

LEMMA NextPassKeeps ==
  ASSUME NEW s, NEW m, Parts(s, m), OrderInv(s, m), items' = items, EndPass,
         sort.nmerges > 1, NEW k, k = 0
  PROVE  ShapeInv(s, k)' /\ sort' \in SortLocals(items) /\ pc' = "sort"
<1>1. /\ pc = "sort" /\ m = free /\ sort.psize = 0 /\ sort.tail = s[free]
      /\ sort.head = s[1] /\ sort \in SortLocals(items)
      /\ Fit(free, items) /\ Order(s, free) /\ free \in Nat /\ free >= 1
      /\ LinkType(heap'.next, items) /\ Listed(heap'.next, s, free)
      /\ LinkType(heap'.info, items)
      /\ heap' = [next |-> heap'.next, info |-> heap'.info]
      /\ \A c \in CellsOf(free) : heap'.info[c] = c
      /\ b.remover = NULL /\ sort.qsize \in Nat
      /\ UNCHANGED <<data, free, calc, b, res, crcs, state_mem, scan, mat>>
  BY PassIsDone
<1> DEFINE w2 == 2 * sort.insize
<1>2. /\ sort' = [sort EXCEPT !.q = s[1], !.p = NULL, !.psize = 0, !.qsize = 0,
                    !.head = NULL, !.tail = NULL, !.nmerges = 0, !.insize = w2]
      /\ pc' = pc
  <2>1. ~ (sort.nmerges <= 1)
    BY <1>1 DEF SortLocals
  <2> QED
    BY <1>1, <2>1 DEF EndPass, Twice
<1>3. w2 \in Nat
  BY <1>1 DEF SortLocals
<1>4. \A i \in 1 .. free : s[i] \in Pointers(items)
  BY <1>1, CellsFit
<1>5. NULL \in Pointers(items) /\ s[1] \in Pointers(items)
  BY <1>1, <1>4 DEF Pointers
<1>6. SortParts(s, free, 0, 0, 0, w2, Le, St) /\ Order(sort.before, free)
  <2> DEFINE z == m + sort.psize + sort.qsize
  <2>1. m + sort.psize = free
    BY <1>1
  <2>2. SortParts(s, free, free, free, z, sort.insize, Le, St) /\ Order(sort.before, free)
    BY <1>1, <2>1 DEF OrderInv
  <2> HIDE DEF z
  <2> QED
    BY <2>2, EndPassParts
<1> HIDE DEF w2
<1>7. sort' \in SortLocals(items)
  BY <1>1, <1>2, <1>3, <1>5 DEF SortLocals
<1>8. /\ sort'.q = s[1] /\ sort'.psize = 0 /\ sort'.qsize = 0 /\ sort'.tail = NULL
      /\ sort'.nmerges = 0 /\ sort'.insize = w2 /\ sort'.by = sort.by
      /\ sort'.before = sort.before
  BY <1>1, <1>2 DEF SortLocals
<1>9. MergeInv(s, k)'
  <2>1. SortLinks(heap'.next, s, free, 0, 0)
    BY <1>1, LinkStart
  <2>2. s[1] = Follower(s, free, 0) /\ k + 0 = 0
    BY <1>1 DEF Follower
  <2> QED
    BY <1>1, <1>8, <2>1, <2>2 DEF MergeInv
<1>10. OrderInv(s, k)'
  <2>1. Le' = Le /\ St' = St
    BY <1>1, <1>8, SamePairs
  <2>2. k + 0 = 0 /\ k + 0 + 0 = 0
    OBVIOUS
  <2> QED
    BY <1>1, <1>6, <1>8, <2>1, <2>2 DEF OrderInv
<1> QED
  BY <1>1, <1>2, <1>7, <1>9, <1>10, SortShape

(* The list is sorted: the head comes first if that is by index.           *)
LEMMA LastPassKeeps ==
  ASSUME NEW s, NEW m, Parts(s, m), OrderInv(s, m), ThenInv, items' = items, EndPass,
         ~ (sort.nmerges > 1), NEW k
  PROVE  ShapeInv(s, k)' /\ sort' \in SortLocals(items) /\ HeadInv'
<1>1. /\ pc = "sort" /\ m = free /\ sort.psize = 0 /\ sort.tail = s[free]
      /\ sort.head = s[1] /\ sort \in SortLocals(items)
      /\ Fit(free, items) /\ Order(s, free) /\ free \in Nat /\ free >= 1
      /\ LinkType(heap'.next, items) /\ Listed(heap'.next, s, free)
      /\ LinkType(heap'.info, items)
      /\ heap' = [next |-> heap'.next, info |-> heap'.info]
      /\ \A c \in CellsOf(free) : heap'.info[c] = c
      /\ b.remover = NULL /\ sort.qsize \in Nat
      /\ UNCHANGED <<data, free, calc, b, res, crcs, state_mem, scan, mat>>
  BY PassIsDone
<1>2. sort.nmerges \in {0, 1}
  BY <1>1 DEF SortLocals
<1>3. list' = s[1] /\ pc' = sort.then /\ sort' = sort
  BY <1>1, <1>2 DEF EndPass
<1>4. sort.then \in {"start", "remove", "crc"}
  BY <1>1 DEF SortLocals
<1>5. \A i, j \in 1 .. free : i < j => Related(Le, s[i], s[j]) /\ Related(St, s[i], s[j])
  <2> DEFINE z == m + sort.psize + sort.qsize
  <2>1. m + sort.psize = free /\ z = free + sort.qsize
    BY <1>1
  <2>2. SortParts(s, free, free, free, z, sort.insize, Le, St)
    BY <1>1, <2>1 DEF OrderInv
  <2>3. sort.nmerges = 1 /\ z <= 2 * sort.insize
    BY <1>1, <1>2 DEF OrderInv
  <2>4. sort.insize \in Nat
    BY <1>1 DEF SortLocals
  <2>5. free <= 2 * sort.insize
    BY <1>1, <2>1, <2>3, <2>4
  <2> HIDE DEF z
  <2> QED
    BY <2>2, <2>5, LastPassParts
<1>6. SortedInv(s)'
  <2>1. Le' = Le /\ St' = St
    BY <1>1, <1>3, SamePairs
  <2>2. Order(sort.before, free)
    BY <1>1 DEF OrderInv
  <2> QED
    BY <1>1, <1>3, <1>5, <2>1, <2>2 DEF SortedInv
<1>7. ShapeInv(s, k)'
  BY <1>1, <1>3, <1>4, <1>6, ListShape
<1>8. sort.by = "idx" => s[1] = 0
  <2> SUFFICES ASSUME sort.by = "idx", s[1] # 0 PROVE FALSE
    OBVIOUS
  <2>1. 0 \in CellsOf(free)
    BY <1>1 DEF CellsOf
  <2>2. PICK j \in 1 .. free : s[j] = 0
    BY <1>1, <2>1 DEF Order
  <2>3. 1 < j /\ 1 \in 1 .. free
    BY <1>1, <2>2
  <2>4. Related(Le, s[1], 0)
    BY <1>5, <2>2, <2>3
  <2>5. data[s[1]].idx <= data[0].idx
    BY <2>4 DEF Related, Le, KeyOf
  <2>6. s[1] \in CellsOf(free) /\ s[1] \in 1 .. free - 1
    BY <1>1, <2>3 DEF Order, CellsOf
  <2>7. data[s[1]].idx > 0 /\ data[0].idx = 0
    BY <2>6 DEF Parts, DataInv
  <2>8. data[s[1]].idx \in Nat
    BY <2>6, DataFacts DEF Parts
  <2> QED
    BY <2>5, <2>7, <2>8
<1>9. HeadInv'
  BY <1>1, <1>3, <1>4, <1>8 DEF HeadInv, HeadPcs, AfterPcs, ThenInv
<1> QED
  BY <1>1, <1>3, <1>7, <1>9

-----------------------------------------------------------------------------
(* The list outside of sorts, with all its cells linked.                   *)
Calm == pc \notin {"sort", "tail", "undo"}
LEMMA ListFacts ==
  ASSUME CountInv, NEW s, HeapInv(s), ListInv(s), Calm
  PROVE  /\ free \in Nat /\ free >= 1 /\ Fit(free, items) /\ Order(s, free)
         /\ LinkType(heap.next, items) /\ LinkType(heap.info, items)
         /\ heap = [next |-> heap.next, info |-> heap.info]
         /\ \A c \in CellsOf(free) : heap.info[c] = c
         /\ list = s[1] /\ Listed(heap.next, s, free)
         /\ \A i \in 1 .. free : s[i] \in CellsOf(free) /\ s[i] \in CellsOf(items)
                              /\ s[i] \in Pointers(items) /\ s[i] # NULL
         /\ b.remover = NULL /\ ~ Window
<1>1. ~ Window /\ pc # "sort"
  BY DEF Calm, Window
<1>2. Fit(free, items) /\ Order(s, free) /\ LinkType(heap.next, items)
      /\ LinkType(heap.info, items) /\ heap = [next |-> heap.next, info |-> heap.info]
  BY DEF CountInv, HeapInv, LinkType, NextTypes
<1>3. free \in Nat /\ free >= 1
  BY <1>2 DEF Fit
<1>4. \A i \in 1 .. free : s[i] \in CellsOf(free) /\ s[i] \in CellsOf(items)
                        /\ s[i] \in Pointers(items) /\ s[i] # NULL
  BY <1>2, CellsFit
<1>5. \A c \in CellsOf(free) : heap.info[c] = c
  BY <1>1, <1>2, InfoSame DEF HeapInv
<1>6. list = s[1] /\ Listed(heap.next, s, free)
  BY <1>1 DEF ListInv
<1>7. b.remover = NULL
  BY <1>1 DEF HeapInv
<1> QED
  BY <1>1, <1>2, <1>3, <1>4, <1>5, <1>6, <1>7

(* A step that leaves the list, the data and the sort alone.               *)
LEMMA CalmStays ==
  ASSUME CountInv, NEW s, HeapInv(s), ListInv(s), SortedInv(s), Calm, Calm',
         UNCHANGED <<heap, list, free, data, sort>>, items' = items,
         pc' = sort.then => pc = sort.then, b'.remover = NULL, NEW k
  PROVE  ShapeInv(s, k)'
<1>1. SortedInv(s)'
  <2>1. Le' = Le /\ St' = St
    BY SamePairs
  <2> QED
    BY <2>1 DEF SortedInv
<1>2. /\ Order(s, free) /\ LinkType(heap.next, items) /\ LinkType(heap.info, items)
      /\ heap = [next |-> heap.next, info |-> heap.info]
      /\ \A c \in CellsOf(free) : heap.info[c] = c
      /\ list = s[1] /\ Listed(heap.next, s, free)
  BY ListFacts
<1> HIDE DEF ShapeInv
<1> QED
  BY <1>1, <1>2, ListShape DEF Calm

(* Nothing happens.                                                         *)
LEMMA ShapeStutters ==
  ASSUME NEW s, NEW m, ShapeInv(s, m), items' = items,
         UNCHANGED <<heap, data, list, free, sort, b, pc>>
  PROVE  ShapeInv(s, m)'
<1>1. /\ HeapInv(s)' = HeapInv(s) /\ ListInv(s)' = ListInv(s)
      /\ MergeInv(s, m)' = MergeInv(s, m)
  BY DEF HeapInv, ListInv, MergeInv, InfoPlace, Window
<1>2. Le' = Le /\ St' = St
  BY SamePairs
<1>3. OrderInv(s, m)' = OrderInv(s, m) /\ SortedInv(s)' = SortedInv(s)
  BY <1>2 DEF OrderInv, SortedInv
<1> QED
  BY <1>1, <1>3 DEF ShapeInv

(* A new item is inserted, if there is room.                                *)
LEMMA InsertKeeps ==
  ASSUME CountInv, LocalsInv, NEW s, HeapInv(s), ListInv(s), SortedInv(s),
         items' = items, InsertNew, NEW k
  PROVE  \E t : ShapeInv(t, k)'
<1>1. /\ pc = "insert" /\ b' = [b EXCEPT !.i = @ + 1]
      /\ UNCHANGED <<list, sort, calc, pc, res, crcs, state_mem, scan, mat>>
  BY DEF InsertNew
<1>2. Calm /\ Calm' /\ sort.then # "insert" /\ b'.remover = b.remover
  BY <1>1 DEF Calm, LocalsInv, Locals
<1>3. /\ free \in Nat /\ free >= 1 /\ Fit(free, items) /\ Order(s, free)
      /\ LinkType(heap.next, items) /\ LinkType(heap.info, items)
      /\ heap = [next |-> heap.next, info |-> heap.info]
      /\ \A c \in CellsOf(free) : heap.info[c] = c
      /\ list = s[1] /\ Listed(heap.next, s, free)
      /\ b.remover = NULL
  BY <1>2, ListFacts
<1>4. CASE free + 1 >= items
  <2>1. UNCHANGED <<heap, data, free>>
    BY <1>4 DEF InsertNew
  <2>2. ShapeInv(s, k)'
    BY <1>1, <1>2, <1>3, <2>1, CalmStays
  <2> QED
    BY <2>2
<1>5. CASE ~ (free + 1 >= items)
  <2> DEFINE n == free
             next2 == [heap.next EXCEPT ![n] = heap.next[s[1]], ![s[1]] = n]
             info2 == [heap.info EXCEPT ![n] = n]
  <2>0. PICK t : t = Inserted(s, n)
    OBVIOUS
  <2>1. /\ heap' = [next |-> next2, info |-> info2] /\ free' = n + 1
    BY <1>3, <1>5 DEF InsertNew, core_list_insert_new
  <2>2. n < items /\ n \in CellsOf(items) /\ items \in Nat
    BY <1>3, <1>5 DEF Fit, CellsOf
  <2>3. LinkType(next2, items) /\ Order(t, n + 1) /\ t[1] = s[1] /\ Listed(next2, t, n + 1)
    BY <1>3, <2>0, <2>2, InsertListed
  <2>4. LinkType(info2, items)
    BY <1>3, <2>2 DEF LinkType, Pointers
  <2>5. \A c \in CellsOf(n + 1) : info2[c] = c
    <3> SUFFICES ASSUME NEW c \in CellsOf(n + 1) PROVE info2[c] = c
      OBVIOUS
    <3>1. c = n \/ c \in CellsOf(n)
      BY <1>3 DEF CellsOf
    <3>2. heap.info \in [CellsOf(items) -> Pointers(items)] /\ n \in CellsOf(items)
      BY <1>3, <2>2 DEF LinkType
    <3> QED
      BY <1>3, <3>1, <3>2
  <2>6. SortedInv(t)'
    BY <1>1, <1>2 DEF SortedInv
  <2> HIDE DEF next2, info2
  <2>7. heap'.next = next2 /\ heap'.info = info2 /\ heap' = [next |-> heap'.next, info |-> heap'.info]
    BY <2>1
  <2>8. ShapeInv(t, k)'
    <3>0. PICK n1 : n1 = n + 1
      OBVIOUS
    <3>1. /\ Order(t, n1) /\ free' = n1 /\ list' = t[1] /\ Listed(heap'.next, t, n1)
          /\ \A c \in CellsOf(n1) : heap'.info[c] = c
      BY <1>1, <1>3, <2>1, <2>3, <2>5, <2>7, <3>0
    <3>2. LinkType(heap'.next, items) /\ LinkType(heap'.info, items)
      BY <2>3, <2>4, <2>7
    <3>3. pc' \notin {"sort", "tail", "undo"} /\ b'.remover = NULL
      BY <1>2, <1>3 DEF Calm
    <3>4. heap' = [next |-> heap'.next, info |-> heap'.info] /\ SortedInv(t)'
      BY <2>6, <2>7
    <3> QED
      BY <3>1, <3>2, <3>3, <3>4, ListShape
  <2> QED
    BY <2>8
<1> QED
  BY <1>4, <1>5

(* The sorts start.                                                         *)
LEMMA IndexKeeps ==
  ASSUME CountInv, NEW s, HeapInv(s), ListInv(s), items' = items, IndexItems,
         NEW k, k = 0
  PROVE  ShapeInv(s, k)' /\ sort' \in SortLocals(items)
<1>1. /\ pc = "insert" /\ StartSort("idx", "start")
      /\ UNCHANGED <<heap, list, free, calc, b, res, crcs, state_mem, scan, mat>>
  BY DEF IndexItems
<1>2. Calm
  BY <1>1 DEF Calm
<1>3. ~ Window /\ list = s[1] /\ Listed(heap.next, s, free) /\ b.remover = NULL
  BY <1>2, ListFacts
<1> QED
  BY <1>1, <1>3, SortStarts

LEMMA SortBackKeeps ==
  ASSUME CountInv, NEW s, HeapInv(s), ListInv(s), items' = items, SortBack,
         NEW k, k = 0
  PROVE  ShapeInv(s, k)' /\ sort' \in SortLocals(items)
<1>1. /\ pc = "unsorted" /\ StartSort("idx", "crc")
      /\ UNCHANGED <<heap, data, list, free, calc, b, res, crcs, state_mem, scan, mat>>
  BY DEF SortBack
<1>2. Calm
  BY <1>1 DEF Calm
<1>3. ~ Window /\ list = s[1] /\ Listed(heap.next, s, free) /\ b.remover = NULL
  BY <1>2, ListFacts
<1> QED
  BY <1>1, <1>3, SortStarts

LEMMA EndFindKeeps ==
  ASSUME CountInv, LocalsInv, ThenInv, NEW s, HeapInv(s), ListInv(s), SortedInv(s),
         items' = items, EndFind, NEW k, k = 0
  PROVE  ShapeInv(s, k)' /\ sort' \in SortLocals(items)
<1>1. /\ pc = "find"
      /\ b' = [b EXCEPT !.retval = u16(@ + b.found * 4 - b.missed)]
      /\ UNCHANGED <<heap, data, list, free, calc, res, crcs, state_mem, scan, mat>>
  BY DEF EndFind
<1>2. Calm
  BY <1>1 DEF Calm
<1>3. /\ ~ Window /\ list = s[1] /\ Listed(heap.next, s, free) /\ b.remover = NULL
      /\ LinkType(heap.next, items) /\ LinkType(heap.info, items)
  BY <1>2, ListFacts
<1>4. b'.remover = NULL
  BY <1>1, <1>3 DEF LocalsInv, Locals
<1>5. CASE b.finder_idx > 0
  <2>1. StartSort("data", "remove")
    BY <1>5 DEF EndFind
  <2> QED
    BY <1>1, <1>3, <1>4, <2>1, SortStarts
<1>6. CASE ~ (b.finder_idx > 0)
  <2>1. pc' = "remove" /\ sort' = sort
    BY <1>6 DEF EndFind
  <2>2. Calm' /\ sort.then # "remove" /\ sort \in SortLocals(items)
    BY <1>1, <2>1 DEF Calm, ThenInv, SortingPcs, LocalsInv
  <2> QED
    BY <1>1, <1>2, <1>4, <2>1, <2>2, CalmStays
<1> QED
  BY <1>5, <1>6

(* A search that is or is not successful reverses the list, and one that   *)
(* is moves a cell.                                                         *)
Located(found, t) == found = NULL \/ \E i \in 1 .. free : found = t[i]
FindMoves(found, next, t) ==
  /\ LinkType(next, items) /\ Order(t, free) /\ Listed(next, t, free)
  /\ Located(found, t) /\ list' = t[1]
  /\ heap' = IF found = NULL THEN Relinked(heap, next)
             ELSE MoveNextToFront(Relinked(heap, next), t[1], found)
FindResult(found, next, t) ==
  \E x : b' = [b EXCEPT !.i = @ + 1, !.idx = IF b.idx >= 0 THEN b.idx + 1 ELSE b.idx,
                 !.found = IF found = NULL THEN @ ELSE @ + 1,
                 !.missed = IF found = NULL THEN @ + 1 ELSE @, !.retval = u16(@ + x)]
         /\ x = IF found = NULL THEN InfoAt(Relinked(heap, next), next[t[1]]).hi % 2
                ELSE IF InfoOf(found).lo % 2 = 1 THEN (InfoOf(found).hi \div 2) % 2 ELSE 0
LEMMA FindEffect ==
  ASSUME CountInv, LocalsInv, NEW s, HeapInv(s), ListInv(s), FindOne
  PROVE  \E found, next, t : FindMoves(found, next, t) /\ FindResult(found, next, t)
<1>1. /\ pc = "find"
      /\ UNCHANGED <<data, free, sort, calc, pc, res, crcs, state_mem, scan, mat>>
  BY DEF FindOne
<1>2. /\ free \in Nat /\ free >= 1 /\ Fit(free, items) /\ Order(s, free)
      /\ LinkType(heap.next, items) /\ list = s[1] /\ Listed(heap.next, s, free)
      /\ heap = [next |-> heap.next, info |-> heap.info] /\ items \in Nat
  BY <1>1, ListFacts DEF Calm, Fit
<1>3. PICK next \in NextTypes(items) :
        /\ core_list_reverse(heap, s[1])
             = [list |-> Backwards(s)[1], heap |-> Relinked(heap, next)]
        /\ LinkType(next, items) /\ Listed(next, Backwards(s), free)
        /\ Order(Backwards(s), free)
  BY <1>2, ReverseListed
<1> DEFINE t == Backwards(s)
           infos == {d \in DOMAIN data :
                       IF b.idx >= 0 THEN data[d].idx = b.idx ELSE data[d].lo = b.i % 256}
<1>4. PICK found : found = core_list_find(heap, list, infos)
  OBVIOUS
<1>5. Find(heap, list, b.i % 256) = found
  BY <1>4 DEF Find
<1>6. found \in {s[i] : i \in 1 .. free} \cup {NULL}
  <2>1. s \in Seq(CellsOf(items)) /\ Len(s) = free
    BY <1>2, CellsFit
  <2>2. Links(heap.next, s, 1, free) /\ heap.next[s[free]] = NULL
    BY <1>2 DEF Listed
  <2>3. 1 \in 1 .. Len(s) /\ free \in 1 .. Len(s)
    BY <1>2, <2>1
  <2> HIDE DEF infos
  <2>4. core_list_find(heap, s[1], infos) \in {s[i] : i \in 1 .. free} \cup {NULL}
    BY <1>2, <2>1, <2>2, <2>3, FindCell
  <2> QED
    BY <1>2, <1>4, <2>4
<1>7. Located(found, t)
  <2>1. CASE found # NULL
    <3>1. PICK i \in 1 .. free : found = s[i]
      BY <1>6, <2>1
    <3>2. free + 1 - i \in 1 .. free /\ free + 1 - (free + 1 - i) = i
      BY <1>2
    <3>3. t[free + 1 - i] = s[i]
      BY <1>2, <3>2, BackwardsOrder
    <3> QED
      BY <3>1, <3>2, <3>3 DEF Located
  <2> QED
    BY <2>1 DEF Located
<1> HIDE DEF t, infos
<1>8. core_list_reverse(heap, list) = [list |-> t[1], heap |-> Relinked(heap, next)]
  BY <1>2, <1>3 DEF t
<1>9. Relinked(heap, next).next = next /\ Relinked(heap, next).info = heap.info
  BY <1>2 DEF Relinked
<1> DEFINE h == Relinked(heap, next)
           nextidx == IF b.idx >= 0 THEN b.idx + 1 ELSE b.idx
           Hit(d) == IF d.lo % 2 = 1 THEN (d.hi \div 2) % 2 ELSE 0
<1>10. /\ list' = t[1]
       /\ IF found = NULL
            THEN /\ heap' = h
                 /\ b' = [b EXCEPT !.i = @ + 1, !.idx = nextidx, !.missed = @ + 1,
                      !.retval = u16(@ + (InfoAt(h, h.next[t[1]]).hi % 2))]
            ELSE /\ heap' = MoveNextToFront(h, t[1], found)
                 /\ b' = [b EXCEPT !.i = @ + 1, !.idx = nextidx, !.found = @ + 1,
                      !.retval = u16(@ + Hit(InfoAt(h, found)))]
  <2>1. PICK this_find \in {Find(heap, list, b.i % 256)},
            r \in {core_list_reverse(heap, list)} :
          /\ list' = r.list
          /\ IF this_find = NULL
              THEN /\ heap' = r.heap
                   /\ b' = [b EXCEPT !.i = @ + 1, !.idx = nextidx, !.missed = @ + 1,
                        !.retval =
                          u16(@ + (InfoAt(r.heap, r.heap.next[r.list]).hi % 2))]
              ELSE /\ heap' = MoveNextToFront(r.heap, r.list, this_find)
                   /\ b' = [b EXCEPT !.i = @ + 1, !.idx = nextidx, !.found = @ + 1,
                        !.retval = u16(@ + Hit(InfoAt(r.heap, this_find)))]
    BY DEF FindOne
  <2> HIDE DEF nextidx, Hit, h
  <2>2. this_find = found /\ r = [list |-> t[1], heap |-> h]
    BY <1>5, <1>8 DEF h
  <2>3. r.list = t[1] /\ r.heap = h
    BY <2>2
  <2> QED
    BY <2>1, <2>2, <2>3
<1>11. FindMoves(found, next, t)
  BY <1>3, <1>7, <1>10 DEF FindMoves, t
<1>12. FindResult(found, next, t)
  <2>1. InfoAt(h, found) = InfoOf(found)
    BY <1>9 DEF InfoAt, InfoOf
  <2>2. h.next[t[1]] = next[t[1]]
    BY <1>9
  <2>3. PICK hit : hit = Hit(InfoOf(found))
    OBVIOUS
  <2>4. PICK miss : miss = InfoAt(h, next[t[1]]).hi % 2
    OBVIOUS
  <2>5. b \in Locals(items)
    BY DEF LocalsInv
  <2>6. CASE found = NULL
    <3>1. b' = [b EXCEPT !.i = @ + 1, !.idx = nextidx, !.missed = @ + 1,
                  !.retval = u16(@ + miss)]
      BY <1>10, <2>2, <2>4, <2>6
    <3>2. b' = [b EXCEPT !.i = @ + 1, !.idx = nextidx, !.found = b.found,
                  !.missed = @ + 1, !.retval = u16(@ + miss)]
      BY <2>5, <3>1 DEF Locals
    <3> QED
      BY <2>4, <2>6, <3>2 DEF FindResult
  <2>7. CASE found # NULL
    <3>1. b' = [b EXCEPT !.i = @ + 1, !.idx = nextidx, !.found = @ + 1,
                  !.retval = u16(@ + hit)]
      BY <1>10, <2>1, <2>3, <2>7
    <3>2. b' = [b EXCEPT !.i = @ + 1, !.idx = nextidx, !.found = @ + 1,
                  !.missed = b.missed, !.retval = u16(@ + hit)]
      BY <2>5, <3>1 DEF Locals
    <3> QED
      BY <2>3, <2>7, <3>2 DEF FindResult
  <2> QED
    BY <2>6, <2>7
<1> QED
  BY <1>11, <1>12

LEMMA MoveKeeps ==
  ASSUME NEW n, NEW c, Fit(n, c), NEW h, h = [next |-> h.next, info |-> h.info],
         LinkType(h.next, c), NEW t, Order(t, n), Listed(h.next, t, n),
         NEW i \in 1 .. n, NEW h2, h2 = MoveNextToFront(h, t[1], t[i])
  PROVE  \E u : /\ Order(u, n) /\ u[1] = t[1]
                /\ LinkType(h2.next, c) /\ Listed(h2.next, u, n)
                /\ h2.info = h.info /\ h2 = [next |-> h2.next, info |-> h2.info]
<1>1. /\ n \in Nat /\ n >= 1 /\ \A j \in 1 .. n : t[j] \in CellsOf(c) /\ t[j] # NULL
  BY CellsFit DEF Fit
<1>2. h.next[t[i]] = Follower(t, n, i)
  BY <1>1, ListedAfter
<1>3. CASE i = n
  <2>1. h2 = h
    BY <1>1, <1>2, <1>3 DEF Follower, MoveNextToFront
  <2> QED
    BY <2>1
<1>4. CASE i # n
  <2>1. i \in 1 .. n - 1 /\ i + 1 \in 1 .. n /\ i < n /\ i + 1 \in 2 .. n
    BY <1>1, <1>4
  <2>2. h.next[t[i]] = t[i + 1] /\ t[i + 1] # NULL
    BY <1>1, <1>2, <2>1 DEF Follower
  <2> DEFINE cut == [h.next EXCEPT ![t[i]] = h.next[t[i + 1]]]
             next2 == [cut EXCEPT ![t[i + 1]] = cut[t[1]], ![t[1]] = t[i + 1]]
             u == Forward(t, 2, i + 1)
  <2>3. h2 = [h EXCEPT !.next = next2]
    BY <2>2 DEF MoveNextToFront
  <2>4. LinkType(next2, c) /\ Order(u, n) /\ Listed(next2, u, n)
    BY <2>1, MoveListed
  <2>5. u[1] = t[1]
    <3>1. 2 \in 1 .. n /\ i + 1 \in 2 .. n /\ 1 \in 1 .. n
      BY <1>1, <2>1
    <3> QED
      BY <1>1, <3>1, ForwardOrder
  <2> HIDE DEF next2, u
  <2>6. h2.next = next2 /\ h2.info = h.info /\ h2 = [next |-> h2.next, info |-> h2.info]
    BY <2>3
  <2> QED
    BY <2>4, <2>5, <2>6
<1> QED
  BY <1>3, <1>4

LEMMA FindKeeps ==
  ASSUME CountInv, LocalsInv, ThenInv, NEW s, HeapInv(s), ListInv(s), SortedInv(s),
         items' = items, FindOne, NEW k
  PROVE  \E t : ShapeInv(t, k)'
<1>1. /\ pc = "find"
      /\ UNCHANGED <<data, free, sort, calc, pc, res, crcs, state_mem, scan, mat>>
  BY DEF FindOne
<1>2. /\ free \in Nat /\ free >= 1 /\ Fit(free, items)
      /\ LinkType(heap.next, items) /\ LinkType(heap.info, items)
      /\ heap = [next |-> heap.next, info |-> heap.info]
      /\ \A c \in CellsOf(free) : heap.info[c] = c
      /\ b.remover = NULL
  BY <1>1, ListFacts DEF Calm
<1>3. PICK found, next, t : FindMoves(found, next, t) /\ FindResult(found, next, t)
  BY FindEffect
<1>4. /\ LinkType(next, items) /\ Order(t, free) /\ Listed(next, t, free)
      /\ Located(found, t) /\ list' = t[1]
  BY <1>3 DEF FindMoves
<1>5. PICK h : h = Relinked(heap, next)
  OBVIOUS
<1>6. h.next = next /\ h.info = heap.info /\ h = [next |-> h.next, info |-> h.info]
  BY <1>2, <1>5 DEF Relinked
<1>7. \E u : /\ Order(u, free) /\ u[1] = t[1]
             /\ LinkType(heap'.next, items) /\ Listed(heap'.next, u, free)
             /\ heap'.info = h.info /\ heap' = [next |-> heap'.next, info |-> heap'.info]
  <2>1. CASE found = NULL
    <3>1. heap' = h
      BY <1>3, <1>5, <2>1 DEF FindMoves
    <3> QED
      BY <1>4, <1>6, <3>1
  <2>2. CASE found # NULL
    <3>1. PICK i \in 1 .. free : found = t[i]
      BY <1>4, <2>2 DEF Located
    <3>2. heap' = MoveNextToFront(h, t[1], t[i])
      BY <1>3, <1>5, <2>2, <3>1 DEF FindMoves
    <3>3. LinkType(h.next, items) /\ Listed(h.next, t, free)
      BY <1>4, <1>6
    <3> QED
      BY <1>2, <1>4, <1>6, <3>2, <3>3, MoveKeeps
  <2> QED
    BY <2>1, <2>2
<1>8. PICK u : /\ Order(u, free) /\ u[1] = t[1]
               /\ LinkType(heap'.next, items) /\ Listed(heap'.next, u, free)
               /\ heap'.info = h.info /\ heap' = [next |-> heap'.next, info |-> heap'.info]
  BY <1>7
<1>9. SortedInv(u)'
  <2>1. sort \in SortLocals(items)
    BY <1>1 DEF LocalsInv
  <2>2. sort.then # "find"
    BY <2>1 DEF SortLocals
  <2> QED
    BY <1>1, <2>2 DEF SortedInv
<1>10. b'.remover = NULL
  BY <1>2, <1>3 DEF FindResult, LocalsInv, Locals
<1>11. ShapeInv(u, k)'
  <2>1. pc' \notin {"sort", "tail", "undo"} /\ free' = free
    BY <1>1
  <2>2. LinkType(heap'.info, items) /\ (\A c \in CellsOf(free) : heap'.info[c] = c)
        /\ list' = u[1]
    BY <1>2, <1>4, <1>6, <1>8
  <2> QED
    BY <1>8, <1>9, <1>10, <2>1, <2>2, ListShape
<1> QED
  BY <1>11

(* A word plus a number, in 16 bits, is one.                               *)
LEMMA WordSum ==
  ASSUME NEW w \in Words, NEW x \in Int
  PROVE  u16(w + x) \in Words
<1>1. w \in Int
  BY WordsAre
<1>2. (w + x) % 65536 \in Nat /\ (w + x) % 65536 <= 65535
  BY <1>1
<1> QED
  BY <1>2, WordsAre DEF u16

LEMMA FindLocals ==
  ASSUME InputsInv, CountInv, LocalsInv, DataInv, NEW s, HeapInv(s), ListInv(s), FindOne
  PROVE  b' \in Locals(items)
<1>1. pc = "find"
  BY DEF FindOne
<1>2. /\ free \in Nat /\ free >= 1 /\ Fit(free, items)
      /\ LinkType(heap.next, items) /\ LinkType(heap.info, items)
      /\ heap = [next |-> heap.next, info |-> heap.info]
      /\ \A c \in CellsOf(free) : heap.info[c] = c
  BY <1>1, ListFacts DEF Calm
<1>3. free >= 2
  BY <1>1, InputFacts DEF CountInv
<1>4. PICK found, next, t : FindMoves(found, next, t) /\ FindResult(found, next, t)
  BY FindEffect
<1>5. Order(t, free) /\ Listed(next, t, free) /\ Located(found, t)
  BY <1>4 DEF FindMoves
<1>6. \A i \in 1 .. free : t[i] \in CellsOf(free)
  BY <1>5 DEF Order
<1>7. \A d \in CellsOf(free) : data[d].hi \in Int /\ data[d].lo \in Int
  <2>1. \A d \in CellsOf(free) : data[d].hi \in Nat /\ data[d].lo \in Nat
    BY DataFacts, BytesAre
  <2> QED
    BY <2>1
<1>8. PICK x : /\ b' = [b EXCEPT !.i = @ + 1, !.idx = IF b.idx >= 0 THEN b.idx + 1 ELSE b.idx,
                          !.found = IF found = NULL THEN @ ELSE @ + 1,
                          !.missed = IF found = NULL THEN @ + 1 ELSE @,
                          !.retval = u16(@ + x)]
               /\ x = IF found = NULL THEN InfoAt(Relinked(heap, next), next[t[1]]).hi % 2
                      ELSE IF InfoOf(found).lo % 2 = 1 THEN (InfoOf(found).hi \div 2) % 2
                      ELSE 0
  BY <1>4 DEF FindResult
<1>9. x \in Int
  <2>1. CASE found = NULL
    <3>1. next[t[1]] = t[2] /\ t[2] \in CellsOf(free)
      <4>1. next[t[1]] = Follower(t, free, 1) /\ 1 < free /\ 2 \in 1 .. free
        BY <1>2, <1>3, <1>5, ListedAfter
      <4> QED
        BY <1>6, <4>1 DEF Follower
    <3>2. Relinked(heap, next).info = heap.info
      BY <1>2 DEF Relinked
    <3>3. InfoAt(Relinked(heap, next), next[t[1]]) = data[t[2]]
      BY <1>2, <3>1, <3>2 DEF InfoAt
    <3>4. PICK y \in Int : y = data[t[2]].hi
      BY <1>7, <3>1
    <3>5. y % 2 \in Int
      OBVIOUS
    <3> QED
      BY <1>8, <2>1, <3>3, <3>4, <3>5
  <2>2. CASE found # NULL
    <3>1. found \in CellsOf(free)
      BY <1>5, <1>6, <2>2 DEF Located
    <3>2. InfoOf(found) = data[found]
      BY <1>2, <3>1 DEF InfoOf, InfoAt
    <3>3. PICK y \in Int : y = data[found].hi
      BY <1>7, <3>1
    <3>4. (y \div 2) % 2 \in Int
      OBVIOUS
    <3> QED
      BY <1>8, <2>2, <3>2, <3>3, <3>4
  <2> QED
    BY <2>1, <2>2
<1>10. b \in Locals(items)
  BY DEF LocalsInv
<1>11. u16(b.retval + x) \in Words
  BY <1>9, <1>10, WordSum DEF Locals
<1>12. PICK sum \in Words : sum = u16(b.retval + x)
  BY <1>11
<1>13. PICK idx \in Int : idx = IF b.idx >= 0 THEN b.idx + 1 ELSE b.idx
  BY <1>10 DEF Locals
<1>14. PICK hits \in Nat : hits = IF found = NULL THEN b.found ELSE b.found + 1
  BY <1>10 DEF Locals
<1>15. PICK misses \in Nat : misses = IF found = NULL THEN b.missed + 1 ELSE b.missed
  BY <1>10 DEF Locals
<1>17. PICK i \in Nat : i = b.i + 1
  BY <1>10 DEF Locals
<1>16. b' = [b EXCEPT !.i = i, !.idx = idx, !.found = hits, !.missed = misses,
               !.retval = sum]
  BY <1>8, <1>12, <1>13, <1>14, <1>15, <1>17
<1> QED
  BY <1>10, <1>16 DEF Locals

(* The item behind the head is removed: its info is swapped with that of   *)
(* its successor, and the successor is the last cell of the new order.     *)
LEMMA Swapped ==
  ASSUME NEW n, NEW c, Fit(n, c), NEW h, LinkType(h.info, c), NEW s, Order(s, n),
         NEW k \in 1 .. n, NEW l \in 1 .. n, k # l,
         NEW info2, info2 = SwapInfo(h, s[k], s[l]) \/ info2 = SwapInfo(h, s[l], s[k])
  PROVE  /\ LinkType(info2, c)
         /\ info2[s[k]] = h.info[s[l]] /\ info2[s[l]] = h.info[s[k]]
         /\ \A i \in 1 .. n : i # k /\ i # l => info2[s[i]] = h.info[s[i]]
<1>1. /\ \A i \in 1 .. n : s[i] \in CellsOf(c)
      /\ h.info \in [CellsOf(c) -> Pointers(c)]
      /\ \A i, j \in 1 .. n : s[i] = s[j] => i = j
  BY CellsFit DEF LinkType, Order
<1>2. s[k] \in CellsOf(c) /\ s[l] \in CellsOf(c) /\ s[k] # s[l]
  BY <1>1
<1>3. \A i \in 1 .. n : i # k /\ i # l => s[i] # s[k] /\ s[i] # s[l]
  BY <1>1
<1> QED
  BY <1>1, <1>2, <1>3 DEF SwapInfo, LinkType

LEMMA RemoveKeeps ==
  ASSUME InputsInv, CountInv, LocalsInv, NEW s, HeapInv(s), ListInv(s),
         items' = items, RemoveOne, NEW k
  PROVE  (\E t : ShapeInv(t, k)') /\ b' \in Locals(items)
<1>1. /\ pc = "remove" /\ pc' = "tail"
      /\ heap' = core_list_remove(heap, heap.next[list])
      /\ b' = [b EXCEPT !.remover = heap.next[heap.next[list]]]
      /\ UNCHANGED <<data, list, free, sort, calc, res, crcs, state_mem, scan, mat>>
  BY DEF RemoveOne
<1>2. /\ free \in Nat /\ free >= 1 /\ Fit(free, items) /\ Order(s, free)
      /\ LinkType(heap.next, items) /\ LinkType(heap.info, items)
      /\ heap = [next |-> heap.next, info |-> heap.info]
      /\ \A c \in CellsOf(free) : heap.info[c] = c
      /\ list = s[1] /\ Listed(heap.next, s, free)
      /\ \A i \in 1 .. free : s[i] \in CellsOf(free) /\ s[i] \in CellsOf(items)
                           /\ s[i] \in Pointers(items) /\ s[i] # NULL
  BY <1>1, ListFacts DEF Calm
<1>3. free >= 3
  BY <1>1, InputFacts DEF CountInv
<1>4. heap.next[s[1]] = s[2] /\ heap.next[s[2]] = s[3] /\ 1 \in 1 .. free
      /\ 2 \in 1 .. free /\ 3 \in 1 .. free
  <2>1. \A i \in 1 .. free : heap.next[s[i]] = Follower(s, free, i)
    BY <1>2, ListedAfter
  <2>2. 1 \in 1 .. free /\ 2 \in 1 .. free /\ 3 \in 1 .. free /\ 1 < free /\ 2 < free
    BY <1>2, <1>3
  <2> QED
    BY <2>1, <2>2 DEF Follower
<1>5. PICK next2 : next2 = [heap.next EXCEPT ![s[2]] = heap.next[s[3]], ![s[3]] = NULL]
  OBVIOUS
<1>6. PICK info2 : info2 = SwapInfo(heap, s[2], s[3])
  OBVIOUS
<1>7. heap' = [next |-> next2, info |-> info2] /\ b' = [b EXCEPT !.remover = s[3]]
  BY <1>1, <1>2, <1>4, <1>5, <1>6 DEF core_list_remove
<1>8. PICK t : t = Back(s, 3, free)
  OBVIOUS
<1>9. LinkType(next2, items) /\ Order(t, free) /\ Listed(next2, t, free - 1) /\ t[free] = s[3]
  BY <1>2, <1>3, <1>5, <1>8, RemoveListed
<1>10. \A i \in 1 .. free :
         t[i] = IF i = free THEN s[3] ELSE IF 3 <= i /\ i < free THEN s[i + 1] ELSE s[i]
  <2>1. free \in 3 .. free
    BY <1>2, <1>3
  <2> QED
    BY <1>2, <1>4, <1>8, <2>1, BackOrder
<1>11. /\ LinkType(info2, items)
       /\ info2[s[2]] = s[3] /\ info2[s[3]] = s[2]
       /\ \A i \in 1 .. free : i # 2 /\ i # 3 => info2[s[i]] = s[i]
  <2>1. /\ LinkType(info2, items)
        /\ info2[s[2]] = heap.info[s[3]] /\ info2[s[3]] = heap.info[s[2]]
        /\ \A i \in 1 .. free : i # 2 /\ i # 3 => info2[s[i]] = heap.info[s[i]]
    BY <1>2, <1>4, <1>6, Swapped
  <2> QED
    BY <1>2, <1>4, <2>1
<1>12. heap'.next = next2 /\ heap'.info = info2
       /\ heap' \in [next : NextTypes(items), info : NextTypes(items)]
  BY <1>7, <1>9, <1>11 DEF LinkType, NextTypes
<1>13. t[1] = s[1] /\ t[2] = s[2] /\ t[free] = s[3]
  <2>1. 1 # free /\ 2 # free /\ ~ (3 <= 1) /\ ~ (3 <= 2)
    BY <1>3
  <2> QED
    BY <1>4, <1>9, <1>10, <2>1
<1>14. Window'
  BY <1>1 DEF Window
<1>15. ASSUME NEW i \in 1 .. free PROVE info2[t[i]] = t[InfoPlace(i)']
  <2>1. CASE i = 2
    BY <1>1, <1>11, <1>13, <1>14, <2>1 DEF InfoPlace
  <2>2. CASE i = free
    <3>1. i # 2
      BY <1>3, <2>2
    <3> QED
      BY <1>1, <1>11, <1>13, <1>14, <2>2, <3>1 DEF InfoPlace
  <2>3. CASE i # 2 /\ i # free
    <3>1. InfoPlace(i)' = i
      BY <1>1, <2>3 DEF InfoPlace
    <3>2. CASE 3 <= i
      <4>1. i + 1 \in 1 .. free /\ i + 1 # 2 /\ i + 1 # 3 /\ i < free
        BY <1>2, <2>3, <3>2
      <4>2. t[i] = s[i + 1]
        BY <1>10, <2>3, <3>2, <4>1
      <4> QED
        BY <1>11, <3>1, <4>1, <4>2
    <3>3. CASE ~ (3 <= i)
      <4>1. t[i] = s[i] /\ i # 3
        BY <1>10, <2>3, <3>3
      <4> QED
        BY <1>11, <2>3, <3>1, <4>1
    <3> QED
      BY <3>2, <3>3
  <2> QED
    BY <2>1, <2>2, <2>3
<1>16. b'.remover = t[free] /\ b' \in Locals(items)
  <2>1. b \in Locals(items) /\ s[3] \in Pointers(items)
    BY <1>2, <1>4 DEF LocalsInv
  <2> QED
    BY <1>7, <1>13, <2>1 DEF Locals
<1>17. HeapInv(t)'
  BY <1>1, <1>9, <1>12, <1>14, <1>15, <1>16 DEF HeapInv
<1>18. ListInv(t)'
  BY <1>1, <1>2, <1>9, <1>12, <1>13, <1>14 DEF ListInv
<1>19. MergeInv(t, k)' /\ OrderInv(t, k)'
  BY <1>1 DEF MergeInv, OrderInv
<1>20. SortedInv(t)'
  <2>1. sort \in SortLocals(items)
    BY <1>1 DEF LocalsInv
  <2>2. sort.then # "tail"
    BY <2>1 DEF SortLocals
  <2> QED
    BY <1>1, <2>2 DEF SortedInv
<1> QED
  BY <1>16, <1>17, <1>18, <1>19, <1>20 DEF ShapeInv

(* And it comes back behind the head's successor.                          *)
LEMMA WindowFacts ==
  ASSUME InputsInv, CountInv, LocalsInv, NEW s, HeapInv(s), ListInv(s), Window
  PROVE  /\ free \in Nat /\ free >= 3 /\ Fit(free, items) /\ Order(s, free)
         /\ LinkType(heap.next, items) /\ LinkType(heap.info, items)
         /\ heap = [next |-> heap.next, info |-> heap.info]
         /\ list = s[1] /\ Listed(heap.next, s, free - 1) /\ heap.next[s[1]] = s[2]
         /\ heap.info[s[2]] = s[free] /\ heap.info[s[free]] = s[2]
         /\ \A i \in 1 .. free : i # 2 /\ i # free => heap.info[s[i]] = s[i]
         /\ b.remover = s[free]
         /\ \A i \in 1 .. free : s[i] \in CellsOf(free) /\ s[i] \in CellsOf(items)
                              /\ s[i] \in Pointers(items) /\ s[i] # NULL
<1>1. pc # "sort" /\ pc # "insert"
  BY DEF Window
<1>2. free \in Nat /\ free >= 3 /\ Fit(free, items) /\ Order(s, free)
      /\ LinkType(heap.next, items) /\ LinkType(heap.info, items)
      /\ heap = [next |-> heap.next, info |-> heap.info]
  BY <1>1, InputFacts DEF CountInv, Fit, HeapInv, LinkType, NextTypes
<1>3. list = s[1] /\ Listed(heap.next, s, free - 1) /\ b.remover = s[free]
  BY <1>1 DEF ListInv, HeapInv
<1>4. heap.next[s[1]] = s[2]
  <2>1. 1 \in 1 .. (free - 1) - 1
    BY <1>2
  <2> QED
    BY <1>3, <2>1 DEF Listed, Links
<1>5. 2 \in 1 .. free /\ free \in 1 .. free /\ free # 2
  BY <1>2
<1>6. \A i \in 1 .. free :
        heap.info[s[i]] = s[IF i = 2 THEN free ELSE IF i = free THEN 2 ELSE i]
  BY DEF HeapInv, InfoPlace
<1>7. heap.info[s[2]] = s[free] /\ heap.info[s[free]] = s[2]
  BY <1>5, <1>6
<1>8. \A i \in 1 .. free : i # 2 /\ i # free => heap.info[s[i]] = s[i]
  BY <1>6
<1>9. \A i \in 1 .. free : s[i] \in CellsOf(free) /\ s[i] \in CellsOf(items)
                        /\ s[i] \in Pointers(items) /\ s[i] # NULL
  BY <1>2, CellsFit
<1> QED
  BY <1>2, <1>3, <1>4, <1>7, <1>8, <1>9

LEMMA UndoKeeps ==
  ASSUME InputsInv, CountInv, LocalsInv, NEW s, HeapInv(s), ListInv(s),
         items' = items, UndoRemove, NEW k
  PROVE  (\E t : ShapeInv(t, k)') /\ b' \in Locals(items)
<1>1. /\ pc = "undo" /\ pc' = "unsorted"
      /\ heap' = core_list_undo_remove(heap, b.remover, heap.next[list])
      /\ b' = [b EXCEPT !.remover = NULL]
      /\ UNCHANGED <<data, list, free, sort, calc, res, crcs, state_mem, scan, mat>>
  BY DEF UndoRemove
<1>2. Window
  BY <1>1 DEF Window
<1>3. /\ free \in Nat /\ free >= 3 /\ Fit(free, items) /\ Order(s, free)
      /\ LinkType(heap.next, items) /\ LinkType(heap.info, items)
      /\ heap = [next |-> heap.next, info |-> heap.info]
      /\ list = s[1] /\ Listed(heap.next, s, free - 1) /\ heap.next[s[1]] = s[2]
      /\ heap.info[s[2]] = s[free] /\ heap.info[s[free]] = s[2]
      /\ \A i \in 1 .. free : i # 2 /\ i # free => heap.info[s[i]] = s[i]
      /\ b.remover = s[free]
      /\ \A i \in 1 .. free : s[i] \in CellsOf(free)
  BY <1>2, WindowFacts
<1>4. PICK next2 : next2 = [heap.next EXCEPT ![s[free]] = heap.next[s[2]], ![s[2]] = s[free]]
  OBVIOUS
<1>5. PICK info2 : info2 = SwapInfo(heap, s[free], s[2])
  OBVIOUS
<1>6. heap' = [next |-> next2, info |-> info2]
  BY <1>1, <1>3, <1>4, <1>5 DEF core_list_undo_remove
<1>7. PICK t : t = Forward(s, 3, free)
  OBVIOUS
<1>8. LinkType(next2, items) /\ Order(t, free) /\ Listed(next2, t, free)
  BY <1>3, <1>4, <1>7, UndoListed
<1>9. 1 \in 1 .. free /\ 2 \in 1 .. free /\ free \in 1 .. free /\ free # 2 /\ 3 \in 1 .. free
      /\ free \in 3 .. free
  BY <1>3
<1>10. t[1] = s[1]
  <2>1. t[1] = IF 1 = 3 THEN s[free] ELSE IF 3 < 1 /\ 1 <= free THEN s[1 - 1] ELSE s[1]
    BY <1>3, <1>7, <1>9, ForwardOrder
  <2> QED
    BY <2>1
<1>11. LinkType(info2, items) /\ \A i \in 1 .. free : info2[s[i]] = s[i]
  <2>1. /\ LinkType(info2, items)
        /\ info2[s[2]] = heap.info[s[free]] /\ info2[s[free]] = heap.info[s[2]]
        /\ \A i \in 1 .. free : i # 2 /\ i # free => info2[s[i]] = heap.info[s[i]]
    BY <1>3, <1>5, <1>9, Swapped
  <2> QED
    BY <1>3, <2>1
<1>12. \A c \in CellsOf(free) : info2[c] = c
  BY <1>3, <1>11 DEF Order
<1>13. heap'.next = next2 /\ heap'.info = info2
       /\ heap' = [next |-> heap'.next, info |-> heap'.info]
  BY <1>6
<1>14. b'.remover = NULL /\ b' \in Locals(items)
  BY <1>1 DEF LocalsInv, Locals, Pointers
<1>15. SortedInv(t)'
  <2>1. sort \in SortLocals(items)
    BY <1>1 DEF LocalsInv
  <2>2. sort.then # "unsorted"
    BY <2>1 DEF SortLocals
  <2> QED
    BY <1>1, <2>2 DEF SortedInv
<1>16. ShapeInv(t, k)'
  <2>1. pc' \notin {"sort", "tail", "undo"} /\ free' = free /\ list' = t[1]
    BY <1>1, <1>3, <1>10
  <2> QED
    BY <1>8, <1>11, <1>12, <1>13, <1>14, <1>15, <2>1, ListShape
<1> QED
  BY <1>14, <1>16

(* The loops over the list.                                                 *)
LEMMA ChainType ==
  ASSUME NEW n \in Nat, NEW h, LinkType(h.next, n), NEW c \in Pointers(n)
  PROVE  Chain(h, c) \in Seq(CellsOf(n)) /\ Len(Chain(h, c)) \in Nat
<1> DEFINE f == CHOOSE x : ChainRecursion(x, h.next)
<1>1. ChainRecursion(f, h.next)
  BY ChainExists
<1>2. Chain(h, c) = f[n][c]
  <2>1. Chain(h, c) = f[Cardinality(DOMAIN h.next)][c]
    BY DEF Chain, ChainRecursion
  <2> QED
    BY <2>1, CellCount
<1> HIDE DEF f
<1>3. \A k \in Nat : \A d \in Pointers(n) : f[k][d] \in Seq(CellsOf(n))
  BY <1>1, ChainSteps
<1>4. Chain(h, c) \in Seq(CellsOf(n))
  BY <1>2, <1>3
<1> QED
  BY <1>4

LEMMA CrcOfHeadType ==
  ASSUME b \in Locals(items), NEW n \in Nat, data16(heap.info[list]) \in Nat,
         b' = CrcOfHead(n)
  PROVE  b' \in Locals(items) /\ b'.remover = b.remover
<1> DEFINE body == [crc \in Nat |-> [k \in Nat |->
                      crcu16[data16(heap.info[list])][crc]]]
<1>1. LoopBody(body, Words, n)
  <2> SUFFICES ASSUME NEW x \in Words, NEW i \in 0 .. n - 1 PROVE body[x][i] \in Words
    BY DEF LoopBody
  <2>1. crcu16[data16(heap.info[list])][x] \in Words
    BY Crc16Type DEF Crcs, Keeps
  <2>2. x \in Nat /\ i \in Nat
    BY WordIsNat
  <2>3. body[x][i] = crcu16[data16(heap.info[list])][x]
    BY <2>2
  <2> QED
    BY <2>1, <2>3
<1>2. b' = [b EXCEPT !.retval = Loop(n, @, body)]
  BY DEF CrcOfHead
<1> HIDE DEF body
<1>3. b.retval \in Words
  BY DEF Locals
<1>4. Loop(n, b.retval, body) \in Words
  BY <1>1, <1>3, LoopType
<1>5. PICK w \in Words : w = Loop(n, b.retval, body)
  BY <1>4
<1>6. b' = [b EXCEPT !.retval = w]
  BY <1>2, <1>5
<1> QED
  BY <1>6 DEF Locals

LEMMA CrcFromFoundKeeps ==
  ASSUME InputsInv, CountInv, LocalsInv, DataInv, NEW s, HeapInv(s), ListInv(s),
         items' = items, CrcFromFound, NEW k
  PROVE  ShapeInv(s, k)' /\ b' \in Locals(items)
<1> DEFINE finder == Find(heap, list, IF b.i = 0 THEN 0 ELSE (b.i - 1) % 256)
           from == IF finder = NULL THEN heap.next[list] ELSE finder
<1>1. /\ pc = "tail" /\ pc' = "undo" /\ b' = CrcOfHead(Len(Chain(heap, from)))
      /\ UNCHANGED <<heap, data, list, free, sort, calc, res, crcs, state_mem, scan, mat>>
  BY DEF CrcFromFound
<1>2. Window /\ Window'
  BY <1>1 DEF Window
<1>3. /\ free \in Nat /\ free >= 3 /\ Fit(free, items) /\ Order(s, free)
      /\ LinkType(heap.next, items)
      /\ list = s[1] /\ Listed(heap.next, s, free - 1) /\ heap.next[s[1]] = s[2]
      /\ \A i \in 1 .. free : i # 2 /\ i # free => heap.info[s[i]] = s[i]
      /\ \A i \in 1 .. free : s[i] \in CellsOf(free) /\ s[i] \in Pointers(items)
  BY <1>2, WindowFacts
<1>4. finder \in Pointers(items)
  <2> DEFINE v == IF b.i = 0 THEN 0 ELSE (b.i - 1) % 256
             infos == {d \in DOMAIN data :
                         IF b.idx >= 0 THEN data[d].idx = b.idx ELSE data[d].lo = v}
             z == free - 1
  <2>1. finder = core_list_find(heap, s[1], infos)
    BY <1>3 DEF Find
  <2>2. s \in Seq(CellsOf(items)) /\ Len(s) = free /\ items \in Nat
    BY <1>3, CellsFit
  <2>3. Links(heap.next, s, 1, z) /\ heap.next[s[z]] = NULL
    BY <1>3 DEF Listed
  <2>4. 1 \in 1 .. Len(s) /\ z \in 1 .. Len(s)
    BY <1>3, <2>2
  <2> HIDE DEF infos, z, finder
  <2>5. core_list_find(heap, s[1], infos) \in {s[i] : i \in 1 .. z} \cup {NULL}
    BY <1>3, <2>2, <2>3, <2>4, FindCell
  <2>6. \A i \in 1 .. z : i \in 1 .. free
    BY <1>3 DEF z
  <2> QED
    BY <1>3, <2>1, <2>5, <2>6 DEF Pointers
<1>5. from \in Pointers(items)
  <2>1. 2 \in 1 .. free
    BY <1>3
  <2> HIDE DEF finder
  <2> QED
    BY <1>3, <1>4, <2>1
<1> HIDE DEF finder, from
<1>6. Len(Chain(heap, from)) \in Nat
  BY <1>3, <1>5, ChainType DEF Fit
<1>7. data16(heap.info[list]) \in Nat
  <2>1. 1 \in 1 .. free /\ 1 # 2 /\ 1 # free
    BY <1>3
  <2>2. heap.info[list] \in CellsOf(free)
    BY <1>3, <2>1
  <2> QED
    BY <2>2, DataFacts
<1>8. b' \in Locals(items) /\ b'.remover = b.remover
  BY <1>1, <1>6, <1>7, CrcOfHeadType DEF LocalsInv
<1>9. HeapInv(s)'
  BY <1>1, <1>2, <1>8 DEF HeapInv, InfoPlace
<1>10. ListInv(s)'
  BY <1>1, <1>2 DEF ListInv
<1>11. MergeInv(s, k)' /\ OrderInv(s, k)'
  BY <1>1 DEF MergeInv, OrderInv
<1>12. SortedInv(s)'
  <2>1. sort \in SortLocals(items)
    BY <1>1 DEF LocalsInv
  <2>2. sort.then # "undo"
    BY <2>1 DEF SortLocals
  <2> QED
    BY <1>1, <2>2 DEF SortedInv
<1> QED
  BY <1>8, <1>9, <1>10, <1>11, <1>12 DEF ShapeInv

LEMMA CrcOfAllKeeps ==
  ASSUME InputsInv, CountInv, LocalsInv, ThenInv, DataInv,
         NEW s, HeapInv(s), ListInv(s), SortedInv(s), items' = items, CrcOfAll, NEW k
  PROVE  ShapeInv(s, k)' /\ b' \in Locals(items)
<1>1. /\ pc = "crc" /\ pc' = "return"
      /\ b' = CrcOfHead(Len(Chain(heap, heap.next[list])))
      /\ UNCHANGED <<heap, data, list, free, sort, calc, res, crcs, state_mem, scan, mat>>
  BY DEF CrcOfAll
<1>2. Calm /\ Calm'
  BY <1>1 DEF Calm
<1>3. /\ free \in Nat /\ free >= 1 /\ Fit(free, items) /\ Order(s, free)
      /\ LinkType(heap.next, items) /\ LinkType(heap.info, items)
      /\ \A c \in CellsOf(free) : heap.info[c] = c
      /\ list = s[1]
      /\ \A i \in 1 .. free : s[i] \in CellsOf(free) /\ s[i] \in CellsOf(items)
      /\ b.remover = NULL
  BY <1>2, ListFacts
<1>4. s[1] \in CellsOf(free) /\ s[1] \in CellsOf(items)
  BY <1>3
<1>5. Len(Chain(heap, heap.next[list])) \in Nat
  <2>1. heap.next[list] \in Pointers(items)
    BY <1>3, <1>4 DEF LinkType
  <2> QED
    BY <1>3, <2>1, ChainType DEF Fit
<1>6. data16(heap.info[list]) \in Nat
  BY <1>3, <1>4, DataFacts
<1>7. b' \in Locals(items) /\ b'.remover = b.remover
  BY <1>1, <1>5, <1>6, CrcOfHeadType DEF LocalsInv
<1>8. sort.then # "return"
  <2>1. sort \in SortLocals(items)
    BY <1>1 DEF LocalsInv
  <2> QED
    BY <2>1 DEF SortLocals
<1> QED
  BY <1>1, <1>2, <1>3, <1>7, <1>8, CalmStays

(* What main does between the benchmarks.                                  *)
MainStep ==
  StartTime \/ StopTime \/ Calibrate \/ Iterate \/ SecondList \/ EndIteration \/ Report
LEMMA NoLocalsType ==
  ASSUME NEW finder_idx \in Int
  PROVE  LET new == [NoLocals EXCEPT !.finder_idx = finder_idx, !.idx = finder_idx]
         IN  new \in Locals(items) /\ new.remover = NULL
<1>1. 0 \in Words
  BY WordsAre
<1>2. NULL \in Pointers(items)
  BY DEF Pointers
<1> QED
  BY <1>1, <1>2 DEF NoLocals, Locals

LEMMA MainEffect ==
  ASSUME InputsInv, LocalsInv, ThenInv, HeadInv, MainStep
  PROVE  /\ UNCHANGED <<heap, data, list, free, sort>>
         /\ pc \in HeadPcs /\ pc # "insert" /\ pc' \in HeadPcs \cup {"find"}
         /\ pc' # "insert" /\ pc' # "crc" /\ (pc' = "start" => pc = "timed")
         /\ b' = b \/ (b' \in Locals(items) /\ b'.remover = NULL)
<1>1. res.list = 0
  BY InputFacts
<1>2. ASSUME NEW finder_idx \in Int, BeginList(finder_idx, res.list), pc \in HeadPcs
      PROVE  list' = list /\ b' \in Locals(items) /\ b'.remover = NULL /\ pc' = "find"
  <2>1. b' = [NoLocals EXCEPT !.finder_idx = finder_idx, !.idx = finder_idx]
        /\ list' = 0 /\ pc' = "find"
    BY <1>1, <1>2 DEF BeginList
  <2>2. list = 0
    BY <1>2 DEF HeadInv
  <2> QED
    BY <2>1, <2>2, NoLocalsType
<1>3. CASE StartTime
  BY <1>3 DEF StartTime, listVars, HeadPcs, AfterPcs
<1>4. CASE StopTime
  BY <1>4 DEF StopTime, listVars, HeadPcs, AfterPcs
<1>5. CASE Calibrate
  BY <1>5 DEF Calibrate, listVars, HeadPcs, AfterPcs
<1>6. CASE EndIteration
  BY <1>6 DEF EndIteration, listVars, HeadPcs, AfterPcs
<1>7. CASE Report
  BY <1>7 DEF Report, listVars, HeadPcs, AfterPcs
<1>8. CASE Iterate
  <2>1. pc = "bench" /\ BeginList(1, res.list) /\ UNCHANGED <<heap, data, free, sort>>
    BY <1>8 DEF Iterate
  <2>2. pc \in HeadPcs /\ 1 \in Int
    BY <2>1 DEF HeadPcs
  <2> QED
    BY <1>2, <2>1, <2>2
<1>9. CASE SecondList
  <2>1. pc = "return" /\ BeginList(-1, res.list) /\ UNCHANGED <<heap, data, free, sort>>
    BY <1>9 DEF SecondList
  <2>2. pc \in HeadPcs /\ -1 \in Int
    BY <2>1 DEF HeadPcs, AfterPcs
  <2> QED
    BY <1>2, <2>1, <2>2
<1> QED
  BY <1>3, <1>4, <1>5, <1>6, <1>7, <1>8, <1>9 DEF MainStep

LEMMA MainKeeps ==
  ASSUME InputsInv, CountInv, LocalsInv, ThenInv, HeadInv,
         NEW s, HeapInv(s), ListInv(s), SortedInv(s), items' = items, MainStep, NEW k
  PROVE  ShapeInv(s, k)' /\ b' \in Locals(items)
<1>1. /\ UNCHANGED <<heap, data, list, free, sort>>
      /\ pc \in HeadPcs /\ pc # "insert" /\ pc' \in HeadPcs \cup {"find"}
      /\ pc' # "insert" /\ pc' # "crc" /\ (pc' = "start" => pc = "timed")
      /\ b' = b \/ (b' \in Locals(items) /\ b'.remover = NULL)
  BY MainEffect
<1>2. Calm /\ Calm'
  BY <1>1 DEF Calm, HeadPcs, AfterPcs
<1>3. b.remover = NULL
  BY <1>2, ListFacts
<1>4. b'.remover = NULL /\ b' \in Locals(items)
  BY <1>1, <1>3 DEF LocalsInv
<1>5. pc' # sort.then
  <2>1. sort \in SortLocals(items)
    BY <1>1 DEF LocalsInv
  <2>2. sort.then \in {"start", "remove", "crc"}
    BY <2>1 DEF SortLocals
  <2>3. pc' = "start" => sort.then = "crc"
    BY <1>1 DEF ThenInv, AfterPcs
  <2>4. pc' # "remove"
    BY <1>1 DEF HeadPcs, AfterPcs
  <2> QED
    BY <1>1, <2>2, <2>3, <2>4
<1> QED
  BY <1>1, <1>2, <1>4, <1>5, CalmStays

(* The values that a comparison needs, and the string machine.             *)
LEMMA ValuesKeep ==
  ASSUME NEW s, NEW m, Parts(s, m), OrderInv(s, m), BlockInv, CrcInv, WaitInv,
         items' = items, Calculate \/ StateReturns
  PROVE  ShapeInv(s, m)' /\ DataInv' /\ UNCHANGED <<b, sort>>
<1>1. pc = "sort" /\ UNCHANGED <<heap, list, free, sort, b, pc>>
  BY DEF Calculate, StateReturns, Comparing
<1>2. sort.by = "data" /\ (UNCHANGED data \/ \E d, r : Caches(d, r))
  <2>1. CASE Calculate
    <3>1. /\ sort.by = "data"
          /\ \/ \E d, dtype : dtype \in Dtypes /\ Machine(d, dtype) /\ UNCHANGED data
             \/ scan' = scan /\ \E d, r : Caches(d, r)
      BY <2>1, CalculateEffect DEF Parts
    <3> QED
      BY <3>1
  <2>2. CASE StateReturns
    <3>1. Caches(calc, state_result)
      BY <2>2, ReturnEffect
    <3>2. sort.by = "data"
      BY <2>2 DEF StateReturns, WaitInv
    <3> QED
      BY <3>1, <3>2
  <2> QED
    BY <2>1, <2>2
<1>3. CountInv /\ DataInv
  BY DEF Parts
<1>4. CASE UNCHANGED data
  <2>1. Le' = Le /\ St' = St
    BY <1>1, <1>4, SamePairs
  <2>2. Extends(Le, Le') /\ Extends(St, St')
    BY <2>1 DEF Extends
  <2>3. DataInv'
    BY <1>1, <1>3, <1>4 DEF DataInv
  <2> QED
    BY <1>1, <2>2, <2>3, SortWaits
<1>5. CASE \E d, r : Caches(d, r)
  <2>1. PICK d, r : Caches(d, r)
    BY <1>5
  <2>2. /\ Refreshed
        /\ \A c \in CellsOf(free) : Cached(c) => data'[c] = data[c]
    BY <1>3, <2>1, CachedData
  <2>3. DataInv'
    BY <1>1, <1>3, <2>2, RefreshedData
  <2>4. \A c \in CellsOf(free) : Settled(c) => Settled(c)' /\ KeyOf(c)' = KeyOf(c)
    BY <1>1, <1>2, <2>2 DEF Settled, KeyOf, Cached
  <2>5. SortStays
    BY <1>1 DEF SortStays
  <2>6. Extends(Le, Le') /\ Extends(St, St')
    BY <1>3, <2>4, <2>5, LeExtends
  <2> QED
    BY <1>1, <2>3, <2>6, SortWaits
<1> QED
  BY <1>1, <1>2, <1>4, <1>5

(* All of them together.                                                    *)
Kept == (\E t, k : ShapeInv(t, k)') /\ LocalsInv' /\ DataInv' /\ HeadInv'
LEMMA LocalsStay ==
  ASSUME items' = items, b' \in Locals(items), sort' \in SortLocals(items),
         pc' # "insert"
  PROVE  LocalsInv'
  BY DEF LocalsInv

LEMMA DataStays ==
  ASSUME DataInv, items' = items, UNCHANGED <<data, free>>
  PROVE  DataInv'
  BY DEF DataInv

(* What a step starts from.                                                 *)
Before(s, m) ==
  /\ InputsInv /\ CountInv /\ LocalsInv /\ ThenInv /\ ShapeInv(s, m)
  /\ DataInv /\ HeadInv /\ WaitInv /\ BlockInv /\ CrcInv
LEMMA BeforeParts ==
  ASSUME NEW s, NEW m, Before(s, m)
  PROVE  /\ Parts(s, m) /\ InputsInv /\ CountInv /\ LocalsInv /\ ThenInv
         /\ HeapInv(s) /\ ListInv(s) /\ MergeInv(s, m) /\ OrderInv(s, m)
         /\ SortedInv(s) /\ DataInv /\ HeadInv /\ WaitInv /\ BlockInv /\ CrcInv
  BY DEF Before, ShapeInv, Parts

LEMMA InsertStep ==
  ASSUME NEW s, NEW m, Before(s, m), items' = items, InsertNew
  PROVE  Kept
<1>1. pc = "insert" /\ pc' = pc /\ list' = list /\ sort' = sort /\ b' = [b EXCEPT !.i = @ + 1]
  BY DEF InsertNew
<1>2. \E t : ShapeInv(t, m)'
  BY BeforeParts, InsertKeeps
<1>3. DataInv'
  BY BeforeParts, InsertData
<1>4. LocalsInv'
  <2>1. b \in Locals(items) /\ "then" \in DOMAIN sort /\ sort.then = "none"
    BY <1>1, BeforeParts DEF LocalsInv
  <2>2. b' \in Locals(items)
    BY <1>1, <2>1 DEF Locals
  <2> QED
    BY <1>1, <2>1, <2>2 DEF LocalsInv
<1>5. HeadInv'
  BY <1>1, BeforeParts DEF HeadInv
<1> QED
  BY <1>2, <1>3, <1>4, <1>5 DEF Kept

LEMMA IndexStep ==
  ASSUME NEW s, NEW m, Before(s, m), HeadFirst(config), items' = items, IndexItems
  PROVE  Kept
<1>1. pc' = "sort" /\ b' = b /\ free' = free
  BY DEF IndexItems, StartSort
<1>2. ShapeInv(s, 0)' /\ sort' \in SortLocals(items)
  BY BeforeParts, IndexKeeps
<1>3. DataInv'
  BY <1>1, BeforeParts, IndexData
<1>4. LocalsInv'
  BY <1>1, <1>2, BeforeParts, LocalsStay DEF LocalsInv
<1>5. HeadInv'
  BY <1>1 DEF HeadInv, HeadPcs, AfterPcs
<1> QED
  BY <1>2, <1>3, <1>4, <1>5 DEF Kept

LEMMA TakenStep ==
  ASSUME NEW s, NEW m, Before(s, m), items' = items, CountInv', TakeStep
  PROVE  Kept
<1>1. /\ pc = "sort" /\ Refreshed /\ Extends(Le, Le') /\ Extends(St, St')
      /\ TakesP \/ TakesQ
  BY BeforeParts, TakeCases
<1>2. TakeP \/ TakeQ
  BY <1>1 DEF TakesP, TakesQ
<1>3. UNCHANGED <<list, free, b, pc>>
  BY <1>1, <1>2, BeforeParts, TakeStays
<1>4. DataInv'
  BY <1>1, <1>3, BeforeParts, RefreshedData
<1>5. (\E t, k : ShapeInv(t, k)') /\ sort' \in SortLocals(items)
  <2>1. CASE TakesP
    <3>1. PICK k : k = m + 1
      OBVIOUS
    <3>2. ShapeInv(s, k)' /\ sort' \in SortLocals(items)
      BY <1>1, <1>4, <2>1, <3>1, BeforeParts, TakePKeeps
    <3> QED
      BY <3>2
  <2>2. CASE TakesQ
    <3>1. PICK k, t : k = m + 1 /\ t = Forward(s, m + 1, m + sort.psize + 1)
      OBVIOUS
    <3>2. ShapeInv(t, k)' /\ sort' \in SortLocals(items)
      BY <1>1, <1>4, <2>2, <3>1, BeforeParts, TakeQKeeps
    <3> QED
      BY <3>2
  <2> QED
    BY <1>1, <2>1, <2>2
<1>6. LocalsInv'
  BY <1>1, <1>3, <1>5, BeforeParts, LocalsStay DEF LocalsInv
<1>7. HeadInv'
  BY <1>1, <1>3 DEF HeadInv, HeadPcs, AfterPcs
<1> QED
  BY <1>4, <1>5, <1>6, <1>7 DEF Kept

LEMMA NextRunStep ==
  ASSUME NEW s, NEW m, Before(s, m), items' = items, NextRun
  PROVE  Kept
<1>1. pc = "sort" /\ UNCHANGED <<data, free, b, pc>>
  BY DEF NextRun
<1>2. ShapeInv(s, m)' /\ sort' \in SortLocals(items)
  BY BeforeParts, NextRunKeeps
<1>3. DataInv'
  BY <1>1, BeforeParts, DataStays
<1>4. LocalsInv'
  BY <1>1, <1>2, BeforeParts, LocalsStay DEF LocalsInv
<1>5. HeadInv'
  BY <1>1 DEF HeadInv, HeadPcs, AfterPcs
<1> QED
  BY <1>2, <1>3, <1>4, <1>5 DEF Kept

LEMMA EndPassStep ==
  ASSUME NEW s, NEW m, Before(s, m), items' = items, EndPass
  PROVE  Kept
<1>1. pc = "sort" /\ UNCHANGED <<data, free, b>>
  BY DEF EndPass
<1>2. DataInv'
  BY <1>1, BeforeParts, DataStays
<1>3. CASE sort.nmerges > 1
  <2>1. ShapeInv(s, 0)' /\ sort' \in SortLocals(items) /\ pc' = "sort"
    BY <1>3, BeforeParts, NextPassKeeps
  <2>2. LocalsInv'
    BY <1>1, <2>1, BeforeParts, LocalsStay DEF LocalsInv
  <2>3. HeadInv'
    BY <2>1 DEF HeadInv, HeadPcs, AfterPcs
  <2> QED
    BY <1>2, <2>1, <2>2, <2>3 DEF Kept
<1>4. CASE ~ (sort.nmerges > 1)
  <2>1. ShapeInv(s, 0)' /\ sort' \in SortLocals(items) /\ HeadInv'
    BY <1>4, BeforeParts, LastPassKeeps
  <2>2. pc' # "insert"
    <3>1. sort \in SortLocals(items)
      BY <1>1, BeforeParts DEF LocalsInv
    <3>2. sort.then # "insert"
      BY <3>1 DEF SortLocals
    <3>3. pc' = sort.then \/ pc' = pc
      BY DEF EndPass
    <3> QED
      BY <1>1, <3>2, <3>3
  <2>3. LocalsInv'
    BY <1>1, <2>1, <2>2, BeforeParts, LocalsStay DEF LocalsInv
  <2> QED
    BY <1>2, <2>1, <2>3 DEF Kept
<1> QED
  BY <1>3, <1>4

LEMMA ValueStep ==
  ASSUME NEW s, NEW m, Before(s, m), items' = items, Calculate \/ StateReturns
  PROVE  Kept
<1>1. pc = "sort" /\ pc' = pc
  BY DEF Calculate, StateReturns, Comparing
<1>2. ShapeInv(s, m)' /\ DataInv' /\ UNCHANGED <<b, sort>>
  BY BeforeParts, ValuesKeep
<1>3. LocalsInv'
  BY <1>1, <1>2, BeforeParts, LocalsStay DEF LocalsInv
<1>4. HeadInv'
  BY <1>1 DEF HeadInv, HeadPcs, AfterPcs
<1> QED
  BY <1>2, <1>3, <1>4 DEF Kept

LEMMA EndFindLocals ==
  ASSUME b \in Locals(items), EndFind
  PROVE  b' \in Locals(items)
<1>1. b' = [b EXCEPT !.retval = u16(@ + b.found * 4 - b.missed)]
  BY DEF EndFind
<1>2. b.retval \in Words /\ b.found \in Nat /\ b.missed \in Nat
  BY DEF Locals
<1>3. b.retval \in Int
  <2>1. b.retval \in Nat
    BY <1>2, WordIsNat
  <2> QED
    BY <2>1
<1>4. PICK x \in Int : x = b.found * 4 - b.missed
  BY <1>2
<1>5. b.retval + b.found * 4 - b.missed = b.retval + x
  BY <1>2, <1>3, <1>4
<1>6. u16(b.retval + x) \in Words
  BY <1>2, <1>4, WordSum
<1>7. PICK w \in Words : w = u16(b.retval + x)
  BY <1>6
<1>8. b' = [b EXCEPT !.retval = w]
  BY <1>1, <1>5, <1>7
<1> QED
  BY <1>8 DEF Locals

LEMMA FindStep ==
  ASSUME NEW s, NEW m, Before(s, m), items' = items, FindOne
  PROVE  Kept
<1>1. pc = "find" /\ UNCHANGED <<data, free, sort, pc>>
  BY DEF FindOne
<1>2. \E t : ShapeInv(t, m)'
  BY BeforeParts, FindKeeps
<1>3. b' \in Locals(items)
  BY BeforeParts, FindLocals
<1>4. DataInv'
  BY <1>1, BeforeParts, DataStays
<1>5. LocalsInv'
  BY <1>1, <1>3, BeforeParts, LocalsStay DEF LocalsInv
<1>6. HeadInv'
  BY <1>1 DEF HeadInv, HeadPcs, AfterPcs
<1> QED
  BY <1>2, <1>4, <1>5, <1>6 DEF Kept

LEMMA EndFindStep ==
  ASSUME NEW s, NEW m, Before(s, m), items' = items, EndFind
  PROVE  Kept
<1>1. pc = "find" /\ UNCHANGED <<data, free>> /\ pc' \in {"sort", "remove"}
  BY DEF EndFind, StartSort
<1>2. ShapeInv(s, 0)' /\ sort' \in SortLocals(items)
  BY BeforeParts, EndFindKeeps
<1>3. b' \in Locals(items)
  BY BeforeParts, EndFindLocals DEF LocalsInv
<1>4. DataInv'
  BY <1>1, BeforeParts, DataStays
<1>5. LocalsInv'
  BY <1>1, <1>2, <1>3, LocalsStay
<1>6. HeadInv'
  BY <1>1 DEF HeadInv, HeadPcs, AfterPcs
<1> QED
  BY <1>2, <1>4, <1>5, <1>6 DEF Kept

LEMMA RemoveStep ==
  ASSUME NEW s, NEW m, Before(s, m), items' = items, RemoveOne \/ UndoRemove \/ CrcFromFound
  PROVE  Kept
<1>1. /\ pc \in {"remove", "tail", "undo"} /\ pc' \in {"tail", "undo", "unsorted"}
      /\ UNCHANGED <<data, free, sort>>
  BY DEF RemoveOne, UndoRemove, CrcFromFound
<1>2. (\E t : ShapeInv(t, m)') /\ b' \in Locals(items)
  <2>1. CASE RemoveOne
    BY <2>1, BeforeParts, RemoveKeeps
  <2>2. CASE UndoRemove
    BY <2>2, BeforeParts, UndoKeeps
  <2>3. CASE CrcFromFound
    <3>1. ShapeInv(s, m)' /\ b' \in Locals(items)
      BY <2>3, BeforeParts, CrcFromFoundKeeps
    <3> QED
      BY <3>1
  <2> QED
    BY <2>1, <2>2, <2>3
<1>3. DataInv'
  BY <1>1, BeforeParts, DataStays
<1>4. LocalsInv'
  BY <1>1, <1>2, BeforeParts, LocalsStay DEF LocalsInv
<1>5. HeadInv'
  BY <1>1 DEF HeadInv, HeadPcs, AfterPcs
<1> QED
  BY <1>2, <1>3, <1>4, <1>5 DEF Kept

LEMMA SortBackStep ==
  ASSUME NEW s, NEW m, Before(s, m), items' = items, SortBack
  PROVE  Kept
<1>1. pc = "unsorted" /\ pc' = "sort" /\ UNCHANGED <<data, free, b>>
  BY DEF SortBack, StartSort
<1>2. ShapeInv(s, 0)' /\ sort' \in SortLocals(items)
  BY BeforeParts, SortBackKeeps
<1>3. DataInv'
  BY <1>1, BeforeParts, DataStays
<1>4. LocalsInv'
  BY <1>1, <1>2, BeforeParts, LocalsStay DEF LocalsInv
<1>5. HeadInv'
  BY <1>1 DEF HeadInv, HeadPcs, AfterPcs
<1> QED
  BY <1>2, <1>3, <1>4, <1>5 DEF Kept

LEMMA CrcStep ==
  ASSUME NEW s, NEW m, Before(s, m), items' = items, CrcOfAll
  PROVE  Kept
<1>1. pc = "crc" /\ pc' = "return" /\ UNCHANGED <<data, list, free, sort>>
  BY DEF CrcOfAll
<1>2. ShapeInv(s, m)' /\ b' \in Locals(items)
  BY BeforeParts, CrcOfAllKeeps
<1>3. DataInv'
  BY <1>1, BeforeParts, DataStays
<1>4. LocalsInv'
  BY <1>1, <1>2, BeforeParts, LocalsStay DEF LocalsInv
<1>5. HeadInv'
  BY <1>1, BeforeParts DEF HeadInv, HeadPcs, AfterPcs
<1> QED
  BY <1>2, <1>3, <1>4, <1>5 DEF Kept

LEMMA MainStepKeeps ==
  ASSUME NEW s, NEW m, Before(s, m), items' = items, MainStep
  PROVE  Kept
<1>1. /\ UNCHANGED <<data, list, free, sort>>
      /\ pc \in HeadPcs /\ pc # "insert" /\ pc' # "insert"
  BY BeforeParts, MainEffect
<1>2. ShapeInv(s, m)' /\ b' \in Locals(items)
  BY BeforeParts, MainKeeps
<1>3. DataInv'
  BY <1>1, BeforeParts, DataStays
<1>4. LocalsInv'
  BY <1>1, <1>2, BeforeParts, LocalsStay DEF LocalsInv
<1>5. HeadInv'
  BY <1>1, BeforeParts DEF HeadInv
<1> QED
  BY <1>2, <1>3, <1>4, <1>5 DEF Kept

LEMMA OtherStep ==
  ASSUME NEW s, NEW m, Before(s, m), items' = items, StateBenchmark \/ UNCHANGED vars
  PROVE  Kept
<1>1. UNCHANGED <<heap, data, list, free, sort, b, pc>>
  BY DEF StateBenchmark, vars, listVars
<1>2. ShapeInv(s, m)'
  BY <1>1, ShapeStutters DEF Before
<1>3. DataInv'
  BY <1>1, BeforeParts, DataStays
<1>4. LocalsInv' /\ HeadInv'
  BY <1>1, BeforeParts DEF LocalsInv, HeadInv
<1> QED
  BY <1>2, <1>3, <1>4 DEF Kept

LEMMA AllKept ==
  ASSUME NEW s, NEW m, Before(s, m), HeadFirst(config), [Next]_vars
  PROVE  Kept /\ InputsInv' /\ CountInv'
<1>1. InputsInv' /\ items' = items
  BY BeforeParts, InputsKept
<1>2. CountInv'
  BY BeforeParts, CountKept
<1> SUFFICES Kept
  BY <1>1, <1>2
<1>3. CASE InsertNew
  BY <1>1, <1>3, InsertStep
<1>4. CASE IndexItems
  BY <1>1, <1>4, IndexStep
<1>5. CASE NextRun
  BY <1>1, <1>5, NextRunStep
<1>6. CASE TakeStep
  BY <1>1, <1>2, <1>6, TakenStep
<1>7. CASE EndPass
  BY <1>1, <1>7, EndPassStep
<1>8. CASE Calculate \/ StateReturns
  BY <1>1, <1>8, ValueStep
<1>9. CASE FindOne
  BY <1>1, <1>9, FindStep
<1>10. CASE EndFind
  BY <1>1, <1>10, EndFindStep
<1>11. CASE RemoveOne \/ UndoRemove \/ CrcFromFound
  BY <1>1, <1>11, RemoveStep
<1>12. CASE SortBack
  BY <1>1, <1>12, SortBackStep
<1>13. CASE CrcOfAll
  BY <1>1, <1>13, CrcStep
<1>14. CASE MainStep
  BY <1>1, <1>14, MainStepKeeps
<1>15. CASE StateBenchmark \/ UNCHANGED vars
  BY <1>1, <1>15, OtherStep
<1> QED
  BY <1>3, <1>4, <1>5, <1>6, <1>7, <1>8, <1>9, <1>10, <1>11, <1>12, <1>13, <1>14, <1>15
     DEF Next, MergeSort, ListBenchmark, TakeStep, MainStep

-----------------------------------------------------------------------------
(* At the beginning the list is its head.                                  *)
OneCell == [i \in 1 .. 1 |-> 0]
LEMMA OneCellOrder == Order(OneCell, 1)
<1>1. CellsOf(1) = {0}
  BY DEF CellsOf
<1> QED
  BY <1>1 DEF Order, OneCell

LEMMA InitShape ==
  ASSUME InputsInv, Init
  PROVE  ShapeInv(OneCell, 0) /\ CountInv
<1>1. /\ heap = EmptyHeap(items) /\ list = 0 /\ free = 1 /\ pc = "insert" /\ b = NoLocals
      /\ sort = [by |-> "none", then |-> "none"]
  BY DEF Init
<1>2. items \in Nat /\ items >= 4
  BY InputFacts
<1>3. Fit(1, items) /\ Order(OneCell, 1) /\ OneCell[1] = 0
  BY <1>2, OneCellOrder DEF Fit, OneCell
<1>4. CountInv
  BY <1>1, <1>2, <1>3 DEF CountInv, NoLocals
<1>5. /\ heap.next = [c \in CellsOf(items) |-> NULL]
      /\ heap.info = [c \in CellsOf(items) |-> IF c = 0 THEN 0 ELSE NULL]
      /\ heap = [next |-> heap.next, info |-> heap.info]
  BY <1>1 DEF EmptyHeap, CellsOf
<1>6. 0 \in CellsOf(items) /\ 0 \in Pointers(items) /\ NULL \in Pointers(items)
  BY <1>2 DEF CellsOf, Pointers
<1>7. heap.next \in NextTypes(items) /\ heap.info \in NextTypes(items)
      /\ heap.next[0] = NULL /\ heap.info[0] = 0
  BY <1>5, <1>6 DEF NextTypes
<1>8. heap \in [next : NextTypes(items), info : NextTypes(items)]
  BY <1>5, <1>7
<1>9. ~ Window
  BY <1>1 DEF Window
<1>10. HeapInv(OneCell)
  <2>1. ASSUME NEW i \in 1 .. free
        PROVE  heap.info[OneCell[i]] = OneCell[InfoPlace(i)]
    <3>1. i = 1 /\ InfoPlace(i) = i
      BY <1>1, <1>9, <2>1 DEF InfoPlace
    <3> QED
      BY <1>3, <1>7, <3>1
  <2> QED
    BY <1>1, <1>3, <1>8, <1>9, <2>1 DEF HeapInv, NoLocals
<1>11. ListInv(OneCell)
  <2>1. Listed(heap.next, OneCell, 1)
    BY <1>3, <1>7 DEF Listed, Links
  <2> QED
    BY <1>1, <1>3, <1>9, <2>1 DEF ListInv
<1>12. MergeInv(OneCell, 0) /\ OrderInv(OneCell, 0) /\ SortedInv(OneCell)
  BY <1>1 DEF MergeInv, OrderInv, SortedInv
<1> QED
  BY <1>4, <1>10, <1>11, <1>12 DEF ShapeInv

LEMMA InitBlocks ==
  ASSUME InputsInv, Init
  PROVE  BlockInv
<1>1. /\ mat = core_init_matrix(res.size, res.size, res.seed1 + 65536 * res.seed2)
      /\ state_mem = core_init_state(res.size, res.seed1) /\ scan = NoScan
  BY DEF Init
<1>2. res.size \in Nat \ {0} /\ res.seed1 \in Nat /\ res.seed2 \in Nat
  BY InputFacts
<1>3. MatrixOK(mat)
  <2>1. res.seed1 + 65536 * res.seed2 \in Int
    BY <1>2
  <2> QED
    BY <1>1, <1>2, <2>1, MatrixStarts
<1>4. state_mem \in [0 .. res.size - 1 -> Byte]
  <2>1. PICK size \in Nat, seed \in Nat : size = res.size /\ seed = res.seed1
    BY <1>2
  <2>2. core_init_state(size, seed) \in [0 .. size - 1 -> Byte]
    BY StringStarts
  <2> QED
    BY <1>1, <2>1, <2>2
<1>5. 0 \in Words
  BY WordsAre
<1>6. scan.crc = 0 /\ scan.p = 0 /\ scan.phase = "idle" /\ scan.final \in CountType
      /\ scan.track \in CountType
  BY <1>1 DEF NoScan, NoCounts, CountType
<1> QED
  BY <1>3, <1>4, <1>5, <1>6 DEF BlockInv

LEMMA InitData ==
  ASSUME InputsInv, Init
  PROVE  DataInv
<1>1. data = [d \in 0 .. items - 1 |-> IF d = 0 THEN HeadData ELSE Blank] /\ free = 1
  BY DEF Init
<1>2. items \in Nat /\ items >= 4
  BY InputFacts
<1>3. data \in DataTypes(items)
  BY <1>1, StartData DEF DataTypes, CellsOf, DataType
<1>4. data[0].idx = 0
  BY <1>1, <1>2, StartData
<1> QED
  BY <1>1, <1>3, <1>4 DEF DataInv

LEMMA InitCore ==
  ASSUME Init
  PROVE  CoreInv(OneCell, 0)
<1>1. InputsInv
  BY DEF Init, InputsInv
<1>2. ShapeInv(OneCell, 0) /\ CountInv /\ BlockInv /\ DataInv
  BY <1>1, InitShape, InitBlocks, InitData
<1>3. /\ pc = "insert" /\ list = 0 /\ scan = NoScan /\ b = NoLocals /\ crcs = NoCrcs
      /\ sort = [by |-> "none", then |-> "none"]
  BY DEF Init
<1>4. 0 \in Words /\ NULL \in Pointers(items)
  BY WordsAre DEF Pointers
<1>5. LocalsInv
  BY <1>3, <1>4 DEF LocalsInv, Locals, NoLocals
<1>6. ThenInv
  BY <1>3 DEF ThenInv, SortingPcs, AfterPcs
<1>7. HeadInv /\ WaitInv
  BY <1>3 DEF HeadInv, WaitInv, NoScan
<1>8. CrcInv
  BY <1>3, <1>4 DEF CrcInv, CrcTypes, NoCrcs
<1> QED
  BY <1>1, <1>2, <1>5, <1>6, <1>7, <1>8 DEF CoreInv, ShapeInv

(* Every step keeps the invariant, of some order and number of cells.      *)
LEMMA CoreKept ==
  ASSUME NEW s, NEW m, CoreInv(s, m), HeadFirst(config), [Next]_vars
  PROVE  \E t, k : CoreInv(t, k)'
<1>1. Before(s, m)
  BY DEF CoreInv, Before, ShapeInv
<1>2. Kept /\ InputsInv' /\ CountInv'
  BY <1>1, AllKept
<1>3. ThenInv'
  BY <1>1, BeforeParts, ThenKept
<1>4. WaitInv' /\ CrcInv' /\ BlockInv'
  BY <1>1, BeforeParts, WaitKept, CrcKept, BlockKept
<1>5. PICK t, k : ShapeInv(t, k)'
  BY <1>2 DEF Kept
<1>6. CoreInv(t, k)'
  BY <1>2, <1>3, <1>4, <1>5 DEF CoreInv, Kept, ShapeInv
<1> QED
  BY <1>6

AnyCore == \E s, m : CoreInv(s, m)
LEMMA CoreAlways ==
  ASSUME \A c \in Configs : HeadFirst(c)
  PROVE  Spec => []AnyCore
<1>1. Init => AnyCore
  BY InitCore DEF AnyCore
<1>2. AnyCore /\ [Next]_vars => AnyCore'
  <2> SUFFICES ASSUME AnyCore, [Next]_vars PROVE AnyCore'
    OBVIOUS
  <2>1. PICK s, m : CoreInv(s, m)
    BY DEF AnyCore
  <2>2. HeadFirst(config)
    BY <2>1 DEF CoreInv, InputsInv
  <2>3. \E t, k : CoreInv(t, k)'
    BY <2>1, <2>2, CoreKept
  <2> QED
    BY <2>3 DEF AnyCore
<1> QED
  BY <1>1, <1>2, PTL DEF Spec

-----------------------------------------------------------------------------
(* The head of the list is a cell, also while the list is being sorted.    *)
ListedCore == AnyCore /\ list \in CellsOf(items)
LEMMA ListWaits ==
  ASSUME [Next]_vars, LocalsInv, pc' = "sort"
  PROVE  list' = list
<1>1. UNCHANGED list \/ EndPass \/ FindOne \/ Iterate \/ SecondList
  BY WhoWrites DEF Writes
<1>2. CASE EndPass
  <2>1. sort \in SortLocals(items)
    BY <1>2 DEF EndPass, LocalsInv
  <2>2. sort.then # "sort"
    BY <2>1 DEF SortLocals
  <2> QED
    BY <1>2, <2>2 DEF EndPass
<1> QED
  BY <1>1, <1>2 DEF FindOne, Iterate, SecondList, BeginList

LEMMA HeadIsCell ==
  ASSUME NEW s, NEW m, CoreInv(s, m), pc # "sort"
  PROVE  list \in CellsOf(items)
<1>1. Order(s, free) /\ Fit(free, items) /\ list = s[1]
  BY DEF CoreInv, HeapInv, CountInv, ListInv
<1>2. 1 \in 1 .. free
  BY <1>1 DEF Fit
<1> QED
  BY <1>1, <1>2, CellsFit

LEMMA ListedAlways ==
  ASSUME \A c \in Configs : HeadFirst(c)
  PROVE  Spec => []ListedCore
<1>1. Init => ListedCore
  <2> SUFFICES ASSUME Init PROVE ListedCore
    OBVIOUS
  <2>1. CoreInv(OneCell, 0) /\ pc # "sort"
    BY InitCore DEF Init
  <2> QED
    BY <2>1, HeadIsCell DEF ListedCore, AnyCore
<1>2. ListedCore /\ [Next]_vars => ListedCore'
  <2> SUFFICES ASSUME ListedCore, [Next]_vars PROVE ListedCore'
    OBVIOUS
  <2>1. PICK s, m : CoreInv(s, m)
    BY DEF ListedCore, AnyCore
  <2>2. HeadFirst(config)
    BY <2>1 DEF CoreInv, InputsInv
  <2>3. PICK t, k : CoreInv(t, k)'
    BY <2>1, <2>2, CoreKept
  <2>4. items' = items
    BY <2>1, InputsKept DEF CoreInv
  <2>5. list' \in CellsOf(items)
    <3>1. CASE pc' = "sort"
      BY <2>1, <3>1, ListWaits DEF ListedCore, CoreInv
    <3>2. CASE pc' # "sort"
      <4>1. /\ Order(t, free') /\ Fit(free', items) /\ list' = t[1]
        BY <2>3, <2>4, <3>2 DEF CoreInv, HeapInv, CountInv, ListInv
      <4>2. 1 \in 1 .. free'
        BY <4>1 DEF Fit
      <4>3. PICK n : n = free'
        OBVIOUS
      <4>4. \A i \in 1 .. n : t[i] \in CellsOf(items)
        BY <4>1, <4>3, CellsFit
      <4> QED
        BY <4>1, <4>2, <4>3, <4>4
    <3> QED
      BY <3>1, <3>2
  <2> QED
    BY <2>3, <2>4, <2>5 DEF ListedCore, AnyCore
<1> QED
  BY <1>1, <1>2, PTL DEF Spec

(* All that the benchmarks compute keeps its type: checksums and results   *)
(* stay within 16 bits, the bytes of the data, of the string and of the    *)
(* matrix, which are changed in place, within 8, and pointers point to     *)
(* cells (core_list_join.c:138, core_matrix.c:127, core_state.c:99).       *)
THEOREM TypesAreKept ==
  ASSUME \A c \in Configs : HeadFirst(c)
  PROVE  Spec => []TypeOK
<1>1. ListedCore => TypeOK
  <2> SUFFICES ASSUME ListedCore PROVE TypeOK
    OBVIOUS
  <2>1. PICK s, m : CoreInv(s, m)
    BY DEF ListedCore, AnyCore
  <2>2. Cells = CellsOf(items) /\ Cells \cup {NULL} = Pointers(items)
    BY DEF Cells, CellsOf, Pointers
  <2>3. heap \in [next : [Cells -> Cells \cup {NULL}], info : [Cells -> Cells \cup {NULL}]]
    BY <2>1, <2>2 DEF CoreInv, HeapInv, NextTypes
  <2>4. data \in [Cells -> [hi : Bytes, lo : Bytes, idx : Indexes]]
    BY <2>1, <2>2 DEF CoreInv, DataInv, DataTypes
  <2>5. list \in Cells /\ free \in 1 .. items
    BY <2>1, <2>2 DEF ListedCore, CoreInv, CountInv, Fit
  <2>6. (\A x \in DOMAIN crcs : crcs[x] \in Words) /\ b.retval \in Words
    BY <2>1 DEF CoreInv, CrcInv, CrcTypes, LocalsInv, Locals
  <2>7. state_mem \in [0 .. res.size - 1 -> Bytes] /\ \A e \in DOMAIN mat.A : mat.A[e] \in Bytes
    BY <2>1 DEF CoreInv, BlockInv, MatrixOK, Byte, Bytes
  <2> QED
    BY <2>3, <2>4, <2>5, <2>6, <2>7 DEF TypeOK
<1>2. Spec => []ListedCore
  BY ListedAlways
<1> QED
  BY <1>1, <1>2, PTL

(* A sorted list, as its cells are met.                                    *)
LEMMA SortedCells ==
  ASSUME NEW s, NEW m, CoreInv(s, m), pc = sort.then
  PROVE  /\ Chain(heap, list) = s /\ Len(s) = free /\ free \in Nat
         /\ Order(s, free) /\ Order(sort.before, free)
         /\ \A i \in 1 .. free : s[i] \in CellsOf(free) /\ Key(s[i]) = KeyOf(s[i])
                              /\ KeyOf(s[i]) \in Nat
         /\ \A i, j \in 1 .. free :
              i < j => Related(Le, s[i], s[j]) /\ Related(St, s[i], s[j])
<1>1. CountInv /\ LocalsInv /\ HeapInv(s) /\ ListInv(s) /\ SortedInv(s) /\ DataInv
  BY DEF CoreInv
<1>2. Calm
  <2>1. pc # "insert"
    BY <1>1 DEF LocalsInv
  <2>2. sort \in SortLocals(items)
    BY <1>1, <2>1 DEF LocalsInv
  <2>3. sort.then \in {"start", "remove", "crc"}
    BY <2>2 DEF SortLocals
  <2> QED
    BY <2>3 DEF Calm
<1>3. /\ free \in Nat /\ Fit(free, items) /\ Order(s, free)
      /\ LinkType(heap.next, items)
      /\ \A c \in CellsOf(free) : heap.info[c] = c
      /\ list = s[1] /\ Listed(heap.next, s, free)
      /\ \A i \in 1 .. free : s[i] \in CellsOf(free)
  BY <1>1, <1>2, ListFacts
<1>4. Chain(heap, list) = s /\ Len(s) = free
  BY <1>3, ListChain
<1>5. ASSUME NEW i \in 1 .. free
      PROVE  Key(s[i]) = KeyOf(s[i]) /\ KeyOf(s[i]) \in Nat
  <2>1. s[i] \in CellsOf(free) /\ heap.info[s[i]] = s[i]
    BY <1>3
  <2>2. data[s[i]].lo \in Nat /\ data[s[i]].idx \in Nat
    <3>1. data[s[i]].lo \in Bytes /\ data[s[i]].idx \in Nat
      BY <1>1, <2>1, DataFacts
    <3> QED
      BY <3>1, BytesAre
  <2> QED
    BY <2>1, <2>2 DEF Key, KeyOf, InfoOf, InfoAt
<1> QED
  BY <1>1, <1>3, <1>4, <1>5 DEF SortedInv

(* A sort is a sort: ascending, and stable (core_list_join.c:499-595).     *)
THEOREM SortsAreStable ==
  ASSUME \A c \in Configs : HeadFirst(c)
  PROVE  Spec => []Sorted
<1>1. AnyCore => Sorted
  <2> SUFFICES ASSUME AnyCore, pc = sort.then,
                      NEW i \in 1 .. Len(Chain(heap, list)) - 1
               PROVE  LET s == Chain(heap, list)
                          At0(c) == CHOOSE k \in 1 .. Len(sort.before) : sort.before[k] = c
                      IN  \/ Key(s[i]) < Key(s[i + 1])
                          \/ /\ Key(s[i]) = Key(s[i + 1])
                             /\ At0(s[i]) < At0(s[i + 1])
    BY DEF Sorted
  <2>1. PICK s, m : CoreInv(s, m)
    BY DEF AnyCore
  <2>2. /\ Chain(heap, list) = s /\ Len(s) = free /\ free \in Nat
        /\ Order(s, free) /\ Order(sort.before, free)
        /\ \A k \in 1 .. free : s[k] \in CellsOf(free) /\ Key(s[k]) = KeyOf(s[k])
                             /\ KeyOf(s[k]) \in Nat
        /\ \A k, l \in 1 .. free :
             k < l => Related(Le, s[k], s[l]) /\ Related(St, s[k], s[l])
    BY <2>1, SortedCells
  <2>3. i \in 1 .. free /\ i + 1 \in 1 .. free /\ i < i + 1
    BY <2>2
  <2>4. Related(Le, s[i], s[i + 1]) /\ Related(St, s[i], s[i + 1])
    BY <2>2, <2>3
  <2> DEFINE cd == <<s[i], s[i + 1]>>
  <2>5. KeyOf(s[i]) <= KeyOf(s[i + 1])
    BY <2>4 DEF Related, Le
  <2>6. CASE KeyOf(s[i]) < KeyOf(s[i + 1])
    BY <2>2, <2>3, <2>6
  <2>7. CASE ~ (KeyOf(s[i]) < KeyOf(s[i + 1]))
    <3>1. KeyOf(s[i]) = KeyOf(s[i + 1])
      <4>1. KeyOf(s[i]) \in Nat /\ KeyOf(s[i + 1]) \in Nat
        BY <2>2, <2>3
      <4> QED
        BY <2>5, <2>7, <4>1
    <3>2. CameFirst(<<s[i], s[i + 1]>>)
      BY <2>4, <2>7 DEF Related, St
    <3>3. PICK k, l \in 1 .. free : /\ k < l /\ sort.before[k] = s[i]
                                    /\ sort.before[l] = s[i + 1]
      BY <3>2 DEF CameFirst
    <3>4. Len(sort.before) = free /\ \A x, y \in 1 .. free : sort.before[x] = sort.before[y] => x = y
      BY <2>2, OrderIsSeq DEF Order
    <3>5. (CHOOSE x \in 1 .. free : sort.before[x] = s[i]) = k
      BY <3>3, <3>4
    <3>6. (CHOOSE x \in 1 .. free : sort.before[x] = s[i + 1]) = l
      BY <3>3, <3>4
    <3> QED
      BY <2>2, <2>3, <3>1, <3>3, <3>4, <3>5, <3>6
  <2> QED
    BY <2>6, <2>7
<1>2. Spec => []AnyCore
  BY CoreAlways
<1> QED
  BY <1>1, <1>2, PTL

-----------------------------------------------------------------------------
(* The cells that are met from the place a of an order on, when those up   *)
(* to z are linked.                                                         *)
LEMMA ChainStarts ==
  ASSUME NEW n, NEW c, Fit(n, c), NEW h, LinkType(h.next, c), NEW s, Order(s, n),
         NEW a \in 1 .. n, NEW z \in a .. n, Links(h.next, s, a, z),
         NEW k, k = z - a + 1
  PROVE  /\ SubSeq(Chain(h, s[a]), 1, k) = SubSeq(s, a, z)
         /\ Len(Chain(h, s[a])) \in Nat /\ k <= Len(Chain(h, s[a]))
         /\ \A i \in 1 .. k : Chain(h, s[a])[i] = s[a + i - 1]
         /\ h.next[s[z]] = NULL => Chain(h, s[a]) = SubSeq(s, a, z)
<1>1. /\ n \in Nat /\ c \in Nat /\ n <= c /\ s \in Seq(CellsOf(c)) /\ Len(s) = n
      /\ \A i \in 1 .. n : s[i] \in CellsOf(c)
  BY CellsFit DEF Fit
<1>2. a \in 1 .. Len(s) /\ z \in a .. Len(s) /\ z - a < c /\ a \in Int /\ z \in Int
      /\ k \in Nat /\ k >= 1 /\ a <= z
  BY <1>1
<1>3. PICK w \in Seq(CellsOf(c)) :
        /\ Chain(h, s[a]) = SubSeq(s, a, z) \o w
        /\ h.next[s[z]] = NULL => w = <<>>
  <2>1. ChainHas(h, s, a, z, c)
    BY <1>1, <1>2, ChainSegment
  <2> QED
    BY <2>1 DEF ChainHas
<1> DEFINE v == SubSeq(s, a, z)
<1>4. v \in Seq(CellsOf(c)) /\ Len(v) = k /\ \A i \in 1 .. k : v[i] = s[a + i - 1]
  <2>1. \A i \in a .. z : s[i] \in CellsOf(c)
    BY <1>1, <1>2
  <2>2. /\ v \in Seq(CellsOf(c)) /\ Len(v) = (IF a <= z THEN z - a + 1 ELSE 0)
        /\ \A i \in 1 .. z - a + 1 : v[i] = s[a + i - 1]
    BY <1>2, <2>1, SubSeqProperties
  <2> HIDE DEF v
  <2> QED
    BY <1>2, <2>2
<1> HIDE DEF v
<1>5. /\ Len(v \o w) = Len(v) + Len(w) /\ Len(w) \in Nat
      /\ \A i \in 1 .. Len(v) + Len(w) :
           (v \o w)[i] = IF i <= Len(v) THEN v[i] ELSE w[i - Len(v)]
  <2>1. Len(w) \in Nat
    OBVIOUS
  <2>2. /\ Len(v \o w) = Len(v) + Len(w)
        /\ \A i \in 1 .. Len(v) + Len(w) :
             (v \o w)[i] = IF i <= Len(v) THEN v[i] ELSE w[i - Len(v)]
    BY <1>4, ConcatProperties
  <2> QED
    BY <2>1, <2>2
<1>6. SubSeq(v \o w, 1, k) = v
  <2>1. 1 \in 1 .. Len(v) /\ k \in 1 .. Len(v)
    BY <1>2, <1>4
  <2>2. SubSeq(v \o w, 1, k) = SubSeq(v, 1, k)
    BY <1>3, <1>4, <2>1, SubSeqOfConcat1
  <2>3. SubSeq(v, 1, k) = v
    BY <1>4, SubSeqFull
  <2> QED
    BY <2>2, <2>3
<1>7. \A i \in 1 .. k : (v \o w)[i] = s[a + i - 1]
  <2>1. \A i \in 1 .. k : i \in 1 .. Len(v) + Len(w) /\ i <= Len(v)
    BY <1>2, <1>4, <1>5
  <2> QED
    BY <1>4, <1>5, <2>1
<1>8. Chain(h, s[a]) = v \o w
  BY <1>3 DEF v
<1>9. h.next[s[z]] = NULL => v \o w = v
  BY <1>3, <1>4, ConcatEmptySeq
<1>10. Len(v \o w) \in Nat /\ k <= Len(v \o w)
  BY <1>2, <1>4, <1>5
<1> QED
  BY <1>6, <1>7, <1>8, <1>9, <1>10 DEF v

LEMMA NoChain ==
  ASSUME NEW n \in Nat, NEW h, LinkType(h.next, n)
  PROVE  Chain(h, NULL) = <<>>
<1> DEFINE f == CHOOSE x : ChainRecursion(x, h.next)
<1>1. ChainRecursion(f, h.next)
  BY ChainExists
<1>2. Chain(h, NULL) = f[n][NULL]
  <2>1. Chain(h, NULL) = f[Cardinality(DOMAIN h.next)][NULL]
    BY DEF Chain, ChainRecursion
  <2> QED
    BY <2>1, CellCount
<1> HIDE DEF f
<1> QED
  BY <1>1, <1>2, ChainSteps

(* Outside of sorts the list has all cells, or all but the removed one.    *)
LEMMA LinkedList ==
  ASSUME NEW s, NEW m, CoreInv(s, m), pc # "sort"
  PROVE  Linked = s
<1>1. CountInv /\ LocalsInv /\ HeapInv(s) /\ ListInv(s) /\ InputsInv
  BY DEF CoreInv
<1>2. CASE ~ Window
  <2>1. Calm
    BY <1>2 DEF Calm, Window
  <2>2. /\ Fit(free, items) /\ Order(s, free) /\ LinkType(heap.next, items)
        /\ list = s[1] /\ Listed(heap.next, s, free) /\ b.remover = NULL
    BY <1>1, <2>1, ListFacts
  <2>3. Chain(heap, list) = s /\ s \in Seq(CellsOf(items))
    BY <2>2, ListChain
  <2>4. s \o <<>> = s
    BY <2>3, ConcatEmptySeq
  <2> QED
    BY <2>2, <2>3, <2>4 DEF Linked
<1>3. CASE Window
  <2>1. /\ free \in Nat /\ free >= 3 /\ Fit(free, items) /\ Order(s, free)
        /\ LinkType(heap.next, items)
        /\ list = s[1] /\ Listed(heap.next, s, free - 1)
        /\ b.remover = s[free]
        /\ \A i \in 1 .. free : s[i] # NULL /\ s[i] \in CellsOf(items)
    BY <1>1, <1>3, WindowFacts
  <2> DEFINE z == free - 1
  <2>2. 1 \in 1 .. free /\ z \in 1 .. free /\ z = z - 1 + 1 /\ free \in 1 .. free
        /\ z + 1 = free /\ z \in Int
    BY <2>1
  <2>3. Links(heap.next, s, 1, z) /\ heap.next[s[z]] = NULL
    BY <2>1 DEF Listed
  <2>4. Chain(heap, s[1]) = SubSeq(s, 1, z)
    <3> HIDE DEF z
    <3> QED
      BY <2>1, <2>2, <2>3, ChainStarts
  <2>5. s \in Seq(CellsOf(items)) /\ Len(s) = free
    BY <2>1, CellsFit
  <2>6. SubSeq(s, 1, z) \o <<s[free]>> = s
    <3>1. 1 \in 1 .. Len(s) /\ free \in 1 .. Len(s)
      BY <2>2, <2>5
    <3>2. SubSeq(s, 1, free) = SubSeq(s, 1, free - 1) \o <<s[free]>>
      BY <2>5, <3>1, SubSeqRecursiveSecond
    <3>3. SubSeq(s, 1, free) = s
      BY <2>5, SubSeqFull
    <3> QED
      BY <3>2, <3>3
  <2>7. b.remover # NULL
    BY <2>1, <2>2
  <2> HIDE DEF z
  <2> QED
    BY <2>1, <2>4, <2>6, <2>7 DEF Linked
<1> QED
  BY <1>2, <1>3

(* In the middle of a sort they are on the merged part and on the two runs.*)
LEMMA MergedCells ==
  ASSUME NEW s, NEW m, Parts(s, m), pc = "sort"
  PROVE  Merged = SubSeq(s, 1, m)
<1>1. /\ free \in Nat /\ free >= 1 /\ m \in Nat /\ sort.psize \in Nat
      /\ m + sort.psize <= free /\ Fit(free, items) /\ Order(s, free)
      /\ LinkType(heap.next, items)
      /\ SortLinks(heap.next, s, free, m, m + sort.psize)
      /\ \A i \in 1 .. free : s[i] \in CellsOf(free) /\ s[i] # NULL
  BY SortFacts
<1>2. /\ sort.tail = IF m = 0 THEN NULL ELSE s[m]
      /\ m > 0 => sort.head = s[1]
  BY DEF Parts, MergeInv
<1>3. CASE m = 0
  <2>1. SubSeq(s, 1, 0) = <<>>
    BY SubSeqEmpty
  <2> QED
    BY <1>2, <1>3, <2>1 DEF Merged
<1>4. CASE m # 0
  <2>1. m \in 1 .. free /\ 1 \in 1 .. free /\ m = m - 1 + 1 /\ m > 0
    BY <1>1, <1>4
  <2>2. sort.tail = s[m] /\ sort.head = s[1] /\ sort.tail # NULL
    BY <1>1, <1>2, <1>4, <2>1
  <2>3. Links(heap.next, s, 1, m)
    <3> SUFFICES ASSUME NEW i \in 1 .. m - 1 PROVE heap.next[s[i]] = s[i + 1]
      BY DEF Links
    <3>1. i \in 1 .. free /\ i # m /\ i # m + sort.psize /\ i < free
      BY <1>1, <2>1
    <3> QED
      BY <1>1, <3>1 DEF SortLinks, Follower
  <2> DEFINE ch == Chain(heap, s[1])
  <2>4. /\ SubSeq(ch, 1, m) = SubSeq(s, 1, m)
        /\ Len(ch) \in Nat /\ m <= Len(ch)
        /\ \A i \in 1 .. m : ch[i] = s[1 + i - 1]
    BY <1>1, <2>1, <2>3, ChainStarts
  <2> HIDE DEF ch
  <2>5. \A i \in 1 .. m : ch[i] = s[i]
    <3>1. \A i \in 1 .. m : 1 + i - 1 = i
      BY <2>1
    <3> QED
      BY <2>4, <3>1
  <2> DEFINE First1(i) == ch[i] = sort.tail /\ \A j \in 1 .. i - 1 : ch[j] # ch[i]
  <2>6. m \in 1 .. Len(ch) /\ First1(m)
    <3>1. m \in 1 .. Len(ch) /\ m \in 1 .. m
      BY <2>1, <2>4
    <3>2. ASSUME NEW j \in 1 .. m - 1 PROVE ch[j] # ch[m]
      <4>1. j \in 1 .. m /\ j \in 1 .. free /\ j # m
        BY <1>1, <2>1
      <4> QED
        BY <1>1, <2>1, <2>5, <3>1, <4>1 DEF Order
    <3> QED
      BY <2>2, <2>5, <3>1, <3>2
  <2>7. ASSUME NEW i \in 1 .. Len(ch), First1(i) PROVE i = m
    <3>1. CASE i < m
      <4>1. i \in 1 .. m /\ i \in 1 .. free
        BY <1>1, <2>1, <2>4, <3>1
      <4>2. s[i] = s[m]
        BY <2>2, <2>5, <2>7, <4>1
      <4> QED
        BY <1>1, <2>1, <4>1, <4>2 DEF Order
    <3>2. CASE m < i
      <4>1. m \in 1 .. i - 1 /\ m \in 1 .. m
        BY <2>1, <2>4, <3>2
      <4> QED
        BY <2>2, <2>5, <2>7, <4>1
    <3> QED
      BY <2>1, <2>4, <3>1, <3>2
  <2>8. (CHOOSE i \in 1 .. Len(ch) : First1(i)) = m
    BY <2>6, <2>7
  <2>9. (CHOOSE i \in 1 .. Len(ch) :
           ch[i] = sort.tail /\ \A j \in 1 .. i - 1 : ch[j] # ch[i]) = m
    BY <2>8
  <2> QED
    BY <2>2, <2>4, <2>9 DEF Merged, ch
<1> QED
  BY <1>3, <1>4

LEMMA LinkedSort ==
  ASSUME NEW s, NEW m, Parts(s, m), pc = "sort"
  PROVE  Linked = s
<1>1. /\ free \in Nat /\ free >= 1 /\ m \in Nat /\ sort.psize \in Nat
      /\ m + sort.psize <= free /\ Fit(free, items) /\ Order(s, free)
      /\ LinkType(heap.next, items)
      /\ SortLinks(heap.next, s, free, m, m + sort.psize)
  BY SortFacts
<1>2. /\ sort.psize > 0 => sort.p = s[m + 1]
      /\ sort.q = Follower(s, free, m + sort.psize)
  BY DEF Parts, MergeInv
<1>3. sort \in SortLocals(items)
  BY DEF Parts, LocalsInv
<1>4. PICK e \in Nat : e = m + sort.psize
  BY <1>1
<1>5. s \in Seq(CellsOf(items)) /\ Len(s) = free /\ items \in Nat
  BY <1>1, CellsFit
<1>6. SubSeq(Chain(heap, sort.p), 1, sort.psize) = SubSeq(s, m + 1, e)
  <2>1. CASE sort.psize = 0
    <3>1. SubSeq(Chain(heap, sort.p), 1, 0) = <<>>
      BY SubSeqEmpty
    <3>2. e < m + 1 /\ m + 1 \in Int /\ e \in Int
      BY <1>1, <1>4, <2>1
    <3>3. SubSeq(s, m + 1, e) = <<>>
      BY <3>2, SubSeqEmpty
    <3> QED
      BY <2>1, <3>1, <3>3
  <2>2. CASE sort.psize # 0
    <3>1. PICK a \in 1 .. free : a = m + 1
      BY <1>1, <2>2
    <3>2. e \in a .. free /\ sort.psize = e - a + 1 /\ sort.psize > 0
      BY <1>1, <1>4, <2>2, <3>1
    <3>3. Links(heap.next, s, a, e)
      <4> SUFFICES ASSUME NEW i \in a .. e - 1 PROVE heap.next[s[i]] = s[i + 1]
        BY DEF Links
      <4>1. i \in 1 .. free /\ i # m /\ i # e /\ i < free
        BY <1>1, <1>4, <3>1, <3>2
      <4> QED
        BY <1>1, <1>4, <4>1 DEF SortLinks, Follower
    <3>4. SubSeq(Chain(heap, s[a]), 1, sort.psize) = SubSeq(s, a, e)
      BY <1>1, <3>2, <3>3, ChainStarts
    <3> QED
      BY <1>2, <3>1, <3>2, <3>4
  <2> QED
    BY <2>1, <2>2
<1>7. Chain(heap, sort.q) = SubSeq(s, e + 1, free)
  <2>1. CASE e < free
    <3>1. \A i \in e + 1 .. free : heap.next[s[i]] = Follower(s, free, i)
      <4>1. \A i \in e + 1 .. free : i \in 1 .. free /\ i # m /\ i # e
        BY <1>1, <1>4
      <4> QED
        BY <1>1, <1>4, <4>1 DEF SortLinks
    <3>2. Chain(heap, s[e + 1]) = SubSeq(s, e + 1, free)
      BY <1>1, <2>1, <3>1, ChainOfRest
    <3> QED
      BY <1>2, <1>4, <2>1, <3>2 DEF Follower
  <2>2. CASE ~ (e < free)
    <3>1. sort.q = NULL
      BY <1>2, <1>4, <2>2 DEF Follower
    <3>2. Chain(heap, NULL) = <<>>
      BY <1>1, <1>5, NoChain
    <3>3. free < e + 1 /\ e + 1 \in Int /\ free \in Int
      BY <1>1, <1>4, <2>2
    <3>4. SubSeq(s, e + 1, free) = <<>>
      BY <3>3, SubSeqEmpty
    <3> QED
      BY <3>1, <3>2, <3>4
  <2> QED
    BY <2>1, <2>2
<1>8. SubSeq(s, 1, m) \o SubSeq(s, m + 1, e) = SubSeq(s, 1, e)
  <2>1. 1 \in 1 .. Len(s) + 1 /\ m \in 1 - 1 .. Len(s) /\ e \in m .. Len(s)
    BY <1>1, <1>4, <1>5
  <2> QED
    BY <1>5, <2>1, ConcatAdjacentSubSeq
<1>9. SubSeq(s, 1, e) \o SubSeq(s, e + 1, free) = s
  <2>1. 1 \in 1 .. Len(s) + 1 /\ e \in 1 - 1 .. Len(s) /\ free \in e .. Len(s)
    BY <1>1, <1>4, <1>5
  <2>2. SubSeq(s, 1, e) \o SubSeq(s, e + 1, free) = SubSeq(s, 1, free)
    BY <1>5, <2>1, ConcatAdjacentSubSeq
  <2>3. SubSeq(s, 1, free) = s
    BY <1>5, SubSeqFull
  <2> QED
    BY <2>2, <2>3
<1>10. Merged = SubSeq(s, 1, m)
  BY MergedCells
<1> QED
  BY <1>6, <1>7, <1>8, <1>9, <1>10 DEF Linked

(* No operation on the list loses a cell or links one twice: not the       *)
(* insertion, the reversal, the move to the front, the removal and its     *)
(* undoing, nor any step of a merge (core_list_join.c:376-427, 434-595).   *)
THEOREM CellsAreKept ==
  ASSUME \A c \in Configs : HeadFirst(c)
  PROVE  Spec => []NoCellLost
<1>1. AnyCore => NoCellLost
  <2> SUFFICES ASSUME AnyCore PROVE NoCellLost
    OBVIOUS
  <2>1. PICK s, m : CoreInv(s, m)
    BY DEF AnyCore
  <2>2. Linked = s
    <3>1. CASE pc # "sort"
      BY <2>1, <3>1, LinkedList
    <3>2. CASE pc = "sort"
      BY <2>1, <3>2, LinkedSort DEF CoreInv, Parts
    <3> QED
      BY <3>1, <3>2
  <2>3. Order(s, free) /\ free \in Nat
    BY <2>1 DEF CoreInv, HeapInv, CountInv, Fit
  <2>4. Len(s) = free
    BY <2>3, OrderIsSeq
  <2>5. {s[i] : i \in 1 .. free} = CellsOf(free)
    BY <2>3 DEF Order
  <2> QED
    BY <2>2, <2>4, <2>5 DEF NoCellLost, CellsOf
<1>2. Spec => []AnyCore
  BY CoreAlways
<1> QED
  BY <1>1, <1>2, PTL

-----------------------------------------------------------------------------
(* What the list benchmark leaves alone: the cells that are not in use,    *)
(* what is in the backups, and the numbers.                                *)
Spare == {c \in CellsOf(items) : c >= free}
SpareInv == \A c \in Spare : heap.info[c] = NULL /\ data[c] = Blank
SpareStays ==
  \A c \in Spare : heap'.info[c] = heap.info[c] /\ data'[c] = data[c]

LEMMA SpareFacts ==
  ASSUME CountInv, NEW c \in Spare
  PROVE  c \in CellsOf(items) /\ \A d \in CellsOf(free) : d # c
<1>1. free \in Nat /\ c \in CellsOf(items) /\ c >= free
  BY DEF CountInv, Fit, Spare
<1> QED
  BY <1>1 DEF CellsOf

LEMMA SpareBlank ==
  ASSUME CountInv, SpareInv, SpareStays, items' = items, free' = free
  PROVE  SpareInv'
<1>1. Spare' = Spare
  <2>1. CellsOf(items)' = CellsOf(items)
    BY DEF CellsOf
  <2> HIDE DEF items
  <2> QED
    BY <2>1 DEF Spare
<1> QED
  BY <1>1 DEF SpareInv, SpareStays

(* The data, once they have been numbered.                                  *)
LEMMA SpareData ==
  ASSUME NEW s, NEW m, CoreInv(s, m), items' = items, [Next]_vars, pc # "insert"
  PROVE  Refreshed /\ \A c \in Spare : data'[c] = data[c]
<1>1. \/ UNCHANGED data \/ Calculate \/ StateReturns \/ CompareIdx
  <2>1. ~ InsertNew /\ ~ IndexItems
    BY DEF InsertNew, IndexItems
  <2> QED
    BY <2>1, WhoWrites DEF Writes
<1>2. CountInv /\ DataInv /\ Parts(s, m) /\ WaitInv /\ BlockInv /\ CrcInv
      /\ LocalsInv /\ HeapInv(s) /\ MergeInv(s, m)
  BY DEF CoreInv, Parts
<1>3. ASSUME UNCHANGED data PROVE Refreshed
  BY <1>2, <1>3 DEF Refreshed, DataInv
<1>4. ASSUME NEW d, NEW r, Caches(d, r)
      PROVE  Refreshed /\ \A c \in Spare : data'[c] = data[c]
  <2>1. Refreshed
    BY <1>2, <1>4, CachedData
  <2>2. data' = [data EXCEPT ![d].lo = 128 + (r % 128)] /\ d \in CellsOf(free)
    BY <1>4 DEF Caches, CacheResult
  <2>3. data \in DataTypes(items)
    BY <1>2 DEF DataInv
  <2>4. ASSUME NEW c \in Spare PROVE data'[c] = data[c]
    <3>1. c # d /\ c \in CellsOf(items)
      BY <1>2, <2>2, SpareFacts
    <3> QED
      BY <2>2, <2>3, <3>1 DEF DataTypes
  <2> QED
    BY <2>1, <2>4
<1>5. CASE UNCHANGED data
  BY <1>3, <1>5
<1>6. CASE Calculate
  <2>1. UNCHANGED data \/ \E d, r : Caches(d, r)
    BY <1>2, <1>6, CalculateEffect
  <2> QED
    BY <1>3, <1>4, <2>1
<1>7. CASE StateReturns
  <2>1. Caches(calc, state_result)
    BY <1>2, <1>7, ReturnEffect
  <2> QED
    BY <1>4, <2>1
<1>8. CASE CompareIdx
  <2>1. Refreshed /\ Comparing
    BY <1>2, <1>8, ComparedByIdx
  <2>2. /\ sort.p \in CellsOf(free) /\ sort.q \in CellsOf(free)
        /\ heap.info[sort.p] = sort.p /\ heap.info[sort.q] = sort.q
    BY <1>2, <2>1, ComparedCells
  <2>3. PICK p, q : p = sort.p /\ q = sort.q
    OBVIOUS
  <2>4. data' = [data EXCEPT ![p] = Regenerated(p), ![q] = Regenerated(q)]
    BY <1>8, <2>2, <2>3 DEF CompareIdx
  <2>5. data \in DataTypes(items)
    BY <1>2 DEF DataInv
  <2>6. ASSUME NEW c \in Spare PROVE data'[c] = data[c]
    <3>1. c # p /\ c # q /\ c \in CellsOf(items)
      BY <1>2, <2>2, <2>3, SpareFacts
    <3> QED
      BY <2>4, <2>5, <3>1 DEF DataTypes
  <2> QED
    BY <2>1, <2>6
<1> QED
  BY <1>1, <1>5, <1>6, <1>7, <1>8

(* The infos: only taking an item out of the list and putting it back      *)
(* changes them.                                                            *)
LEMMA SwapSpare ==
  ASSUME CountInv, LinkType(heap.info, items),
         NEW k \in CellsOf(free), NEW l \in CellsOf(free),
         heap'.info = SwapInfo(heap, k, l)
  PROVE  \A c \in Spare : heap'.info[c] = heap.info[c]
<1>1. heap'.info = [heap.info EXCEPT ![k] = heap.info[l], ![l] = heap.info[k]]
  BY DEF SwapInfo
<1>2. ASSUME NEW c \in Spare PROVE heap'.info[c] = heap.info[c]
  <2>1. c # k /\ c # l /\ c \in CellsOf(items)
    BY SpareFacts
  <2> QED
    BY <1>1, <2>1 DEF LinkType
<1> QED
  BY <1>2

LEMMA FindInfo ==
  ASSUME CountInv, LocalsInv, NEW s, HeapInv(s), ListInv(s), FindOne
  PROVE  heap'.info = heap.info
<1>1. PICK found, next, t : FindMoves(found, next, t)
  BY FindEffect
<1>2. heap = [next |-> heap.next, info |-> heap.info]
  BY DEF HeapInv
<1>3. PICK h : h = Relinked(heap, next)
  OBVIOUS
<1>4. h = [next |-> h.next, info |-> heap.info] /\ h.info = heap.info
  BY <1>2, <1>3 DEF Relinked
<1>5. MoveNextToFront(h, t[1], found).info = heap.info
  BY <1>4 DEF MoveNextToFront
<1> QED
  BY <1>1, <1>3, <1>4, <1>5 DEF FindMoves

LEMMA TakeInfo ==
  ASSUME NEW s, HeapInv(s), TakeStep \/ EndPass
  PROVE  heap'.info = heap.info
<1>1. heap = [next |-> heap.next, info |-> heap.info]
  BY DEF HeapInv
<1>2. TakeP \/ TakeQ \/ EndPass
  BY DEF TakeStep, MergeRest, CompareData, CompareIdx
<1>3. \/ heap' = heap
      \/ \E cell, e : heap' = [heap EXCEPT !.next = [@ EXCEPT ![cell] = e]]
  BY <1>2, Zenon DEF TakeP, TakeQ, Take, EndPass
<1> QED
  BY <1>1, <1>3

LEMMA SpareInfo ==
  ASSUME NEW s, NEW m, CoreInv(s, m), items' = items, [Next]_vars, pc # "insert"
  PROVE  \A c \in Spare : heap'.info[c] = heap.info[c]
<1>1. \/ UNCHANGED heap \/ TakeStep \/ EndPass \/ FindOne \/ RemoveOne \/ UndoRemove
  <2>1. ~ InsertNew
    BY DEF InsertNew
  <2> QED
    BY <2>1, WhoWrites DEF Writes
<1>2. CountInv /\ InputsInv /\ LocalsInv /\ HeapInv(s) /\ ListInv(s)
  BY DEF CoreInv
<1>3. CASE UNCHANGED heap
  BY <1>3
<1>4. CASE TakeStep \/ EndPass
  BY <1>2, <1>4, TakeInfo
<1>5. CASE FindOne
  BY <1>2, <1>5, FindInfo
<1>6. CASE RemoveOne
  <2>1. pc = "remove" /\ heap' = core_list_remove(heap, heap.next[list])
    BY <1>6 DEF RemoveOne
  <2>2. /\ free \in Nat /\ LinkType(heap.info, items) /\ list = s[1]
        /\ Listed(heap.next, s, free) /\ Order(s, free) /\ Fit(free, items)
        /\ LinkType(heap.next, items)
        /\ \A i \in 1 .. free : s[i] \in CellsOf(free)
    BY <1>2, <2>1, ListFacts DEF Calm
  <2>3. free >= 3
    BY <1>2, <2>1, InputFacts DEF CountInv
  <2>4. heap.next[s[1]] = s[2] /\ heap.next[s[2]] = s[3]
    <3>1. 1 \in 1 .. free - 1 /\ 2 \in 1 .. free - 1
      BY <2>2, <2>3
    <3> QED
      BY <2>2, <3>1 DEF Listed, Links
  <2>5. PICK k, l : k = s[2] /\ l = s[3]
    OBVIOUS
  <2>6. k \in CellsOf(free) /\ l \in CellsOf(free)
    BY <2>2, <2>3, <2>5
  <2>7. heap'.info = SwapInfo(heap, k, l)
    BY <2>1, <2>2, <2>4, <2>5 DEF core_list_remove
  <2> QED
    BY <1>2, <2>2, <2>6, <2>7, SwapSpare
<1>7. CASE UndoRemove
  <2>1. pc = "undo" /\ heap' = core_list_undo_remove(heap, b.remover, heap.next[list])
    BY <1>7 DEF UndoRemove
  <2>2. /\ free \in Nat /\ free >= 3 /\ LinkType(heap.info, items) /\ list = s[1]
        /\ heap.next[s[1]] = s[2] /\ b.remover = s[free]
        /\ \A i \in 1 .. free : s[i] \in CellsOf(free)
    BY <1>2, <2>1, WindowFacts DEF Window
  <2>3. PICK k, l : k = s[free] /\ l = s[2]
    OBVIOUS
  <2>4. k \in CellsOf(free) /\ l \in CellsOf(free)
    BY <2>2, <2>3
  <2>5. heap'.info = SwapInfo(heap, k, l)
    BY <2>1, <2>2, <2>3 DEF core_list_undo_remove
  <2> QED
    BY <1>2, <2>2, <2>4, <2>5, SwapSpare
<1> QED
  BY <1>1, <1>3, <1>4, <1>5, <1>6, <1>7

LEMMA InitSpare ==
  ASSUME InputsInv, Init
  PROVE  SpareInv
<1>1. heap = EmptyHeap(items) /\ free = 1 /\ items \in Nat
      /\ data = [d \in CellsOf(items) |-> IF d = 0 THEN HeadData ELSE Blank]
  BY InputFacts DEF Init, CellsOf
<1> HIDE DEF items
<1>2. heap.info = [c \in CellsOf(items) |-> IF c = 0 THEN 0 ELSE NULL]
  BY <1>1 DEF EmptyHeap, CellsOf
<1>3. ASSUME NEW c \in Spare PROVE c \in CellsOf(items) /\ c # 0
  BY <1>1 DEF Spare, CellsOf
<1> QED
  BY <1>1, <1>2, <1>3 DEF SpareInv

LEMMA InsertSpare ==
  ASSUME CountInv, LocalsInv, DataInv, NEW s, HeapInv(s), SpareInv,
         items' = items, InsertNew
  PROVE  SpareInv'
<1>1. free \in Nat /\ items \in Nat /\ free >= 1 /\ free <= items
      /\ data \in DataTypes(items) /\ heap \in [next : NextTypes(items), info : NextTypes(items)]
  BY DEF CountInv, Fit, DataInv, HeapInv
<1>2. Spare' = {c \in CellsOf(items) : c >= free'}
  BY DEF Spare, CellsOf
<1> HIDE DEF items
<1>3. CASE free + 1 >= items
  <2>1. UNCHANGED <<heap, data, free>>
    BY <1>3 DEF InsertNew
  <2> QED
    BY <1>2, <2>1 DEF SpareInv, Spare
<1>4. CASE ~ (free + 1 >= items)
  <2>1. /\ heap'.info = [heap.info EXCEPT ![free] = free] /\ free' = free + 1
        /\ \E d : data' = [data EXCEPT ![free] = d]
    <3>1. heap' = core_list_insert_new(heap, list, free, free) /\ free' = free + 1
      BY <1>4 DEF InsertNew
    <3>2. data' = [data EXCEPT ![free] = IF b.i = 0 THEN TailData ELSE ItemData(b.i - 1)]
      BY <1>4 DEF InsertNew
    <3> QED
      BY <3>1, <3>2 DEF core_list_insert_new
  <2>2. PICK d : data' = [data EXCEPT ![free] = d]
    BY <2>1
  <2>3. ASSUME NEW c \in Spare' PROVE heap'.info[c] = NULL /\ data'[c] = Blank
    <3>1. c \in CellsOf(items) /\ c >= free + 1 /\ c \in Nat
      BY <1>2, <2>1 DEF CellsOf
    <3>2. c \in Spare /\ c # free
      BY <1>1, <3>1 DEF Spare
    <3>3. heap.info[c] = NULL /\ data[c] = Blank
      BY <3>2 DEF SpareInv
    <3>4. heap'.info[c] = heap.info[c]
      BY <1>1, <2>1, <3>1, <3>2 DEF NextTypes
    <3>5. data'[c] = data[c]
      BY <1>1, <2>2, <3>1, <3>2 DEF DataTypes
    <3> QED
      BY <3>3, <3>4, <3>5
  <2> QED
    BY <2>3 DEF SpareInv
<1> QED
  BY <1>3, <1>4

LEMMA IndexSpare ==
  ASSUME InputsInv, CountInv, LocalsInv, DataInv, NEW s, HeapInv(s), ListInv(s), SpareInv,
         items' = items, IndexItems
  PROVE  SpareInv'
<1>1. data' = [d \in DOMAIN data |-> Numbered(s, d)] /\ UNCHANGED <<heap, free>>
  BY IndexedData DEF IndexItems
<1>2. ASSUME NEW c \in Spare PROVE heap'.info[c] = heap.info[c] /\ data'[c] = data[c]
  <2>1. c \in CellsOf(items) /\ \A d \in CellsOf(free) : d # c
    BY SpareFacts
  <2>2. c \in DOMAIN data
    BY <2>1 DEF DataInv, DataTypes
  <2>3. \A i \in 1 .. free : s[i] # c
    <3>1. \A i \in 1 .. free : s[i] \in CellsOf(free)
      BY CellsFit DEF CountInv, HeapInv
    <3> QED
      BY <2>1, <3>1
  <2>4. \A i \in 2 .. free - 1 : i \in 1 .. free
    BY DEF CountInv, Fit
  <2>5. Numbered(s, c) = data[c]
    BY <2>3, <2>4 DEF Numbered
  <2> QED
    BY <1>1, <2>2, <2>5
<1>3. SpareStays
  BY <1>2 DEF SpareStays
<1> QED
  BY <1>1, <1>3, SpareBlank

LEMMA SpareKept ==
  ASSUME NEW s, NEW m, CoreInv(s, m), SpareInv, [Next]_vars
  PROVE  SpareInv'
<1>1. items' = items
  BY InputsKept DEF CoreInv
<1>2. CASE InsertNew
  BY <1>1, <1>2, InsertSpare DEF CoreInv
<1>3. CASE IndexItems
  BY <1>1, <1>3, IndexSpare DEF CoreInv
<1>4. CASE pc # "insert"
  <2>1. SpareStays
    BY <1>1, <1>4, SpareData, SpareInfo DEF SpareStays
  <2>2. free' = free
    BY <1>4, WhoWrites DEF Writes, InsertNew
  <2> QED
    BY <1>1, <2>1, <2>2, SpareBlank DEF CoreInv
<1>5. CASE ~ InsertNew /\ ~ IndexItems /\ pc = "insert"
  <2>1. UNCHANGED <<heap, data, free>>
    BY <1>5, WhoWrites DEF Writes, TakeStep, MergeRest, CompareData, CompareIdx, Comparing,
       EndPass, FindOne, RemoveOne, UndoRemove, Calculate, StateReturns
  <2>2. SpareStays
    BY <2>1 DEF SpareStays
  <2> QED
    BY <1>1, <2>1, <2>2, SpareBlank DEF CoreInv
<1> QED
  BY <1>2, <1>3, <1>4, <1>5

-----------------------------------------------------------------------------
(* The numbers: the items have that of the fake tail until all are         *)
(* numbered, and then each has its own.                                     *)
UniqueInv ==
  /\ pc = "insert" => \A d \in 1 .. free - 1 : data[d].idx = 32767
  /\ pc # "insert" =>
       \A c, d \in CellsOf(free) : data[c].idx = data[d].idx => c = d

LEMMA InsertOnce ==
  ASSUME ThenInv, LocalsInv, [Next]_vars, pc # "insert"
  PROVE  pc' # "insert"
<1>1. CASE EndPass
  <2>1. sort.then \in {"start", "remove", "crc"}
    BY DEF LocalsInv, SortLocals
  <2> QED
    BY <1>1, <2>1 DEF EndPass
<1>2. CASE ~ EndPass
  BY <1>2, WhoWrites DEF Writes, IndexItems, EndFind, RemoveOne, CrcFromFound, UndoRemove,
     SortBack, StartSort, CrcOfAll, StartTime, StopTime, Calibrate, Iterate, SecondList,
     BeginList, EndIteration, Report
<1> QED
  BY <1>1, <1>2

LEMMA InsertNumbers ==
  ASSUME InputsInv, CountInv, LocalsInv, DataInv, UniqueInv, items' = items, InsertNew
  PROVE  UniqueInv'
<1>1. free \in Nat /\ items \in Nat /\ free >= 1 /\ free <= items /\ b.i \in Nat
      /\ data \in DataTypes(items) /\ pc = "insert" /\ pc' = pc
  BY DEF CountInv, Fit, LocalsInv, Locals, DataInv, InsertNew
<1> HIDE DEF items
<1>2. CASE free + 1 >= items
  BY <1>1, <1>2 DEF InsertNew, UniqueInv
<1>3. CASE ~ (free + 1 >= items)
  <2> DEFINE new == IF b.i = 0 THEN TailData ELSE ItemData(b.i - 1)
  <2>1. data' = [data EXCEPT ![free] = new] /\ free' = free + 1
    BY <1>3 DEF InsertNew
  <2>2. new.idx = 32767
    <3>1. b.i - 1 \in Int
      BY <1>1
    <3> QED
      BY <3>1, StartData, ItemType
  <2> HIDE DEF new
  <2>3. ASSUME NEW d \in 1 .. free' - 1 PROVE data'[d].idx = 32767
    <3>1. d \in CellsOf(items) /\ d \in 1 .. free
      BY <1>1, <1>3, <2>1 DEF CellsOf
    <3>2. CASE d = free
      BY <1>1, <2>1, <2>2, <3>1, <3>2 DEF DataTypes
    <3>3. CASE d # free
      <4>1. data'[d] = data[d]
        BY <1>1, <2>1, <3>1, <3>3 DEF DataTypes
      <4>2. d \in 1 .. free - 1
        BY <1>1, <3>1, <3>3
      <4> QED
        BY <1>1, <4>1, <4>2 DEF UniqueInv
    <3> QED
      BY <3>2, <3>3
  <2> QED
    BY <1>1, <2>3 DEF UniqueInv
<1> QED
  BY <1>2, <1>3

(* The numbers of items are different, and smaller than the fake tail's.   *)
LEMMA ItemNumbers ==
  ASSUME InputsInv, HeadFirst(config), Distinct(config), NEW k \in 1 .. items - 3
  PROVE  /\ IndexOf(k) \in Nat /\ IndexOf(k) > 0 /\ IndexOf(k) < 32767
         /\ \A l \in 1 .. items - 3 : IndexOf(k) = IndexOf(l) => k = l
<1>1. items \in Nat /\ items < 65536 /\ res.seed1 \in Int
  BY InputFacts
<1>2. items = Items(config.total \div NUM_ALGORITHMS) /\ res.seed1 = Seeds(config)[1]
  BY DEF items, InputsInv
<1> HIDE DEF items
<1>4. 1 .. items - 3 = NumbersOf(config) /\ \A l : NumberOf(config, l) = IndexOf(l)
  BY <1>2 DEF NumbersOf, NumberOf, IndexOf
<1>5. \A l \in 1 .. items - 3 : IndexOf(k) = IndexOf(l) => k = l
  BY <1>4 DEF Distinct
<1>6. IndexOf(k) > 0 /\ IndexOf(k) \in Nat
  BY NumberPositive, IndexIsNat
<1>8. IndexOf(k) < 32767
  <2>1. k \in Nat
    BY <1>1
  <2> QED
    <3>1. PICK n, seed : n = items /\ seed = res.seed1
      OBVIOUS
    <3>2. IndexAt(k, n, seed) \in Indexes /\ IndexAt(k, n, seed) < 32767
      BY <1>1, <2>1, <3>1, IndexType
    <3> QED
      BY <3>1, <3>2 DEF IndexOf
<1> QED
  BY <1>5, <1>6, <1>8

LEMMA IndexNumbers ==
  ASSUME InputsInv, HeadFirst(config), Distinct(config), CountInv, LocalsInv,
         NEW s, HeapInv(s), ListInv(s), HeadInv, DataInv, UniqueInv, IndexItems,
         items' = items
  PROVE  UniqueInv'
<1>1. /\ free = items - 1 /\ free \in Nat /\ free >= 3 /\ items \in Nat /\ s[1] = 0
      /\ Order(s, free) /\ pc = "insert" /\ pc' = "sort" /\ free' = free
  BY IndexedCells, InputFacts DEF HeadInv, HeadPcs, IndexItems, HeapInv, StartSort
<1> HIDE DEF items
<1>2. data' = [d \in DOMAIN data |-> Numbered(s, d)]
  BY IndexedData
<1>3. data \in [CellsOf(items) -> DataType] /\ data[0].idx = 0
      /\ \A d \in 1 .. free - 1 : data[d].idx = 32767
  BY <1>1 DEF DataInv, DataTypes, DataType, UniqueInv
<1> DEFINE Num(i) == data'[s[i]].idx
<1>4. ASSUME NEW i \in 1 .. free
      PROVE  Num(i) = IF i = 1 THEN 0 ELSE IF i = free THEN 32767 ELSE IndexOf(i - 1)
  <2>1. s[i] \in CellsOf(free) /\ s[i] \in CellsOf(items) /\ s[i] \in Nat
    BY <1>1 DEF Order, CellsOf
  <2>2. data'[s[i]] = Numbered(s, s[i])
    BY <1>2, <1>3, <2>1
  <2>3. \A j \in 2 .. free - 1 : s[j] = s[i] => j = i
    BY <1>1 DEF Order
  <2>4. CASE i \in 2 .. free - 1
    <3>1. (CHOOSE j \in 2 .. free - 1 : s[j] = s[i]) = i
      BY <2>3, <2>4
    <3>2. Numbered(s, s[i]) = [data[s[i]] EXCEPT !.idx = IndexOf(i - 1)]
      BY <2>4, <3>1 DEF Numbered
    <3>3. data[s[i]] \in DataType
      BY <1>3, <2>1
    <3>4. Numbered(s, s[i]).idx = IndexOf(i - 1)
      BY <3>2, <3>3 DEF DataType
    <3> QED
      BY <1>1, <2>2, <2>4, <3>4
  <2>5. CASE ~ (i \in 2 .. free - 1)
    <3>1. i = 1 \/ i = free
      BY <1>1, <2>5
    <3>2. Numbered(s, s[i]) = data[s[i]]
      BY <2>3, <2>5 DEF Numbered
    <3>3. i = free => s[i] \in 1 .. free - 1
      <4>1. i = free => s[i] # s[1]
        BY <1>1 DEF Order
      <4> QED
        BY <1>1, <2>1, <4>1 DEF CellsOf
    <3> QED
      BY <1>1, <1>3, <2>2, <3>1, <3>2, <3>3
  <2> QED
    BY <2>4, <2>5
<1> HIDE DEF Num
<1>5. ASSUME NEW i \in 1 .. free, NEW j \in 1 .. free, Num(i) = Num(j) PROVE i = j
  <2>1. \A k \in 2 .. free - 1 :
          /\ k - 1 \in 1 .. items - 3 /\ IndexOf(k - 1) \in Nat
          /\ IndexOf(k - 1) > 0 /\ IndexOf(k - 1) < 32767
    <3> SUFFICES ASSUME NEW k \in 2 .. free - 1
                 PROVE  /\ k - 1 \in 1 .. items - 3 /\ IndexOf(k - 1) \in Nat
                        /\ IndexOf(k - 1) > 0 /\ IndexOf(k - 1) < 32767
      OBVIOUS
    <3>1. k - 1 \in 1 .. items - 3
      BY <1>1
    <3> QED
      BY <3>1, ItemNumbers
  <2>2. CASE i \in 2 .. free - 1 /\ j \in 2 .. free - 1
    <3>1. IndexOf(i - 1) = IndexOf(j - 1)
      BY <1>1, <1>4, <1>5, <2>2
    <3>2. i - 1 = j - 1
      BY <2>1, <2>2, <3>1, ItemNumbers
    <3> QED
      BY <1>1, <2>2, <3>2
  <2>3. CASE ~ (i \in 2 .. free - 1) /\ j \in 2 .. free - 1
    BY <1>1, <1>4, <1>5, <2>1, <2>3
  <2>4. CASE i \in 2 .. free - 1 /\ ~ (j \in 2 .. free - 1)
    BY <1>1, <1>4, <1>5, <2>1, <2>4
  <2>5. CASE ~ (i \in 2 .. free - 1) /\ ~ (j \in 2 .. free - 1)
    BY <1>1, <1>4, <1>5, <2>5
  <2> QED
    BY <2>2, <2>3, <2>4, <2>5
<1>6. ASSUME NEW c \in CellsOf(free), NEW d \in CellsOf(free), data'[c].idx = data'[d].idx
      PROVE  c = d
  <2>1. PICK i, j \in 1 .. free : s[i] = c /\ s[j] = d
    BY <1>1 DEF Order
  <2>2. Num(i) = Num(j)
    BY <1>6, <2>1 DEF Num
  <2> QED
    BY <1>5, <2>1, <2>2
<1> QED
  BY <1>1, <1>6 DEF UniqueInv, CellsOf

LEMMA UniqueKept ==
  ASSUME NEW s, NEW m, CoreInv(s, m), HeadFirst(config), Distinct(config), UniqueInv,
         [Next]_vars
  PROVE  UniqueInv'
<1>1. items' = items
  BY InputsKept DEF CoreInv
<1>2. CASE InsertNew
  BY <1>1, <1>2, InsertNumbers DEF CoreInv
<1>3. CASE IndexItems
  BY <1>1, <1>3, IndexNumbers DEF CoreInv
<1>4. CASE pc # "insert"
  <2>1. Refreshed /\ pc' # "insert"
    BY <1>1, <1>4, SpareData, InsertOnce DEF CoreInv
  <2>2. free' = free
    BY <1>4, WhoWrites DEF Writes, InsertNew
  <2>3. \A c \in CellsOf(free) : c \in CellsOf(items)
    BY DEF CoreInv, CountInv, Fit, CellsOf
  <2>4. \A c \in CellsOf(free) : data'[c].idx = data[c].idx
    BY <2>1, <2>3 DEF Refreshed
  <2> QED
    BY <1>4, <2>1, <2>2, <2>4 DEF UniqueInv, CellsOf
<1>5. CASE ~ InsertNew /\ ~ IndexItems /\ pc = "insert"
  <2>1. UNCHANGED <<pc, data, free>>
    BY <1>5 DEF Next, vars, listVars, mainVars, MergeSort, NextRun, MergeRest, Calculate,
       StateReturns, CompareData, CompareIdx, Comparing, EndPass, ListBenchmark, FindOne,
       EndFind, RemoveOne, CrcFromFound, UndoRemove, SortBack, CrcOfAll, StateBenchmark,
       StartTime, StopTime, Calibrate, Iterate, SecondList, EndIteration, Report
  <2> QED
    BY <2>1 DEF UniqueInv
<1> QED
  BY <1>2, <1>3, <1>4, <1>5

-----------------------------------------------------------------------------
(* A list sorted by number: whenever the benchmark is outside of its       *)
(* loops, with the values that are in the backups.                         *)
Ascending(t) ==
  \A i, j \in 1 .. free : i < j => data[t[i]].idx <= data[t[j]].idx
SortedPcs == HeadPcs \ {"insert"}
TidyInv ==
  pc \in SortedPcs =>
    /\ Ascending(Chain(heap, list))
    /\ \A d \in CellsOf(free) : data[d].lo = data[d].hi

LEMMA CalmChain ==
  ASSUME NEW s, NEW m, CoreInv(s, m), Calm
  PROVE  Chain(heap, list) = s /\ Order(s, free)
<1>1. Fit(free, items) /\ Order(s, free) /\ LinkType(heap.next, items) /\ list = s[1]
      /\ Listed(heap.next, s, free)
  BY ListFacts DEF CoreInv
<1> QED
  BY <1>1, ListChain

(* How the program gets to such a place: from another one, or from a sort. *)
LEMMA SortedSteps ==
  ASSUME NEW s, NEW m, CoreInv(s, m), [Next]_vars, pc' \in SortedPcs
  PROVE  \/ pc \in SortedPcs /\ UNCHANGED <<heap, data, list, free>>
         \/ EndPass /\ pc' = sort.then /\ UNCHANGED <<sort, data, free>>
<1> USE DEF SortedPcs, HeadPcs, AfterPcs
<1>1. CASE MainStep
  <2>1. UNCHANGED <<heap, data, list, free, sort>> /\ pc \in HeadPcs /\ pc # "insert"
    BY <1>1, MainEffect DEF CoreInv
  <2> QED
    BY <2>1
<1>2. CASE EndPass
  <2>1. CASE sort.nmerges <= 1
    BY <1>2, <2>1 DEF EndPass
  <2>2. CASE ~ (sort.nmerges <= 1)
    BY <1>2, <2>2 DEF EndPass
  <2> QED
    BY <2>1, <2>2
<1>3. CASE ~ MainStep /\ ~ EndPass /\ UNCHANGED pc
  <2>1. Writes
    BY WhoWrites
  <2>2. ~ InsertNew /\ ~ IndexItems /\ ~ Calculate /\ ~ StateReturns /\ ~ TakeStep
        /\ ~ FindOne /\ ~ RemoveOne /\ ~ UndoRemove
    BY <1>3 DEF InsertNew, IndexItems, Calculate, StateReturns, TakeStep, MergeRest,
       CompareData, CompareIdx, Comparing, FindOne, RemoveOne, UndoRemove
  <2>3. UNCHANGED <<heap, data, list, free>>
    BY <1>3, <2>1, <2>2 DEF Writes, MainStep, TakeStep
  <2> QED
    BY <1>3, <2>3
<1>4. CASE ~ MainStep /\ ~ EndPass /\ ~ UNCHANGED pc
  <2>1. \/ IndexItems \/ EndFind \/ RemoveOne \/ CrcFromFound \/ UndoRemove \/ SortBack
        \/ CrcOfAll
    BY <1>4, WhoWrites DEF Writes, MainStep
  <2>2. CrcOfAll
    BY <2>1 DEF IndexItems, EndFind, RemoveOne, CrcFromFound, UndoRemove, SortBack, StartSort
  <2> QED
    BY <2>2 DEF CrcOfAll
<1> QED
  BY <1>1, <1>2, <1>3, <1>4

LEMMA TidyKept ==
  ASSUME NEW s, NEW m, CoreInv(s, m), NEW t, NEW k, CoreInv(t, k)', items' = items,
         TidyInv, [Next]_vars
  PROVE  TidyInv'
<1> SUFFICES ASSUME pc' \in SortedPcs
             PROVE  /\ Ascending(Chain(heap, list))'
                    /\ \A d \in CellsOf(free)' : data'[d].lo = data'[d].hi
  BY DEF TidyInv, CellsOf
<1>1. CASE pc \in SortedPcs /\ UNCHANGED <<heap, data, list, free>>
  <2>1. Ascending(Chain(heap, list)) /\ \A d \in CellsOf(free) : data[d].lo = data[d].hi
    BY <1>1 DEF TidyInv
  <2> QED
    BY <1>1, <2>1 DEF Ascending, CellsOf
<1>2. CASE EndPass /\ pc' = sort.then /\ UNCHANGED <<sort, data, free>>
  <2>1. sort.by = "idx"
    BY <1>2 DEF CoreInv, ThenInv, SortedPcs, HeadPcs, AfterPcs, EndPass
  <2>2. /\ Fit(free', items') /\ Order(t, free') /\ LinkType(heap'.next, items')
        /\ list' = t[1] /\ Listed(heap'.next, t, free')
        /\ \A i, j \in 1 .. free' : i < j => Related(Le', t[i], t[j])
    <3>1. CountInv' /\ HeapInv(t)' /\ ListInv(t)' /\ SortedInv(t)'
      BY DEF CoreInv
    <3>2. pc' # "sort" /\ ~ Window'
      BY DEF SortedPcs, HeadPcs, AfterPcs, Window
    <3>3. list' = t[1] /\ Listed(heap'.next, t, free')
      BY <3>1, <3>2 DEF ListInv
    <3>4. \A i, j \in 1 .. free' : i < j => Related(Le', t[i], t[j])
      BY <1>2, <3>1 DEF SortedInv
    <3> QED
      BY <3>1, <3>3, <3>4 DEF CountInv, HeapInv, LinkType, NextTypes
  <2>3. Chain(heap', list') = t
    BY <2>2, ListChain
  <2>4. ASSUME NEW i \in 1 .. free, NEW j \in 1 .. free, i < j
        PROVE  /\ data[t[i]].idx <= data[t[j]].idx
               /\ data[t[i]].lo = data[t[i]].hi /\ data[t[j]].lo = data[t[j]].hi
    <3>1. Related(Le', t[i], t[j])
      BY <1>2, <2>2, <2>4
    <3>2. <<t[i], t[j]>> \in Le'
      BY <3>1 DEF Related
    <3> QED
      BY <1>2, <2>1, <3>2 DEF Le, BothSettled, Settled, KeyOf
  <2>5. free \in Nat /\ free >= 3
    BY <1>2, InputFacts DEF CoreInv, CountInv, EndPass
  <2>6. ASSUME NEW d \in CellsOf(free) PROVE data[d].lo = data[d].hi
    <3>1. PICK i \in 1 .. free : t[i] = d
      BY <1>2, <2>2 DEF Order
    <3>2. i < free \/ 1 < i
      BY <2>5
    <3> QED
      BY <2>4, <2>5, <3>1, <3>2
  <2> QED
    BY <1>2, <2>3, <2>4, <2>6 DEF Ascending, CellsOf
<1> QED
  BY <1>1, <1>2, SortedSteps

(* Only one order of cells with different numbers is ascending.            *)
LEMMA OneAscending ==
  ASSUME CountInv, DataInv, UniqueInv, pc # "insert",
         NEW s, Order(s, free), Ascending(s), NEW t, Order(t, free), Ascending(t)
  PROVE  s = t
<1> DEFINE num(c) == data[c].idx
           Agree(i) == i \in 1 .. free => s[i] = t[i]
           Good == {n \in Nat : \A i \in Nat : i <= n => Agree(i)}
<1>1. free \in Nat
  BY DEF CountInv, Fit
<1>2. /\ \A i \in 1 .. free : s[i] \in CellsOf(free) /\ t[i] \in CellsOf(free)
      /\ \A i, j \in 1 .. free : (s[i] = s[j] => i = j) /\ (t[i] = t[j] => i = j)
      /\ \A c \in CellsOf(free) : (\E i \in 1 .. free : s[i] = c)
                               /\ (\E i \in 1 .. free : t[i] = c)
      /\ s \in [1 .. free -> CellsOf(free)] /\ t \in [1 .. free -> CellsOf(free)]
  BY DEF Order
<1>3. /\ \A c \in CellsOf(free) : num(c) \in Nat
      /\ \A c, d \in CellsOf(free) : num(c) = num(d) => c = d
  BY DataFacts DEF UniqueInv
<1>4. \A i, j \in 1 .. free : i < j => num(s[i]) <= num(s[j]) /\ num(t[i]) <= num(t[j])
  BY DEF Ascending
<1> HIDE DEF num
<1>5. ASSUME NEW i \in 1 .. free, \A j \in 1 .. free : j < i => s[j] = t[j]
      PROVE  s[i] = t[i]
  <2>1. PICK k \in 1 .. free : t[k] = s[i]
    BY <1>2
  <2>2. PICK l \in 1 .. free : s[l] = t[i]
    BY <1>2
  <2>3. k >= i
    <3> SUFFICES ASSUME k < i PROVE FALSE
      BY <1>1
    <3>1. s[k] = s[i]
      BY <1>5, <2>1
    <3> QED
      BY <1>1, <1>2, <3>1
  <2>4. l >= i
    <3> SUFFICES ASSUME l < i PROVE FALSE
      BY <1>1
    <3>1. t[l] = t[i]
      BY <1>5, <2>2
    <3> QED
      BY <1>1, <1>2, <3>1
  <2>5. CASE k = i \/ l = i
    BY <2>1, <2>2, <2>5
  <2>6. CASE k > i /\ l > i
    <3>1. num(t[i]) <= num(s[i]) /\ num(s[i]) <= num(t[i])
      BY <1>4, <2>1, <2>2, <2>6
    <3>2. s[i] \in CellsOf(free) /\ t[i] \in CellsOf(free)
      BY <1>2
    <3>3. num(s[i]) \in Nat /\ num(t[i]) \in Nat
      BY <1>3, <3>2
    <3>4. num(s[i]) = num(t[i])
      BY <3>1, <3>3
    <3> QED
      BY <1>3, <3>2, <3>4
  <2> QED
    BY <1>1, <2>3, <2>4, <2>5, <2>6
<1>6. 0 \in Good
  BY <1>1
<1>7. ASSUME NEW n \in Good PROVE n + 1 \in Good
  <2>1. n \in Nat /\ \A j \in 1 .. free : j < n + 1 => s[j] = t[j]
    BY <1>1, <1>7
  <2>2. ASSUME NEW i \in Nat, i <= n + 1 PROVE Agree(i)
    <3>1. CASE i <= n
      BY <1>7, <2>2, <3>1
    <3>2. CASE i = n + 1
      BY <1>5, <2>1, <3>2
    <3> QED
      BY <2>1, <2>2, <3>1, <3>2
  <2> QED
    BY <2>1, <2>2
<1>8. Good = Nat
  <2> HIDE DEF Good
  <2>1. Good \subseteq Nat
    BY DEF Good
  <2> QED
    BY <1>6, <1>7, <2>1, AllNumbers
<1>9. \A i \in 1 .. free : s[i] = t[i]
  <2>1. free \in Good
    BY <1>1, <1>8
  <2> QED
    BY <1>1, <2>1
<1>10. s = [i \in 1 .. free |-> s[i]] /\ t = [i \in 1 .. free |-> t[i]]
  BY <1>2
<1> HIDE DEF Good
<1> QED
  BY <1>9, <1>10

-----------------------------------------------------------------------------
(* What main saves of the list before the first iteration.                 *)
OwnInfo == [c \in CellsOf(items) |-> IF c < free THEN c ELSE NULL]
Backup == [d \in CellsOf(items) |-> [data[d] EXCEPT !.lo = data[d].hi]]
Saved ==
  /\ pc # "insert"
  /\ \E t : initial.list = <<t, OwnInfo, Backup>> /\ Order(t, free) /\ Ascending(t)
SavedInv ==
  /\ initial = <<>> \/ Saved
  /\ Iterating /\ pc # "bench" => Saved

LEMMA TidyMemory ==
  ASSUME NEW s, NEW m, CoreInv(s, m), SpareInv, TidyInv, pc \in SortedPcs
  PROVE  /\ Memory.list = <<Chain(heap, list), OwnInfo, Backup>>
         /\ Order(Chain(heap, list), free) /\ Ascending(Chain(heap, list))
<1>1. Calm
  BY DEF SortedPcs, HeadPcs, AfterPcs, Calm
<1>2. Order(Chain(heap, list), free) /\ Ascending(Chain(heap, list))
      /\ \A d \in CellsOf(free) : data[d].lo = data[d].hi
  BY <1>1, CalmChain DEF TidyInv
<1>3. LinkType(heap.info, items) /\ \A c \in CellsOf(free) : heap.info[c] = c
  BY <1>1, ListFacts DEF CoreInv
<1>4. /\ free \in Nat /\ items \in Nat /\ data \in [CellsOf(items) -> DataType]
  BY DEF CoreInv, CountInv, Fit, DataInv, DataTypes, DataType
<1> HIDE DEF items
<1>5. ASSUME NEW c \in CellsOf(items)
      PROVE  IF c < free THEN c \in CellsOf(free) ELSE c \in Spare
  BY <1>4 DEF CellsOf, Spare
<1>6. heap.info = OwnInfo
  <2>1. \A c \in CellsOf(items) : heap.info[c] = OwnInfo[c]
    BY <1>3, <1>5 DEF OwnInfo, SpareInv
  <2> QED
    BY <1>3, <2>1 DEF LinkType, OwnInfo
<1>7. data = Backup
  <2>1. ASSUME NEW d \in CellsOf(items) PROVE data[d] = [data[d] EXCEPT !.lo = data[d].hi]
    <3>1. data[d].lo = data[d].hi
      <4>1. CASE d < free
        BY <1>2, <1>5, <4>1
      <4>2. CASE ~ (d < free)
        BY <1>5, <4>2 DEF SpareInv, Blank
      <4> QED
        BY <4>1, <4>2
    <3>2. data[d] \in DataType
      BY <1>4
    <3> QED
      BY <3>1, <3>2 DEF DataType
  <2> QED
    BY <1>4, <2>1 DEF Backup
<1> QED
  BY <1>2, <1>6, <1>7 DEF Memory

LEMMA SavedStays ==
  ASSUME NEW s, NEW m, CoreInv(s, m), items' = items, [Next]_vars, UNCHANGED initial, Saved
  PROVE  Saved'
<1>1. pc # "insert" /\ pc' # "insert" /\ Refreshed
  BY InsertOnce, SpareData DEF Saved, CoreInv
<1>2. free' = free
  BY <1>1, WhoWrites DEF Writes, InsertNew
<1>3. PICK t : initial.list = <<t, OwnInfo, Backup>> /\ Order(t, free) /\ Ascending(t)
  BY DEF Saved
<1>4. data \in [CellsOf(items) -> DataType] /\ data' \in [CellsOf(items) -> DataType]
  BY <1>1 DEF CoreInv, DataInv, Refreshed, DataTypes, DataType
<1>5. CellsOf(items)' = CellsOf(items)
  BY DEF CellsOf
<1>6. \A i \in 1 .. free : t[i] \in CellsOf(items)
  BY <1>3, CellsFit DEF CoreInv, CountInv
<1> HIDE DEF items
<1>7. OwnInfo' = OwnInfo
  BY <1>2, <1>5 DEF OwnInfo
<1>8. Backup' = Backup
  <2>1. ASSUME NEW d \in CellsOf(items)
        PROVE  [data'[d] EXCEPT !.lo = data'[d].hi] = [data[d] EXCEPT !.lo = data[d].hi]
    <3>1. /\ data[d] \in DataType /\ data'[d] \in DataType
          /\ data'[d].hi = data[d].hi /\ data'[d].idx = data[d].idx
      BY <1>1, <1>4 DEF Refreshed
    <3> QED
      BY <3>1 DEF DataType
  <2> QED
    BY <1>5, <2>1 DEF Backup
<1>9. Ascending(t)'
  BY <1>1, <1>2, <1>3, <1>6 DEF Ascending, Refreshed
<1>10. initial'.list = <<t, OwnInfo', Backup'>> /\ Order(t, free')
  BY <1>2, <1>3, <1>7, <1>8
<1> QED
  BY <1>1, <1>9, <1>10 DEF Saved

LEMMA SavedKept ==
  ASSUME NEW s, NEW m, CoreInv(s, m), PcInv, SpareInv, TidyInv, SavedInv,
         items' = items, [Next]_vars
  PROVE  SavedInv' /\ PcInv'
<1>1. ASSUME UNCHANGED initial, Saved PROVE Saved'
  BY <1>1, SavedStays
<1>2. CASE UNCHANGED vars
  <2>1. UNCHANGED <<pc, sort, initial>>
    BY <1>2 DEF vars, listVars, mainVars
  <2> QED
    BY <1>1, <2>1 DEF SavedInv, PcInv, Iterating
<1>3. CASE BenchmarkStep /\ UNCHANGED mainVars
  <2>1. /\ PcInv' /\ (Iterating' <=> Iterating) /\ (pc = "bench" => pc' = pc)
        /\ UNCHANGED initial
    BY <1>3, BenchmarkPc DEF mainVars
  <2> QED
    BY <1>1, <2>1 DEF SavedInv
<1>4. CASE MainStep
  <2>1. /\ UNCHANGED sort /\ pc # "sort" /\ pc' # "sort"
        /\ pc' \in SetupPcs \cup BenchPcs \cup {"stop"}
    BY <1>4 DEF MainStep, StartTime, StopTime, Calibrate, Iterate, SecondList, EndIteration,
       Report, BeginList, mainVars, listVars, SetupPcs, BenchPcs
  <2>2. PcInv'
    BY <2>1 DEF PcInv
  <2>3. CASE Iterate
    <3>1. initial' = (IF initial = <<>> THEN Memory ELSE initial) /\ pc = "bench"
          /\ UNCHANGED <<heap, data, free>>
      BY <2>3 DEF Iterate
    <3>2. CASE initial # <<>>
      BY <1>1, <2>2, <3>1, <3>2 DEF SavedInv
    <3>3. CASE initial = <<>>
      <4>1. pc \in SortedPcs
        BY <3>1 DEF SortedPcs, HeadPcs
      <4>2. PICK t : /\ Memory.list = <<t, OwnInfo, Backup>>
                     /\ Order(t, free) /\ Ascending(t)
        BY <4>1, TidyMemory
      <4>3. OwnInfo' = OwnInfo /\ Backup' = Backup /\ Ascending(t)'
        BY <3>1, <4>2 DEF OwnInfo, Backup, Ascending, CellsOf
      <4>4. pc' # "insert"
        BY <3>1, InsertOnce DEF CoreInv
      <4>5. initial'.list = <<t, OwnInfo', Backup'>> /\ Order(t, free') /\ Ascending(t)'
        BY <3>1, <3>3, <4>2, <4>3
      <4>6. Saved'
        BY <4>4, <4>5 DEF Saved
      <4> QED
        BY <2>2, <4>6 DEF SavedInv
    <3> QED
      BY <2>2, <3>2, <3>3
  <2>4. CASE SecondList
    BY <1>1, <2>2, <2>4 DEF SecondList, SavedInv, mainVars, Iterating, BenchPcs
  <2>5. CASE StartTime \/ StopTime \/ Calibrate \/ EndIteration \/ Report
    <3>1. UNCHANGED initial /\ pc' \in {"bench", "start", "stop", "timed", "done"}
      BY <2>5 DEF StartTime, StopTime, Calibrate, EndIteration, Report
    <3> QED
      BY <1>1, <2>2, <3>1 DEF SavedInv, Iterating, BenchPcs
  <2> QED
    BY <1>4, <2>3, <2>4, <2>5 DEF MainStep
<1> QED
  BY <1>2, <1>3, <1>4 DEF Next, BenchmarkStep, MainStep

RestoredInv ==
  /\ AnyCore /\ PcInv /\ SpareInv /\ UniqueInv /\ TidyInv /\ SavedInv

LEMMA InitSaved ==
  ASSUME Init
  PROVE  RestoredInv
<1>1. CoreInv(OneCell, 0) /\ pc = "insert" /\ initial = <<>> /\ free = 1
  BY InitCore DEF Init
<1>2. AnyCore
  BY <1>1 DEF AnyCore
<1>3. PcInv
  BY InitPc
<1>4. SpareInv
  BY <1>1, InitSpare DEF CoreInv
<1>5. UniqueInv /\ TidyInv
  BY <1>1 DEF UniqueInv, TidyInv, SortedPcs, HeadPcs
<1>6. SavedInv
  BY <1>1 DEF SavedInv, Iterating, BenchPcs
<1> QED
  BY <1>2, <1>3, <1>4, <1>5, <1>6 DEF RestoredInv

LEMMA StepSaved ==
  ASSUME \A c \in Configs : HeadFirst(c) /\ Distinct(c), RestoredInv, [Next]_vars
  PROVE  RestoredInv'
<1>1. PICK s, m : CoreInv(s, m)
  BY DEF RestoredInv, AnyCore
<1>2. HeadFirst(config) /\ Distinct(config) /\ items' = items
  BY <1>1, InputsKept DEF CoreInv, InputsInv
<1>3. PICK t, k : CoreInv(t, k)'
  BY <1>1, <1>2, CoreKept
<1>4. AnyCore'
  BY <1>3 DEF AnyCore
<1>5. SpareInv' /\ UniqueInv'
  BY <1>1, <1>2, SpareKept, UniqueKept DEF RestoredInv
<1>6. TidyInv'
  BY <1>1, <1>2, <1>3, TidyKept DEF RestoredInv
<1>7. SavedInv' /\ PcInv'
  BY <1>1, <1>2, SavedKept DEF RestoredInv
<1> QED
  BY <1>4, <1>5, <1>6, <1>7 DEF RestoredInv

(* After each benchmark the list is what it was before the first one       *)
(* (core_list_join.c:156): its order, the infos of its cells, and the      *)
(* values, for which the backups are taken (core_list_join.c:138), however *)
(* often it was searched and turned round, and whatever was calculated.    *)
THEOREM ListIsRestored ==
  ASSUME \A c \in Configs : HeadFirst(c) /\ Distinct(c)
  PROVE  Spec => []ListRestored
<1>1. RestoredInv => ListRestored
  <2> SUFFICES ASSUME RestoredInv, pc = "return" PROVE Memory.list = initial.list
    BY DEF ListRestored
  <2>1. PICK s, m : CoreInv(s, m)
    BY DEF RestoredInv, AnyCore
  <2>2. pc \in SortedPcs
    BY DEF SortedPcs, HeadPcs, AfterPcs
  <2>3. PICK u : u = Chain(heap, list)
    OBVIOUS
  <2>4. Memory.list = <<u, OwnInfo, Backup>> /\ Order(u, free) /\ Ascending(u)
    BY <2>1, <2>2, <2>3, TidyMemory DEF RestoredInv
  <2>5. Saved
    BY DEF RestoredInv, SavedInv, Iterating, BenchPcs
  <2>6. PICK t : initial.list = <<t, OwnInfo, Backup>> /\ Order(t, free) /\ Ascending(t)
    BY <2>5 DEF Saved
  <2>7. u = t
    BY <2>1, <2>4, <2>6, OneAscending DEF RestoredInv, CoreInv
  <2> QED
    BY <2>4, <2>6, <2>7
<1> QED
  BY <1>1, InitSaved, StepSaved, PTL DEF Spec

-----------------------------------------------------------------------------
(* How the string machine moves on.                                        *)
ScanTypes ==
  /\ DOMAIN scan = ScanFields
  /\ scan.p \in Nat /\ scan.track \in CountType
  /\ IsFiniteSet(DOMAIN state_mem)
Rewinds ==
  /\ DOMAIN scan' = ScanFields /\ scan'.p = 0
  /\ scan'.track \in {scan.track, NoCounts}
  /\ DOMAIN state_mem' = DOMAIN state_mem

LEMMA ScanMoves ==
  ASSUME DOMAIN scan = ScanFields, [Next]_vars
  PROVE  ScanToken \/ Rewinds \/ UNCHANGED <<scan, state_mem>>
<1>1. Writes
  BY WhoWrites
<1>2. CASE Calculate
  <2>1. state_mem' = state_mem
    BY <1>1, <1>2 DEF Writes, Calculate, CallState, CallMatrix, KeepValue, StartScan
  <2>2. CASE UNCHANGED scan
    BY <2>1, <2>2
  <2>3. CASE \E step, crc : StartScan(step, crc)
    <3>1. PICK step, crc :
            scan' = [NoScan EXCEPT !.phase = "first", !.step = step, !.crc = crc]
      BY <2>3 DEF StartScan
    <3>2. DOMAIN scan' = ScanFields /\ scan'.p = 0 /\ scan'.track = NoCounts
      BY <3>1 DEF NoScan, ScanFields
    <3> QED
      BY <2>1, <3>2 DEF Rewinds
  <2> QED
    BY <1>2, <2>2, <2>3 DEF Calculate, CallState, CallMatrix, KeepValue
<1>3. CASE StateReturns
  <2>1. scan' = NoScan /\ state_mem' = state_mem
    BY <1>3 DEF StateReturns
  <2> QED
    BY <2>1 DEF Rewinds, NoScan, ScanFields
<1>4. CASE StateBenchmark
  <2>1. ASSUME NEW phase, NEW next, NEW seed, EndOfString(phase, next, seed)
        PROVE  Rewinds
    <3>1. scan' = [scan EXCEPT !.phase = next, !.p = 0] /\ state_mem' = Corrupted(seed)
      BY <2>1 DEF EndOfString
    <3>2. DOMAIN scan' = ScanFields /\ scan'.p = 0 /\ scan'.track = scan.track
      BY <3>1 DEF ScanFields
    <3>3. DOMAIN state_mem' = DOMAIN state_mem
      BY <3>1 DEF Corrupted
    <3> QED
      BY <3>2, <3>3 DEF Rewinds
  <2> QED
    BY <1>4, <2>1 DEF StateBenchmark, Corrupt, UndoCorruption
<1>5. CASE UNCHANGED <<scan, state_mem, mat>>
  BY <1>5
<1> QED
  BY <1>1, <1>2, <1>3, <1>4, <1>5 DEF Writes

(* One token.                                                              *)
LEMMA TokenMoves ==
  ASSUME ScanTypes, ScanToken, NEW t, t = core_state_transition(scan.p, scan.track)
  PROVE  /\ DOMAIN scan' = ScanFields /\ UNCHANGED state_mem
         /\ scan'.p = t.next /\ scan'.track = t.counts
         /\ scan'.token = [first |-> scan.p, end |-> t.end, state |-> t.state]
         /\ TokenOK(t, scan.p)
<1>1. /\ scan' = [scan EXCEPT !.p = t.next, !.track = t.counts,
              !.final[t.state] = @ + 1,
              !.token = [first |-> scan.p, end |-> t.end, state |-> t.state]]
      /\ state_mem' = state_mem
  BY DEF ScanToken
<1>2. TokenOK(t, scan.p)
  BY TokenType DEF ScanTypes
<1> QED
  BY <1>1, <1>2 DEF ScanTypes, ScanFields

LEMMA InitScan ==
  ASSUME Init
  PROVE  ScanTypes
<1>1. scan = NoScan /\ config \in Configs
  BY DEF Init
<1>2. DOMAIN scan = ScanFields /\ scan.p \in Nat /\ scan.track \in CountType
  BY <1>1 DEF NoScan, NoCounts, ScanFields, CountType
<1>3. IsFiniteSet(DOMAIN state_mem)
  <2>1. PICK n \in Nat : n = config.total \div NUM_ALGORITHMS
    BY <1>1, SeedType
  <2>2. state_mem = core_init_state(n, res.seed1)
    BY <2>1 DEF Init
  <2>3. DOMAIN state_mem = 0 .. n - 1
    BY <2>2 DEF core_init_state
  <2> QED
    BY <2>1, <2>3, FS_Interval
<1> QED
  BY <1>2, <1>3 DEF ScanTypes

LEMMA ScanTyped ==
  ASSUME ScanTypes, [Next]_vars
  PROVE  ScanTypes'
<1>1. CASE ScanToken
  <2>1. PICK t : t = core_state_transition(scan.p, scan.track)
    OBVIOUS
  <2> QED
    BY <1>1, <2>1, TokenMoves DEF ScanTypes, TokenOK
<1>2. CASE Rewinds
  BY <1>2 DEF Rewinds, ScanTypes, CountType, NoCounts
<1>3. CASE UNCHANGED <<scan, state_mem>>
  BY <1>3 DEF ScanTypes
<1> QED
  BY <1>1, <1>2, <1>3, ScanMoves DEF ScanTypes

-----------------------------------------------------------------------------
(* The blocks have room for what they hold.                                *)

(* Where they are, and that the cells in use are not more than there are.  *)
SizeInv ==
  /\ config \in Configs
  /\ "size" \in DOMAIN res /\ res.size = config.total \div NUM_ALGORITHMS
  /\ free \in Nat /\ free <= items

(* One of the last two bytes of the string is a zero, also when the other  *)
(* one is corrupted, and the string machine is not behind it.              *)
LastTwo == {res.size - 2, res.size - 1}
EndsHere == \E z \in LastTwo : Zero(z)
StopsInTime == \E z \in LastTwo : Zero(z) /\ scan.p <= z

LEMMA SizeFacts ==
  ASSUME SizeInv
  PROVE  res.size \in Nat /\ res.size >= 120 /\ items \in Nat /\ items >= 4
<1>1. config.total \in Nat /\ config.total >= 3 * 120
  BY ConfigsAssumption DEF SizeInv
<1>2. res.size \in Nat /\ res.size >= 120
  BY <1>1 DEF SizeInv, NUM_ALGORITHMS
<1> QED
  BY <1>2 DEF items, Items

LEMMA InitSize ==
  ASSUME Init
  PROVE  SizeInv
<1>1. /\ config \in Configs /\ free = 1
      /\ "size" \in DOMAIN res /\ res.size = config.total \div NUM_ALGORITHMS
  BY DEF Init
<1>2. config.total \in Nat /\ config.total >= 3 * 120
  BY <1>1, ConfigsAssumption
<1>3. free <= items
  BY <1>1, <1>2 DEF NUM_ALGORITHMS, items, Items
<1> QED
  BY <1>1, <1>3 DEF SizeInv

LEMMA SizeKept ==
  ASSUME SizeInv, [Next]_vars
  PROVE  SizeInv' /\ res'.size = res.size
<1>1. Writes
  BY WhoWrites
<1>2. "size" \in DOMAIN res' /\ res'.size = res.size
  BY <1>1 DEF Writes, StartTime, SizeInv
<1>3. items' = items /\ items \in Nat
  BY <1>2, SizeFacts DEF items
<1> HIDE DEF items
<1>4. free' \in Nat /\ free' <= items
  BY <1>1, <1>3 DEF Writes, InsertNew, SizeInv
<1> QED
  BY <1>1, <1>2, <1>3, <1>4 DEF Writes, SizeInv

LEMMA OneIsKept ==
  ASSUME NEW step \in Steps, NEW n \in Nat, n >= 2
  PROVE  (n - 2) % step # 0 \/ (n - 1) % step # 0
<1>1. step \in Nat /\ step >= 34
  <2>1. PICK k \in 0 .. 15 : step = 17 * k /\ k # 0 /\ k # 1
    <3>1. PICK k \in 0 .. 15 : step = 17 * k
      BY DEF Steps, Dtypes
    <3>2. step # 0 /\ step # 17
      BY DEF Steps
    <3> QED
      BY <3>1, <3>2
  <2> QED
    <3>1. k \in Int /\ k >= 2
      BY <2>1
    <3> QED
      BY <2>1, <3>1
<1>2. PICK m \in Nat : m = n - 2
  OBVIOUS
<1>3. ASSUME m % step = 0, (m + 1) % step = 0 PROVE FALSE
  <2>1. PICK q \in Int : m = step * q
    <3> DEFINE k == m \div step
               e == m % step
    <3>1. k \in Int /\ e = 0 /\ m = step * k + e
      BY <1>1, <1>3
    <3> HIDE DEF k, e
    <3> QED
      BY <1>1, <3>1
  <2>2. PICK r \in Int : m + 1 = step * r
    <3> DEFINE k == (m + 1) \div step
               e == (m + 1) % step
    <3>1. k \in Int /\ e = 0 /\ m + 1 = step * k + e
      BY <1>1, <1>3
    <3> HIDE DEF k, e
    <3> QED
      BY <1>1, <3>1
  <2>3. step * r - step * q = 1
    BY <1>1, <2>1, <2>2
  <2>4. step * (r - q) = step * r - step * q
    BY <1>1, <2>2
  <2>5. PICK d \in Int : d = r - q
    BY <2>1, <2>2
  <2>6. step * d = 1
    BY <2>3, <2>4, <2>5
  <2>7. d <= 0 => step * d <= 0
    BY <1>1, <2>5
  <2>8. d >= 1 => step * d >= step
    BY <1>1, <2>5
  <2> QED
    BY <1>1, <2>5, <2>6, <2>7, <2>8
<1> QED
  BY <1>2, <1>3

(* Whatever the phase, the string ends in its block.                       *)
LEMMA StringEnds ==
  ASSUME SizeInv, RInv
  PROVE  EndsHere
<1>1. /\ res.size \in Nat /\ res.size >= 120 /\ config \in Configs
      /\ res.size = config.total \div NUM_ALGORITHMS
  BY SizeFacts DEF SizeInv
<1>2. PICK n \in Nat : n = res.size /\ n >= 2
  BY <1>1
<1>3. /\ String0 \in [0 .. n - 1 -> Byte]
      /\ String0[n - 1] = 0 /\ String0[n - 2] = 0
  <2>1. Seed \in Nat
    BY <1>1, SeedType
  <2>2. String0 = core_init_state(n, Seed)
    BY <1>1, <1>2 DEF String0
  <2> QED
    BY <1>2, <2>1, <2>2, StringStarts
<1>4. CASE scan.phase # "second"
  <2>1. state_mem = String0
    BY <1>4 DEF RInv, BlocksInv
  <2>2. Zero(n - 1)
    BY <1>1, <1>2, <1>3, <2>1 DEF Zero
  <2> QED
    BY <1>2, <2>2 DEF LastTwo, EndsHere
<1>5. CASE scan.phase = "second"
  <2>1. state_mem = Changed(String0, scan.step, Seed) /\ scan.step \in Steps
    BY <1>5 DEF RInv, BlocksInv, ScanInv
  <2>2. PICK i \in {n - 2, n - 1} : i % scan.step # 0
    BY <1>1, <1>2, <2>1, OneIsKept
  <2>3. i \in 0 .. n - 1 /\ i \in Nat /\ String0[i] = 0
    BY <1>1, <1>2, <1>3, <2>2
  <2>4. DOMAIN state_mem = 0 .. n - 1 /\ state_mem[i] = 0
    BY <1>3, <2>1, <2>2, <2>3 DEF Changed
  <2>5. Zero(i)
    BY <2>3, <2>4 DEF Zero
  <2> QED
    BY <1>2, <2>2, <2>5 DEF LastTwo, EndsHere
<1> QED
  BY <1>4, <1>5

LEMMA StepRoom ==
  ASSUME ScanTypes, SizeInv, StopsInTime, EndsHere', [Next]_vars
  PROVE  StopsInTime'
<1>1. LastTwo' = LastTwo
  BY SizeKept DEF LastTwo
<1>2. CASE ScanToken
  <2>1. PICK t : t = core_state_transition(scan.p, scan.track)
    OBVIOUS
  <2>2. UNCHANGED state_mem /\ scan'.p = t.next /\ TokenOK(t, scan.p)
    BY <1>2, <2>1, TokenMoves
  <2>3. PICK z \in LastTwo : Zero(z) /\ scan.p <= z
    BY DEF StopsInTime
  <2>4. scan'.p <= z /\ Zero(z)'
    BY <2>2, <2>3 DEF TokenOK, Zero
  <2> QED
    BY <1>1, <2>3, <2>4 DEF StopsInTime
<1>3. CASE Rewinds
  <2>1. PICK z \in LastTwo' : Zero(z)'
    BY DEF EndsHere
  <2>2. z \in Nat
    BY <2>1 DEF Zero
  <2> QED
    BY <1>3, <2>1, <2>2 DEF Rewinds, StopsInTime
<1>4. CASE UNCHANGED <<scan, state_mem>>
  BY <1>1, <1>4 DEF StopsInTime, Zero
<1> QED
  BY <1>2, <1>3, <1>4, ScanMoves DEF ScanTypes

(* The end of C, whose start and whose elements are aligned.               *)
LEMMA MatricesFit ==
  ASSUME NEW size \in Nat \ {0}, NEW seed0, RoomFor(size)
  PROVE  core_init_matrix(size, size, seed0).end <= 2 * size
<1>1. Dimension(size) \in 0 .. size /\ Dimension(size) * Dimension(size) * 2 * 4 < size
  BY DimensionFits
<1>2. PICK N \in Nat : N = Dimension(size)
  BY <1>1
<1>3. PICK M \in Nat : M = N * N
  BY <1>2
<1>4. 8 * M < size
  BY <1>1, <1>2, <1>3
<1>5. 4 * N * N = 4 * M
  BY <1>2, <1>3
<1>6. PICK q \in Nat : q = (size - 1) \div 4
  OBVIOUS
<1>7. align_mem(size) = 4 + 4 * q
  BY <1>6 DEF align_mem
<1>8. core_init_matrix(size, size, seed0).end
        = align_mem(align_mem(size) + 4 * M) + 4 * M
  <2>1. core_init_matrix(size, size, seed0).end
          = align_mem(align_mem(size) + 4 * N * N) + 4 * N * N
    BY <1>2 DEF core_init_matrix
  <2> QED
    BY <1>5, <2>1
<1>9. align_mem(4 + 4 * q + 4 * M) = 4 + 4 * q + 4 * M
  <2>1. (4 + 4 * q + 4 * M - 1) \div 4 = q + M
    OBVIOUS
  <2> QED
    BY <2>1 DEF align_mem
<1>10. size % 4 = 0 \/ 8 * M + 3 <= size
  <2>1. N \in 0 .. size /\ 8 * (N * N) < size
    BY <1>1, <1>2, <1>3, <1>4
  <2>2. size % 4 = 0 \/ 8 * (N * N) + 3 <= size
    BY <2>1 DEF RoomFor
  <2> QED
    BY <1>3, <2>2
<1>11. size % 4 = 0 => 4 + 4 * q = size
  BY <1>6
<1>12. 4 + 4 * q <= size + 3
  BY <1>6
<1> QED
  BY <1>4, <1>7, <1>8, <1>9, <1>10, <1>11, <1>12

(* Each benchmark stays in its third of the memory: the cells of the list  *)
(* and their data never meet (core_list_join.c:345), C ends before the     *)
(* string begins (core_matrix.c:217), and the string machine stops at the  *)
(* end of the string, although the corruption turns zeroes into other      *)
(* characters (core_state.c:86).                                           *)
THEOREM BlocksHaveRoom ==
  ASSUME \A c \in Configs : CanUndo(c) /\ Roomy(c)
  PROVE  Spec => []BlocksFit
<1>1. ASSUME ScanTypes, SizeInv, RInv, StopsInTime PROVE BlocksFit
  <2>1. free <= items
    BY <1>1 DEF SizeInv
  <2>2. mat.end <= 2 * res.size
    <3>1. /\ mat = Matrix0 /\ config \in Configs
          /\ res.size = config.total \div NUM_ALGORITHMS
      BY <1>1 DEF RInv, BlocksInv, SizeInv
    <3>2. res.size \in Nat \ {0}
      BY <3>1, SeedType
    <3>3. Roomy(config)
      BY <3>1
    <3> QED
      BY <3>1, <3>2, <3>3, MatricesFit DEF Matrix0, Roomy
  <2>3. StaysInBlock
    <3>1. PICK z \in LastTwo : Zero(z) /\ scan.p <= z
      BY <1>1 DEF StopsInTime
    <3>2. PICK n \in Nat : n = config.total \div NUM_ALGORITHMS
      BY <1>1, SeedType DEF SizeInv
    <3>3. DOMAIN state_mem = 0 .. n - 1
      <4>1. String0 \in [0 .. n - 1 -> Byte]
        BY <1>1, <3>2, BlocksStart DEF SizeInv
      <4> QED
        BY <1>1, <4>1 DEF RInv, BlocksInv, Changed
    <3> QED
      BY <1>1, <3>1, <3>2, <3>3 DEF StaysInBlock, ScanTypes, Zero
  <2> QED
    BY <2>1, <2>2, <2>3 DEF BlocksFit
<1>2. Spec => []RInv
  <2>1. Init => RInv
    BY InitRestored
  <2> QED
    BY <2>1, StepRestores, PTL DEF Spec
<1>3. Spec => []SizeInv
  BY InitSize, SizeKept, PTL DEF Spec
<1>4. Spec => []ScanTypes
  BY InitScan, ScanTyped, PTL DEF Spec
<1>5. SizeInv /\ RInv => EndsHere
  BY StringEnds
<1>6. Init /\ EndsHere => StopsInTime
  BY DEF Init, NoScan, EndsHere, StopsInTime, Zero
<1> QED
  BY <1>1, <1>2, <1>3, <1>4, <1>5, <1>6, StepRoom, PTL DEF Spec

-----------------------------------------------------------------------------
(* The machine recognises the kinds of tokens.                             *)
Classes == {"digit", "sign", "point", "exponent", "other"}
ClassSeqs == Seq(Classes)

(* The parts of a word that is one longer.                                 *)
LEMMA LongerWord ==
  ASSUME NEW w \in ClassSeqs, NEW c \in Classes
  PROVE  /\ Append(w, c) \in ClassSeqs /\ Len(Append(w, c)) = Len(w) + 1
         /\ Len(w) \in Nat
         /\ Append(w, c)[Len(w) + 1] = c
         /\ \A i \in 1 .. Len(w) :
              /\ Append(w, c)[i] = w[i]
              /\ SubSeq(Append(w, c), 1, i - 1) = SubSeq(w, 1, i - 1)
              /\ SubSeq(Append(w, c), i + 1, Len(w) + 1)
                   = Append(SubSeq(w, i + 1, Len(w)), c)
              /\ SubSeq(w, 1, i - 1) \in ClassSeqs /\ SubSeq(w, i + 1, Len(w)) \in ClassSeqs
         /\ SubSeq(Append(w, c), 1, Len(w)) = w
         /\ SubSeq(Append(w, c), Len(w) + 2, Len(w) + 1) = <<>>
<1> DEFINE v == Append(w, c)
<1>1. /\ v \in ClassSeqs /\ Len(v) = Len(w) + 1 /\ Len(w) \in Nat /\ v[Len(w) + 1] = c
      /\ \A i \in 1 .. Len(w) : v[i] = w[i]
  BY AppendProperties DEF ClassSeqs
<1> HIDE DEF v
<1>2. \A i \in 1 .. Len(w) : SubSeq(v, 1, i - 1) = SubSeq(w, 1, i - 1)
  BY <1>1 DEF ClassSeqs
<1>3. ASSUME NEW i \in 1 .. Len(w)
      PROVE  SubSeq(v, i + 1, Len(w) + 1) = Append(SubSeq(w, i + 1, Len(w)), c)
  <2>1. PICK l \in Nat : l = Len(w)
    BY <1>1
  <2> DEFINE x == SubSeq(v, i + 1, l + 1)
             y == SubSeq(w, i + 1, l)
  <2>2. i \in 1 .. l /\ \A j \in i + 1 .. l : w[j] \in Classes
    BY <2>1 DEF ClassSeqs
  <2>3. /\ y \in ClassSeqs /\ Len(y) = l - i
        /\ \A j \in 1 .. l - i : y[j] = w[i + j]
    BY <2>2, SubSeqProperties DEF ClassSeqs
  <2>4. \A j \in i + 1 .. l + 1 : v[j] \in Classes
    BY <1>1, <2>1, <2>2 DEF ClassSeqs
  <2>5. /\ x \in ClassSeqs /\ Len(x) = l + 1 - i
        /\ \A j \in 1 .. l + 1 - i : x[j] = v[i + j]
    BY <2>2, <2>4, SubSeqProperties DEF ClassSeqs
  <2> DEFINE z == Append(y, c)
  <2>6. /\ z \in ClassSeqs /\ Len(z) = l + 1 - i /\ z[l + 1 - i] = c
        /\ \A j \in 1 .. l - i : z[j] = y[j]
    BY <2>2, <2>3, AppendProperties DEF ClassSeqs
  <2> HIDE DEF x, y, z
  <2>7. ASSUME NEW j \in 1 .. l + 1 - i PROVE x[j] = z[j]
    BY <1>1, <2>1, <2>2, <2>3, <2>5, <2>6
  <2>8. x = z
    BY <2>2, <2>5, <2>6, <2>7, SeqEqual DEF ClassSeqs
  <2> QED
    BY <2>1, <2>8 DEF x, y, z
<1>4. SubSeq(v, 1, Len(w)) = w
  BY <1>1 DEF ClassSeqs
<1>5. SubSeq(v, Len(w) + 2, Len(w) + 1) = <<>>
  BY <1>1 DEF ClassSeqs
<1>6. ASSUME NEW i \in 1 .. Len(w)
      PROVE  SubSeq(w, 1, i - 1) \in ClassSeqs /\ SubSeq(w, i + 1, Len(w)) \in ClassSeqs
  BY <1>1 DEF ClassSeqs
<1> QED
  BY <1>1, <1>2, <1>3, <1>4, <1>5, <1>6 DEF v

LEMMA LongerDigits ==
  ASSUME NEW w \in ClassSeqs, NEW c \in Classes
  PROVE  /\ AllDigits(Append(w, c)) <=> AllDigits(w) /\ c = "digit"
         /\ AllDigits(<<>>)
<1>1. AllDigits(<<>>)
  BY DEF AllDigits
<1> DEFINE v == Append(w, c)
<1>2. /\ Len(v) = Len(w) + 1 /\ Len(w) \in Nat /\ v[Len(w) + 1] = c
      /\ \A i \in 1 .. Len(w) : v[i] = w[i]
  BY LongerWord
<1> HIDE DEF v
<1>3. AllDigits(v) <=> AllDigits(w) /\ c = "digit"
  BY <1>2 DEF AllDigits
<1> QED
  BY <1>1, <1>3 DEF v

(* What is behind the sign of a word.                                      *)
LEMMA LongerUnsigned ==
  ASSUME NEW w \in ClassSeqs, NEW c \in Classes
  PROVE  /\ Unsigned(w) \in ClassSeqs
         /\ w # <<>> => Unsigned(Append(w, c)) = Append(Unsigned(w), c)
         /\ w = <<>> => Unsigned(Append(w, c)) = IF c = "sign" THEN <<>> ELSE Append(w, c)
         /\ Unsigned(w) = <<>> <=> w = <<>> \/ w = <<"sign">>
<1>1. /\ Append(w, c) \in ClassSeqs /\ Len(Append(w, c)) = Len(w) + 1 /\ Len(w) \in Nat
      /\ Append(w, c)[Len(w) + 1] = c
      /\ \A i \in 1 .. Len(w) : Append(w, c)[i] = w[i]
  BY LongerWord
<1>2. Unsigned(w) \in ClassSeqs
  BY DEF Unsigned, ClassSeqs
<1>3. ASSUME w # <<>> PROVE Unsigned(Append(w, c)) = Append(Unsigned(w), c)
  <2>1. Append(w, c)[1] = w[1] /\ Append(w, c) # <<>>
    BY <1>1, <1>3 DEF ClassSeqs
  <2>2. Tail(Append(w, c)) = Append(Tail(w), c)
    BY <1>3 DEF ClassSeqs
  <2> QED
    BY <1>3, <2>1, <2>2 DEF Unsigned
<1>4. ASSUME w = <<>>
      PROVE  Unsigned(Append(w, c)) = IF c = "sign" THEN <<>> ELSE Append(w, c)
  <2>1. Append(w, c) = <<c>>
    BY <1>4
  <2>2. Tail(<<c>>) = <<>> /\ <<c>>[1] = c /\ <<c>> # <<>>
    OBVIOUS
  <2> QED
    BY <2>1, <2>2 DEF Unsigned
<1>5. Unsigned(w) = <<>> <=> w = <<>> \/ w = <<"sign">>
  <2>1. CASE w = <<>>
    BY <2>1 DEF Unsigned
  <2>2. CASE w # <<>> /\ w[1] # "sign"
    BY <2>2 DEF Unsigned
  <2>3. CASE w # <<>> /\ w[1] = "sign"
    <3>1. Unsigned(w) = Tail(w)
      BY <2>3 DEF Unsigned
    <3>2. Tail(w) = <<>> => w = <<"sign">>
      <4> SUFFICES ASSUME Tail(w) = <<>> PROVE w = <<"sign">>
        OBVIOUS
      <4>1. Len(w) = 1 /\ w[1] = "sign"
        <5>1. w \in Seq(Classes) /\ w # <<>>
          BY <2>3 DEF ClassSeqs
        <5>2. Len(Tail(w)) = Len(w) - 1 /\ Len(w) \in Nat
          BY <5>1, HeadTailProperties
        <5>3. Len(<<>>) = 0
          OBVIOUS
        <5>4. Len(Tail(w)) = 0
          BY <5>3, Zenon
        <5> QED
          BY <2>3, <5>2, <5>4
      <4>2. <<"sign">> \in ClassSeqs /\ Len(<<"sign">>) = 1 /\ <<"sign">>[1] = "sign"
        BY DEF ClassSeqs, Classes
      <4>3. \A j \in 1 .. 1 : w[j] = <<"sign">>[j]
        BY <4>1, <4>2
      <4> QED
        BY <4>1, <4>2, <4>3, SeqEqual DEF ClassSeqs
    <3>3. w = <<"sign">> => Tail(w) = <<>>
      OBVIOUS
    <3> QED
      BY <2>3, <3>1, <3>2, <3>3
  <2> QED
    BY <2>1, <2>2, <2>3
<1> QED
  BY <1>2, <1>3, <1>4, <1>5

(* How one more character makes a word of each kind.                       *)
LEMMA LongerInt ==
  ASSUME NEW w \in ClassSeqs, NEW c \in Classes
  PROVE  IsInt(Append(w, c)) <=>
           (c = "digit" /\ (w = <<>> \/ w = <<"sign">> \/ IsInt(w)))
<1> DEFINE u == Unsigned(w)
           v == Unsigned(Append(w, c))
<1>1. u \in ClassSeqs /\ (u = <<>> <=> w = <<>> \/ w = <<"sign">>) /\ AllDigits(<<>>)
  BY LongerUnsigned, LongerDigits
<1>2. IsInt(w) <=> u # <<>> /\ AllDigits(u)
  BY DEF IsInt
<1>3. IsInt(Append(w, c)) <=> v # <<>> /\ AllDigits(v)
  BY DEF IsInt
<1>4. CASE w # <<>>
  <2>1. v = Append(u, c)
    BY <1>4, LongerUnsigned
  <2> HIDE DEF u, v
  <2>2. v # <<>> /\ (AllDigits(v) <=> AllDigits(u) /\ c = "digit")
    BY <1>1, <2>1, LongerDigits, AppendProperties DEF ClassSeqs
  <2> QED
    BY <1>1, <1>2, <1>3, <1>4, <2>2
<1>5. CASE w = <<>>
  <2>1. v = IF c = "sign" THEN <<>> ELSE Append(w, c)
    BY <1>5, LongerUnsigned
  <2>2. Append(w, c) # <<>> /\ (AllDigits(Append(w, c)) <=> c = "digit")
    BY <1>1, <1>5, LongerDigits, AppendProperties DEF ClassSeqs
  <2> HIDE DEF u, v
  <2> QED
    BY <1>3, <1>5, <2>1, <2>2
<1> QED
  BY <1>4, <1>5

(* A word with one point that has only digits around it.                   *)
Pointed(u) ==
  \E i \in 1 .. Len(u) : /\ u[i] = "point" /\ AllDigits(SubSeq(u, 1, i - 1))
                         /\ AllDigits(SubSeq(u, i + 1, Len(u)))
LEMMA LongerPointed ==
  ASSUME NEW u \in ClassSeqs, NEW c \in Classes
  PROVE  Pointed(Append(u, c)) <=>
           ((c = "point" /\ AllDigits(u)) \/ (c = "digit" /\ Pointed(u)))
<1> DEFINE v == Append(u, c)
           n == Len(u)
<1>1. /\ n \in Nat /\ Len(v) = n + 1 /\ v[n + 1] = c
      /\ SubSeq(v, 1, n) = u /\ SubSeq(v, n + 2, n + 1) = <<>>
      /\ AllDigits(<<>>)
  BY LongerWord, LongerDigits
<1>2. ASSUME NEW i \in 1 .. n
      PROVE  /\ v[i] = u[i] /\ SubSeq(v, 1, i - 1) = SubSeq(u, 1, i - 1)
             /\ AllDigits(SubSeq(v, i + 1, n + 1))
                  <=> AllDigits(SubSeq(u, i + 1, n)) /\ c = "digit"
  <2>1. /\ v[i] = u[i] /\ SubSeq(v, 1, i - 1) = SubSeq(u, 1, i - 1)
        /\ SubSeq(v, i + 1, n + 1) = Append(SubSeq(u, i + 1, n), c)
        /\ SubSeq(u, i + 1, n) \in ClassSeqs
    BY LongerWord
  <2> HIDE DEF v, n
  <2> QED
    BY <2>1, LongerDigits
<1> HIDE DEF v, n
<1>3. Pointed(v) <=>
        \E i \in 1 .. n + 1 : /\ v[i] = "point" /\ AllDigits(SubSeq(v, 1, i - 1))
                              /\ AllDigits(SubSeq(v, i + 1, n + 1))
  BY <1>1 DEF Pointed
<1>4. Pointed(u) <=>
        \E i \in 1 .. n : /\ u[i] = "point" /\ AllDigits(SubSeq(u, 1, i - 1))
                          /\ AllDigits(SubSeq(u, i + 1, n))
  BY DEF Pointed, n
<1>5. ASSUME Pointed(v)
      PROVE  (c = "point" /\ AllDigits(u)) \/ (c = "digit" /\ Pointed(u))
  <2>1. PICK i \in 1 .. n + 1 : /\ v[i] = "point" /\ AllDigits(SubSeq(v, 1, i - 1))
                                /\ AllDigits(SubSeq(v, i + 1, n + 1))
    BY <1>3, <1>5
  <2>2. CASE i \in 1 .. n
    BY <1>2, <1>4, <2>1, <2>2
  <2>3. CASE i = n + 1
    <3>1. i - 1 = n
      BY <1>1, <2>3
    <3>2. SubSeq(v, 1, i - 1) = u /\ v[i] = c
      BY <1>1, <2>3, <3>1
    <3> QED
      BY <2>1, <3>2
  <2> QED
    BY <1>1, <2>2, <2>3
<1>6. ASSUME c = "point", AllDigits(u) PROVE Pointed(v)
  <2>1. PICK k : k = n + 1
    OBVIOUS
  <2>2. k \in 1 .. n + 1 /\ k - 1 = n /\ k + 1 = n + 2
    BY <1>1, <2>1
  <2>3. /\ v[k] = "point" /\ AllDigits(SubSeq(v, 1, k - 1))
        /\ AllDigits(SubSeq(v, k + 1, n + 1))
    BY <1>1, <1>6, <2>1, <2>2
  <2> QED
    BY <1>3, <2>2, <2>3
<1>7. ASSUME c = "digit", Pointed(u) PROVE Pointed(v)
  <2>1. PICK i \in 1 .. n : /\ u[i] = "point" /\ AllDigits(SubSeq(u, 1, i - 1))
                            /\ AllDigits(SubSeq(u, i + 1, n))
    BY <1>4, <1>7
  <2>2. i \in 1 .. n + 1
    BY <1>1
  <2> QED
    BY <1>2, <1>3, <1>7, <2>1, <2>2
<1> QED
  BY <1>5, <1>6, <1>7 DEF v

LEMMA LongerFloat ==
  ASSUME NEW w \in ClassSeqs, NEW c \in Classes
  PROVE  IsFloat(Append(w, c)) <=>
           \/ (c = "point" /\ (w = <<>> \/ w = <<"sign">> \/ IsInt(w)))
           \/ (c = "digit" /\ IsFloat(w))
<1> DEFINE u == Unsigned(w)
           v == Unsigned(Append(w, c))
<1>1. u \in ClassSeqs /\ (u = <<>> <=> w = <<>> \/ w = <<"sign">>) /\ AllDigits(<<>>)
  BY LongerUnsigned, LongerDigits
<1>2. IsInt(w) <=> u # <<>> /\ AllDigits(u)
  BY DEF IsInt
<1>3. \A x : IsFloat(x) <=> Pointed(Unsigned(x))
  BY DEF IsFloat, Split, Pointed
<1>4. ~ Pointed(<<>>)
  BY DEF Pointed
<1>5. CASE w # <<>>
  <2>1. v = Append(u, c)
    BY <1>5, LongerUnsigned
  <2>2. Pointed(Append(u, c)) <=> (c = "point" /\ AllDigits(u)) \/ (c = "digit" /\ Pointed(u))
    BY <1>1, LongerPointed
  <2> HIDE DEF u, v
  <2>3. AllDigits(u) <=> w = <<>> \/ w = <<"sign">> \/ IsInt(w)
    BY <1>1, <1>2
  <2> QED
    BY <1>3, <2>1, <2>2, <2>3 DEF u, v
<1>6. CASE w = <<>>
  <2>1. v = IF c = "sign" THEN <<>> ELSE Append(w, c)
    BY <1>6, LongerUnsigned
  <2>2. Pointed(Append(w, c)) <=> (c = "point" /\ AllDigits(w)) \/ (c = "digit" /\ Pointed(w))
    BY LongerPointed
  <2>3. IsFloat(w) <=> Pointed(w)
    BY <1>3, <1>6, <1>1
  <2> QED
    BY <1>1, <1>3, <1>4, <1>6, <2>1, <2>2, <2>3
<1> QED
  BY <1>5, <1>6

(* Names of the states, as a set.                                          *)
LEMMA StatesAre ==
  StateSet = {"START", "INVALID", "S1", "S2", "INT", "FLOAT", "EXPONENT", "SCIENTIFIC"}
<1>1. StateSet = {CoreStates[1], CoreStates[2], CoreStates[3], CoreStates[4],
                  CoreStates[5], CoreStates[6], CoreStates[7], CoreStates[8]}
  <2>1. 1 .. 8 = {1, 2, 3, 4, 5, 6, 7, 8}
    OBVIOUS
  <2> QED
    BY <2>1 DEF StateSet
<1> QED
  BY <1>1 DEF CoreStates

(* An exponent behind a number with a point, and what may follow it.       *)
Scaled(w, v) ==
  \E i \in 1 .. Len(w) : /\ w[i] = "exponent" /\ IsFloat(SubSeq(w, 1, i - 1))
                         /\ SubSeq(w, i + 1, Len(w)) = v
IsScientific(w) ==
  \E i \in 1 .. Len(w) :
    /\ w[i] = "exponent" /\ IsFloat(SubSeq(w, 1, i - 1))
    /\ IsSigned(SubSeq(w, i + 1, Len(w))) /\ Len(SubSeq(w, i + 1, Len(w))) >= 2
LEMMA KindsAre ==
  ASSUME NEW w
  PROVE  /\ "START" \in Kinds(w) <=> w = <<>>
         /\ "S1" \in Kinds(w) <=> w = <<"sign">>
         /\ "INT" \in Kinds(w) <=> IsInt(w)
         /\ "FLOAT" \in Kinds(w) <=> IsFloat(w)
         /\ "S2" \in Kinds(w) <=> Scaled(w, <<>>)
         /\ "EXPONENT" \in Kinds(w) <=> Scaled(w, <<"sign">>)
         /\ "SCIENTIFIC" \in Kinds(w) <=> IsScientific(w)
         /\ "INVALID" \notin Kinds(w)
         /\ Kinds(w) \subseteq StateSet
<1>1. Kinds(w) \subseteq StateSet
  BY DEF Kinds
<1>2. "START" \in Kinds(w) <=> w = <<>>
  BY StatesAre DEF Kinds, IsEmpty
<1>3. "S1" \in Kinds(w) <=> w = <<"sign">>
  BY StatesAre DEF Kinds
<1>4. "INT" \in Kinds(w) <=> IsInt(w)
  BY StatesAre DEF Kinds
<1>5. "FLOAT" \in Kinds(w) <=> IsFloat(w)
  BY StatesAre DEF Kinds
<1>6. "S2" \in Kinds(w) <=> Scaled(w, <<>>)
  <2>1. "S2" \in Kinds(w) <=> Split(w, "exponent", IsFloat, IsEmpty)
    BY StatesAre DEF Kinds
  <2> QED
    BY <2>1 DEF Split, Scaled, IsEmpty
<1>7. "EXPONENT" \in Kinds(w) <=> Scaled(w, <<"sign">>)
  <2>1. "EXPONENT" \in Kinds(w) <=>
          Split(w, "exponent", IsFloat, LAMBDA v : v = <<"sign">>)
    BY StatesAre DEF Kinds
  <2> QED
    BY <2>1 DEF Split, Scaled
<1>8. "SCIENTIFIC" \in Kinds(w) <=> IsScientific(w)
  <2>1. "SCIENTIFIC" \in Kinds(w) <=>
          Split(w, "exponent", IsFloat, LAMBDA v : IsSigned(v) /\ Len(v) >= 2)
    BY StatesAre DEF Kinds
  <2> QED
    BY <2>1 DEF Split, IsScientific
<1>9. "INVALID" \notin Kinds(w)
  BY StatesAre DEF Kinds
<1> QED
  BY <1>1, <1>2, <1>3, <1>4, <1>5, <1>6, <1>7, <1>8, <1>9

LEMMA LongerScaled ==
  ASSUME NEW w \in ClassSeqs, NEW c \in Classes
  PROVE  /\ Scaled(Append(w, c), <<>>) <=> c = "exponent" /\ IsFloat(w)
         /\ Scaled(Append(w, c), <<"sign">>) <=> c = "sign" /\ Scaled(w, <<>>)
<1> DEFINE v == Append(w, c)
           n == Len(w)
           y == [i \in 1 .. n |-> SubSeq(w, i + 1, n)]
<1>1. /\ n \in Nat /\ Len(v) = n + 1 /\ v[n + 1] = c
      /\ SubSeq(v, 1, n) = w /\ SubSeq(v, n + 2, n + 1) = <<>>
  BY LongerWord
<1>2. \A i \in 1 .. n :
        /\ v[i] = w[i] /\ SubSeq(v, 1, i - 1) = SubSeq(w, 1, i - 1)
        /\ SubSeq(v, i + 1, n + 1) = Append(y[i], c) /\ y[i] \in ClassSeqs
        /\ SubSeq(w, i + 1, n) = y[i]
  BY LongerWord
<1>3. ASSUME NEW u \in ClassSeqs
      PROVE  /\ Append(u, c) # <<>>
             /\ Append(u, c) = <<"sign">> <=> u = <<>> /\ c = "sign"
  <2>1. Append(u, c) # <<>> /\ Len(Append(u, c)) = Len(u) + 1 /\ Len(u) \in Nat
        /\ Append(u, c)[Len(u) + 1] = c
    BY <1>3, LongerWord DEF ClassSeqs
  <2>2. ASSUME Append(u, c) = <<"sign">> PROVE u = <<>> /\ c = "sign"
    <3>1. Len(<<"sign">>) = 1 /\ <<"sign">>[1] = "sign"
      OBVIOUS
    <3>2. Len(Append(u, c)) = 1 /\ Append(u, c)[1] = "sign"
      BY <2>2, <3>1, Zenon
    <3>3. Len(u) = 0
      BY <2>1, <3>2
    <3>4. u = <<>>
      BY <3>3, EmptySeq DEF ClassSeqs
    <3> QED
      BY <2>1, <3>2, <3>3, <3>4
  <2>3. ASSUME u = <<>>, c = "sign" PROVE Append(u, c) = <<"sign">>
    BY <2>3
  <2> QED
    BY <2>1, <2>2, <2>3
<1> HIDE DEF v, n, y
<1>4. \A x : Scaled(v, x) <=>
        \E i \in 1 .. n + 1 : /\ v[i] = "exponent" /\ IsFloat(SubSeq(v, 1, i - 1))
                              /\ SubSeq(v, i + 1, n + 1) = x
  BY <1>1 DEF Scaled
<1>5. Scaled(w, <<>>) <=>
        \E i \in 1 .. n : /\ w[i] = "exponent" /\ IsFloat(SubSeq(w, 1, i - 1))
                          /\ y[i] = <<>>
  BY <1>2 DEF Scaled, n
<1>6. PICK k : k = n + 1
  OBVIOUS
<1>7. /\ k \in 1 .. n + 1 /\ k - 1 = n /\ k + 1 = n + 2
      /\ SubSeq(v, 1, k - 1) = w /\ SubSeq(v, k + 1, n + 1) = <<>> /\ v[k] = c
      /\ \A i \in 1 .. n + 1 : i = k \/ i \in 1 .. n
      /\ \A i \in 1 .. n : i \in 1 .. n + 1
  BY <1>1, <1>6
<1>8. Scaled(v, <<>>) <=> c = "exponent" /\ IsFloat(w)
  <2>1. ASSUME Scaled(v, <<>>) PROVE c = "exponent" /\ IsFloat(w)
    <3>1. PICK i \in 1 .. n + 1 : /\ v[i] = "exponent" /\ IsFloat(SubSeq(v, 1, i - 1))
                                  /\ SubSeq(v, i + 1, n + 1) = <<>>
      BY <1>4, <2>1
    <3>2. i = k
      BY <1>2, <1>3, <1>7, <3>1
    <3> QED
      BY <1>7, <3>1, <3>2
  <2>2. ASSUME c = "exponent", IsFloat(w) PROVE Scaled(v, <<>>)
    BY <1>4, <1>7, <2>2
  <2> QED
    BY <2>1, <2>2
<1>9. Scaled(v, <<"sign">>) <=> c = "sign" /\ Scaled(w, <<>>)
  <2>1. ASSUME Scaled(v, <<"sign">>) PROVE c = "sign" /\ Scaled(w, <<>>)
    <3>1. PICK i \in 1 .. n + 1 : /\ v[i] = "exponent" /\ IsFloat(SubSeq(v, 1, i - 1))
                                  /\ SubSeq(v, i + 1, n + 1) = <<"sign">>
      BY <1>4, <2>1
    <3>2. <<"sign">> # <<>>
      OBVIOUS
    <3>3. i \in 1 .. n
      BY <1>7, <3>1, <3>2
    <3> QED
      BY <1>2, <1>3, <1>5, <3>1, <3>3
  <2>2. ASSUME c = "sign", Scaled(w, <<>>) PROVE Scaled(v, <<"sign">>)
    <3>1. PICK i \in 1 .. n : /\ w[i] = "exponent" /\ IsFloat(SubSeq(w, 1, i - 1))
                              /\ y[i] = <<>>
      BY <1>5, <2>2
    <3>2. SubSeq(v, i + 1, n + 1) = <<"sign">>
      BY <1>2, <1>3, <2>2, <3>1
    <3> QED
      BY <1>2, <1>4, <1>7, <3>1, <3>2
  <2> QED
    BY <2>1, <2>2
<1> QED
  BY <1>8, <1>9 DEF v

LEMMA LongerSigned ==
  ASSUME NEW y \in ClassSeqs, NEW c \in Classes
  PROVE  (IsSigned(Append(y, c)) /\ Len(Append(y, c)) >= 2) <=>
           (c = "digit" /\ (y = <<"sign">> \/ (IsSigned(y) /\ Len(y) >= 2)))
<1> DEFINE z == Append(y, c)
<1>1. /\ z \in ClassSeqs /\ Len(z) = Len(y) + 1 /\ Len(y) \in Nat
      /\ \A i \in 1 .. Len(y) : z[i] = y[i]
  BY LongerWord
<1>2. CASE y = <<>>
  <2>1. Len(y) = 0
    BY <1>2
  <2>2. ~ (Len(z) >= 2)
    BY <1>1, <2>1
  <2>3. y # <<"sign">>
    BY <1>2
  <2> QED
    BY <2>1, <2>2, <2>3
<1>3. CASE y # <<>>
  <2>1. Len(y) >= 1
    BY <1>1, <1>3, EmptySeq DEF ClassSeqs
  <2>2. z[1] = y[1]
    BY <1>1, <2>1
  <2>3. Tail(z) = Append(Tail(y), c) /\ Tail(y) \in ClassSeqs
    BY <1>3 DEF ClassSeqs
  <2>4. AllDigits(Tail(z)) <=> AllDigits(Tail(y)) /\ c = "digit"
    BY <2>3, LongerDigits
  <2> HIDE DEF z
  <2>5. (IsSigned(z) /\ Len(z) >= 2) <=> (IsSigned(y) /\ c = "digit")
    BY <1>1, <2>1, <2>2, <2>4 DEF IsSigned
  <2>6. IsSigned(y) /\ Len(y) = 1 => y = <<"sign">>
    <3>1. <<"sign">> \in ClassSeqs /\ Len(<<"sign">>) = 1 /\ <<"sign">>[1] = "sign"
      BY DEF ClassSeqs, Classes
    <3> SUFFICES ASSUME IsSigned(y), Len(y) = 1 PROVE y = <<"sign">>
      OBVIOUS
    <3>2. \A j \in 1 .. 1 : y[j] = <<"sign">>[j]
      BY <3>1 DEF IsSigned
    <3> QED
      BY <3>1, <3>2, SeqEqual DEF ClassSeqs
  <2>7. y = <<"sign">> => IsSigned(y)
    <3>1. Len(<<"sign">>) = 1 /\ <<"sign">>[1] = "sign" /\ Tail(<<"sign">>) = <<>>
      OBVIOUS
    <3>2. AllDigits(<<>>)
      BY DEF AllDigits
    <3> QED
      BY <3>1, <3>2 DEF IsSigned
  <2>8. IsSigned(y) <=> (y = <<"sign">> \/ (IsSigned(y) /\ Len(y) >= 2))
    <3>1. Len(y) = 1 \/ Len(y) >= 2
      BY <1>1, <2>1
    <3> QED
      BY <2>6, <2>7, <3>1
  <2> QED
    BY <2>5, <2>8 DEF z
<1> QED
  BY <1>2, <1>3

LEMMA LongerScientific ==
  ASSUME NEW w \in ClassSeqs, NEW c \in Classes
  PROVE  IsScientific(Append(w, c)) <=>
           (c = "digit" /\ (Scaled(w, <<"sign">>) \/ IsScientific(w)))
<1> DEFINE v == Append(w, c)
           n == Len(w)
           y == [i \in 1 .. n |-> SubSeq(w, i + 1, n)]
           Ends(u) == IsSigned(u) /\ Len(u) >= 2
<1>1. /\ n \in Nat /\ Len(v) = n + 1 /\ v[n + 1] = c
      /\ SubSeq(v, 1, n) = w /\ SubSeq(v, n + 2, n + 1) = <<>>
  BY LongerWord
<1>2. \A i \in 1 .. n :
        /\ v[i] = w[i] /\ SubSeq(v, 1, i - 1) = SubSeq(w, 1, i - 1)
        /\ SubSeq(v, i + 1, n + 1) = Append(y[i], c) /\ y[i] \in ClassSeqs
        /\ SubSeq(w, i + 1, n) = y[i]
  BY LongerWord
<1>3. \A u \in ClassSeqs :
        Ends(Append(u, c)) <=> (c = "digit" /\ (u = <<"sign">> \/ Ends(u)))
  BY LongerSigned
<1>4. ~ Ends(<<>>)
  OBVIOUS
<1>5. /\ IsScientific(v) <=>
           \E i \in 1 .. n + 1 : /\ v[i] = "exponent" /\ IsFloat(SubSeq(v, 1, i - 1))
                                 /\ Ends(SubSeq(v, i + 1, n + 1))
      /\ IsScientific(w) <=>
           \E i \in 1 .. n : /\ w[i] = "exponent" /\ IsFloat(SubSeq(w, 1, i - 1))
                             /\ Ends(y[i])
      /\ Scaled(w, <<"sign">>) <=>
           \E i \in 1 .. n : /\ w[i] = "exponent" /\ IsFloat(SubSeq(w, 1, i - 1))
                             /\ y[i] = <<"sign">>
  <2> HIDE DEF v, y
  <2>1. IsScientific(v) <=>
           \E i \in 1 .. n + 1 : /\ v[i] = "exponent" /\ IsFloat(SubSeq(v, 1, i - 1))
                                 /\ Ends(SubSeq(v, i + 1, n + 1))
    BY <1>1 DEF IsScientific
  <2>2. IsScientific(w) <=>
           \E i \in 1 .. n : /\ w[i] = "exponent" /\ IsFloat(SubSeq(w, 1, i - 1))
                             /\ Ends(y[i])
    BY <1>2 DEF IsScientific
  <2>3. Scaled(w, <<"sign">>) <=>
           \E i \in 1 .. n : /\ w[i] = "exponent" /\ IsFloat(SubSeq(w, 1, i - 1))
                             /\ y[i] = <<"sign">>
    BY <1>2 DEF Scaled
  <2> QED
    BY <2>1, <2>2, <2>3
<1> HIDE DEF v, n, y, Ends
<1>6. \A i \in 1 .. n + 1 : i = n + 1 \/ i \in 1 .. n
  BY <1>1
<1>7. ~ Ends(SubSeq(v, (n + 1) + 1, n + 1))
  <2>1. (n + 1) + 1 = n + 2
    BY <1>1
  <2> QED
    BY <1>1, <1>4, <2>1
<1>8. IsScientific(v) <=>
        \E i \in 1 .. n : /\ w[i] = "exponent" /\ IsFloat(SubSeq(w, 1, i - 1))
                          /\ Ends(Append(y[i], c))
  <2>1. ASSUME IsScientific(v)
        PROVE  \E i \in 1 .. n : /\ w[i] = "exponent" /\ IsFloat(SubSeq(w, 1, i - 1))
                                 /\ Ends(Append(y[i], c))
    <3>1. PICK i \in 1 .. n + 1 : /\ v[i] = "exponent" /\ IsFloat(SubSeq(v, 1, i - 1))
                                  /\ Ends(SubSeq(v, i + 1, n + 1))
      BY <1>5, <2>1
    <3>2. i \in 1 .. n
      BY <1>6, <1>7, <3>1
    <3> QED
      BY <1>2, <3>1, <3>2
  <2>2. ASSUME NEW i \in 1 .. n, w[i] = "exponent", IsFloat(SubSeq(w, 1, i - 1)),
               Ends(Append(y[i], c))
        PROVE  IsScientific(v)
    <3>1. i \in 1 .. n + 1
      BY <1>1
    <3> QED
      BY <1>2, <1>5, <2>2, <3>1
  <2> QED
    BY <2>1, <2>2
<1>9. \A i \in 1 .. n :
        Ends(Append(y[i], c)) <=> (c = "digit" /\ (y[i] = <<"sign">> \/ Ends(y[i])))
  BY <1>2, <1>3
<1> QED
  BY <1>5, <1>8, <1>9 DEF v

(* The kinds of a word that is one longer, from those of the word.         *)
LEMMA LongerKinds ==
  ASSUME NEW w \in ClassSeqs, NEW c \in Classes
  PROVE  /\ "START" \notin Kinds(Append(w, c))
         /\ "S1" \in Kinds(Append(w, c)) <=> (c = "sign" /\ "START" \in Kinds(w))
         /\ "INT" \in Kinds(Append(w, c)) <=>
              (c = "digit" /\ Kinds(w) \cap {"START", "S1", "INT"} # {})
         /\ "FLOAT" \in Kinds(Append(w, c)) <=>
              \/ (c = "point" /\ Kinds(w) \cap {"START", "S1", "INT"} # {})
              \/ (c = "digit" /\ "FLOAT" \in Kinds(w))
         /\ "S2" \in Kinds(Append(w, c)) <=> (c = "exponent" /\ "FLOAT" \in Kinds(w))
         /\ "EXPONENT" \in Kinds(Append(w, c)) <=> (c = "sign" /\ "S2" \in Kinds(w))
         /\ "SCIENTIFIC" \in Kinds(Append(w, c)) <=>
              (c = "digit" /\ Kinds(w) \cap {"EXPONENT", "SCIENTIFIC"} # {})
         /\ "INVALID" \notin Kinds(Append(w, c)) /\ Kinds(Append(w, c)) \subseteq StateSet
<1> DEFINE v == Append(w, c)
<1>1. v # <<>>
  BY LongerWord, EmptySeq DEF ClassSeqs
<1>2. v = <<"sign">> <=> (c = "sign" /\ w = <<>>)
  <2>1. /\ Len(v) = Len(w) + 1 /\ Len(w) \in Nat /\ v[Len(w) + 1] = c
    BY LongerWord
  <2>2. ASSUME v = <<"sign">> PROVE c = "sign" /\ w = <<>>
    <3>1. Len(<<"sign">>) = 1 /\ <<"sign">>[1] = "sign"
      OBVIOUS
    <3>2. Len(v) = 1 /\ v[1] = "sign"
      BY <2>2, <3>1, Zenon
    <3>3. Len(w) = 0
      BY <2>1, <3>2
    <3>4. w = <<>>
      BY <3>3, EmptySeq DEF ClassSeqs
    <3> QED
      BY <2>1, <3>2, <3>3, <3>4
  <2>3. ASSUME c = "sign", w = <<>> PROVE v = <<"sign">>
    BY <2>3
  <2> QED
    BY <2>2, <2>3
<1>3. Kinds(w) \cap {"START", "S1", "INT"} # {}
        <=> (w = <<>> \/ w = <<"sign">> \/ IsInt(w))
  BY KindsAre
<1>4. Kinds(w) \cap {"EXPONENT", "SCIENTIFIC"} # {}
        <=> (Scaled(w, <<"sign">>) \/ IsScientific(w))
  BY KindsAre
<1>5. "START" \notin Kinds(v) /\ ("S1" \in Kinds(v) <=> (c = "sign" /\ "START" \in Kinds(w)))
  <2>1. ("START" \in Kinds(v) <=> v = <<>>) /\ ("S1" \in Kinds(v) <=> v = <<"sign">>)
        /\ ("START" \in Kinds(w) <=> w = <<>>)
    BY KindsAre
  <2> QED
    BY <1>1, <1>2, <2>1
<1>6. "INT" \in Kinds(v) <=>
        (c = "digit" /\ Kinds(w) \cap {"START", "S1", "INT"} # {})
  <2>1. "INT" \in Kinds(v) <=> IsInt(v)
    BY KindsAre
  <2> QED
    BY <1>3, <2>1, LongerInt
<1>7. "FLOAT" \in Kinds(v) <=>
        \/ (c = "point" /\ Kinds(w) \cap {"START", "S1", "INT"} # {})
        \/ (c = "digit" /\ "FLOAT" \in Kinds(w))
  <2>1. ("FLOAT" \in Kinds(v) <=> IsFloat(v)) /\ ("FLOAT" \in Kinds(w) <=> IsFloat(w))
    BY KindsAre
  <2> QED
    BY <1>3, <2>1, LongerFloat
<1>8. /\ "S2" \in Kinds(v) <=> (c = "exponent" /\ "FLOAT" \in Kinds(w))
      /\ "EXPONENT" \in Kinds(v) <=> (c = "sign" /\ "S2" \in Kinds(w))
  <2>1. /\ "S2" \in Kinds(v) <=> Scaled(v, <<>>)
        /\ "EXPONENT" \in Kinds(v) <=> Scaled(v, <<"sign">>)
        /\ "S2" \in Kinds(w) <=> Scaled(w, <<>>)
        /\ "FLOAT" \in Kinds(w) <=> IsFloat(w)
    BY KindsAre
  <2> QED
    BY <2>1, LongerScaled
<1>9. "SCIENTIFIC" \in Kinds(v) <=>
        (c = "digit" /\ Kinds(w) \cap {"EXPONENT", "SCIENTIFIC"} # {})
  <2>1. "SCIENTIFIC" \in Kinds(v) <=> IsScientific(v)
    BY KindsAre
  <2> QED
    BY <1>4, <2>1, LongerScientific
<1>10. "INVALID" \notin Kinds(v) /\ Kinds(v) \subseteq StateSet
  BY KindsAre
<1> QED
  BY <1>5, <1>6, <1>7, <1>8, <1>9, <1>10 DEF v

(* The machine follows: where it goes on, the longer word is of the kind   *)
(* it goes to, and of no other; where it does not, no kind goes on so.     *)
LEMMA MachineFollows ==
  ASSUME NEW w \in ClassSeqs, NEW c \in Classes, NEW s \in StateSet \ {"INVALID"},
         Kinds(w) = {s}
  PROVE  Kinds(Append(w, c)) = IF c \in DOMAIN NextState[s] THEN {NextState[s][c]}
                                                            ELSE {}
<1> DEFINE K == Kinds(Append(w, c))
<1>1. /\ "START" \notin K /\ "INVALID" \notin K
      /\ "S1" \in K <=> (c = "sign" /\ s = "START")
      /\ "INT" \in K <=> (c = "digit" /\ s \in {"START", "S1", "INT"})
      /\ "FLOAT" \in K <=> \/ (c = "point" /\ s \in {"START", "S1", "INT"})
                           \/ (c = "digit" /\ s = "FLOAT")
      /\ "S2" \in K <=> (c = "exponent" /\ s = "FLOAT")
      /\ "EXPONENT" \in K <=> (c = "sign" /\ s = "S2")
      /\ "SCIENTIFIC" \in K <=> (c = "digit" /\ s \in {"EXPONENT", "SCIENTIFIC"})
  BY LongerKinds
<1>2. \A k \in K : k \in {"START", "INVALID", "S1", "S2", "INT", "FLOAT", "EXPONENT",
                         "SCIENTIFIC"}
  BY LongerKinds, StatesAre
<1>3. s \in {"START", "S1", "S2", "INT", "FLOAT", "EXPONENT", "SCIENTIFIC"}
  BY StatesAre
<1> HIDE DEF K
<1>4. CASE s = "START"
  <2>1. NextState[s] = [digit |-> "INT", sign |-> "S1", point |-> "FLOAT"]
    BY <1>4 DEF NextState
  <2> QED
    BY <1>1, <1>2, <1>4, <2>1 DEF Classes, K
<1>5. CASE s \in {"S1", "INT"}
  <2>1. NextState[s] = [digit |-> "INT", point |-> "FLOAT"]
    BY <1>5 DEF NextState
  <2> QED
    BY <1>1, <1>2, <1>5, <2>1 DEF Classes, K
<1>6. CASE s = "FLOAT"
  <2>1. NextState[s] = [digit |-> "FLOAT", exponent |-> "S2"]
    BY <1>6 DEF NextState
  <2> QED
    BY <1>1, <1>2, <1>6, <2>1 DEF Classes, K
<1>7. CASE s = "S2"
  <2>1. NextState[s] = [sign |-> "EXPONENT"]
    BY <1>7 DEF NextState
  <2> QED
    BY <1>1, <1>2, <1>7, <2>1 DEF Classes, K
<1>8. CASE s \in {"EXPONENT", "SCIENTIFIC"}
  <2>1. NextState[s] = [digit |-> "SCIENTIFIC"]
    BY <1>8 DEF NextState
  <2> QED
    BY <1>1, <1>2, <1>8, <2>1 DEF Classes, K
<1> QED
  BY <1>3, <1>4, <1>5, <1>6, <1>7, <1>8

(* A token, which is the characters from p on and before e, is of kind s;  *)
(* or invalid, but only with its last character.                           *)
Word(p, e) == [i \in 1 .. e - p |-> Class(At(p + i - 1))]
Explained(p, e, s) ==
  IF s = "INVALID"
    THEN /\ Kinds(Word(p, e)) = {}
         /\ Kinds(SubSeq(Word(p, e), 1, Len(Word(p, e)) - 1)) # {}
    ELSE Kinds(Word(p, e)) = {s}

LEMMA EmptyWord ==
  ASSUME NEW p \in Nat
  PROVE  Explained(p, p, "START")
<1>1. Word(p, p) = <<>>
  BY DEF Word
<1>2. ~ AllDigits(<<>>) \/ Unsigned(<<>>) = <<>>
  BY DEF Unsigned
<1>3. Unsigned(<<>>) = <<>> /\ Len(<<>>) = 0
  BY DEF Unsigned
<1>4. ~ IsInt(<<>>) /\ ~ IsFloat(<<>>)
  BY <1>3 DEF IsInt, IsFloat, Split
<1>5. ~ Scaled(<<>>, <<>>) /\ ~ Scaled(<<>>, <<"sign">>) /\ ~ IsScientific(<<>>)
  BY <1>3 DEF Scaled, IsScientific
<1>6. <<>> # <<"sign">>
  OBVIOUS
<1>7. Kinds(<<>>) = {"START"}
  <2>1. /\ "START" \in Kinds(<<>>) /\ "S1" \notin Kinds(<<>>)
        /\ "INT" \notin Kinds(<<>>) /\ "FLOAT" \notin Kinds(<<>>)
        /\ "S2" \notin Kinds(<<>>) /\ "EXPONENT" \notin Kinds(<<>>)
        /\ "SCIENTIFIC" \notin Kinds(<<>>) /\ "INVALID" \notin Kinds(<<>>)
    BY <1>4, <1>5, <1>6, KindsAre
  <2>2. \A k \in Kinds(<<>>) : k \in {"START", "INVALID", "S1", "S2", "INT", "FLOAT",
                                     "EXPONENT", "SCIENTIFIC"}
    BY KindsAre, StatesAre
  <2> QED
    BY <2>1, <2>2
<1> QED
  BY <1>1, <1>7 DEF Explained

LEMMA NextExplained ==
  ASSUME NEW p \in Nat, NEW e \in Nat, p <= e, NEW s \in StateSet \ {"INVALID"},
         Explained(p, e, s)
  PROVE  Explained(p, e + 1, After(s, At(e)))
<1> DEFINE w == Word(p, e)
           c == Class(At(e))
           v == Word(p, e + 1)
<1>1. \A x : Class(x) \in Classes
  BY DEF Class, Classes
<1>2. w \in ClassSeqs /\ Len(w) = e - p /\ v \in ClassSeqs /\ Len(v) = e - p + 1
  <2>1. e - p \in Nat /\ e + 1 - p = e - p + 1
    OBVIOUS
  <2> QED
    BY <1>1, <2>1 DEF Word, ClassSeqs
<1>3. v = Append(w, c)
  <2>1. /\ Append(w, c) \in ClassSeqs /\ Len(Append(w, c)) = e - p + 1
        /\ Append(w, c)[e - p + 1] = c
        /\ \A i \in 1 .. e - p : Append(w, c)[i] = w[i]
    <3>1. c \in Classes
      BY <1>1
    <3> HIDE DEF w, c
    <3>2. /\ Append(w, c) \in ClassSeqs /\ Len(Append(w, c)) = Len(w) + 1
          /\ Append(w, c)[Len(w) + 1] = c
          /\ \A i \in 1 .. Len(w) : Append(w, c)[i] = w[i]
      BY <1>2, <3>1, LongerWord
    <3> QED
      BY <1>2, <3>2
  <2>2. \A i \in 1 .. e - p : v[i] = Class(At(p + i - 1)) /\ w[i] = Class(At(p + i - 1))
    BY DEF Word
  <2>3. v[e - p + 1] = c
    <3>1. e - p + 1 \in 1 .. e + 1 - p /\ p + (e - p + 1) - 1 = e
      OBVIOUS
    <3> QED
      BY <3>1 DEF Word
  <2> DEFINE z == Append(w, c)
  <2> HIDE DEF v, w, c, z
  <2>4. \A i \in 1 .. e - p + 1 : v[i] = z[i]
    <3>1. \A i \in 1 .. e - p + 1 : i \in 1 .. e - p \/ i = e - p + 1
      OBVIOUS
    <3> QED
      BY <2>1, <2>2, <2>3, <3>1 DEF z
  <2>5. z \in ClassSeqs /\ Len(z) = e - p + 1
    BY <2>1 DEF z
  <2> QED
    BY <1>2, <2>4, <2>5, SeqEqual DEF ClassSeqs, z
<1>4. Kinds(w) = {s}
  BY DEF Explained
<1>5. c \in Classes
  BY <1>1
<1>6. SubSeq(v, 1, Len(v) - 1) = w
  <2> HIDE DEF v, w, c
  <2>1. Len(v) - 1 = Len(w)
    BY <1>2
  <2>2. SubSeq(Append(w, c), 1, Len(w)) = w
    BY <1>2, <1>5, LongerWord
  <2> QED
    BY <1>3, <2>1, <2>2
<1>7. After(s, At(e)) = IF c \in DOMAIN NextState[s] THEN NextState[s][c] ELSE "INVALID"
  BY DEF After
<1> HIDE DEF w, c, v
<1>8. Kinds(v) = IF c \in DOMAIN NextState[s] THEN {NextState[s][c]} ELSE {}
  BY <1>2, <1>3, <1>4, <1>5, MachineFollows
<1>9. "INVALID" \notin Kinds(v)
  BY KindsAre
<1> QED
  BY <1>4, <1>6, <1>7, <1>8, <1>9 DEF Explained, v

(* The token that core_state_transition reads.                             *)
LEMMA TokenExplained ==
  ASSUME IsFiniteSet(DOMAIN state_mem), NEW p \in Nat, NEW counts \in CountType,
         NEW t, t = core_state_transition(p, counts)
  PROVE  Explained(p, t.end, t.state)
<1> DEFINE R == {x \in Running \X Results :
                   Explained(p, x[1][1], x[1][2]) /\ p <= x[1][1]
                     => Explained(p, x[2].end, x[2].state)}
           start == <<p, "START", counts>>
<1>1. ASSUME NEW at \in Running PROVE <<at, Halted(at)>> \in R
  <2>1. Halted(at).end = at[1] /\ Halted(at).state = at[2] /\ Halted(at) \in Results
    BY DEF Halted, Results
  <2> QED
    BY <2>1
<1>2. ASSUME NEW at \in Running, NEW u \in Results, ~ Halts(at), <<Moved(at), u>> \in R
      PROVE  <<at, u>> \in R
  <2>1. at[1] \in Nat /\ at[2] \in StateSet \ {"INVALID"}
    BY <1>2 DEF Running, Halts
  <2>2. Moved(at)[1] = at[1] + 1 /\ Moved(at)[2] = After(at[2], At(at[1]))
    BY DEF Moved
  <2>3. ASSUME Explained(p, at[1], at[2]), p <= at[1]
        PROVE  Explained(p, u.end, u.state)
    <3>1. Explained(p, Moved(at)[1], Moved(at)[2]) /\ p <= Moved(at)[1]
      BY <2>1, <2>2, <2>3, NextExplained
    <3> QED
      BY <1>2, <3>1
  <2> QED
    BY <2>3
<1>3. <<start, t>> \in R
  <2> HIDE DEF R
  <2> QED
    BY <1>1, <1>2, TokenInduction
<1>4. start[1] = p /\ start[2] = "START"
  OBVIOUS
<1> HIDE DEF start
<1>5. Explained(p, start[1], start[2]) /\ p <= start[1]
  BY <1>4, EmptyWord
<1> QED
  BY <1>3, <1>5

(* core_state_transition classifies the tokens of every string, that of    *)
(* the benchmark and the corrupted one (core_state.c:217-330): it ends in  *)
(* the one state whose kind the characters make up, and is invalid only    *)
(* with the first character with which no kind of token could go on.       *)
ExplainedToken == scan.p # 0 => Explained(scan.token.first, scan.token.end, scan.token.state)
THEOREM TokensAreClassified == Spec => []Classified
<1>1. ExplainedToken => Classified
  BY DEF ExplainedToken, Classified, Explained, Word
<1>2. Init => ScanTypes /\ ExplainedToken
  BY InitScan DEF Init, ExplainedToken, NoScan
<1>3. ScanTypes /\ ExplainedToken /\ [Next]_vars => ScanTypes' /\ ExplainedToken'
  <2> SUFFICES ASSUME ScanTypes, ExplainedToken, [Next]_vars
               PROVE  ScanTypes' /\ ExplainedToken'
    OBVIOUS
  <2>1. CASE ScanToken
    <3>1. PICK p, t : p = scan.p /\ t = core_state_transition(scan.p, scan.track)
      OBVIOUS
    <3>2. /\ UNCHANGED state_mem
          /\ scan'.token = [first |-> p, end |-> t.end, state |-> t.state]
      BY <2>1, <3>1, TokenMoves
    <3>3. Explained(p, t.end, t.state)
      BY <3>1, TokenExplained DEF ScanTypes
    <3>4. PICK e, s : e = t.end /\ s = t.state
      OBVIOUS
    <3>5. Explained(p, e, s)'
      BY <3>2, <3>3, <3>4 DEF Explained, Word, At
    <3> QED
      BY <3>2, <3>4, <3>5, ScanTyped DEF ExplainedToken
  <2>2. CASE Rewinds
    BY <2>2, ScanTyped DEF Rewinds, ExplainedToken
  <2>3. CASE UNCHANGED <<scan, state_mem>>
    BY <2>3, ScanTyped DEF ExplainedToken, Explained, Word, At
  <2> QED
    BY <2>1, <2>2, <2>3, ScanMoves DEF ScanTypes
<1> QED
  BY <1>1, <1>2, <1>3, PTL DEF Spec
=============================================================================
