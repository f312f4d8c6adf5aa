# A verification project for the riscv-optimize SoC

The repository holds a RISC-V (RV32IM and parts of Zb*, machine mode only)
processor in SystemVerilog, the small SoC around it, and the bare-metal
programs that run on the board, CoreMark among them. This project models the
parts whose *control* is hard to test: the pipeline with its hazards, redirects
and traps, the instruction queue of the dual-issue front end, the interrupt
controller, the timer and the serial port, the board programs that drive them by
polling and by interrupts, and the algorithms of CoreMark, which change their data
in place and undo the change. TLC checks the models on small instances; TLAPS
proves the invariants for every instance.

All the modelled hardware has one clock. In every hardware module **one step is one
rising clock edge**: all registers change together, and the wires are operators
over the current state. What the environment may do in the cycle (a bus access,
an interrupt line, what the instruction memory returns) is chosen with `\E`. A
program composed with hardware makes at most one of its steps in a cycle;
CoreMark, which is alone, has no clock and takes one step for each operation.

Contents: 1 inventory, 2 modules and code, 3 runs, 4 fairness, 5 what is proved,
6 what is only model-checked, 7 findings, 8 not modelled, 9 plan.

## 1. Inventory

Paths are under `src/`.

| component | sources | state it keeps | operations | talks to |
|---|---|---|---|---|
| pipeline | `rtl/cpu_top/{cpu_top,if_stage,id_stage,exe_stage,mem_stage,wb_stage}.sv`, `hazard_unit.sv`, `forwarding_unit.sv`, `regfiles.sv`, `branch_controller.sv` | a valid bit, a bus register and a flush bit for each stage, `prev_load`, the pending redirect, 31 registers | one clock edge | instruction and data memory, CSRs, interrupt line |
| traps and CSRs | `regfile_csr.sv`, trap part of `mem_stage.sv` | mstatus, mepc, mcause, mtval, mtvec, `prev_exception_flag`, counters | trap entry, mret, CSR write | MEM (write, trap), ID (read) |
| branch predictor | table in `if_stage.sv`, update in `branch_controller.sv` | tag, target and counter of each entry | look-up in IF, update from EX | IF, EX |
| decoder, ALU | `decode_unit.sv`, `alu_wrapper.sv` | none | pure functions | ID, EX |
| multiplier and divider | `mul.sv`, `divider.sv` | progress and partial results | start, step, done | EX (`mul_stall`) |
| instruction queue | `instr_queue.sv` | entries with valid bits, head, tail, count | push 0..2, pop 0..2, flush | IF, ID |
| dual-issue front end, lane 1 | `issue_select.sv`, `exe_lane_simple.sv`, `write_port_arbiter.sv` and `ifdef`s in the stages | a second slot in each stage | pair, issue, squash | queue, ID, WB |
| interrupt controller | `rtl/my_cpu/PLIC.sv` | priority, pending, enable, threshold, in-service, registered claim | claim, complete, register writes, sampling of lines | bridge, all devices, MEM |
| timer | `rtl/my_cpu/timer.sv` | load, value, control, prescaler and its counter, wait flag, interrupt | register writes, countdown, expiry | bridge, PLIC |
| UART | `rtl/my_cpu/UART.sv` | control word, two ring buffers, two bit engines, registered status flags, overflow flag | read and write of data, status and control, soft reset, end of a bit, start of a frame | bridge, PLIC (levels `tx_int`, `rx_int`), serial lines |
| bridge, IO, SoC | `rtl/my_cpu/{bridge,IO,my_cpu}.sv` | registered return path | decode, pass on | processor, devices |
| timer program | `board_tests/02_timer_irq`, `platform/my_cpu_mmio.h` | an interrupt count | set-up, wfi loop, handler | timer, PLIC |
| UART programs | `board_tests/03_uart_tx_irq`, `04_uart_rx_irq`, `uart_puts` of `05_coremark` | `g_tx_idx`, `g_tx_done`, the character in hand | set-up, first character, wfi loop, handler, polling | UART, PLIC |
| LED program, old board tests | `board_tests/01_led_shift`, `board_test_legacy` | a pattern | delay loop; older copies of the others | LED register |
| CoreMark port | `board_tests/05_coremark/src` | list cells and their data in a memory block, two matrices, a string, checksums, the timing | initialise, calibrate, iterate (find, reverse, sort, remove, undo; matrix products; scan, corrupt, undo), compare, report | timer (time), UART (report) |
| test benches, scripts | `test`, `scripts`, `docs/mem_tools` | none | drive or build the design | |

### What is hard here

* **Stages that overlap.** An instruction's operand is picked a cycle before it
  is used, from one of four places; each of them may be a bubble, flushed or
  stalled. Several wires out of EX are not gated by its valid bit.
* **Redirects from two places.** A misprediction is found in EX and squashes two
  younger slots in two ways; a trap, interrupt or mret is found in MEM and
  flushes three. Both may meet each other and a stall. Both are pulses.
* **An interrupt may meet any mix of instructions.**
* **Registered selections.** The interrupt controller answers a claim with what
  was best a cycle ago. The timer's expiry meets bus writes.
* **Hardware and handler together.** Level interrupts stay high while the
  handler runs; the handler's order of clear and complete decides whether an
  interrupt is lost or served twice.
* **Flags a cycle late.** The serial port registers its status and interrupt
  flags a cycle after its buffers; programs decide on them some cycles later
  still, while characters arrive.
* **In-place algorithms that undo themselves.** CoreMark is only valid when each
  iteration leaves list, matrix and string exactly as it found them.
* **No crashes, nothing persisted, no messages.** There is no recovery and no
  unreliable channel other than the serial line, which has no retries.

`PROJECT.json` lists every hazard with its line and the properties that cover
it. What makes each component correct:

* pipeline: the instructions that take effect are the program's, in order, each
  with the operands a sequential machine would have given it; traps are
  precise; the handshakes never block.
* traps and CSRs: a trap is entered once and keeps what mret needs; a CSR
  instruction rewrites the value of its moment.
* queue: a bounded FIFO under any mix of pushes, pops and flushes.
* controller: no request lost, none served twice, the best one first.
* timer: an armed timer expires; one that waits for its handler is heard.
* timer program: one handler run for each expiry, for ever.
* UART and programs: between `write` and the line, and between the line and
  `read`, no character is lost, doubled or overtaken unless the overflow flag is
  up; every text gets out; nobody waits for an interrupt that does not come.
* CoreMark: no cell lost, sorts that are sorted and stable, blocks within their
  memory, every iteration the same, known checksums, honest timing.

## 2. Modules and code

| module | what it is |
|---|---|
| `Pipeline` | the single-issue pipeline (the configuration this commit builds: neither `DUAL_ISSUE_ENABLE` nor `DUAL_ISSUE_COMMIT_ENABLE` is defined) with its trap logic; implements `Hart` |
| `Hart` | abstract: a processor that executes one instruction after the other, with traps, interrupts and mret |
| `PipelineProofs` | the pipeline's inductive invariants; theorems on operands, registers and program order, on traps and mstatus, and that it implements `Hart` |
| `Fifo` | abstract: a bounded sequence with double push and double pop; the instruction queue and the serial port's buffers implement it |
| `InstrQueue` | `instr_queue.sv`; implements `Fifo` |
| `InstrQueueProofs` | ring invariant and refinement |
| `Gateway` | abstract: waiting and serving requests of an interrupt controller |
| `Plic` | `PLIC.sv`; implements `Gateway` |
| `PlicProofs` | types, refinement, best claim |
| `Orders` | lemmas: a nonempty bounded set of naturals has a least and a greatest element; induction over a set of naturals; a recursion has a solution; orders of n cells, and how a merge sort makes one |
| `Timer`, `TimerProofs` | `timer.sv` and its invariants |
| `TimerIrq` | `Timer`, `Plic` and `board_tests/02_timer_irq/main.c` composed |
| `TimerIrqProofs` | its invariant over program and devices; one handler run for each expiry |
| `Uart` | `UART.sv`: buffers, bit engines, flags, interrupts |
| `UartPrograms` | `Uart`, `Plic` and one of three programs: `03_uart_tx_irq`, `04_uart_rx_irq`, `uart_puts` |
| `UartProofs` | its invariants; type correctness, conservation, room for every write, the echo, bursts, the two printed texts; the port on its own implements two `Fifo`s |
| `Crc` | `core_util.c`: the checksum |
| `CoreState` | `core_state.c`: the string and the machine that classifies its tokens |
| `CoreMatrix` | `core_matrix.c`: set-up and the matrix test |
| `ListHeap` | the linked-list operations of `core_list_join.c` on pointers |
| `CoreList` | `core_list_join.c`: set-up, benchmark loop, merge sort, cached results; uses the three above |
| `CoreMark` | `core_main.c` and `core_portme.c`: calibration, iterations, time, comparison |
| `CoreMarkProofs` | the invariants of its timing, of the blocks that undo themselves, of the list and its sort, and of the string machine |
| `MC*` | instances for TLC; one `.cfg` for each run |

Operators that begin with `Mut` are faulty versions of the definition that
follows them. Nothing uses them; they say which slip of the code the properties
would notice (`PROJECT.json`, "mutants").

### Pipeline

`ifs`, `ids`, `exs`, `mem`, `wb` are the registers of the five stages, one
record for each; `mul_left` is the progress of the multiplier, `csr` the trap
state. The wires keep the source's names (`fs_allowin`, `exe_load_use`,
`br_redirect`, `exception_flag`, `mem_regfile_wen`, ...). `Clock` is the
edge: `FetchEdge`, `DecodeEdge`, `ExecuteEdge`, `MemoryEdge`, `WritebackEdge`
and `CsrEdge` are the `always_ff` blocks of one stage each.

Abstractions, each of them a superset of what the code can do unless it says
otherwise:

* The program is arbitrary. At every fetch any instruction of the classes in
  `Ops` may come out of memory, also a different one at the same pc.
* The prediction of a jump is arbitrary, which stands for every content of the
  predictor's table. The table is indexed and tagged by the full pc, so that
  only a jump can be predicted taken, the misaligned one (`iam`) among them. A squashed
  slot's prediction still moves the pc and is modelled.
* An instruction has one source register: the two operand paths of
  `hazard_unit` are copies of each other.
* What the ALU, the multiplier or memory yields is any of `Values`. `OperandsCurrent`
  and `RegistersCommitted` compare values, so two values tell a stale one from a
  current one.
* A multi-cycle operation stalls for 1 to `MaxStall` cycles.
* `lam`, `sam`, `iam` are a misaligned load, store and jump (found in MEM);
  `ecall` stands for every exception found in ID. `sei`, `cli`, `spi` are CSR instructions on
  mstatus: the first two in the immediate form (`csrrsi`, `csrrci` of MIE), `spi` in the form
  with a source register, whose set bits no immediate reaches. Only MIE and MPIE of
  mstatus are kept, and a CSR instruction's old value in `rd` is left out. *This is a restriction*: `csrr` into a register, as the handlers
  do with mcause, is outside the model.
* `jal` is the jump without a source register and `jalr` the one with.
* `mie.MEIE` is set, so that `mstatus.MIE` alone gates the interrupt.
* Data memory is left out: a load yields any value, and only the cycle of a
  store's write is a question (`store_trapped`).

Three ghost variables are a sequential machine that follows what leaves MEM:
`arch_pc`, `arch_reg` and `entered`. They are functions of what
the pipeline does and never feed back into it.

`ImplementsHart` does without them. `Hart` has a pc, registers and the trap state, and
each of its steps executes, faults or interrupts one instruction; its values are read off
the stages. `NextPC` is the pc of the oldest instruction of the program among MEM, EX and
ID, or what fetch turns to if there is none; `Committed` is the register file under the
write-back register; mstatus and mepc are themselves. A clock edge
is one step of `Hart` if MEM holds an instruction of the program, and otherwise a stutter: a bubble, a
squashed slot or a stall cannot be told from the outside. `Hart` does not know the program,
so it says what each class of instruction may change, not which value it computes; that the
operands are the right ones is `OperandsCurrent`.

### InstrQueue, Plic, Timer

These are translated register for register. Details kept because properties
depend on them: the last non-blocking assignment wins in the queue; the pushes
are counted against the count *after* the pops; the controller registers its
selection; a claim takes the registered one; a bus write to the timer, also one
that changes nothing, takes the place of that cycle's countdown; the prescaler
runs in every cycle. Left out: reads of the timer (they load `rdata` only), and
the value of reads of the controller other than claim (`OtherData`).

`Fifo` does not see what was offered, so it says nothing of an item the queue
refused; that a push is only refused when the queue is full is the guard of
`do_push0` and `do_push1` and is not a property.

The three-bit pointers and count of the queue are natural numbers in the
model; that they never leave their range, so that nothing wraps, is `TypeOK` and a theorem.

### TimerIrq

`P == INSTANCE Plic`, `T == INSTANCE Timer`: in every step both take one clock
edge, and the program either makes its next step (one action for each bus
access or branch of `main` and `trap_handler`) or does not get to it (`Stall`).
The program is external to the two devices but is translated from `main.c`. The
interrupt is taken in the `wfi` loop only, because the trap clears MIE.
`unserved` is a ghost counter of expiries the handler has not counted, clamped
to -1..2 so that a violation is visible and the state space is finite.

### Uart

`tx` and `rx` are records of one half each: ring buffer, head, tail, count, state
of the bit engine, bit index, and the character in the shift register. One `Clock`
is one edge of the `always_ff` block, with at most one bus access. `Status` are
the flags that will be registered at this edge (`UART.sv:350`); reads and
interrupt lines see `flags`, the registered ones. A push into a full ring buffer
is dropped and sets `overflow_error` (`Kept`), also when a pop in the same cycle makes room.

* A frame carries one character and is not split into bits, but takes as many
  bit times as in the code. The baud counters are the nondeterminism of the
  ticks: a bit time of either side ends in any cycle, subject to what
  `UartPrograms` says of it. The synchroniser registers of the line only delay it
  and are left out, and a stop bit is always high: the line is taken to be clean.
* The baud register, the external tick input and the read-back of registers other than
  data and status are left out.
* No program of the repository uses the soft reset or clears the overflow flag. Both are in
  `Clock`, and no run exercises them; the theorem `PortBuffersAreFifos` covers them.

### UartPrograms

One variable `program` says which of the three programs runs. All three send
in the same way (`PollStatus`, `CheckStatus`, `WriteChar`), and `03` and `04`
share their set-up and their handler's frame, as they do in the source. In every
cycle both devices take an edge.

* *Time.* A bit lasts 1520 cycles; the longest path of a program between two
  places where it waits (the `wfi` loop, or the poll for room) is far shorter.
  `ticked` therefore allows each side one end of a bit between two waits, and a
  program in `wfi` waits only once no interrupt is on its way (`Called`). The
  order of bit ends and program steps is otherwise free. This restricts
  behaviours to those that 115200 baud on this clock can show.
* The program is stalled only where it waits. More stalls change nothing that
  the free bit ends do not.
* Between the write of a character and the next read of the status register
  there is at least one instruction: in the linked program the loop's jump
  (`coremark.dump`, 80002a2c and 80002a18) or the handler's exit. `NextChar` is that
  instruction. Without it the flag would still be that of before the write; the
  one place where the compiler put the read directly behind a write (in `uart_putnum`,
  800027c8) is reached for a digit that is a newline, so never.
* `arriving` is what the other side will send; it starts when the port is on.
  The interrupt is enabled in `main` from `csr` on and taken in any of its
  steps from there, the final loop of `03` included. LED writes are left out.
* Ghosts: `written` (taken in by the transmitter), `sent` (frames completed),
  `arrived` (frames received), `taken` (read by the program).

### CoreMark

Here the data *is* the question (checksums, orders, positions), so that the
algorithms are translated to operators on numbers and pointers. `ListHeap` has a
heap `h` with `h.next` and `h.info`; the values that `info` points to are in
`data`. A step of `CoreList` is one turn of a loop: one item inserted, one
find with its reversal, one element of a merge with its comparison. `calc_func`,
which the comparison calls, may run the whole state benchmark; it then waits
(`calc`) while `CoreState` scans its string token by token, and stores its result
in the data's low byte. The matrix benchmark is a function of the matrix, and is
evaluated in one step. The functions of a checksum and of the matrices are
recursive functions (`Loop`) because each element depends on the one before; the
searches along the list and the string recurse over the number of steps left, of which there
are at most as many as cells or bytes. Recursive operators could not be proved about.

* A configuration is what `main` gets: three seeds, the bytes, the number of
  iterations (0: `main` finds it), and `cost`, the time of one iteration.
* Time only passes at the end of an iteration, and is counted in 10^6 ticks of
  the 32-bit down-counter. The counter's reload (period 2^32 - 1 in the code, if
  it is loaded with the largest word) is taken as 2^32, a difference of one tick in each turn.
* 16-bit numbers wrap (`u16`, `s16`) where the code's types do; 32-bit products
  stay below 2^31 for these sizes.
* Left out: the formatting of the report (`ee_printf`), the performance counters
  read around it, and what this port switches off (threads, other memory
  methods, command line).

## 3. Runs

Runs that pass:

| run | properties | bounds and why they are enough |
|---|---|---|
| `instr_queue` | `TypeOK`, `RingInv`, `ImplementsFifo` | the real depth 4, three payloads, every mix of pushes, pops and flushes: the whole control of the real queue |
| `data` | `TypeOK`, `OperandsCurrent`, `RegistersCommitted`, `BubbleRepeatsLoad`, `Progress` | x0 and one other register, two values, loads, multi-cycle operations and jumps in one program: every forwarding path, the load-use stall, both under a multi-cycle stall, and squashing by a redirect. The pc matters to none of these, so that one is enough. `Progress` under the clock's fairness |
| `trap` | `InOrder`, `CsrCurrent`, `SavedInterruptEnable`, `RedirectOnce`, `InterruptPrecise`, `ImplementsHart` | exceptions, interrupts, three kinds of mstatus writes, loads with load-use stalls, three pcs: the right one, a wrong one and the handler's. No jumps (finding 1), no misaligned loads and no multi-cycle operations (findings 2 and 3), no mret (it does not nest, section 7, and the instance grows too large with it; `InOrder` and `ImplementsHart` with them are theorems). One value in the registers: the question of this run is pcs and mstatus, `data` has the registers |
| `plic` | `TypeOK`, `ImplementsGateway`, `BestClaim` | two real sources and the missing source 0, priorities 0..2 with every threshold: ties, masking and outranking all happen |
| `timer` | `TypeOK`, `WaitIsHeard`, `Expires` | load and prescaler 0..2: expiry, reload, lowering the prescaler under its counter, a countdown without one |
| `timer_irq` | `ServedOnce`, `KeepsTicking` | periods 1, 2, 3, 7 and 100 cycles: shorter than, about as long as and much longer than the handler |
| `uart` | `TypeOK`, `Conserved`, `WriteFits`, `Printed`, `Echoed`, `BurstFits`, `Transmitted`, `Finishes` | buffers of two characters, frames of two data bits, all three programs. Printed texts and echoed bursts are longer than the buffers, one burst by so much that it overflows when the transmitter is slow. With the real 8 and 8 and bursts of 17 and 18 characters (336793 states) the same holds; that is not kept as a run |
| `coremark` | `TypeOK`, `NoCellLost`, `Sorted`, `Classified`, `BlocksFit`, `ListRestored`, `BlocksRestored`, `KnownResults`, `Timed`, `Terminates` | the real 2000-byte performance and validation runs and the 1200-byte profile run, whose checksums the program knows; many small ones (lists of three and eight items, every pattern of the string, every value of a seed's low four bits); and calibration with iterations from 0.1 to 1.4 s. 63992 states |

Runs that end with a counterexample show one disagreement each between the code
and what the repository says of it: `irq_wrong_path`, `lost_redirect`,
`trap_twice`, `store_trapped` (section 7).

Every property of a passing run has a mutant, a plausible slip in the code
that the same run finds.

The pipeline runs are separate because their product is too large for TLC: each
takes the instruction classes whose interplay its question is about. The
theorems of section 5 cover all classes together, except where they name
an assumption.

The hardware never stops: in every hardware module some step is always enabled,
and deadlock is checked. `coremark` ends, and does not check it.

## 4. Fairness

* `MCPipeline!FairSpec` (`WF_vars(Tick)`) and `Timer!FairSpec` (`WF_vars(Run)`): the clock keeps
  running. `Run` is a clock edge without a write: nothing demands that the program writes to
  the timer ever again, so a timer that has come to rest is a fair behaviour. `Tick` is `Next` with its choices in an order that TLC evaluates
  faster. Nothing is assumed of which instruction, outcome or line comes.
* `TimerIrq!Spec`: the clock keeps running and `WF_vars(Program)`: the program is not
  stalled for ever. `Progress` of the pipeline is the reason: instructions of
  the program keep reaching MEM. The weak fairness of `TakeInterrupt` inside it
  says that an interrupt line that stays high in the `wfi` loop is taken some
  time; the line does stay high, because nothing else lowers it.
* `UartPrograms!Spec`: the same two, and `WF_vars(TxBit)`, `WF_vars(RxBit)`: a bit
  that is being sent or received ends. The baud counters count whenever the
  engine is not idle.
* `CoreMark!Spec`: `WF_vars(Next)`, the program runs on.
* `Timer!Expires` has its own premise `<>[][Run]_vars`: from some time on the
  program does not write to the timer. Each write takes the place of a
  countdown, so that without it a program could hold the timer up for ever. What it
  then demands is of every prescaler, none and 0 among them: a timer that is switched on
  and counting raises its interrupt, unless one of the writes before switches it off.

## 5. What is proved

For all values of the constants under the named `ASSUME`s of the modules. The
assumptions only say that the sets and bounds make sense (a register file
with x0, at least one pc, a non-negative bound). The exception is the queue's depth, at
most 7 because of the three-bit count.

| theorem | states |
|---|---|
| `InstrQueueProofs!TypeCorrect`, `RingHolds`, `QueueIsFifo` | `TypeOK`, `RingInv`, `ImplementsFifo` |
| `PipelineProofs!TypeCorrect`, `CommittedInOrder`, `BubblesAreQuiet` | `TypeOK`, `RegistersCommitted`, `BubbleRepeatsLoad`, without assumptions on the program |
| `PipelineProofs!OperandsAlwaysCurrent`, `ProgramOrder`, `PreciseWithoutJumps` | `OperandsCurrent`, `InOrder`, `InterruptPrecise`, with `NoTrapBeforeMul` (the last also without jumps) |
| `PipelineProofs!TrapsAreEnteredOnce`, `SavedEnableIsKept` | `RedirectOnce`, `SavedInterruptEnable`, with `NoTrapTwice` (`NoTrapBeforeMul` and no misaligned loads) |
| `PipelineProofs!CsrAlwaysCurrent` | `CsrCurrent`, with `NoTrapBeforeMul` and without mret |
| `PipelineProofs!PipelineImplementsHart` | `ImplementsHart` for every program, as long as it stays `Undisturbed` |
| `PipelineProofs!OnlyTheFindings` | the same for `OperandsCurrent`, `InOrder`, `InterruptPrecise`, `CsrCurrent` and `SavedInterruptEnable`, each with the one or two conjuncts of `Undisturbed` it needs |
| `PipelineProofs!TheseProgramsRun` | `ImplementsHart`, with `OneAtATime` (`NoTrapTwice`; no interrupts or no jumps; no mret or no CSR instructions) |
| `PlicProofs!TypeCorrect`, `ClaimIsBest`, `ControllerIsGateway` | `TypeOK`, `BestClaim`, `ImplementsGateway` |
| `TimerProofs!TypeCorrect`, `WaitIsAlwaysHeard` | `TypeOK`, `WaitIsHeard` |
| `TimerIrqProofs!ServedOnceAlways` | `ServedOnce`, for every set of periods |
| `UartProofs!TypeCorrect`, `NothingLost`, `RoomForEveryWrite`, `EchoedOnce` | `TypeOK`, `Conserved`, `WriteFits`, `Echoed`, for every depth, character length and set of texts |
| `UartProofs!BurstArrives`, `TextTransmitted`, `TextPrinted` | `BurstFits`, `Transmitted`, `Printed`, for the same; `Transmitted` for texts of more than one character (section 7) |
| `UartProofs!PortBuffersAreFifos` | the port without a program, under every sequence of accesses, soft resets included: its types, and that each of its buffers implements `Fifo` |
| `CoreMarkProofs!TimeMeasured` | `Timed`, with `ShortRuns` |
| `CoreMarkProofs!BlocksAreRestored` | `BlocksRestored`, with `CanUndo` of every input |
| `CoreMarkProofs!TypesAreKept`, `SortsAreStable`, `CellsAreKept` | `TypeOK`, `Sorted`, `NoCellLost`, with `HeadFirst` of every input |
| `CoreMarkProofs!ListIsRestored` | `ListRestored`, with `HeadFirst` and `Distinct` |
| `CoreMarkProofs!BlocksHaveRoom` | `BlocksFit`, with `CanUndo` and `Roomy` |
| `CoreMarkProofs!TokensAreClassified` | `Classified`, for every input and every string |

**Pipeline.** The properties are not inductive by themselves. `IInv` adds three
things. `FillInv`: a stage that was never filled is empty, and so are those behind it,
so that a bubble in EX is either the reset pattern or made by the load-use
stall. `PrevLoadInv`: `prev_load` describes the instruction in EX whenever ID
holds a valid one. `CodeInv`: the exception code in EX and MEM belongs to the
instruction beside it. With these `BubbleRepeatsLoad` is inductive (EX only becomes a bubble
behind a load that moves to MEM while its user stays in ID; in the next cycle the user moves on,
so that the bubble lasts one cycle) and so is `RegistersCommitted` (a write-back that
repeats itself writes the value that is there).

`OInv` adds `ExecuteOperand`: the operand in EX is what the register will hold
once the instruction in MEM has retired. The proof splits on which of the four
sources ID picked.

`PathInv` says where the program goes on, as each stage sees it: an unflushed
instruction in MEM is at `arch_pc`, one in EX is at `AfterMem`, one in ID at
`AfterExe`, and fetch is at `AfterDec`, unless a redirect is pending; then EX and ID
hold nothing live and the pending target is `AfterMem`. It is the invariant of
`ProgramOrder`, with `PredInv` (only a jump carries a prediction). A redirect or
a trap changes where the program goes on and squashes what is younger.
`PreciseWithoutJumps` adds `NoPlaceholders`: without jumps every valid unflushed
slot holds an instruction of the program.

`RedirectHeard` is the condition under which both invariants are inductive: no redirect of a trap or a return comes
while a multi-cycle operation stalls EX. `NoTrapBeforeMul` is an assumption on the program under which it always holds: no
multi-cycle operation, or neither interrupts nor instructions that trap or return. It is needed: findings 2
and 3 are violations without it. With interrupts, `InterruptPrecise` is only
proved for programs without jumps, because of finding 1.

**Traps.** What can go wrong is that MEM's registers outlive their instruction.
`LeftQuiet`: what MEM has left there when it is not valid neither traps nor returns.
It follows from `BubbleRepeatsLoad` (a bubble in EX has the load in MEM) and from the assumption that
those loads are not misaligned. It implies `RedirectOnce`, under which
`SavedInterruptEnable` is inductive. For `CsrCurrent`, `ExecuteCsr` says that the mstatus an instruction
in EX carries is what mstatus will be when the one in MEM is done, whichever of the
forwarding paths it came by; `FlushedNop` and `FlushedCsr` say that what was
flushed writes nothing.

**Pipeline and Hart.** The pipeline has defects, so it implements `Hart` only up to them. `Undisturbed` says
in terms of one state that none of them strikes: fetch hears every redirect (`RedirectHeard`, finding 2), none is made
twice (`RedirectOnce`, finding 3), an interrupt does not meet a placeholder (`InterruptOnPath`, finding 1), and no CSR
instruction is close behind an mret that finds no trap being served (`ReturnAlone`, section 7). `PipelineImplementsHart` is
`Spec /\ []Undisturbed => ImplementsHart`, for every program, with all instruction classes in it: these four are
*all* the ways in which pc, registers and mstatus differ from one instruction after the other (memory is not part of `Hart`:
that a store is not undone is finding 4). None can be
left out: TLC finds `ImplementsHart` violated without any one of them, and no violation with all four, in three instances with
`lam`, `sei`, `mret`, `mul`, `ecall`, with `load`, `sei`, `cli`, `mret`, `br`, and with `mul`, `spi`, `mret`, `jal`, `iam` (x0 and one
register, two pcs, interrupts; up to 319385 states; not kept as runs). `OnlyTheFindings` says of the single properties which of the four
each depends on. `TheseProgramsRun` and the theorems above it have an assumption on the program instead.

`HInv` joins the invariants above, all of them inductive under the conjunct named there. `StandsAt`: `NextPC`, which
knows only registers, is `arch_pc`; this is `PathInv` read from the oldest stage on. `Committed` is `arch_reg` by
`RegistersCommitted`. So a step of the stages is, for `Hart`, what the ghosts do in it, and `HartStep`
has one lemma for each kind: `ArchTrap`, `ArchReturn`, `ArchExecute`, `ArchIdle`. Three more
invariants are needed. `NextInv`: what MEM will go on with is the next pc unless the
instruction is a jump. `CarriedInv`: an unflushed ecall or mret still has its code in EX and MEM. `LeftCsr`: a CSR
instruction that has left MEM while its registers stay there writes the same mstatus again. `ActsWhenLive` then says that mstatus
and mepc only change for an instruction of the program, which is where `Undisturbed` is used.

**InstrQueue.** `IInv` is `TypeOK /\ RingInv`, inductive together. The refinement proof
computes `Contents'` for one edge: popped, then appended once or twice.

**Plic.** The registered claim makes the proof interesting. `ClaimBacked`: the id
prepared for a claim is waiting, or is in service because the cycle before
claimed it; then a second claim in a row changes nothing and is a stutter of
`Gateway`. `Exclusive`: no source waits while it is served. These with the
types are inductive; the lemmas on `Least` and `Greatest` (a nonempty set of
naturals has a least element) give `BestClaim`.

**Timer.** `TypeOK` and `WaitIsHeard` together are inductive.

**TimerIrq.** `IInv` joins the three: the timer waits exactly while its interrupt is
up; `unserved` is that interrupt until the handler has counted it; the controller
knows of no other source, has it pending only while it is up and not yet
claimed, and serves it from the claim to the completion. `PlicCycle` and
`TimerCycle` say what one edge of a device does under it; then one case for each
program step.

**UartPrograms.** The ring buffers are treated as queues: lemmas with `Wrap` in the place
of the remainder turn their pointer arithmetic into what a push and a pop do to `Buffered`. `IInv` adds
`FullKnown` (when the program has seen or is about to see room there is room: the flag may be a
cycle late, but only the program fills the buffer, and between its write and its next look
lies a cycle), `ReadsWhatIsThere` (the echo handler reads only when a
character is in the buffer, although flag, pending bit and
selection lag behind by one cycle each), and `Owing`, `Sending` and `Receiving`, which relate the
ghosts to the buffers and to the character in hand. TLC checked `IInv` too.
`PortStep`, `TransmitStep` and `ReceiveStep`, which these rest on, assume nothing of a
program. With `Exchanged` (a queue that gives its oldest character, takes one in, or
both, does what `Fifo` says) and `ResetHalf` they give `PortBuffersAreFifos` for the port
on its own: `PortInv`, types and ring arithmetic, is inductive under every access.

Three invariants stand on it, one for each program.

* *Bursts* (`Hearing`). The difficulty is that the transmitter may be arbitrarily slow while
  characters keep coming. `Prompt` says that the echo never leaves a character in the receiver
  while it could pass it on: whenever a character has been there since the program last
  waited, at most one bit has ended on the line, and the handler is on its way to it.
  `FullMeans` says that a program that sees a full buffer has written as many characters as
  fit. So the receiver can only fill up behind a full transmitter, and the burst would have to be
  longer than both and the character in hand (`FitsStep`). `Incoming` relates what has arrived
  to what the other side had to send. TLC checked all of it for depths 1 and 2 first.
* *The interrupt driven text* (`Telling`). `Text` says for each place of `main`, and for the
  handler called from it, which prefix of the text is written. `Requests` says what an
  interrupt request means: once the handler has sent something, a request that has not
  been answered finds the transmitter empty. It needs two exceptions. Between the
  handler's write and its completion the flag shows the cycle before, but then the
  source is in service and cannot ask. And a request from before `main`'s own write may come
  late; if the handler ran before that write, `Early` and `TxHolds` show that
  the transmitter is busy from there on, because at most one bit ends before `main` waits.
* *CoreMark's text* (`Printing`). `Shown(text, i)` is how many characters the first `i` become
  on the line. Between two calls the program has written the first `Shown(message, idx)` of
  the expanded text, and one more when it has just written a carriage return.
  `Expand` is not recursive for this proof's sake: a place on the line belongs to the
  first character of the text whose count reaches it (`OriginIs`, `Expanded`).

**CoreMark: time and blocks.** `TInv` is the invariant of the time. `Since` says that the clock has advanced by
the iterations done since `start_time`, whatever turn of the timer that was in; `PlanInv` that
the planned iterations take less than one turn (`TurnOnce`: then the difference of two
readings is the time between), and that a number `main` chose itself takes ten seconds or more
(`Factor`). `ShortRuns` is the assumption that a given number of iterations, or the ten of
the first try, take less than a turn of the timer, 24.5 s at 175 MHz; after a longer
run `main` cannot know the time. That `main`'s own choice stays below a turn is proved.

`RInv` is the invariant of the blocks: between two calls, matrix and string are what
`core_init_matrix` and `core_init_state` made (`BlocksInv`), while the string machine is
between its loops the string is the corrupted one, and it only runs while a comparison
of the sort waits for it (`ScanInv`). `MatrixRestored` needs that the elements are small
enough for adding a constant not to lose bits, and so the contents that
`core_init_matrix` gives them; `ChangedBack` that a corrupted character is found again.
`CanUndo` is the assumption that the seeds are equal, which `core_main.c:98` demands, and that
no corrupted character becomes a comma, which the code does not mention (section 7).
The run's inputs satisfy both (`MCCoreMark!InputsAssumption`).

The initial contents are recursive functions, which are `CHOOSE`n: that there is one
(`SeedsExist`, `TextExists`) and that it has the right type (`SeedNumbers`,
`TextType`) are inductions. The library's induction theorems cannot be used, because they
take a predicate as a parameter; `Orders!AllNumbers` takes a set instead,
and `Orders!RecursionExists` follows from it. `Xor8` is a sum of bits for this proof's sake.

**CoreMark: the list.** `CoreInv(s, m)` is said of an order `s` of the cells, of which a
sort has merged the first `m`; the theorems say that there always are such an `s` and `m`.

* The links. `ListInv(s)`: outside a sort the pointers lead through all of `s` and end; while an
  item is taken out (`pc` is `tail` or `undo`) they lead through all but the last of `s`, which is
  that one. `MergeInv(s, m)`: in the middle of a pass the links of the merged cells
  and of the two runs at `p` and `q` are those of `s`, although the end of each may point anywhere.
  Where runs begin and end (`SortParts`, `StartFacts`) is said with multiples of the run's length,
  so that the last, short run is no exception (`Orders`). Lemmas on `ListHeap` say what a reversal, an
  insertion, a removal, its undoing and a search do to an order, and that `Chain` meets the cells in it.
* The order. `OrderInv(s, m)` keeps two relations on cells: `Le`, those known to be in order, and
  `St`, those whose order may not change. A comparison may store a result in what it
  compares, so that keys change *during* a sort; `Settled` says from when on they do not. Merged
  cells are in order within the runs of the next pass, the others within those of this one. One run
  is then all of it, which is `Sorted`, stability included.
* The data. `HeapInv(s)`: each cell points to its own item, except that a removed one has swapped it
  with its neighbour. `DataInv`: the fake head has the smallest number, so that it
  comes first whenever the list is sorted by number (`HeadInv`). That is what `HeadFirst`
  is for: no item gets the head's number 0.
* `LocalsInv`, `ThenInv`, `WaitInv`, `BlockInv`, `CrcInv`: where the program is, what waits for what, and the
  types of the other benchmarks and of the checksums.

For `ListRestored`, `RestoredInv` adds that the numbers of the items are different and never
change (`UniqueInv`, from `Distinct`), that unused cells stay blank (`SpareInv`), that what a sort
by value has cached is tidied up by the sort by number (`TidyInv`), and that the list of the first
iteration, once it is sorted, is the one `initial` keeps (`SavedInv`): a sort by different numbers
has only one result, so that the list is back whatever was done to it in between.

**CoreMark: the string machine.** `TokenInduction` is the induction over the characters of a token: what
holds where it starts and is kept by each character holds where it stops.

* `BlocksHaveRoom`. The block ends with two zeroes and the corruption takes steps of 34 bytes or more, so
  that one of the two remains (`OneIsKept`); `StopsInTime` says that the machine is not behind it. The
  matrices fit because the greatest `N` with `8*N*N < size` is taken, and `Roomy` says that there is
  room for aligning their start, up to three bytes. The shipped sizes (2000 and 1200 bytes in all) have it.
* `TokensAreClassified`. `Kinds(word)` is the grammar of the tokens, said of whole words, with every way of
  splitting them; the machine sees one character at a time. `LongerKinds` computes the kinds of
  a word that is one character longer from those of the word; `MachineFollows` is that
  `NextState` does the same. The invariant of the induction (`Explained`) is that the characters so
  far have exactly the kind of the state, or none if the state is invalid and the last one spoilt them.

The four assumptions hold for the run's inputs (`MCCoreMark!InputsAssumption`), the shipped ones
among them. They are needed: TLC finds `BlocksRestored` violated without `CanUndo`, `NoCellLost` without
`HeadFirst`, `ListRestored` without either of `HeadFirst` and `Distinct`, and `BlocksFit` without
`Roomy`; section 7 names such inputs. That `TypeOK` and `Sorted` take `HeadFirst`, and `BlocksFit`
`CanUndo`, is because their proofs go through the same invariants.

## 6. What is only model-checked

* `Progress`, `Expires`, `KeepsTicking`, `Finishes`, `Terminates`: liveness is
  out of the prover's reach.
* `KnownResults`: checksums of concrete inputs, to be computed.
* `InOrder` and `ImplementsHart` in the run `trap` are without mret and jumps; with them they are theorems.
* `InterruptPrecise` in programs with jumps, which finding 1 violates, and the trap properties in programs in which a
  multi-cycle operation can meet a trap, which findings 2 and 3 do: proved only up to the finding (`OnlyTheFindings`).

Every other safety property of a passing run is a theorem.

## 7. Findings

Each is a run that TLC ends with a counterexample, and an entry in
`PROJECT.json` with the line the code disagrees with.

1. **`irq_wrong_path`** An interrupt is taken at the placeholder that fetch put
   in for a wrong-path instruction behind a mispredicted jump. mepc gets the
   placeholder's pc and mret returns to the wrong path (`mem_stage.sv:199`, `if_stage.sv:122`).
2. **`lost_redirect`** When EX is stalled by a multiplication or division in the
   cycle in which MEM takes an interrupt, fetch does not take the redirect,
   and the pulse is gone one cycle later (`if_stage.sv:84`).
3. **`trap_twice`** A synchronous exception is not gated by `ms_valid`: it is
   entered again when nothing follows it into MEM in the next cycle, as behind a
   misaligned load whose user makes a load-use bubble, or in front of a stalled
   EX. MPIE then loses the saved MIE, and mret returns with interrupts off
   (`mem_stage.sv:198`).
4. **`store_trapped`** A store writes in EX, before the interrupt or the
   misaligned-address trap of MEM that cancels it (`exe_stage.sv:358`). It is
   executed again when the program returns.

Observations without a run, because no text of the repository says otherwise, or
because they lie outside the model:

* instret counts the placeholders of finding 1 (`mem_stage.sv:211`, although
  `regfile_csr.sv:66` speaks of instructions that were not cancelled).
* A write to the timer's control register while the periodic timer waits for its
  interrupt to be cleared ends the wait without a reload (`timer.sv:82-88`), so
  that the timer stands at 0 with all periodic bits set.
* The flag that lets mret jump does not nest (`regfile_csr.sv:204`): after a trap inside a
  handler the outer mret does nothing. Such an mret still restores MIE and MPIE but flushes nothing, and mstatus is not
  forwarded from it: a CSR instruction right behind it has read the old value and writes that back
  (`decode_unit.sv:386`). `ReturnAlone` excludes it; the repository's programs write mstatus in `main` only and return from handlers only.
* `dmem_en` is not gated by EX's valid bit (`exe_stage.sv:367`): the bubble behind a
  load reads the same address again, and a second read of the UART's data register
  takes a second character. `BubblesAreQuiet` proves when: exactly one more read, of the address of the
  load that is in MEM, and only if the next instruction of the program uses what was loaded.
  The models of the board programs take one access for each read. By the theorem that is right for the
  linked programs in the repository: behind the reads of the data register (`uart_rx_irq.dump`,
  80000144) and of the claim register (all three programs) comes an instruction that does not
  use what was read. Status reads are repeated, without effect.
  Nothing in the C source keeps a compiler from another order.
* `03_uart_tx_irq` may send its first character twice: the interrupt is pending before
  `main` writes it (`main.c:76`), and the handler begins at index 0 (`main.c:19`).
  `Transmitted` allows it. With a text of one character the handler could also set
  `g_tx_done` while that character is on the line, on a request from before it was written;
  the real text has 22, and `MessagesAssumption` asks for more than one.
* The echo program overflows under an endless stream at full rate: a frame of the
  transmitter takes 11 bit times back to back, one that arrives 10.
* CoreMark's list is not restored when two items get the same index
  (`core_list_join.c:156`, `:222`), for example with seeds 4, 4 and 2000 bytes. When an item gets index 0, the
  fake head's, it may come before the head in the last sort of an iteration; the next one starts at the
  head and does not meet it any more, for example with seeds 7, 7 and 2000 bytes. `Distinct` and `HeadFirst` exclude them.
* CoreMark's string is not restored when a character that is corrupted becomes a comma, which
  the second pass leaves alone (`core_state.c:80`, `:99`), for example with seeds 24, 24 or
  28, 28 and 2000 bytes, although `core_main.c:96` allows any value for the first seed. `CanUndo` excludes it.
* `total_errors` starts at -1 for unknown seeds and is raised by a run that is too
  short: the sum is 0, and "Correct operation validated" is printed
  (`core_main.c:377`, `:401`).
* `perf_instret * 1000u` overflows 32 bits above 4.29 million instructions
  (`core_portme.c:159`).
* `core_list_remove` follows a null pointer for blocks with fewer than three
  items; a matrix block of `8*N*N + 1` bytes does not hold its matrices
  once the start is aligned (387 bytes in all, for example); `Roomy` excludes it. Neither size
  occurs in a shipped configuration.

## 8. Not modelled

* The second lane and its front end: behind `ifdef`s that this commit does not define.
* The multiplier's state machine, the bridge's registered return path: planned.
* Decoder, ALU, predictor table: pure data. The pipeline takes
  any result and any prediction.
* mcause, mtval and the event counters: registers that store what they are given.
* CoreMark's report and its formatting: no property is about them.
* LED register, older board tests, test benches, scripts, memory images,
  constraints: no behaviour of the system's own.

## 9. Plan

Done, in this order: queue, pipeline, controller, timer, timer program; then UART,
its three programs, CoreMark, and the theorems on traps, on the timer program,
on the UART programs, on all of CoreMark, and that the pipeline implements `Hart`. What is left, in the order of importance:

1. `DualFetch`: fetch gate, queue and decode; nothing pushed twice.
2. `Lane1`: `issue_select`, `exe_lane_simple` and the write port; only independent
   neighbours issue together, no write is lost.
3. `MulUnit`: the state machine against `*`, `\div` and `%` on a small width.
