------------------------------ MODULE Pipeline ------------------------------
(***************************************************************************)
(* The single-issue five-stage pipeline of rtl/cpu_top (if_stage, id_stage *)
(* with hazard_unit and forwarding_unit, exe_stage, mem_stage, wb_stage    *)
(* and the trap part of regfile_csr).  One step is one rising clock edge;  *)
(* every stage's registers change together.  The wires between the stages  *)
(* are operators, named after the source where the name is readable.       *)
(*                                                                         *)
(* The program is not fixed: whatever Ops allows may come out of the       *)
(* instruction memory at any pc.  Data is reduced to what the pipeline can *)
(* get wrong.  An instruction has one source register (the two operand     *)
(* paths of hazard_unit are copies of each other), what the ALU, a load or *)
(* a branch produces is any value, and the length of a multiplication or   *)
(* division is any number of stall cycles from 1 to MaxStall (mul.sv).     *)
(* The last three variables are not in the source: they say what a machine *)
(* that executes one instruction at a time would have done.                *)
(***************************************************************************)
EXTENDS Integers, FiniteSets

CONSTANTS
  Ops,       (* instruction classes the program may contain                *)
  Regs,      (* register numbers it uses, x0 is 0                          *)
  Values,    (* what a register may hold                                   *)
  NumPC,     (* pcs are 0 .. NumPC - 1, the next one is modulo NumPC       *)
  MTVEC,     (* the trap handler's pc                                      *)
  MaxStall,  (* longest multi-cycle operation, in stall cycles             *)
  Irqs       (* values the interrupt line takes: {FALSE} or BOOLEAN        *)

AllOps == {"alu", "load", "store", "mul", "br", "jal", "jalr", "sei", "cli",
           "spi", "ecall", "mret", "lam", "sam", "iam"}

ASSUME OpsAssumption == Ops \subseteq AllOps /\ Ops # {}
ASSUME RegsAssumption == 0 \in Regs /\ Regs \subseteq Nat
ASSUME ValuesAssumption == 0 \in Values
ASSUME NumPCAssumption == NumPC \in Nat \ {0} /\ MTVEC \in 0 .. NumPC - 1
ASSUME MaxStallAssumption == MaxStall \in Nat \ {0}
ASSUME IrqsAssumption == FALSE \in Irqs /\ Irqs \subseteq BOOLEAN

VARIABLES
  ifs,       (* fetch: fs_valid, fs_pc, br_taken_reg and br_target_reg     *)
  ids,       (* decode: ds_valid, fs_to_ds_bus_r, ds_flush_latched,
                prev_load                                                   *)
  exs,       (* execute: es_valid, ds_to_es_bus_r, ds_flush_r, exception   *)
  mul_left,  (* stall cycles the multi-cycle operation in EX still needs   *)
  mem,       (* memory: ms_valid, es_ms_bus_r, es_flush_r, exe_exc_bus_r   *)
  wb,        (* write-back: ws_valid and ms_ws_bus_r                       *)
  regfile,
  csr,       (* mstatus.MIE and .MPIE, mepc, prev_exception_flag           *)
  plic_irq,  (* the PLIC's interrupt line                                  *)
  arch_pc,   (* ghost: pc of the next instruction of the program           *)
  arch_reg,  (* ghost: the registers as the retired instructions left them *)
  entered    (* ghost: [live, mie] MIE when the last trap was taken, live
                until mstatus is written or restored by mret               *)

vars == <<ifs, ids, exs, mul_left, mem, wb, regfile, csr, plic_irq,
          arch_pc, arch_reg, entered>>

-----------------------------------------------------------------------------
(* Instructions.                                                            *)

PCs == 0 .. NumPC - 1
Seq4(pc) == (pc + 1) % NumPC
NoPred == NumPC                   (* "predicted not taken"                  *)

Inst(op, rd, rs) == [op |-> op, rd |-> rd, rs |-> rs]
NOP_INST == Inst("nop", 0, 0)     (* also what the registers hold at reset  *)

LoadOps == {"load", "lam"}        (* lam: a load from a misaligned address  *)
JumpOps ==                        (* iam: a jump to a misaligned target     *)
  {"br", "jal", "jalr", "iam"}
CsrOps == {"sei", "cli", "spi"}   (* csrrsi and csrrci of MIE, csrrs of MPIE,*)
                                  (* which no immediate reaches             *)
WriteOps == {"alu", "mul", "jal", "jalr", "load", "lam"}
ReadOps == {"alu", "mul", "load", "lam", "store", "sam", "br", "jalr", "spi"}

Wen(i) == i.op \in WriteOps
NeedRs(i) == i.op \in ReadOps /\ i.rs # 0

(* A class that does not use a field has x0 in it.                          *)
Insts ==
  {i \in [op : Ops, rd : Regs, rs : Regs] :
     (Wen(i) \/ i.rd = 0) /\ (i.op \in ReadOps \/ i.rs = 0)}

-----------------------------------------------------------------------------
(* MEM and the trap logic: wires that depend on registers only.            *)

Access == ~ mem.flush /\ mem.inst.op \in {"lam", "sam", "iam"}
sync_exception == Access \/ mem.exc = "ecall"

MutTakeIrq == ~ mem.flush /\ ~ sync_exception /\ plic_irq /\ csr.mie
take_irq ==
  mem.valid /\ ~ mem.flush /\ ~ sync_exception /\ plic_irq /\ csr.mie

(* exception_code[5]: a trap is entered at the next edge.                  *)
Trap == ~ mem.flush /\ (sync_exception \/ take_irq)
mret_flag == ~ mem.flush /\ ~ Access /\ ~ take_irq /\ mem.exc = "mret"
mret_jmp_flag == mret_flag /\ csr.prev
exception_flag == Trap \/ mret_jmp_flag
exception_addr == IF mret_jmp_flag THEN csr.mepc ELSE MTVEC

mem_regfile_wen == Wen(mem.inst) /\ ~ mem.flush /\ ~ exception_flag
MutCsrWe == mem.inst.op \in CsrOps /\ ~ mem.flush
csr_we == mem.inst.op \in CsrOps /\ ~ mem.flush /\ ~ Trap
perf_retire_valid ==
  mem.valid /\ ~ mem.flush /\ ~ sync_exception /\ ~ take_irq

(* The handshake of the last two stages.                                   *)
MutWsAllowin == ~ wb.valid
ws_allowin == ~ wb.valid \/ mem.valid
ms_allowin == ~ mem.valid \/ ws_allowin

-----------------------------------------------------------------------------
(* EX.                                                                      *)

es_flush == exs.flush \/ exception_flag
MutMulStall == exs.inst.op = "mul"
mul_stall == exs.inst.op = "mul" /\ mul_left > 0
es_allowin == ~ exs.valid \/ (~ mul_stall /\ ms_allowin)
es_to_ms_valid == exs.valid /\ ~ mul_stall
exe_regfile_wen == Wen(exs.inst) /\ ~ es_flush

(* What the instruction in EX may do to the pc: NoPred, fall through, or    *)
(* jump to any target.  The next pc follows.                                *)
Outcomes ==
  IF exs.inst.op \notin JumpOps THEN {NoPred}
  ELSE IF exs.inst.op = "br" THEN {NoPred} \cup PCs
  ELSE PCs
Follow(outcome) == IF outcome = NoPred THEN Seq4(exs.pc) ELSE outcome

(* The branch controller compares the outcome with the prediction that      *)
(* travelled with the instruction.                                          *)
br_redirect(outcome) ==
  ~ es_flush /\ exs.inst.op \in JumpOps /\ outcome # exs.pred

(* mstatus as a CSR instruction rewrites it; csr_wdata is for the one in   *)
(* EX, from what it read in ID.                                            *)
Rewrite(op, mstatus) ==
  [mie  |-> op = "sei" \/ (op = "spi" /\ mstatus.mie),
   mpie |-> op = "spi" \/ mstatus.mpie]
csr_wdata == Rewrite(exs.inst.op, exs.csr)

-----------------------------------------------------------------------------
(* ID.                                                                      *)

exe_load_use ==
  /\ NeedRs(ids.inst) /\ ids.inst.rs = exs.inst.rd
  /\ exs.valid /\ exe_regfile_wen /\ ids.prev_load
load_use_hazard == exe_load_use /\ ids.valid
ds_allowin == ~ ids.valid \/ (~ load_use_hazard /\ es_allowin)
ds_to_es_valid == ids.valid /\ ~ load_use_hazard
MutDsFlush(redirect) == redirect \/ ids.flush
ds_flush(redirect) == exception_flag \/ redirect \/ ids.flush

(* The operand as it is in EX: the youngest older writer wins.  src1_fwd   *)
(* and the two result registers are latched with the instruction, so that  *)
(* choosing here is the same as choosing in EX.                            *)
MutOperand(exe_result, mem_result) ==
  LET rs == ids.inst.rs IN
  IF rs = 0 THEN 0
  ELSE IF mem_regfile_wen /\ mem.inst.rd = rs /\ mem.valid THEN mem_result
  ELSE IF exe_regfile_wen /\ exs.inst.rd = rs /\ exs.valid THEN exe_result
  ELSE IF wb.wen /\ wb.rd = rs THEN wb.value
  ELSE regfile[rs]
operand(exe_result, mem_result) ==
  LET rs == ids.inst.rs IN
  IF rs = 0 THEN 0
  ELSE IF exe_regfile_wen /\ exs.inst.rd = rs /\ exs.valid THEN exe_result
  ELSE IF mem_regfile_wen /\ mem.inst.rd = rs /\ mem.valid THEN mem_result
  ELSE IF wb.wen /\ wb.rd = rs THEN wb.value
  ELSE regfile[rs]

(* The CSR value an instruction reads in ID: a CSR instruction ahead of it *)
(* in EX (whether or not it is valid) or in MEM is forwarded.              *)
MStatus == [mie |-> csr.mie, mpie |-> csr.mpie]
MutCsrRead == IF csr_we THEN mem.csr ELSE MStatus
csr_read ==
  IF exs.inst.op \in CsrOps THEN csr_wdata
  ELSE IF csr_we THEN mem.csr
  ELSE MStatus
NoCsr == [mie |-> FALSE, mpie |-> FALSE]

(* ds_exc_bus: what ID reports about the instruction it hands to EX.       *)
exc_code(redirect) ==
  IF ~ ds_flush(redirect) /\ ids.inst.op \in {"ecall", "mret"}
    THEN ids.inst.op ELSE "none"

-----------------------------------------------------------------------------
(* IF.                                                                      *)

fs_allowin == ~ ifs.valid \/ ds_allowin
Squash(redirect) == redirect \/ ifs.br_taken \/ exception_flag

(* What may come out of the instruction memory and the predictor.  The     *)
(* predictor compares full tags, so that only a jump can be predicted      *)
(* taken.  A squashed slot may stand at the pc of a jump; its prediction   *)
(* is dropped from the bus but still moves fs_pc.  At the first edge after *)
(* reset the predictor is empty and nothing enters ID.                     *)
Fetches(redirect) ==
  IF ~ fs_allowin \/ ~ ifs.valid THEN {[inst |-> NOP_INST, pred |-> NoPred]}
  ELSE IF Squash(redirect)
    THEN {[inst |-> NOP_INST, pred |-> p] :
            p \in {NoPred} \cup (IF redirect /\ ~ ifs.br_taken THEN PCs ELSE {})}
  ELSE {[inst |-> i, pred |-> NoPred] : i \in Insts} \cup
       {[inst |-> i, pred |-> p] :
          i \in {j \in Insts : j.op \in JumpOps}, p \in PCs}

next_pc(pred) ==
  IF exception_flag THEN exception_addr
  ELSE IF ifs.br_taken THEN ifs.br_target
  ELSE IF pred # NoPred THEN pred
  ELSE Seq4(ifs.pc)

-----------------------------------------------------------------------------
(* The registers of each stage at one clock edge.                          *)

FetchEdge(fetch, outcome) ==
  ifs' = IF fs_allowin
           THEN [valid |-> TRUE, pc |-> next_pc(fetch.pred),
                 br_taken |-> br_redirect(outcome),
                 br_target |-> IF br_redirect(outcome) THEN Follow(outcome)
                                                       ELSE 0]
           ELSE ifs

FlushLatch(redirect) ==
  IF ifs.valid /\ ds_allowin THEN exception_flag \/ redirect
  ELSE ids.valid /\ (ids.flush \/ exception_flag \/ redirect)

MutPrevLoad == ids.inst.op \in LoadOps
PrevLoad ==
  IF ds_allowin THEN ids.inst.op \in LoadOps ELSE ids.prev_load

DecodeEdge(fetch, redirect) ==
  LET enter == ifs.valid /\ ds_allowin
      squash == Squash(redirect)
  IN ids' = [ valid     |-> IF ds_allowin THEN ifs.valid ELSE ids.valid,
              inst      |-> IF enter THEN fetch.inst ELSE ids.inst,
              pc        |-> IF enter THEN ifs.pc ELSE ids.pc,
              pred      |-> IF enter THEN (IF squash THEN NoPred ELSE fetch.pred)
                                     ELSE ids.pred,
              flush     |-> FlushLatch(redirect),
              prev_load |-> PrevLoad ]

ExecuteEdge(redirect, exe_result, mem_result, stall) ==
  IF ds_to_es_valid /\ es_allowin
    THEN /\ exs' = [ valid |-> TRUE, inst |-> ids.inst, pc |-> ids.pc,
                     pred  |-> ids.pred,
                     flush |-> ds_flush(redirect),
                     exc   |-> exc_code(redirect),
                     src   |-> operand(exe_result, mem_result),
                     csr   |-> IF ids.inst.op \in CsrOps THEN csr_read
                                                         ELSE NoCsr ]
         /\ mul_left' = IF ids.inst.op = "mul" THEN stall ELSE 0
    ELSE /\ exs' = [exs EXCEPT !.valid = IF es_allowin THEN FALSE ELSE @]
         /\ mul_left' = IF mul_stall THEN mul_left - 1 ELSE mul_left

(* exe_result is forced to 0 for a flushed instruction.                    *)
MemoryEdge(outcome, exe_result) ==
  mem' = IF es_to_ms_valid /\ ms_allowin
           THEN [ valid |-> TRUE, inst |-> exs.inst, pc |-> exs.pc,
                  flush |-> es_flush, exc |-> exs.exc, next |-> Follow(outcome),
                  result |-> exe_result, src |-> exs.src,
                  csr |-> IF exs.inst.op \in CsrOps THEN csr_wdata ELSE NoCsr ]
           ELSE [mem EXCEPT !.valid = IF ms_allowin THEN FALSE ELSE @]

MutWritebackEdge(mem_result) ==
  /\ wb' = IF mem.valid /\ ws_allowin
             THEN [valid |-> TRUE, wen |-> mem_regfile_wen,
                   rd |-> mem.inst.rd, value |-> mem.result]
             ELSE wb
  /\ regfile' = IF wb.wen /\ wb.rd # 0
                  THEN [regfile EXCEPT ![wb.rd] = wb.value] ELSE regfile
WritebackEdge(mem_result) ==
  /\ wb' = IF mem.valid /\ ws_allowin
             THEN [valid |-> TRUE, wen |-> mem_regfile_wen,
                   rd |-> mem.inst.rd, value |-> mem_result]
             ELSE wb
  /\ regfile' = IF wb.wen /\ wb.rd # 0
                  THEN [regfile EXCEPT ![wb.rd] = wb.value] ELSE regfile

MutTrapEntry == [csr EXCEPT !.mepc = mem.pc, !.mie = FALSE, !.prev = TRUE]
TrapEntry ==
  [csr EXCEPT !.mepc = mem.pc, !.mpie = csr.mie, !.mie = FALSE, !.prev = TRUE]
CsrEdge ==
  csr' = IF csr_we THEN [csr EXCEPT !.mie = mem.csr.mie, !.mpie = mem.csr.mpie]
         ELSE IF Trap THEN TrapEntry
         ELSE IF mret_flag THEN [csr EXCEPT !.mie = csr.mpie, !.mpie = TRUE,
                                            !.prev = FALSE]
         ELSE csr

(* The sequential machine follows what leaves MEM; squashed slots are not  *)
(* part of its program.                                                    *)
GhostEdge(mem_result) ==
  /\ arch_pc' = IF Trap THEN MTVEC
                ELSE IF mret_jmp_flag THEN csr.mepc
                ELSE IF perf_retire_valid /\ mem.inst.op # "nop" THEN mem.next
                ELSE arch_pc
  /\ arch_reg' = IF perf_retire_valid /\ Wen(mem.inst) /\ mem.inst.rd # 0
                   THEN [arch_reg EXCEPT ![mem.inst.rd] = mem_result]
                   ELSE arch_reg
  /\ entered' = IF Trap /\ mem.valid THEN [live |-> TRUE, mie |-> csr.mie]
                ELSE IF csr_we \/ mret_flag THEN [live |-> FALSE, mie |-> FALSE]
                ELSE entered

Clock(outcome, fetch, exe_value, load_value, stall, irq) ==
  LET redirect == br_redirect(outcome)
      exe_result == IF es_flush THEN 0 ELSE exe_value
      mem_result == IF mem.inst.op \in LoadOps THEN load_value ELSE mem.result
  IN /\ FetchEdge(fetch, outcome)
     /\ DecodeEdge(fetch, redirect)
     /\ ExecuteEdge(redirect, exe_result, mem_result, stall)
     /\ MemoryEdge(outcome, exe_result)
     /\ WritebackEdge(mem_result)
     /\ CsrEdge
     /\ GhostEdge(mem_result)
     /\ plic_irq' = irq

-----------------------------------------------------------------------------
Init ==
  /\ ifs = [valid |-> FALSE, pc |-> NumPC - 1, br_taken |-> FALSE, br_target |-> 0]
  /\ ids = [valid |-> FALSE, inst |-> NOP_INST, pc |-> 0, pred |-> NoPred,
            flush |-> FALSE, prev_load |-> FALSE]
  /\ exs = [valid |-> FALSE, inst |-> NOP_INST, pc |-> 0, pred |-> NoPred,
            flush |-> FALSE, exc |-> "none", src |-> 0, csr |-> NoCsr]
  /\ mul_left = 0
  /\ mem = [valid |-> FALSE, inst |-> NOP_INST, pc |-> 0, flush |-> FALSE,
            exc |-> "none", next |-> 0, result |-> 0, src |-> 0, csr |-> NoCsr]
  /\ wb = [valid |-> FALSE, wen |-> FALSE, rd |-> 0, value |-> 0]
  /\ regfile = [r \in Regs |-> 0]
  /\ csr = [mie |-> FALSE, mpie |-> FALSE, mepc |-> 0, prev |-> FALSE]
  /\ plic_irq = FALSE
  /\ arch_pc = 0
  /\ arch_reg = [r \in Regs |-> 0]
  /\ entered = [live |-> FALSE, mie |-> FALSE]

(* Only the inputs that can make a difference in this cycle are chosen.    *)
ExeValues == IF Wen(exs.inst) /\ es_to_ms_valid THEN Values ELSE {0}
LoadValues == IF mem.inst.op \in LoadOps /\ mem.valid THEN Values ELSE {0}
Stalls == IF ids.inst.op = "mul" /\ ds_to_es_valid /\ es_allowin
            THEN 1 .. MaxStall ELSE {1}

Next ==
  \E outcome \in Outcomes, exe_value \in ExeValues, load_value \in LoadValues,
     stall \in Stalls, irq \in Irqs :
    \E fetch \in Fetches(br_redirect(outcome)) :
      Clock(outcome, fetch, exe_value, load_value, stall, irq)

Spec == Init /\ [][Next]_vars

-----------------------------------------------------------------------------
(* Properties.                                                              *)

(* A slot that holds an instruction of the program.                        *)
Live(slot) == slot.valid /\ ~ slot.flush /\ slot.inst.op # "nop"

(* The registers hold values of their types.                               *)
TypeOK ==
  /\ ifs \in [valid : BOOLEAN, pc : PCs, br_taken : BOOLEAN, br_target : PCs]
  /\ ids \in [valid : BOOLEAN, inst : Insts \cup {NOP_INST}, pc : PCs,
              pred : PCs \cup {NoPred}, flush : BOOLEAN, prev_load : BOOLEAN]
  /\ exs \in [valid : BOOLEAN, inst : Insts \cup {NOP_INST}, pc : PCs,
              pred : PCs \cup {NoPred}, flush : BOOLEAN,
              exc : {"none", "ecall", "mret"}, src : Values,
              csr : [mie : BOOLEAN, mpie : BOOLEAN]]
  /\ mul_left \in 0 .. MaxStall
  /\ mem \in [valid : BOOLEAN, inst : Insts \cup {NOP_INST}, pc : PCs,
              flush : BOOLEAN, exc : {"none", "ecall", "mret"}, next : PCs,
              result : Values, src : Values,
              csr : [mie : BOOLEAN, mpie : BOOLEAN]]
  /\ wb \in [valid : BOOLEAN, wen : BOOLEAN, rd : Regs, value : Values]
  /\ regfile \in [Regs -> Values]
  /\ csr \in [mie : BOOLEAN, mpie : BOOLEAN, mepc : PCs, prev : BOOLEAN]
  /\ plic_irq \in Irqs
  /\ arch_pc \in PCs
  /\ arch_reg \in [Regs -> Values]
  /\ entered \in [live : BOOLEAN, mie : BOOLEAN]

(* Whatever was predicted, redirected, trapped or returned from: an        *)
(* instruction that is in MEM unflushed, and so may have written memory    *)
(* and is about to write a register or trap, is the next one of the        *)
(* program.  Wrong-path instructions have no effect and none is skipped.   *)
InOrder == Live(mem) => mem.pc = arch_pc

(* Forwarding, the load-use stall and the write-back bypass together give  *)
(* every instruction the operand that the older instructions of the        *)
(* program left in its source register (id_stage.sv:219-268).              *)
OperandsCurrent ==
  mem.valid /\ ~ mem.flush /\ NeedRs(mem.inst) =>
    mem.src = arch_reg[mem.inst.rs]

(* The register file, seen through the write-back register that is applied *)
(* over and over while MEM is empty, is the state the program has reached. *)
Committed ==
  [r \in Regs |-> IF wb.wen /\ wb.rd = r /\ r # 0 THEN wb.value ELSE regfile[r]]
RegistersCommitted == arch_reg = Committed

(* A CSR instruction rewrites the current mstatus, not the one of an older *)
(* moment: neither a trap nor a CSR write ahead of it is undone by it.     *)
CsrCurrent ==
  mem.valid /\ ~ mem.flush /\ mem.inst.op \in CsrOps =>
    mem.csr = Rewrite(mem.inst.op, MStatus)

(* The wires of EX that are not gated by es_valid (redirect, CSR write,     *)
(* multiplier stall, store) are quiet in a bubble, but dmem_en reads the    *)
(* data bus once more (exe_stage.sv:367).  That second read is of the load  *)
(* that is in MEM in the same cycle, at the same address; it happens only   *)
(* if the next instruction of the program uses what was loaded, and it is   *)
(* not repeated again.                                                      *)
ReadsAgain ==
  /\ exs.inst.op \in LoadOps /\ ~ exs.flush
  /\ mem.valid /\ ~ mem.flush
  /\ mem.inst = exs.inst /\ mem.pc = exs.pc /\ mem.src = exs.src
  /\ ids.valid /\ NeedRs(ids.inst) /\ ids.inst.rs = exs.inst.rd
NothingYet == exs.inst.op = "nop" /\ mem.inst.op = "nop"
BubbleRepeatsLoad == ~ exs.valid => ReadsAgain \/ NothingYet

(* regfile_csr.sv:148: at trap entry MPIE takes the MIE of before the trap *)
(* and keeps it until the handler writes mstatus or returns.               *)
SavedInterruptEnable ==
  entered.live => csr.mpie = entered.mie

(* A redirect to the handler or back from it is only made for an           *)
(* instruction that is in MEM in that cycle, so that it is made once.      *)
RedirectOnce == exception_flag => mem.valid

(* An interrupt saves the pc at which the interrupted program goes on      *)
(* (mem_stage.sv:159, 199).                                                *)
InterruptPrecise == take_irq => mem.pc = arch_pc

(* An instruction that traps has not written memory.                       *)
TrapBeforeStore == Trap => mem.inst.op \notin {"store", "sam"}

(* The handshakes never wait on each other for ever: whatever is fetched,  *)
(* instructions of the program keep reaching MEM, to retire or to trap.    *)
Progress == []<>Live(mem)

(* The stages together are a processor that executes one instruction after *)
(* the other.  Its pc is that of the oldest instruction of the program in  *)
(* the stages, or what fetch will turn to if there is none; its registers  *)
(* are those of the register file under the write-back register.           *)
NextPC ==
  IF Live(mem) THEN mem.pc
  ELSE IF Live(exs) THEN exs.pc
  ELSE IF Live(ids) THEN ids.pc
  ELSE IF ifs.br_taken THEN ifs.br_target
  ELSE IF ifs.valid THEN ifs.pc
  ELSE Seq4(ifs.pc)

H == INSTANCE Hart WITH pc <- NextPC, reg <- Committed

(* A trap saves the pc of the instruction it stops and the MIE of its      *)
(* moment, a CSR instruction changes the mstatus of its own, mret restores *)
(* what the trap saved, and nothing else that happens in the stages can be *)
(* told from the outside (mem_stage.sv:154-199, regfile_csr.sv:144-207).   *)
ImplementsHart == H!Spec
=============================================================================
