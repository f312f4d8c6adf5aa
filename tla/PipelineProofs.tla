--------------------------- MODULE PipelineProofs ---------------------------
(***************************************************************************)
(* What holds of the pipeline for every program, register set, value set,  *)
(* pc range and stall length, interrupts included.                         *)
(*                                                                         *)
(* RegistersCommitted and BubbleRepeatsLoad are not inductive by themselves. *)
(* The invariant IInv adds how prev_load follows the instruction in EX,    *)
(* what is still empty after reset, and that the exception code carried    *)
(* down the pipeline belongs to the instruction it travels with.           *)
(***************************************************************************)
EXTENDS Pipeline, TLAPS

(* After reset the stages fill from the front; a stage that was never      *)
(* reached holds the reset pattern.                                        *)
FillInv ==
  /\ ids.valid => ifs.valid
  /\ ~ ids.valid => /\ ids.inst = NOP_INST
                    /\ ~ exs.valid
                    /\ exs.inst = NOP_INST

(* prev_load says whether the bus register of EX holds a load, valid or    *)
(* not.                                                                    *)
PrevLoadInv == ids.prev_load <=> exs.inst.op \in LoadOps

(* An exception code from ID travels with the instruction that raised it.  *)
CodeInv ==
  /\ exs.exc # "none" => exs.inst.op = exs.exc
  /\ mem.exc # "none" => mem.inst.op = mem.exc

IInv == TypeOK /\ FillInv /\ PrevLoadInv /\ CodeInv
        /\ BubbleRepeatsLoad /\ RegistersCommitted

-----------------------------------------------------------------------------
(* Types of the inputs and of the wires.                                    *)

(* The next pc in sequence is a pc.                                         *)
LEMMA SeqType ==
  ASSUME NEW pc \in PCs
  PROVE  Seq4(pc) \in PCs
BY NumPCAssumption DEF Seq4, PCs

(* What the registers hold at reset, and in every squashed slot, is an      *)
(* instruction with registers that exist.                                   *)
LEMMA InstType ==
  ASSUME NEW i \in Insts \cup {NOP_INST}
  PROVE  /\ i.rd \in Regs /\ i.rs \in Regs
         /\ i = NOP_INST => i.op = "nop"
BY RegsAssumption DEF Insts, NOP_INST, Inst

(* Whatever the jump in EX does, the next pc is a pc.                       *)
LEMMA OutcomeType ==
  ASSUME TypeOK, NEW outcome \in Outcomes
  PROVE  outcome \in PCs \cup {NoPred} /\ Follow(outcome) \in PCs
<1>1. Seq4(exs.pc) \in PCs
  BY SeqType DEF TypeOK
<1> QED
  BY <1>1 DEF Outcomes, Follow

(* What fetch delivers is an instruction, with a prediction.                *)
LEMMA FetchType ==
  ASSUME NEW redirect \in BOOLEAN, NEW fetch \in Fetches(redirect)
  PROVE  /\ fetch.inst \in Insts \cup {NOP_INST}
         /\ fetch.pred \in PCs \cup {NoPred}
BY DEF Fetches

(* The pc fetched next is a pc.                                             *)
LEMMA NextPCType ==
  ASSUME TypeOK, NEW pred \in PCs \cup {NoPred}
  PROVE  next_pc(pred) \in PCs
<1>1. Seq4(ifs.pc) \in PCs
  BY SeqType DEF TypeOK
<1>2. exception_addr \in PCs
  BY NumPCAssumption DEF TypeOK, exception_addr, PCs
<1> QED
  BY <1>1, <1>2, NumPCAssumption DEF TypeOK, next_pc, NoPred, PCs

-----------------------------------------------------------------------------
(* The reset state satisfies the invariant.                                 *)
LEMMA InitIInv == Init => IInv
<1> SUFFICES ASSUME Init PROVE IInv
  OBVIOUS
<1>1. TypeOK
  <2>1. 0 \in PCs /\ NumPC - 1 \in PCs /\ NoPred \in PCs \cup {NoPred}
    BY NumPCAssumption DEF PCs
  <2>2. ifs \in [valid : BOOLEAN, pc : PCs, br_taken : BOOLEAN, br_target : PCs]
    BY <2>1 DEF Init
  <2>3. ids \in [valid : BOOLEAN, inst : Insts \cup {NOP_INST}, pc : PCs,
                 pred : PCs \cup {NoPred}, flush : BOOLEAN, prev_load : BOOLEAN]
    BY <2>1 DEF Init
  <2>4. exs \in [valid : BOOLEAN, inst : Insts \cup {NOP_INST}, pc : PCs,
                 pred : PCs \cup {NoPred}, flush : BOOLEAN,
                 exc : {"none", "ecall", "mret"}, src : Values,
                 csr : [mie : BOOLEAN, mpie : BOOLEAN]]
    BY <2>1, ValuesAssumption DEF Init, NoCsr
  <2>5. mem \in [valid : BOOLEAN, inst : Insts \cup {NOP_INST}, pc : PCs,
                 flush : BOOLEAN, exc : {"none", "ecall", "mret"}, next : PCs,
                 result : Values, src : Values,
                 csr : [mie : BOOLEAN, mpie : BOOLEAN]]
    BY <2>1, ValuesAssumption DEF Init, NoCsr
  <2>6. wb \in [valid : BOOLEAN, wen : BOOLEAN, rd : Regs, value : Values]
    BY RegsAssumption, ValuesAssumption DEF Init
  <2>7. mul_left \in 0 .. MaxStall
    BY MaxStallAssumption DEF Init
  <2>10. plic_irq \in Irqs /\ arch_pc \in PCs
    BY <2>1, IrqsAssumption DEF Init
  <2>8. regfile \in [Regs -> Values] /\ arch_reg \in [Regs -> Values]
    BY ValuesAssumption DEF Init
  <2>9. /\ csr \in [mie : BOOLEAN, mpie : BOOLEAN, mepc : PCs, prev : BOOLEAN]
        /\ entered \in [live : BOOLEAN, mie : BOOLEAN]
    BY <2>1 DEF Init
  <2> QED
    BY <2>2, <2>3, <2>4, <2>5, <2>6, <2>7, <2>8, <2>9, <2>10 DEF TypeOK
<1>2. FillInv
  BY DEF Init, FillInv
<1>3. NOP_INST.op = "nop"
  BY DEF NOP_INST, Inst
<1>4. PrevLoadInv /\ CodeInv /\ BubbleRepeatsLoad
  BY <1>3 DEF Init, PrevLoadInv, CodeInv, BubbleRepeatsLoad, NothingYet, LoadOps
<1>5. RegistersCommitted
  BY DEF Init, RegistersCommitted, Committed
<1> QED
  BY <1>1, <1>2, <1>4, <1>5 DEF IInv

(* The inputs of one clock edge, as Next chooses them.                      *)
Inputs(outcome, fetch, exe_value, load_value, stall, irq) ==
  /\ outcome \in Outcomes
  /\ Follow(outcome) \in PCs
  /\ fetch \in Fetches(br_redirect(outcome))
  /\ fetch.inst \in Insts \cup {NOP_INST}
  /\ fetch.pred \in PCs \cup {NoPred}
  /\ exe_value \in Values
  /\ load_value \in Values
  /\ stall \in 1 .. MaxStall
  /\ irq \in Irqs

(* The inputs of a clock edge have their types.                             *)
LEMMA NextInputs ==
  ASSUME TypeOK, Next
  PROVE  \E outcome, fetch, exe_value, load_value, stall, irq :
           /\ Inputs(outcome, fetch, exe_value, load_value, stall, irq)
           /\ Clock(outcome, fetch, exe_value, load_value, stall, irq)
<1>1. PICK outcome \in Outcomes, exe_value \in ExeValues,
           load_value \in LoadValues, stall \in Stalls, irq \in Irqs :
        \E fetch \in Fetches(br_redirect(outcome)) :
          Clock(outcome, fetch, exe_value, load_value, stall, irq)
  BY DEF Next
<1>2. PICK fetch \in Fetches(br_redirect(outcome)) :
        Clock(outcome, fetch, exe_value, load_value, stall, irq)
  BY <1>1
<1>3. Follow(outcome) \in PCs
  BY OutcomeType
<1>4. /\ fetch.inst \in Insts \cup {NOP_INST}
      /\ fetch.pred \in PCs \cup {NoPred}
  <2>1. br_redirect(outcome) \in BOOLEAN
    BY DEF br_redirect
  <2> QED
    BY <2>1, FetchType
<1>5. exe_value \in Values /\ load_value \in Values
  BY ValuesAssumption DEF ExeValues, LoadValues
<1>6. stall \in 1 .. MaxStall
  BY MaxStallAssumption DEF Stalls
<1> QED
  BY <1>1, <1>2, <1>3, <1>4, <1>5, <1>6 DEF Inputs

-----------------------------------------------------------------------------
(* One clock edge keeps every register in its type.                         *)
LEMMA ClockType ==
  ASSUME TypeOK,
         NEW outcome, NEW fetch, NEW exe_value, NEW load_value, NEW stall, NEW irq,
         Inputs(outcome, fetch, exe_value, load_value, stall, irq),
         Clock(outcome, fetch, exe_value, load_value, stall, irq)
  PROVE  TypeOK'
<1> DEFINE redirect == br_redirect(outcome)
           exe_result == IF es_flush THEN 0 ELSE exe_value
           mem_result == IF mem.inst.op \in LoadOps THEN load_value ELSE mem.result
<1> USE DEF Inputs
<1>1. 0 \in PCs
  BY NumPCAssumption DEF PCs
<1>2. exe_result \in Values /\ mem_result \in Values
  BY ValuesAssumption DEF TypeOK
<1>3. exception_flag \in BOOLEAN /\ redirect \in BOOLEAN
  BY DEF exception_flag, Trap, mret_jmp_flag, mret_flag, br_redirect
<1>4. ifs' \in [valid : BOOLEAN, pc : PCs, br_taken : BOOLEAN, br_target : PCs]
  <2>1. FetchEdge(fetch, outcome)
    BY DEF Clock
  <2>2. next_pc(fetch.pred) \in PCs
    BY NextPCType
  <2> QED
    BY <1>1, <1>3, <2>1, <2>2 DEF FetchEdge, TypeOK
<1>5. ids' \in [valid : BOOLEAN, inst : Insts \cup {NOP_INST}, pc : PCs,
                pred : PCs \cup {NoPred}, flush : BOOLEAN, prev_load : BOOLEAN]
  <2>1. DecodeEdge(fetch, redirect)
    BY DEF Clock
  <2>2. FlushLatch(redirect) \in BOOLEAN
    BY <1>3 DEF FlushLatch, TypeOK
  <2>3. PrevLoad \in BOOLEAN
    <3>1. ids.prev_load \in BOOLEAN
      BY DEF TypeOK
    <3>2. CASE ds_allowin
      <4>1. CASE ids.inst.op \in LoadOps
        BY <3>2, <4>1 DEF PrevLoad
      <4>2. CASE ids.inst.op \notin LoadOps
        BY <3>2, <4>2 DEF PrevLoad
      <4> QED
        BY <4>1, <4>2
    <3>3. CASE ~ ds_allowin
      BY <3>1, <3>3, Zenon DEF PrevLoad
    <3> QED
      BY <3>2, <3>3
  <2> QED
    BY <2>1, <2>2, <2>3 DEF DecodeEdge, TypeOK
<1>6. /\ exs' \in [valid : BOOLEAN, inst : Insts \cup {NOP_INST}, pc : PCs,
                   pred : PCs \cup {NoPred}, flush : BOOLEAN,
                   exc : {"none", "ecall", "mret"}, src : Values,
                   csr : [mie : BOOLEAN, mpie : BOOLEAN]]
      /\ mul_left' \in 0 .. MaxStall
  <2>1. ExecuteEdge(redirect, exe_result, mem_result, stall)
    BY DEF Clock
  <2>2. CASE ds_to_es_valid /\ es_allowin
    <3>1. ds_flush(redirect) \in BOOLEAN
      BY <1>3 DEF ds_flush, TypeOK
    <3>2. exc_code(redirect) \in {"none", "ecall", "mret"}
      BY DEF exc_code
    <3>3. operand(exe_result, mem_result) \in Values
      <4>1. ids.inst.rs \in Regs
        BY InstType DEF TypeOK
      <4> QED
        BY <1>2, <4>1, ValuesAssumption DEF operand, TypeOK
    <3>4. csr_read \in [mie : BOOLEAN, mpie : BOOLEAN]
      BY DEF csr_read, csr_wdata, Rewrite, MStatus, TypeOK
    <3>5. NoCsr \in [mie : BOOLEAN, mpie : BOOLEAN]
      BY DEF NoCsr
    <3>6. mul_left' \in 0 .. MaxStall
      BY <2>1, <2>2, MaxStallAssumption DEF ExecuteEdge
    <3> QED
      <4>1. exs' = [ valid |-> TRUE, inst |-> ids.inst, pc |-> ids.pc,
                     pred  |-> ids.pred,
                     flush |-> ds_flush(redirect),
                     exc   |-> exc_code(redirect),
                     src   |-> operand(exe_result, mem_result),
                     csr   |-> IF ids.inst.op \in CsrOps THEN csr_read
                                                         ELSE NoCsr ]
        BY <2>1, <2>2 DEF ExecuteEdge
      <4>2. /\ ids.inst \in Insts \cup {NOP_INST}
            /\ ids.pc \in PCs /\ ids.pred \in PCs \cup {NoPred}
        BY DEF TypeOK
      <4>3. (IF ids.inst.op \in CsrOps THEN csr_read ELSE NoCsr)
              \in [mie : BOOLEAN, mpie : BOOLEAN]
        BY <3>4, <3>5
      <4> HIDE DEF exe_result, mem_result, redirect
      <4> QED
        BY <4>1, <4>2, <4>3, <3>1, <3>2, <3>3, <3>6
  <2>3. CASE ~ (ds_to_es_valid /\ es_allowin)
    <3>1. exs' = [exs EXCEPT !.valid = IF es_allowin THEN FALSE ELSE @]
      BY <2>1, <2>3 DEF ExecuteEdge
    <3>2. mul_left' \in 0 .. MaxStall
      <4>1. mul_left' = IF mul_stall THEN mul_left - 1 ELSE mul_left
        BY <2>1, <2>3 DEF ExecuteEdge
      <4>2. mul_left \in 0 .. MaxStall
        BY DEF TypeOK
      <4>3. mul_stall => mul_left > 0
        BY DEF mul_stall
      <4> QED
        BY <4>1, <4>2, <4>3, MaxStallAssumption
    <3> QED
      BY <3>1, <3>2 DEF TypeOK
  <2> QED
    BY <2>2, <2>3
<1>7. mem' \in [valid : BOOLEAN, inst : Insts \cup {NOP_INST}, pc : PCs,
                flush : BOOLEAN, exc : {"none", "ecall", "mret"}, next : PCs,
                result : Values, src : Values,
                csr : [mie : BOOLEAN, mpie : BOOLEAN]]
  <2>1. MemoryEdge(outcome, exe_result)
    BY DEF Clock
  <2>2. es_flush \in BOOLEAN
    BY <1>3 DEF es_flush, TypeOK
  <2>3. csr_wdata \in [mie : BOOLEAN, mpie : BOOLEAN]
    BY DEF csr_wdata, Rewrite, TypeOK
  <2>4. CASE es_to_ms_valid /\ ms_allowin
    BY <1>2, <2>1, <2>2, <2>3, <2>4 DEF MemoryEdge, TypeOK, NoCsr
  <2>5. CASE ~ (es_to_ms_valid /\ ms_allowin)
    BY <2>1, <2>5 DEF MemoryEdge, TypeOK
  <2> QED
    BY <2>4, <2>5
<1>8. /\ wb' \in [valid : BOOLEAN, wen : BOOLEAN, rd : Regs, value : Values]
      /\ regfile' \in [Regs -> Values]
  <2>1. WritebackEdge(mem_result)
    BY DEF Clock
  <2>2. mem.inst.rd \in Regs
    BY InstType DEF TypeOK
  <2>3. mem_regfile_wen \in BOOLEAN
    BY DEF mem_regfile_wen, Wen
  <2>4. wb' \in [valid : BOOLEAN, wen : BOOLEAN, rd : Regs, value : Values]
    BY <1>2, <2>1, <2>2, <2>3 DEF WritebackEdge, TypeOK
  <2>5. regfile' \in [Regs -> Values]
    BY <2>1 DEF WritebackEdge, TypeOK
  <2> QED
    BY <2>4, <2>5
<1>9. csr' \in [mie : BOOLEAN, mpie : BOOLEAN, mepc : PCs, prev : BOOLEAN]
  <2>1. CsrEdge
    BY DEF Clock
  <2> QED
    BY <2>1 DEF CsrEdge, TrapEntry, TypeOK
<1>10. /\ arch_pc' \in PCs
       /\ arch_reg' \in [Regs -> Values]
       /\ entered' \in [live : BOOLEAN, mie : BOOLEAN]
  <2>1. GhostEdge(mem_result)
    BY DEF Clock
  <2>2. MTVEC \in PCs
    BY NumPCAssumption DEF PCs
  <2>3. arch_pc' \in PCs
    BY <2>1, <2>2 DEF GhostEdge, TypeOK
  <2>4. arch_reg' \in [Regs -> Values]
    BY <1>2, <2>1 DEF GhostEdge, TypeOK
  <2>5. entered' \in [live : BOOLEAN, mie : BOOLEAN]
    BY <2>1 DEF GhostEdge, TypeOK
  <2> QED
    BY <2>3, <2>4, <2>5
<1>11. plic_irq' \in Irqs
  BY DEF Clock
<1> QED
  BY <1>4, <1>5, <1>6, <1>7, <1>8, <1>9, <1>10, <1>11 DEF TypeOK

-----------------------------------------------------------------------------
(* The three stages in front of MEM as the proofs below look at them.       *)

(* EX never turns a valid instruction invalid but by handing it on, and an  *)
(* instruction enters EX exactly when it leaves ID.                         *)
LEMMA ExecuteMoves ==
  ASSUME TypeOK, FillInv,
         NEW outcome, NEW fetch, NEW exe_value, NEW load_value, NEW stall, NEW irq,
         Clock(outcome, fetch, exe_value, load_value, stall, irq)
  PROVE  /\ ids.valid /\ ds_allowin =>
              exs'.valid /\ exs'.inst = ids.inst
         /\ ids.valid /\ ~ ds_allowin =>
              /\ exs'.inst = exs.inst /\ exs'.flush = exs.flush
              /\ exs'.pc = exs.pc /\ exs'.src = exs.src
              /\ exs'.valid = IF es_allowin THEN FALSE ELSE exs.valid
         /\ ~ ids.valid => ~ exs'.valid /\ exs'.inst = exs.inst
<1> DEFINE redirect == br_redirect(outcome)
           exe_result == IF es_flush THEN 0 ELSE exe_value
           mem_result == IF mem.inst.op \in LoadOps THEN load_value ELSE mem.result
<1>1. ExecuteEdge(redirect, exe_result, mem_result, stall)
  BY DEF Clock
<1>2. exs = [exs EXCEPT !.valid = exs.valid]
  BY DEF TypeOK
<1>3. CASE ds_to_es_valid /\ es_allowin
  <2>1. exs'.valid /\ exs'.inst = ids.inst
    BY <1>1, <1>3 DEF ExecuteEdge
  <2>2. ids.valid /\ ds_allowin
    BY <1>3 DEF ds_to_es_valid, ds_allowin
  <2> QED
    BY <2>1, <2>2
<1>4. CASE ~ (ds_to_es_valid /\ es_allowin)
  <2>1. exs' = [exs EXCEPT !.valid = IF es_allowin THEN FALSE ELSE @]
    BY <1>1, <1>4 DEF ExecuteEdge
  <2>2. /\ exs'.inst = exs.inst /\ exs'.flush = exs.flush
        /\ exs'.pc = exs.pc /\ exs'.src = exs.src
        /\ exs'.valid = IF es_allowin THEN FALSE ELSE exs.valid
    BY <2>1 DEF TypeOK
  <2>3. ~ (ids.valid /\ ds_allowin)
    BY <1>4 DEF ds_to_es_valid, ds_allowin
  <2>4. ~ ids.valid => es_allowin
    BY DEF FillInv, es_allowin
  <2> QED
    BY <2>2, <2>3, <2>4
<1> QED
  BY <1>3, <1>4

(* MEM takes what EX offers in every cycle.                                *)
LEMMA MemoryAllows ==
  ms_allowin
BY DEF ms_allowin, ws_allowin

(* MEM either takes the instruction of EX or keeps its registers and turns *)
(* invalid.                                                                 *)
LEMMA MemoryMoves ==
  ASSUME TypeOK,
         NEW outcome, NEW fetch, NEW exe_value, NEW load_value, NEW stall, NEW irq,
         Clock(outcome, fetch, exe_value, load_value, stall, irq)
  PROVE  /\ es_to_ms_valid =>
              /\ mem'.valid /\ mem'.inst = exs.inst /\ mem'.flush = es_flush
              /\ mem'.pc = exs.pc /\ mem'.src = exs.src
              /\ exs.inst.op \in CsrOps => mem'.csr = csr_wdata
         /\ ~ es_to_ms_valid =>
              /\ ~ mem'.valid /\ mem'.inst = mem.inst
              /\ mem'.flush = mem.flush /\ mem'.csr = mem.csr
<1> DEFINE exe_result == IF es_flush THEN 0 ELSE exe_value
<1>1. MemoryEdge(outcome, exe_result)
  BY DEF Clock
<1>2. CASE es_to_ms_valid
  BY <1>1, <1>2, MemoryAllows DEF MemoryEdge
<1>3. CASE ~ es_to_ms_valid
  <2>1. mem' = [mem EXCEPT !.valid = FALSE]
    BY <1>1, <1>3, MemoryAllows DEF MemoryEdge
  <2> QED
    BY <1>3, <2>1 DEF TypeOK
<1> QED
  BY <1>2, <1>3

(* ID takes what fetch delivers when it may, and otherwise keeps what it has. *)
LEMMA DecodeMoves ==
  ASSUME NEW outcome, NEW fetch, NEW exe_value, NEW load_value, NEW stall, NEW irq,
         Clock(outcome, fetch, exe_value, load_value, stall, irq)
  PROVE  /\ ids'.valid = IF ds_allowin THEN ifs.valid ELSE ids.valid
         /\ ~ (ifs.valid /\ ds_allowin) => ids'.inst = ids.inst
         /\ ids'.prev_load = PrevLoad
BY DEF Clock, DecodeEdge

(* A stage that was never filled still holds what reset left in it.         *)
LEMMA ClockFill ==
  ASSUME TypeOK, FillInv,
         NEW outcome, NEW fetch, NEW exe_value, NEW load_value, NEW stall, NEW irq,
         Clock(outcome, fetch, exe_value, load_value, stall, irq)
  PROVE  FillInv'
<1>1. ifs.valid => ifs'.valid
  BY DEF Clock, FetchEdge
<1>2. ids'.valid => ifs.valid
  BY DecodeMoves DEF FillInv
<1>3. ASSUME ~ ids'.valid
      PROVE  ids'.inst = NOP_INST /\ ~ exs'.valid /\ exs'.inst = NOP_INST
  <2>1. ~ ids.valid /\ ~ ifs.valid
    BY <1>3, DecodeMoves DEF FillInv, ds_allowin
  <2> QED
    BY <2>1, ExecuteMoves, DecodeMoves DEF FillInv
<1> QED
  BY <1>1, <1>2, <1>3 DEF FillInv

(* prev_load tells ID whether the instruction in EX is a load.              *)
LEMMA ClockPrevLoad ==
  ASSUME TypeOK, FillInv, PrevLoadInv,
         NEW outcome, NEW fetch, NEW exe_value, NEW load_value, NEW stall, NEW irq,
         Clock(outcome, fetch, exe_value, load_value, stall, irq)
  PROVE  PrevLoadInv'
<1>1. ids'.prev_load = PrevLoad
  BY DecodeMoves
<1>2. CASE ids.valid /\ ds_allowin
  <2>1. exs'.inst = ids.inst
    BY <1>2, ExecuteMoves
  <2> QED
    BY <1>1, <1>2, <2>1 DEF PrevLoadInv, PrevLoad
<1>3. CASE ids.valid /\ ~ ds_allowin
  <2>1. exs'.inst = exs.inst
    BY <1>3, ExecuteMoves
  <2> QED
    BY <1>1, <1>3, <2>1 DEF PrevLoadInv, PrevLoad
<1>4. CASE ~ ids.valid
  <2>1. exs'.inst = NOP_INST /\ ids.inst = NOP_INST
    BY <1>4, ExecuteMoves DEF FillInv
  <2>2. NOP_INST.op \notin LoadOps
    BY DEF NOP_INST, Inst, LoadOps
  <2>3. ~ PrevLoad
    BY <1>4, <2>1, <2>2 DEF PrevLoad, ds_allowin
  <2> QED
    BY <1>1, <2>1, <2>2, <2>3 DEF PrevLoadInv
<1> QED
  BY <1>2, <1>3, <1>4

(* Only a load-use stall makes a bubble: the load moves on to MEM, its user *)
(* stays in ID, and a bubble is not followed by another.                    *)
LEMMA ClockBubble ==
  ASSUME TypeOK, FillInv, PrevLoadInv, BubbleRepeatsLoad,
         NEW outcome, NEW fetch, NEW exe_value, NEW load_value, NEW stall, NEW irq,
         Clock(outcome, fetch, exe_value, load_value, stall, irq)
  PROVE  BubbleRepeatsLoad'
<1> SUFFICES ASSUME ~ exs'.valid PROVE ReadsAgain' \/ NothingYet'
  BY DEF BubbleRepeatsLoad
<1>1. CASE ids.valid
  <2>1. ~ ds_allowin
    BY <1>1, ExecuteMoves
  <2>2. /\ exs'.inst = exs.inst /\ exs'.flush = exs.flush
        /\ exs'.pc = exs.pc /\ exs'.src = exs.src
        /\ exs'.valid = IF es_allowin THEN FALSE ELSE exs.valid
    BY <1>1, <2>1, ExecuteMoves
  <2>3. es_allowin
    BY <2>2 DEF es_allowin
  <2>4. load_use_hazard
    BY <1>1, <2>1, <2>3 DEF ds_allowin
  <2>5. /\ exs.valid /\ exs.inst.op \in LoadOps /\ ~ es_flush
        /\ NeedRs(ids.inst) /\ ids.inst.rs = exs.inst.rd
    BY <2>4 DEF load_use_hazard, exe_load_use, exe_regfile_wen, PrevLoadInv
  <2>6. es_to_ms_valid
    BY <2>3, <2>5 DEF es_allowin, es_to_ms_valid
  <2>7. /\ mem'.valid /\ mem'.inst = exs.inst /\ ~ mem'.flush
        /\ mem'.pc = exs.pc /\ mem'.src = exs.src
    BY <2>5, <2>6, MemoryMoves
  <2>8. ids'.valid /\ ids'.inst = ids.inst
    BY <1>1, <2>1, DecodeMoves
  <2> QED
    BY <2>2, <2>5, <2>7, <2>8 DEF ReadsAgain, es_flush, NeedRs
<1>2. CASE ~ ids.valid
  <2>1. ~ exs.valid /\ exs.inst = NOP_INST /\ exs'.inst = exs.inst
    BY <1>2, ExecuteMoves DEF FillInv
  <2>2. NOP_INST.op = "nop" /\ "nop" \notin LoadOps
    BY DEF NOP_INST, Inst, LoadOps
  <2>3. mem.inst.op = "nop"
    BY <2>1, <2>2 DEF BubbleRepeatsLoad, ReadsAgain, NothingYet
  <2>4. mem'.inst = mem.inst
    BY <2>1, MemoryMoves DEF es_to_ms_valid
  <2> QED
    BY <2>1, <2>2, <2>3, <2>4 DEF NothingYet
<1> QED
  BY <1>1, <1>2

(* An exception code from ID belongs to an unflushed ecall or mret.         *)
LEMMA ClockCode ==
  ASSUME TypeOK, CodeInv,
         NEW outcome, NEW fetch, NEW exe_value, NEW load_value, NEW stall, NEW irq,
         Clock(outcome, fetch, exe_value, load_value, stall, irq)
  PROVE  CodeInv'
<1> DEFINE redirect == br_redirect(outcome)
           exe_result == IF es_flush THEN 0 ELSE exe_value
           mem_result == IF mem.inst.op \in LoadOps THEN load_value ELSE mem.result
<1>1. exs'.exc # "none" => exs'.inst.op = exs'.exc
  <2>1. ExecuteEdge(redirect, exe_result, mem_result, stall)
    BY DEF Clock
  <2>2. CASE ds_to_es_valid /\ es_allowin
    <3>1. exs'.exc = exc_code(redirect) /\ exs'.inst = ids.inst
      BY <2>1, <2>2 DEF ExecuteEdge
    <3> QED
      BY <3>1 DEF exc_code
  <2>3. CASE ~ (ds_to_es_valid /\ es_allowin)
    <3>1. exs' = [exs EXCEPT !.valid = IF es_allowin THEN FALSE ELSE @]
      BY <2>1, <2>3 DEF ExecuteEdge
    <3>2. exs'.exc = exs.exc /\ exs'.inst = exs.inst
      BY <3>1 DEF TypeOK
    <3> QED
      BY <3>2 DEF CodeInv
  <2> QED
    BY <2>2, <2>3
<1>2. mem'.exc # "none" => mem'.inst.op = mem'.exc
  <2>1. MemoryEdge(outcome, exe_result)
    BY DEF Clock
  <2>2. \/ mem'.exc = exs.exc /\ mem'.inst = exs.inst
        \/ mem'.exc = mem.exc /\ mem'.inst = mem.inst
    BY <2>1 DEF MemoryEdge, TypeOK
  <2> QED
    BY <2>2 DEF CodeInv
<1> QED
  BY <1>1, <1>2 DEF CodeInv

-----------------------------------------------------------------------------
(* The write-back register.                                                 *)

(* What retires from MEM and writes a register is what write-back is told   *)
(* to write: neither an mret nor a trap gets in between.                    *)
LEMMA WriteIffRetired ==
  ASSUME TypeOK, CodeInv, mem.valid
  PROVE  mem_regfile_wen <=> perf_retire_valid /\ Wen(mem.inst)
<1>1. ASSUME Wen(mem.inst) PROVE ~ mret_jmp_flag
  <2>1. mem.inst.op # "mret"
    BY <1>1 DEF Wen, WriteOps
  <2>2. mem.exc # "mret"
    BY <2>1 DEF CodeInv
  <2> QED
    BY <2>2 DEF mret_jmp_flag, mret_flag
<1> QED
  BY <1>1 DEF mem_regfile_wen, perf_retire_valid, exception_flag, Trap

(* The write-back register and the register file stay together what has retired. *)
LEMMA ClockCommit ==
  ASSUME TypeOK, CodeInv, RegistersCommitted,
         NEW outcome, NEW fetch, NEW exe_value, NEW load_value, NEW stall, NEW irq,
         Clock(outcome, fetch, exe_value, load_value, stall, irq)
  PROVE  RegistersCommitted'
<1> DEFINE mem_result == IF mem.inst.op \in LoadOps THEN load_value ELSE mem.result
<1>1. WritebackEdge(mem_result) /\ GhostEdge(mem_result)
  BY DEF Clock
<1>2. ASSUME NEW r \in Regs
      PROVE  arch_reg'[r] = IF wb'.wen /\ wb'.rd = r /\ r # 0 THEN wb'.value
                            ELSE regfile'[r]
  <2>1. regfile'[r] = IF wb.wen /\ wb.rd = r /\ r # 0 THEN wb.value ELSE regfile[r]
    BY <1>1 DEF WritebackEdge, TypeOK
  <2>2. arch_reg[r] = regfile'[r]
    BY <2>1 DEF RegistersCommitted, Committed
  <2>3. arch_reg'[r] =
          IF perf_retire_valid /\ Wen(mem.inst) /\ mem.inst.rd = r /\ r # 0
            THEN mem_result ELSE arch_reg[r]
    BY <1>1 DEF GhostEdge, TypeOK
  <2>4. CASE mem.valid
    <3>1. wb' = [valid |-> TRUE, wen |-> mem_regfile_wen,
                 rd |-> mem.inst.rd, value |-> mem_result]
      BY <1>1, <2>4 DEF WritebackEdge, ws_allowin
    <3> QED
      BY <2>2, <2>3, <2>4, <3>1, WriteIffRetired
  <2>5. CASE ~ mem.valid
    <3>1. wb' = wb
      BY <1>1, <2>5 DEF WritebackEdge
    <3>2. arch_reg'[r] = arch_reg[r]
      BY <2>3, <2>5 DEF perf_retire_valid
    <3> QED
      BY <2>1, <2>2, <3>1, <3>2
  <2> QED
    BY <2>4, <2>5
<1>3. /\ arch_reg' = [r \in Regs |-> arch_reg'[r]]
      /\ Committed' = [r \in Regs |-> IF wb'.wen /\ wb'.rd = r /\ r # 0
                                        THEN wb'.value ELSE regfile'[r]]
  BY <1>1 DEF GhostEdge, TypeOK, Committed
<1> HIDE DEF mem_result
<1> QED
  BY <1>2, <1>3 DEF RegistersCommitted

-----------------------------------------------------------------------------
(* Every step preserves the invariant.                                      *)
LEMMA StepIInv == IInv /\ [Next]_vars => IInv'
<1> SUFFICES ASSUME IInv, [Next]_vars PROVE IInv'
  OBVIOUS
<1> USE DEF IInv
<1>1. CASE Next
  <2>1. PICK outcome, fetch, exe_value, load_value, stall, irq :
          /\ Inputs(outcome, fetch, exe_value, load_value, stall, irq)
          /\ Clock(outcome, fetch, exe_value, load_value, stall, irq)
    BY <1>1, NextInputs
  <2>2. TypeOK'
    BY <2>1, ClockType
  <2>3. FillInv'
    BY <2>1, ClockFill
  <2>4. PrevLoadInv' /\ BubbleRepeatsLoad'
    BY <2>1, ClockPrevLoad, ClockBubble
  <2>5. CodeInv'
    BY <2>1, ClockCode
  <2>6. RegistersCommitted'
    BY <2>1, ClockCommit
  <2> QED
    BY <2>2, <2>3, <2>4, <2>5, <2>6
<1>2. CASE UNCHANGED vars
  BY <1>2 DEF vars, TypeOK, FillInv, PrevLoadInv, CodeInv, BubbleRepeatsLoad,
              ReadsAgain, NothingYet, RegistersCommitted, Committed
<1> QED
  BY <1>1, <1>2

(* The invariant holds in every reachable state.                            *)
LEMMA InvariantHolds == Spec => []IInv
<1>1. IInv /\ [Next]_vars => IInv'
  BY StepIInv
<1> QED
  BY InitIInv, <1>1, PTL DEF Spec

(* Every register holds a value of its type, whatever the program.          *)
THEOREM TypeCorrect == Spec => []TypeOK
<1>1. IInv => TypeOK
  BY DEF IInv
<1> QED
  BY InvariantHolds, <1>1, PTL

(* Between the register file, the write-back register and the bubbles of    *)
(* MEM no register write of the program is lost and none is made twice with *)
(* another effect: at every edge the two together are the state the retired *)
(* instructions have produced (mem_stage.sv, wb_stage.sv, regfiles.sv).     *)
THEOREM CommittedInOrder == Spec => []RegistersCommitted
<1>1. IInv => RegistersCommitted
  BY DEF IInv
<1> QED
  BY InvariantHolds, <1>1, PTL

(* A bubble in EX shows the load that is in MEM, whose user is in ID: the   *)
(* wires of EX that are not gated by es_valid (redirect, CSR write,         *)
(* multiplier stall) are quiet, and dmem_en repeats that load's read once   *)
(* (exe_stage.sv:367).                                                      *)
THEOREM BubblesAreQuiet == Spec => []BubbleRepeatsLoad
<1>1. IInv => BubbleRepeatsLoad
  BY DEF IInv
<1> QED
  BY InvariantHolds, <1>1, PTL

-----------------------------------------------------------------------------
(* Operands.  An instruction in EX already has its operand; until the older *)
(* instruction in MEM has retired, the operand may be that one's result.    *)

WritesReg(r) ==
  mem.valid /\ Wen(mem.inst) /\ ~ mem.flush /\ mem.inst.rd = r

ExecuteOperand ==
  exs.valid /\ ~ exs.flush /\ NeedRs(exs.inst) =>
    IF WritesReg(exs.inst.rs)
      THEN mem.inst.op \notin LoadOps /\ exs.src = mem.result
      ELSE exs.src = arch_reg[exs.inst.rs]

(* A multi-cycle operation that waits in EX while its elder traps in MEM is *)
(* not flushed, and fetch does not hear the redirect (section 7 of the      *)
(* README).  The operands and the order are right as long as that does not  *)
(* happen, and in two kinds of programs it never does.                      *)
RedirectHeard == exception_flag => ~ mul_stall

TrapOps == {"lam", "sam", "iam", "ecall", "mret"}
NoTrapBeforeMul ==
  "mul" \notin Ops \/ (Irqs = {FALSE} /\ Ops \cap TrapOps = {})

(* In such a program EX does not wait in a cycle that enters or leaves a    *)
(* trap.                                                                    *)
LEMMA NoTrapWhileWaiting ==
  ASSUME NoTrapBeforeMul, TypeOK, CodeInv
  PROVE  RedirectHeard
<1> USE DEF RedirectHeard
<1>1. CASE "mul" \notin Ops
  <2>1. exs.inst.op # "mul"
    <3>1. exs.inst \in Insts \cup {NOP_INST}
      BY DEF TypeOK
    <3> QED
      BY <1>1, <3>1 DEF Insts, NOP_INST, Inst
  <2> QED
    BY <2>1 DEF mul_stall
<1>2. CASE Irqs = {FALSE} /\ Ops \cap TrapOps = {}
  <2>1. mem.inst.op \notin TrapOps
    <3>1. mem.inst \in Insts \cup {NOP_INST}
      BY DEF TypeOK
    <3> QED
      BY <1>2, <3>1 DEF Insts, NOP_INST, Inst, TrapOps
  <2>2. mem.exc \notin {"ecall", "mret"}
    BY <2>1 DEF CodeInv, TrapOps
  <2>3. plic_irq = FALSE
    BY <1>2 DEF TypeOK
  <2> QED
    BY <2>1, <2>2, <2>3
    DEF exception_flag, Trap, take_irq, sync_exception, Access, mret_jmp_flag,
        mret_flag, TrapOps
<1> QED
  BY <1>1, <1>2 DEF NoTrapBeforeMul

LEMMA AlwaysHeard ==
  ASSUME NoTrapBeforeMul
  PROVE  Spec => []RedirectHeard
<1>1. IInv => RedirectHeard
  BY NoTrapWhileWaiting DEF IInv
<1> QED
  BY InvariantHolds, <1>1, PTL

(* Every instruction keeps the current operand on its way to MEM.           *)
LEMMA ClockOperands ==
  ASSUME RedirectHeard, IInv, ExecuteOperand, OperandsCurrent,
         NEW outcome, NEW fetch, NEW exe_value, NEW load_value, NEW stall, NEW irq,
         Clock(outcome, fetch, exe_value, load_value, stall, irq)
  PROVE  ExecuteOperand' /\ OperandsCurrent'
<1> DEFINE redirect == br_redirect(outcome)
           exe_result == IF es_flush THEN 0 ELSE exe_value
           mem_result == IF mem.inst.op \in LoadOps THEN load_value ELSE mem.result
<1> USE DEF IInv
<1>1. /\ ExecuteEdge(redirect, exe_result, mem_result, stall)
      /\ MemoryEdge(outcome, exe_result)
      /\ GhostEdge(mem_result)
  BY DEF Clock
<1>2. ms_allowin
  BY DEF ms_allowin, ws_allowin
<1>3. ASSUME NEW r \in Regs \ {0}
      PROVE  arch_reg'[r] = IF mem.valid /\ mem_regfile_wen /\ mem.inst.rd = r
                              THEN mem_result ELSE arch_reg[r]
  <2>1. arch_reg'[r] = IF perf_retire_valid /\ Wen(mem.inst) /\ mem.inst.rd = r
                         THEN mem_result ELSE arch_reg[r]
    BY <1>1 DEF GhostEdge, TypeOK
  <2>2. perf_retire_valid => mem.valid
    BY DEF perf_retire_valid
  <2> QED
    BY <2>1, <2>2, WriteIffRetired
<1>4. ASSUME NEW r, mem.valid, ~ exception_flag
      PROVE  WritesReg(r) <=> mem_regfile_wen /\ mem.inst.rd = r
  BY <1>4 DEF WritesReg, mem_regfile_wen
<1>5. ASSUME NeedRs(exs.inst) PROVE exs.inst.rs \in Regs \ {0}
  BY <1>5, InstType DEF NeedRs, TypeOK
<1>6. ASSUME NeedRs(ids.inst) PROVE ids.inst.rs \in Regs \ {0}
  BY <1>6, InstType DEF NeedRs, TypeOK
(* What an unflushed instruction in EX has is what the registers will hold  *)
(* when its elder is gone, provided that one does not trap.                 *)
<1>7. ASSUME exs.valid, ~ exs.flush, NeedRs(exs.inst), ~ exception_flag
      PROVE  exs.src = arch_reg'[exs.inst.rs]
  <2> DEFINE r == exs.inst.rs
  <2>1. r \in Regs \ {0}
    BY <1>5, <1>7
  <2>2. CASE WritesReg(r)
    <3>1. mem.inst.op \notin LoadOps /\ exs.src = mem.result
      BY <1>7, <2>2 DEF ExecuteOperand
    <3>2. mem.valid /\ mem_regfile_wen /\ mem.inst.rd = r
      BY <1>4, <1>7, <2>2 DEF WritesReg
    <3> QED
      BY <1>3, <2>1, <3>1, <3>2
  <2>3. CASE ~ WritesReg(r)
    <3>1. exs.src = arch_reg[r]
      BY <1>7, <2>3 DEF ExecuteOperand
    <3>2. ~ (mem.valid /\ mem_regfile_wen /\ mem.inst.rd = r)
      BY <1>4, <1>7, <2>3
    <3> QED
      BY <1>3, <2>1, <3>1, <3>2
  <2> QED
    BY <2>2, <2>3
(* What EX hands to MEM, or the bubble it leaves there.                     *)
<1>8. ASSUME es_to_ms_valid
      PROVE  /\ mem'.valid /\ mem'.inst = exs.inst /\ mem'.flush = es_flush
             /\ mem'.result = exe_result /\ mem'.src = exs.src
  BY <1>1, <1>2, <1>8 DEF MemoryEdge
<1>9. ASSUME ~ es_to_ms_valid PROVE ~ mem'.valid
  BY <1>1, <1>2, <1>9 DEF MemoryEdge, TypeOK
<1>10. OperandsCurrent'
  <2>1. CASE es_to_ms_valid
    BY <1>7, <1>8, <2>1 DEF OperandsCurrent, es_flush, es_to_ms_valid
  <2>2. CASE ~ es_to_ms_valid
    BY <1>9, <2>2 DEF OperandsCurrent
  <2> QED
    BY <2>1, <2>2
<1>11. ExecuteOperand'
  <2> DEFINE Owns(r) == mem'.valid /\ Wen(mem'.inst) /\ ~ mem'.flush
                        /\ mem'.inst.rd = r
             Right(r) == IF Owns(r)
                           THEN mem'.inst.op \notin LoadOps /\ exs'.src = mem'.result
                           ELSE exs'.src = arch_reg'[r]
  <2> SUFFICES ASSUME exs'.valid, ~ exs'.flush, NeedRs(exs'.inst)
               PROVE  Right(exs'.inst.rs)
    BY DEF ExecuteOperand, WritesReg, Wen, NeedRs
  (* An instruction enters EX.                                              *)
  <2>1. CASE ds_to_es_valid /\ es_allowin
    <3>1. /\ exs'.inst = ids.inst
          /\ exs'.flush = ds_flush(redirect)
          /\ exs'.src = operand(exe_result, mem_result)
      BY <1>1, <2>1 DEF ExecuteEdge
    <3> DEFINE r == ids.inst.rs
    <3>2. NeedRs(ids.inst) /\ r \in Regs \ {0}
      BY <1>6, <3>1
    <3>3. ~ exception_flag
      BY <3>1 DEF ds_flush
    <3>4. exs.valid => es_to_ms_valid
      BY <2>1 DEF es_allowin, es_to_ms_valid
    <3>5. CASE exs.valid /\ exe_regfile_wen /\ exs.inst.rd = r
      <4>1. exs'.src = exe_result
        BY <3>1, <3>2, <3>5 DEF operand
      <4>2. exs.inst.op \notin LoadOps
        BY <2>1, <3>2, <3>5
        DEF ds_to_es_valid, load_use_hazard, exe_load_use, PrevLoadInv
      <4>3. Owns(r)
        BY <1>8, <3>4, <3>5 DEF exe_regfile_wen
      <4> QED
        BY <1>8, <3>1, <3>4, <3>5, <4>1, <4>2, <4>3
    <3>6. CASE ~ (exs.valid /\ exe_regfile_wen /\ exs.inst.rd = r)
      <4>1. ~ Owns(r)
        <5>1. CASE exs.valid
          BY <1>8, <3>4, <3>6, <5>1 DEF exe_regfile_wen
        <5>2. CASE ~ exs.valid
          BY <1>9, <5>2 DEF es_to_ms_valid
        <5> QED
          BY <5>1, <5>2
      <4>2. exs'.src = IF mem_regfile_wen /\ mem.inst.rd = r /\ mem.valid
                         THEN mem_result
                         ELSE IF wb.wen /\ wb.rd = r THEN wb.value
                         ELSE regfile[r]
        BY <3>1, <3>2, <3>6 DEF operand
      <4>3. arch_reg[r] = IF wb.wen /\ wb.rd = r THEN wb.value ELSE regfile[r]
        BY <3>2 DEF RegistersCommitted, Committed
      <4>4. exs'.src = arch_reg'[r]
        BY <1>3, <3>2, <4>2, <4>3
      <4> QED
        BY <3>1, <4>1, <4>4
    <3> QED
      BY <3>5, <3>6
  (* Nothing enters; if EX stays valid it waits for a multi-cycle operation. *)
  <2>2. CASE ~ (ds_to_es_valid /\ es_allowin)
    <3>1. exs' = [exs EXCEPT !.valid = IF es_allowin THEN FALSE ELSE @]
      BY <1>1, <2>2 DEF ExecuteEdge
    <3>2. /\ exs'.inst = exs.inst /\ exs'.flush = exs.flush /\ exs'.src = exs.src
          /\ exs'.valid = IF es_allowin THEN FALSE ELSE exs.valid
      BY <3>1 DEF TypeOK
    <3>3. exs.valid /\ mul_stall
      BY <1>2, <3>2 DEF es_allowin
    <3>4. ~ exception_flag
      BY <3>3 DEF RedirectHeard
    <3>5. exs'.src = arch_reg'[exs'.inst.rs]
      BY <1>7, <3>2, <3>3, <3>4
    <3>6. ~ mem'.valid
      BY <1>9, <3>3 DEF es_to_ms_valid
    <3> QED
      BY <3>5, <3>6
  <2> QED
    BY <2>1, <2>2
<1> QED
  BY <1>10, <1>11

(* The operands are current as long as every redirect is heard.             *)
LEMMA OperandInvariant == Spec /\ []RedirectHeard => []OperandsCurrent
<1> DEFINE OInv == IInv /\ ExecuteOperand /\ OperandsCurrent
<1>1. Init => OInv
  BY InitIInv DEF Init, ExecuteOperand, OperandsCurrent
<1>2. OInv /\ RedirectHeard /\ [Next]_vars => OInv'
  <2> SUFFICES ASSUME OInv, RedirectHeard, [Next]_vars PROVE OInv'
    OBVIOUS
  <2>1. IInv'
    BY StepIInv
  <2>2. CASE Next
    <3>1. PICK outcome, fetch, exe_value, load_value, stall, irq :
            Clock(outcome, fetch, exe_value, load_value, stall, irq)
      BY <2>2, NextInputs DEF IInv
    <3> QED
      BY <2>1, <3>1, ClockOperands
  <2>3. CASE UNCHANGED vars
    BY <2>1, <2>3 DEF vars, ExecuteOperand, OperandsCurrent, WritesReg
  <2> QED
    BY <2>2, <2>3
<1>3. OInv => OperandsCurrent
  OBVIOUS
<1> QED
  BY <1>1, <1>2, <1>3, PTL DEF Spec

(* Forwarding, the load-use stall and the write-back bypass give every      *)
(* instruction the operand its elders left, in every program in which no    *)
(* trap can be taken ahead of a multi-cycle operation (hazard_unit.sv,      *)
(* forwarding_unit.sv, id_stage.sv:219-268).                                *)
THEOREM OperandsAlwaysCurrent ==
  ASSUME NoTrapBeforeMul
  PROVE  Spec => []OperandsCurrent
  BY AlwaysHeard, OperandInvariant, PTL

-----------------------------------------------------------------------------
(* Program order.  Follow the pcs from MEM back to fetch: every stage that  *)
(* holds an instruction of the program holds the one its elder leads to,    *)
(* EX and ID by what was predicted for them.  While a redirect waits in     *)
(* br_taken_reg, ID and EX hold nothing of the program and br_target_reg is *)
(* where it goes on.                                                        *)

Predicted(slot) == IF slot.pred = NoPred THEN Seq4(slot.pc) ELSE slot.pred

AfterMem == IF Live(mem) THEN mem.next ELSE arch_pc
AfterExe == IF Live(exs) THEN Predicted(exs) ELSE AfterMem
AfterDec == IF Live(ids) THEN Predicted(ids) ELSE AfterExe

PredInv ==
  /\ ids.inst.op \notin JumpOps => ids.pred = NoPred
  /\ exs.inst.op \notin JumpOps => exs.pred = NoPred

PathInv ==
  /\ Live(mem) => mem.pc = arch_pc
  /\ Live(exs) => exs.pc = AfterMem
  /\ ifs.br_taken =>
       ifs.valid /\ ~ Live(exs) /\ ~ Live(ids) /\ ifs.br_target = AfterMem
  /\ ~ ifs.br_taken /\ Live(ids) => ids.pc = AfterExe
  /\ ~ ifs.br_taken /\ ifs.valid => ifs.pc = AfterDec
  /\ ~ ifs.valid => ~ mem.valid /\ Seq4(ifs.pc) = arch_pc

(* Only a jump carries a prediction.                                        *)
LEMMA ClockPred ==
  ASSUME TypeOK, PredInv,
         NEW outcome, NEW fetch, NEW exe_value, NEW load_value, NEW stall, NEW irq,
         Inputs(outcome, fetch, exe_value, load_value, stall, irq),
         Clock(outcome, fetch, exe_value, load_value, stall, irq)
  PROVE  PredInv'
<1> DEFINE redirect == br_redirect(outcome)
           exe_result == IF es_flush THEN 0 ELSE exe_value
           mem_result == IF mem.inst.op \in LoadOps THEN load_value ELSE mem.result
<1>1. /\ DecodeEdge(fetch, redirect)
      /\ ExecuteEdge(redirect, exe_result, mem_result, stall)
  BY DEF Clock
<1>2. ids'.inst.op \notin JumpOps => ids'.pred = NoPred
  <2>1. CASE ifs.valid /\ ds_allowin
    <3>1. /\ ids'.inst = fetch.inst
          /\ ids'.pred = IF Squash(redirect) THEN NoPred ELSE fetch.pred
      BY <1>1, <2>1 DEF DecodeEdge
    <3>2. CASE Squash(redirect)
      BY <3>1, <3>2
    <3>3. CASE ~ Squash(redirect)
      <4>1. fetch.inst.op \notin JumpOps => fetch.pred = NoPred
        BY <3>3 DEF Inputs, Fetches, NOP_INST, Inst
      <4> QED
        BY <3>1, <3>3, <4>1
    <3> QED
      BY <3>2, <3>3
  <2>2. CASE ~ (ifs.valid /\ ds_allowin)
    BY <1>1, <2>2 DEF DecodeEdge, PredInv
  <2> QED
    BY <2>1, <2>2
<1>3. exs'.inst.op \notin JumpOps => exs'.pred = NoPred
  <2>1. CASE ds_to_es_valid /\ es_allowin
    BY <1>1, <2>1 DEF ExecuteEdge, PredInv
  <2>2. CASE ~ (ds_to_es_valid /\ es_allowin)
    <3>1. exs' = [exs EXCEPT !.valid = IF es_allowin THEN FALSE ELSE @]
      BY <1>1, <2>2 DEF ExecuteEdge
    <3>2. exs'.pred = exs.pred /\ exs'.inst = exs.inst
      BY <3>1 DEF TypeOK
    <3> QED
      BY <3>2 DEF PredInv
  <2> QED
    BY <2>1, <2>2
<1> QED
  BY <1>2, <1>3 DEF PredInv

(* Only an instruction of the program redirects fetch, and fetch is ready   *)
(* to follow it.                                                            *)
LEMMA RedirectFollowed ==
  ASSUME IInv, NEW outcome, br_redirect(outcome)
  PROVE  Live(exs) /\ ds_allowin /\ fs_allowin /\ es_to_ms_valid
<1>1. exs.inst.op \in JumpOps /\ ~ es_flush
  BY DEF br_redirect
<1>2. exs.inst.op \notin LoadOps \cup {"nop", "mul"}
  BY <1>1 DEF JumpOps, LoadOps
<1>3. exs.valid
  BY <1>2 DEF IInv, BubbleRepeatsLoad, ReadsAgain, NothingYet
<1>4. ~ mul_stall
  BY <1>2 DEF mul_stall
<1>5. ~ load_use_hazard
  BY <1>2 DEF load_use_hazard, exe_load_use, IInv, PrevLoadInv
<1>6. es_allowin
  BY <1>4 DEF es_allowin, ms_allowin, ws_allowin
<1> QED
  BY <1>1, <1>2, <1>3, <1>4, <1>5, <1>6
  DEF Live, es_flush, ds_allowin, fs_allowin, es_to_ms_valid

(* A trap or a return finds every stage ready to move.                      *)
LEMMA TrapMovesAll ==
  ASSUME RedirectHeard, exception_flag
  PROVE  es_allowin /\ ds_allowin /\ fs_allowin
<1>1. es_allowin
  BY DEF RedirectHeard, es_allowin, ms_allowin, ws_allowin
<1>2. ~ load_use_hazard
  BY DEF load_use_hazard, exe_load_use, exe_regfile_wen, es_flush
<1> QED
  BY <1>1, <1>2 DEF ds_allowin, fs_allowin

(* A trap or a return: whatever was behind MEM is dead after the edge and   *)
(* fetch stands where the program goes on.                                  *)
LEMMA TrapPath ==
  ASSUME RedirectHeard, IInv, PathInv, exception_flag,
         NEW outcome, NEW fetch, NEW exe_value, NEW load_value, NEW stall, NEW irq,
         Inputs(outcome, fetch, exe_value, load_value, stall, irq),
         Clock(outcome, fetch, exe_value, load_value, stall, irq)
  PROVE  PathInv'
<1> DEFINE redirect == br_redirect(outcome)
           exe_result == IF es_flush THEN 0 ELSE exe_value
           mem_result == IF mem.inst.op \in LoadOps THEN load_value ELSE mem.result
<1> USE DEF IInv
<1>1. /\ FetchEdge(fetch, outcome)
      /\ DecodeEdge(fetch, redirect)
      /\ ExecuteEdge(redirect, exe_result, mem_result, stall)
      /\ MemoryEdge(outcome, exe_result)
      /\ GhostEdge(mem_result)
  BY DEF Clock
<1>2. es_allowin /\ ds_allowin /\ fs_allowin
  BY TrapMovesAll
<1>3. es_flush /\ ~ redirect
  BY DEF es_flush, br_redirect
<1>4. ~ Live(mem)'
  <2>1. CASE es_to_ms_valid /\ ms_allowin
    <3>1. mem'.flush
      BY <1>1, <1>3, <2>1 DEF MemoryEdge
    <3> QED
      BY <3>1 DEF Live
  <2>2. CASE ~ (es_to_ms_valid /\ ms_allowin)
    <3>1. ~ mem'.valid
      BY <1>1, <2>2 DEF MemoryEdge, TypeOK, ms_allowin, ws_allowin
    <3> QED
      BY <3>1 DEF Live
  <2> QED
    BY <2>1, <2>2
<1>5. ~ Live(exs)'
  <2>1. CASE ds_to_es_valid
    <3>1. exs'.flush = ds_flush(redirect)
      BY <1>1, <1>2, <2>1 DEF ExecuteEdge
    <3> QED
      BY <3>1 DEF Live, ds_flush
  <2>2. CASE ~ ds_to_es_valid
    <3>1. exs' = [exs EXCEPT !.valid = IF es_allowin THEN FALSE ELSE @]
      BY <1>1, <2>2 DEF ExecuteEdge
    <3>2. ~ exs'.valid
      BY <1>2, <3>1 DEF TypeOK
    <3> QED
      BY <3>2 DEF Live
  <2> QED
    BY <2>1, <2>2
<1>6. ~ Live(ids)'
  <2>1. CASE ifs.valid
    <3>1. ids'.inst = fetch.inst
      BY <1>1, <1>2, <2>1 DEF DecodeEdge
    <3>2. fetch.inst = NOP_INST
      BY <2>1 DEF Inputs, Fetches, Squash
    <3> QED
      BY <3>1, <3>2 DEF Live, NOP_INST, Inst
  <2>2. CASE ~ ifs.valid
    <3>1. ~ ids'.valid
      BY <1>1, <1>2, <2>2 DEF DecodeEdge
    <3> QED
      BY <3>1 DEF Live
  <2> QED
    BY <2>1, <2>2
<1>7. ifs'.valid /\ ~ ifs'.br_taken /\ ifs'.pc = exception_addr
  BY <1>1, <1>2, <1>3 DEF FetchEdge, next_pc
<1>8. arch_pc' = exception_addr
  <2>1. CASE Trap
    <3>1. ~ mret_jmp_flag
      BY <2>1 DEF Trap, mret_jmp_flag, mret_flag, sync_exception
    <3> QED
      BY <1>1, <2>1, <3>1 DEF GhostEdge, exception_addr
  <2>2. CASE ~ Trap
    BY <1>1, <2>2 DEF GhostEdge, exception_addr, exception_flag
  <2> QED
    BY <2>1, <2>2
<1>9. AfterDec' = arch_pc'
  BY <1>4, <1>5, <1>6 DEF AfterDec, AfterExe, AfterMem
<1> QED
  BY <1>4, <1>5, <1>6, <1>7, <1>8, <1>9 DEF PathInv

(* Without a trap the sequential machine reaches what MEM leads to, and MEM *)
(* takes over what EX held.                                                 *)
LEMMA MemorySteps ==
  ASSUME IInv, ~ exception_flag,
         NEW outcome, NEW fetch, NEW exe_value, NEW load_value, NEW stall, NEW irq,
         Clock(outcome, fetch, exe_value, load_value, stall, irq)
  PROVE  /\ arch_pc' = AfterMem
         /\ es_to_ms_valid =>
              /\ (Live(mem)' <=> Live(exs))
              /\ mem'.pc = exs.pc /\ mem'.next = Follow(outcome)
         /\ ~ es_to_ms_valid => ~ mem'.valid
<1> DEFINE exe_result == IF es_flush THEN 0 ELSE exe_value
           mem_result == IF mem.inst.op \in LoadOps THEN load_value ELSE mem.result
<1> USE DEF IInv
<1>1. MemoryEdge(outcome, exe_result) /\ GhostEdge(mem_result)
  BY DEF Clock
<1>2. ms_allowin
  BY DEF ms_allowin, ws_allowin
<1>3. arch_pc' = AfterMem
  <2>1. ~ Trap /\ ~ mret_jmp_flag
    BY DEF exception_flag
  <2>2. perf_retire_valid /\ mem.inst.op # "nop" <=> Live(mem)
    BY <2>1 DEF perf_retire_valid, Live, Trap
  <2> QED
    BY <1>1, <2>1, <2>2 DEF GhostEdge, AfterMem
<1>4. ASSUME es_to_ms_valid
      PROVE  /\ (Live(mem)' <=> Live(exs))
             /\ mem'.pc = exs.pc /\ mem'.next = Follow(outcome)
  <2>1. /\ mem'.valid /\ mem'.inst = exs.inst /\ mem'.flush = es_flush
        /\ mem'.pc = exs.pc /\ mem'.next = Follow(outcome)
    BY <1>1, <1>2, <1>4 DEF MemoryEdge
  <2>2. es_flush <=> exs.flush
    BY DEF es_flush
  <2>3. exs.valid
    BY <1>4 DEF es_to_ms_valid
  <2> QED
    BY <2>1, <2>2, <2>3 DEF Live
<1>5. ASSUME ~ es_to_ms_valid PROVE ~ mem'.valid
  BY <1>1, <1>2, <1>5 DEF MemoryEdge, TypeOK
<1> QED
  BY <1>3, <1>4, <1>5

(* Without a trap or a redirect EX and ID move as predicted: what comes     *)
(* after EX is what came after it before, or after ID if ID moved on.       *)
LEMMA ExecuteSteps ==
  ASSUME IInv, PredInv, PathInv, ~ exception_flag,
         NEW outcome, NEW fetch, NEW exe_value, NEW load_value, NEW stall, NEW irq,
         Inputs(outcome, fetch, exe_value, load_value, stall, irq),
         Clock(outcome, fetch, exe_value, load_value, stall, irq),
         ~ br_redirect(outcome)
  PROVE  /\ Live(mem)' => mem'.pc = arch_pc'
         /\ Live(exs)' => \/ ds_to_es_valid /\ es_allowin /\ Live(ids)
                          \/ Live(exs)
         /\ ~ ifs.br_taken /\ Live(exs)' => exs'.pc = AfterMem'
         /\ ~ (ds_to_es_valid /\ es_allowin) /\ Live(exs)' => exs'.pc = AfterMem'
         /\ ~ (ds_to_es_valid /\ es_allowin) => AfterExe' = AfterExe
         /\ ds_to_es_valid /\ es_allowin => AfterExe' = AfterDec
<1> DEFINE redirect == br_redirect(outcome)
           exe_result == IF es_flush THEN 0 ELSE exe_value
           mem_result == IF mem.inst.op \in LoadOps THEN load_value ELSE mem.result
<1> USE DEF IInv
<1>1. ExecuteEdge(redirect, exe_result, mem_result, stall)
  BY DEF Clock
(* A live instruction that does not redirect goes where it was predicted to. *)
<1>2. Live(exs) => Follow(outcome) = Predicted(exs)
  <2>1. CASE exs.inst.op \in JumpOps
    BY <2>1 DEF br_redirect, es_flush, Live, Follow, Predicted
  <2>2. CASE exs.inst.op \notin JumpOps
    BY <2>2 DEF Inputs, Outcomes, PredInv, Follow, Predicted
  <2> QED
    BY <2>1, <2>2
<1>3. Live(mem)' => mem'.pc = arch_pc'
  <2>1. Live(mem)' => es_to_ms_valid
    BY MemorySteps DEF Live
  <2> QED
    BY <2>1, MemorySteps DEF PathInv
<1>4. CASE es_allowin
  <2>1. AfterMem' = AfterExe
    <3>1. CASE es_to_ms_valid
      BY <1>2, <3>1, MemorySteps DEF AfterMem, AfterExe
    <3>2. CASE ~ es_to_ms_valid
      <4>1. ~ exs.valid
        BY <1>4, <3>2 DEF es_to_ms_valid, es_allowin
      <4> QED
        BY <3>2, <4>1, MemorySteps DEF AfterMem, AfterExe, Live
    <3> QED
      BY <3>1, <3>2
  <2>2. CASE ds_to_es_valid
    <3>1. /\ exs'.valid /\ exs'.inst = ids.inst /\ exs'.pc = ids.pc
          /\ exs'.pred = ids.pred /\ exs'.flush = ds_flush(redirect)
      BY <1>1, <1>4, <2>2 DEF ExecuteEdge
    <3>2. ds_flush(redirect) <=> ids.flush
      BY DEF ds_flush
    <3>3. Live(exs)' <=> Live(ids)
      BY <2>2, <3>1, <3>2 DEF Live, ds_to_es_valid
    <3>4. Live(exs)' => Predicted(exs)' = Predicted(ids)
      BY <3>1 DEF Predicted, Seq4
    <3>5. AfterExe' = AfterDec
      BY <2>1, <3>3, <3>4 DEF AfterExe, AfterDec
    <3>6. ~ ifs.br_taken /\ Live(exs)' => exs'.pc = AfterMem'
      BY <2>1, <3>1, <3>3 DEF PathInv
    <3> QED
      BY <1>3, <1>4, <2>2, <3>3, <3>5, <3>6
  <2>3. CASE ~ ds_to_es_valid
    <3>1. exs' = [exs EXCEPT !.valid = IF es_allowin THEN FALSE ELSE @]
      BY <1>1, <2>3 DEF ExecuteEdge
    <3>2. ~ Live(exs)'
      BY <1>4, <3>1 DEF Live, TypeOK
    <3>3. AfterExe' = AfterExe
      BY <2>1, <3>2 DEF AfterExe
    <3> QED
      BY <1>3, <2>3, <3>2, <3>3
  <2> QED
    BY <2>2, <2>3
<1>5. CASE ~ es_allowin
  <2>1. exs' = [exs EXCEPT !.valid = IF es_allowin THEN FALSE ELSE @]
    BY <1>1, <1>5 DEF ExecuteEdge
  <2>2. exs' = exs
    BY <1>5, <2>1 DEF TypeOK
  <2>3. ~ es_to_ms_valid
    BY <1>5 DEF es_allowin, es_to_ms_valid, ms_allowin, ws_allowin
  <2>4. AfterMem' = AfterMem
    BY <2>3, MemorySteps DEF AfterMem, Live
  <2>5. AfterExe' = AfterExe
    BY <2>2, <2>4 DEF AfterExe, Live, Predicted, Seq4
  <2>6. Live(exs)' => Live(exs) /\ exs'.pc = AfterMem'
    BY <2>2, <2>4 DEF Live, PathInv
  <2> QED
    BY <1>3, <1>5, <2>5, <2>6
<1> QED
  BY <1>4, <1>5

(* A redirect: EX hands the jump to MEM, what is behind it dies, and        *)
(* br_target_reg holds where the jump goes.                                 *)
LEMMA RedirectPath ==
  ASSUME IInv, PathInv, ~ exception_flag,
         NEW outcome, NEW fetch, NEW exe_value, NEW load_value, NEW stall, NEW irq,
         Inputs(outcome, fetch, exe_value, load_value, stall, irq),
         Clock(outcome, fetch, exe_value, load_value, stall, irq),
         br_redirect(outcome)
  PROVE  PathInv'
<1> DEFINE redirect == br_redirect(outcome)
           exe_result == IF es_flush THEN 0 ELSE exe_value
           mem_result == IF mem.inst.op \in LoadOps THEN load_value ELSE mem.result
<1> USE DEF IInv
<1>1. /\ FetchEdge(fetch, outcome)
      /\ DecodeEdge(fetch, redirect)
      /\ ExecuteEdge(redirect, exe_result, mem_result, stall)
  BY DEF Clock
<1>2. Live(exs) /\ ds_allowin /\ fs_allowin /\ es_to_ms_valid
  BY RedirectFollowed
<1>3. /\ Live(mem)' /\ mem'.pc = arch_pc' /\ AfterMem' = Follow(outcome)
  BY <1>2, MemorySteps DEF PathInv, AfterMem
<1>4. ~ Live(exs)'
  <2>1. CASE ds_to_es_valid /\ es_allowin
    <3>1. exs'.flush = ds_flush(redirect)
      <4> HIDE DEF redirect, exe_result, mem_result
      <4> QED
        BY <1>1, <2>1 DEF ExecuteEdge
    <3> QED
      BY <3>1 DEF Live, ds_flush
  <2>2. CASE ~ (ds_to_es_valid /\ es_allowin)
    <3>1. exs' = [exs EXCEPT !.valid = IF es_allowin THEN FALSE ELSE @]
      BY <1>1, <2>2 DEF ExecuteEdge
    <3>2. es_allowin
      BY <1>2 DEF es_allowin, es_to_ms_valid, ms_allowin, ws_allowin
    <3> QED
      BY <3>1, <3>2 DEF Live, TypeOK
  <2> QED
    BY <2>1, <2>2
<1>5. ~ Live(ids)'
  <2>1. CASE ifs.valid
    <3>1. ids'.inst = fetch.inst
      BY <1>1, <1>2, <2>1 DEF DecodeEdge
    <3>2. fetch.inst = NOP_INST
      BY <2>1 DEF Inputs, Fetches, Squash
    <3> QED
      BY <3>1, <3>2 DEF Live, NOP_INST, Inst
  <2>2. CASE ~ ifs.valid
    <3>1. ~ ids'.valid
      BY <1>1, <1>2, <2>2 DEF DecodeEdge
    <3> QED
      BY <3>1 DEF Live
  <2> QED
    BY <2>1, <2>2
<1>6. ifs'.valid /\ ifs'.br_taken /\ ifs'.br_target = Follow(outcome)
  BY <1>1, <1>2 DEF FetchEdge
<1> QED
  BY <1>3, <1>4, <1>5, <1>6 DEF PathInv

(* Neither: fetch, ID, EX and MEM stay on one path.                         *)
LEMMA QuietPath ==
  ASSUME IInv, PredInv, PathInv, ~ exception_flag,
         NEW outcome, NEW fetch, NEW exe_value, NEW load_value, NEW stall, NEW irq,
         Inputs(outcome, fetch, exe_value, load_value, stall, irq),
         Clock(outcome, fetch, exe_value, load_value, stall, irq),
         ~ br_redirect(outcome)
  PROVE  PathInv'
<1> DEFINE redirect == br_redirect(outcome)
<1> USE DEF IInv
<1>1. FetchEdge(fetch, outcome) /\ DecodeEdge(fetch, redirect)
  BY DEF Clock
<1>2. Live(mem)' => mem'.pc = arch_pc'
  BY ExecuteSteps
<1>3. Live(exs)' => exs'.pc = AfterMem'
  <2>1. CASE ~ ifs.br_taken
    BY <2>1, ExecuteSteps
  <2>2. CASE ifs.br_taken
    BY <2>2, ExecuteSteps DEF PathInv
  <2> QED
    BY <2>1, <2>2
<1>4. FlushLatch(redirect) <=> ids.valid /\ ids.flush /\ ~ (ifs.valid /\ ds_allowin)
  BY DEF FlushLatch
<1>5. CASE ifs.valid /\ ds_allowin
  <2>1. /\ ids'.valid /\ ids'.inst = fetch.inst /\ ids'.pc = ifs.pc
        /\ ids'.pred = IF Squash(redirect) THEN NoPred ELSE fetch.pred
        /\ ~ ids'.flush
    BY <1>1, <1>4, <1>5 DEF DecodeEdge
  <2>2. /\ ifs'.valid /\ ifs'.pc = next_pc(fetch.pred) /\ ~ ifs'.br_taken
    BY <1>1, <1>5 DEF FetchEdge, fs_allowin
  <2>3. AfterExe' = AfterDec
    <3>1. CASE ids.valid
      BY <1>5, <3>1, ExecuteSteps DEF ds_allowin, ds_to_es_valid
    <3>2. CASE ~ ids.valid
      <4>1. ~ (ds_to_es_valid /\ es_allowin)
        BY <3>2 DEF ds_to_es_valid
      <4>2. AfterExe' = AfterExe
        BY <4>1, ExecuteSteps, Zenon
      <4> QED
        BY <3>2, <4>2 DEF AfterDec, Live
    <3> QED
      BY <3>1, <3>2
  <2>4. CASE ifs.br_taken
    <3>1. AfterDec = ifs.br_target
      BY <2>4 DEF PathInv, AfterDec, AfterExe
    <3>2. fetch.inst = NOP_INST
      BY <1>5, <2>4 DEF Inputs, Fetches, Squash
    <3>3. ~ Live(ids)'
      BY <2>1, <3>2 DEF Live, NOP_INST, Inst
    <3>4. ifs'.pc = ifs.br_target
      BY <2>2, <2>4 DEF next_pc
    <3>5. AfterDec' = ifs.br_target
      BY <2>3, <3>1, <3>3 DEF AfterDec
    <3> QED
      BY <1>2, <1>3, <2>2, <3>3, <3>4, <3>5 DEF PathInv
  <2>5. CASE ~ ifs.br_taken
    <3>1. ~ Squash(redirect)
      BY <2>5 DEF Squash
    <3>2. ifs.pc = AfterDec
      BY <1>5, <2>5 DEF PathInv
    <3>3. fetch.inst \in Insts
      BY <1>5, <3>1 DEF Inputs, Fetches, fs_allowin
    <3>4. fetch.inst.op # "nop"
      BY <3>3, OpsAssumption DEF Insts, AllOps
    <3>5. Live(ids)'
      BY <2>1, <3>4 DEF Live
    <3>6. ifs'.pc = IF fetch.pred = NoPred THEN Seq4(ifs.pc) ELSE fetch.pred
      BY <2>2, <2>5 DEF next_pc
    <3>7. Predicted(ids)' = ifs'.pc
      BY <2>1, <3>1, <3>6 DEF Predicted, Seq4
    <3>8. AfterDec' = ifs'.pc
      BY <3>5, <3>7 DEF AfterDec
    <3>9. ids'.pc = AfterExe'
      BY <2>1, <2>3, <3>2
    <3> QED
      BY <1>2, <1>3, <2>2, <3>8, <3>9 DEF PathInv
  <2> QED
    BY <2>4, <2>5
(* The first edge after reset.                                              *)
<1>6. CASE ~ ifs.valid
  <2>1. ~ ids.valid /\ ~ exs.valid /\ ~ mem.valid /\ ~ ifs.br_taken
    BY <1>6 DEF FillInv, PathInv
  <2>2. ds_allowin /\ fs_allowin
    BY <1>6, <2>1 DEF ds_allowin, fs_allowin
  <2>3. fetch.pred = NoPred
    BY <1>6 DEF Inputs, Fetches
  <2>4. /\ ifs'.valid /\ ~ ifs'.br_taken /\ ifs'.pc = Seq4(ifs.pc)
    BY <1>1, <2>1, <2>2, <2>3 DEF FetchEdge, next_pc
  <2>5. ~ ids'.valid
    BY <1>1, <1>6, <2>2 DEF DecodeEdge
  <2>6. arch_pc' = Seq4(ifs.pc)
    BY <1>6, <2>1, MemorySteps DEF PathInv, AfterMem, Live
  <2>7. ~ Live(mem)' /\ ~ Live(exs)' /\ ~ Live(ids)'
    BY <2>1, <2>5, MemorySteps, ExecuteSteps DEF Live, es_to_ms_valid
  <2> QED
    BY <2>4, <2>6, <2>7 DEF PathInv, AfterDec, AfterExe, AfterMem
<1>7. CASE ifs.valid /\ ~ ds_allowin
  <2>1. ifs' = ifs
    BY <1>1, <1>7 DEF FetchEdge, fs_allowin
  <2>2. /\ ids'.valid /\ ids'.inst = ids.inst /\ ids'.pc = ids.pc
        /\ ids'.pred = ids.pred
        /\ ids'.flush <=> ids.flush
    BY <1>1, <1>4, <1>7 DEF DecodeEdge, ds_allowin
  <2>3. ~ (ds_to_es_valid /\ es_allowin) /\ ids.valid
    BY <1>7 DEF ds_allowin, ds_to_es_valid
  <2>4. AfterExe' = AfterExe
    BY <2>3, ExecuteSteps, Zenon
  <2>5. Live(ids)' <=> Live(ids)
    BY <2>2, <2>3 DEF Live
  <2>6. AfterDec' = AfterDec
    BY <2>2, <2>4, <2>5 DEF AfterDec, Predicted, Seq4
  <2>7. ifs.br_taken => ~ Live(exs)' /\ ~ Live(ids)' /\ ifs.br_target = AfterMem'
    <3>1. ifs.br_taken => ~ Live(exs)'
      BY <2>3, ExecuteSteps DEF PathInv
    <3>2. ifs.br_taken => AfterMem' = AfterExe'
      BY <3>1 DEF AfterExe
    <3> QED
      BY <2>4, <2>5, <3>1, <3>2 DEF PathInv, AfterExe
  <2> QED
    BY <1>2, <1>3, <1>7, <2>1, <2>2, <2>4, <2>5, <2>6, <2>7 DEF PathInv
<1> QED
  BY <1>5, <1>6, <1>7

(* The invariant of program order.                                          *)
PInv == IInv /\ PredInv /\ PathInv

(* At reset all stages are on the path of the program.                      *)
LEMMA InitPInv == Init => PInv
<1> SUFFICES ASSUME Init PROVE PInv
  OBVIOUS
<1> USE DEF PInv
<1>1. IInv
  BY InitIInv
<1>2. PredInv
  BY DEF Init, PredInv
<1>3. Seq4(NumPC - 1) = 0
  BY NumPCAssumption DEF Seq4
<1>4. PathInv
  BY <1>3 DEF Init, PathInv, Live
<1> QED
  BY <1>1, <1>2, <1>4

(* And every step keeps them on it.                                         *)
LEMMA StepPInv == PInv /\ RedirectHeard /\ [Next]_vars => PInv'
<1> SUFFICES ASSUME PInv, RedirectHeard, [Next]_vars PROVE PInv'
  OBVIOUS
<1> USE DEF PInv
<1>1. IInv'
  BY StepIInv
<1>2. CASE Next
  <2>1. PICK outcome, fetch, exe_value, load_value, stall, irq :
          /\ Inputs(outcome, fetch, exe_value, load_value, stall, irq)
          /\ Clock(outcome, fetch, exe_value, load_value, stall, irq)
    BY <1>2, NextInputs DEF IInv
  <2>2. PredInv'
    BY <2>1, ClockPred DEF IInv
  <2>3. PathInv'
    BY <2>1, TrapPath, RedirectPath, QuietPath
  <2> QED
    BY <1>1, <2>2, <2>3
<1>3. CASE UNCHANGED vars
  BY <1>1, <1>3 DEF vars, PredInv, PathInv, AfterDec, AfterExe, AfterMem,
                    Live, Predicted, Seq4
<1> QED
  BY <1>2, <1>3

(* The invariant holds as long as every redirect is heard.                  *)
LEMMA PathInvariant == Spec /\ []RedirectHeard => []PInv
  BY InitPInv, StepPInv, PTL DEF Spec

(* Whatever is predicted, redirected, trapped or returned from, an          *)
(* unflushed instruction in MEM is the next one of the program, in every    *)
(* program in which no trap can be taken ahead of a multi-cycle operation   *)
(* (if_stage.sv:65-83, id_stage.sv:107-126, branch_controller.sv:84-87,     *)
(* regfile_csr.sv:193-207).                                                 *)
THEOREM ProgramOrder ==
  ASSUME NoTrapBeforeMul
  PROVE  Spec => []InOrder
<1>1. PInv => InOrder
  BY DEF PInv, PathInv, InOrder
<1> QED
  BY AlwaysHeard, PathInvariant, <1>1, PTL

-----------------------------------------------------------------------------
(* Interrupts.  A redirect by a jump leaves placeholders that are not       *)
(* flushed; a trap or a return leaves only flushed ones.                    *)

NoPlaceholder(slot) == slot.valid /\ ~ slot.flush => slot.inst.op # "nop"
NoPlaceholders ==
  ~ ifs.br_taken /\ NoPlaceholder(ids) /\ NoPlaceholder(exs) /\ NoPlaceholder(mem)

(* A program without jumps has no squashed slot but behind a trap.          *)
LEMMA ClockNoPlaceholders ==
  ASSUME Ops \cap JumpOps = {}, TypeOK, FillInv, NoPlaceholders,
         NEW outcome, NEW fetch, NEW exe_value, NEW load_value, NEW stall, NEW irq,
         Inputs(outcome, fetch, exe_value, load_value, stall, irq),
         Clock(outcome, fetch, exe_value, load_value, stall, irq)
  PROVE  NoPlaceholders'
<1> DEFINE redirect == br_redirect(outcome)
           exe_result == IF es_flush THEN 0 ELSE exe_value
           mem_result == IF mem.inst.op \in LoadOps THEN load_value ELSE mem.result
<1>1. /\ FetchEdge(fetch, outcome)
      /\ DecodeEdge(fetch, redirect)
      /\ ExecuteEdge(redirect, exe_result, mem_result, stall)
      /\ MemoryEdge(outcome, exe_result)
  BY DEF Clock
<1>2. ~ redirect
  <2>1. exs.inst \in Insts \cup {NOP_INST}
    BY DEF TypeOK
  <2>2. exs.inst.op \notin JumpOps
    BY <2>1 DEF Insts, NOP_INST, Inst, JumpOps
  <2> QED
    BY <2>2 DEF br_redirect
<1>3. ~ ifs'.br_taken
  BY <1>1, <1>2 DEF FetchEdge, NoPlaceholders
<1>4. NoPlaceholder(ids)'
  <2>1. CASE ifs.valid /\ ds_allowin
    <3>1. ids'.inst = fetch.inst /\ ids'.flush = FlushLatch(redirect)
      BY <1>1, <2>1 DEF DecodeEdge
    <3>2. CASE exception_flag
      BY <2>1, <3>1, <3>2 DEF FlushLatch, NoPlaceholder
    <3>3. CASE ~ exception_flag
      <4>1. fetch.inst \in Insts
        BY <1>2, <2>1, <3>3
        DEF Inputs, Fetches, Squash, fs_allowin, NoPlaceholders
      <4> QED
        BY <3>1, <4>1, OpsAssumption DEF Insts, AllOps, NoPlaceholder
    <3> QED
      BY <3>2, <3>3
  <2>2. CASE ~ (ifs.valid /\ ds_allowin)
    <3>1. /\ ids'.inst = ids.inst /\ ids'.flush = FlushLatch(redirect)
          /\ ids'.valid = IF ds_allowin THEN ifs.valid ELSE ids.valid
      BY <1>1, <2>2 DEF DecodeEdge
    <3>2. ids'.valid => ids.valid
      BY <2>2, <3>1 DEF FillInv
    <3>3. ids.valid /\ ids.flush => FlushLatch(redirect)
      BY <2>2 DEF FlushLatch
    <3> QED
      BY <3>1, <3>2, <3>3 DEF NoPlaceholders, NoPlaceholder
  <2> QED
    BY <2>1, <2>2
<1>5. NoPlaceholder(exs)'
  <2>1. CASE ds_to_es_valid /\ es_allowin
    <3>1. exs'.inst = ids.inst /\ exs'.flush = ds_flush(redirect)
      <4> HIDE DEF redirect, exe_result, mem_result
      <4> QED
        BY <1>1, <2>1 DEF ExecuteEdge
    <3> QED
      BY <2>1, <3>1 DEF ds_to_es_valid, ds_flush, NoPlaceholders, NoPlaceholder
  <2>2. CASE ~ (ds_to_es_valid /\ es_allowin)
    <3>1. exs' = [exs EXCEPT !.valid = IF es_allowin THEN FALSE ELSE @]
      BY <1>1, <2>2 DEF ExecuteEdge
    <3>2. exs'.inst = exs.inst /\ exs'.flush = exs.flush /\ (exs'.valid => exs.valid)
      BY <3>1 DEF TypeOK
    <3> QED
      BY <3>2 DEF NoPlaceholders, NoPlaceholder
  <2> QED
    BY <2>1, <2>2
<1>6. NoPlaceholder(mem)'
  <2>1. CASE es_to_ms_valid /\ ms_allowin
    <3>1. mem'.inst = exs.inst /\ mem'.flush = es_flush
      BY <1>1, <2>1 DEF MemoryEdge
    <3> QED
      BY <2>1, <3>1 DEF es_to_ms_valid, es_flush, NoPlaceholders, NoPlaceholder
  <2>2. CASE ~ (es_to_ms_valid /\ ms_allowin)
    <3>1. mem' = [mem EXCEPT !.valid = IF ms_allowin THEN FALSE ELSE @]
      BY <1>1, <2>2 DEF MemoryEdge
    <3>2. mem'.inst = mem.inst /\ mem'.flush = mem.flush /\ (mem'.valid => mem.valid)
      BY <3>1 DEF TypeOK
    <3> QED
      BY <3>2 DEF NoPlaceholders, NoPlaceholder
  <2> QED
    BY <2>1, <2>2
<1> QED
  BY <1>3, <1>4, <1>5, <1>6 DEF NoPlaceholders

(* In such a program nothing but instructions of it reaches MEM unflushed.  *)
LEMMA PlaceholderInvariant ==
  ASSUME Ops \cap JumpOps = {}
  PROVE  Spec => []NoPlaceholders
<1> DEFINE JInv == IInv /\ NoPlaceholders
<1>1. Init => JInv
  BY InitIInv DEF Init, NoPlaceholders, NoPlaceholder
<1>2. JInv /\ [Next]_vars => JInv'
  <2> SUFFICES ASSUME JInv, [Next]_vars PROVE JInv'
    OBVIOUS
  <2>1. IInv'
    BY StepIInv
  <2>2. CASE Next
    <3>1. PICK outcome, fetch, exe_value, load_value, stall, irq :
            /\ Inputs(outcome, fetch, exe_value, load_value, stall, irq)
            /\ Clock(outcome, fetch, exe_value, load_value, stall, irq)
      BY <2>2, NextInputs DEF IInv
    <3> QED
      BY <2>1, <3>1, ClockNoPlaceholders DEF IInv
  <2>3. CASE UNCHANGED vars
    BY <2>1, <2>3 DEF vars, NoPlaceholders, NoPlaceholder
  <2> QED
    BY <2>2, <2>3
<1>3. JInv => NoPlaceholders
  OBVIOUS
<1> QED
  BY <1>1, <1>2, <1>3, PTL DEF Spec

(* An interrupt is taken at an instruction of the program, not at the       *)
(* placeholder that a redirect by a jump has left.                          *)
InterruptOnPath == take_irq => mem.inst.op # "nop"

LEMMA PathIsPrecise ==
  Spec /\ []RedirectHeard /\ []InterruptOnPath => []InterruptPrecise
<1>1. PInv /\ InterruptOnPath => InterruptPrecise
  BY DEF PInv, PathInv, Live, InterruptOnPath, InterruptPrecise, take_irq
<1> QED
  BY PathInvariant, <1>1, PTL

(* In a program without jumps, and in which no trap can be taken ahead of a *)
(* multi-cycle operation, an interrupt saves the pc at which the program    *)
(* goes on (mem_stage.sv:159, 198-199; regfile_csr.sv:144-149).             *)
THEOREM PreciseWithoutJumps ==
  ASSUME NoTrapBeforeMul, Ops \cap JumpOps = {}
  PROVE  Spec => []InterruptPrecise
<1>1. NoPlaceholders => InterruptOnPath
  BY DEF NoPlaceholders, NoPlaceholder, InterruptOnPath, take_irq
<1> QED
  BY AlwaysHeard, PlaceholderInvariant, PathIsPrecise, <1>1, PTL

-----------------------------------------------------------------------------
(* The trap logic: a trap is entered once, its saved interrupt enable is   *)
(* kept, and a CSR instruction rewrites the current mstatus.               *)
(*                                                                         *)
(* What can go wrong is that MEM's registers outlive their instruction.    *)
(* They do behind a multi-cycle operation in EX, and behind the bubble of  *)
(* a load-use stall; the two are kept apart from traps by assumptions on   *)
(* the program, without which the properties are false.                    *)

(* What MEM has left in its registers neither traps nor returns.           *)
LeftQuiet == ~ mem.valid => mem.flush \/ mem.inst.op \notin TrapOps

-----------------------------------------------------------------------------
(* Traps are entered once.                                                  *)

(* Two kinds of programs in which an instruction that has trapped leaves   *)
(* MEM's registers at once.                                                 *)
NoTrapTwice == NoTrapBeforeMul /\ "lam" \notin Ops

(* An instruction of the program in MEM.                                   *)
LEMMA MemoryOp ==
  ASSUME TypeOK
  PROVE  mem.inst.op \in Ops \cup {"nop"}
<1>1. mem.inst \in Insts \cup {NOP_INST}
  BY DEF TypeOK
<1> QED
  BY <1>1 DEF Insts, NOP_INST, Inst

(* What stays behind in MEM is a load that did not trap, or stands before  *)
(* a multi-cycle operation.                                                 *)
LEMMA ClockQuiet ==
  ASSUME NoTrapTwice, TypeOK, BubbleRepeatsLoad, LeftQuiet,
         NEW outcome, NEW fetch, NEW exe_value, NEW load_value, NEW stall, NEW irq,
         Clock(outcome, fetch, exe_value, load_value, stall, irq)
  PROVE  LeftQuiet'
<1> SUFFICES ASSUME ~ mem'.valid
             PROVE  mem'.flush \/ mem'.inst.op \notin TrapOps
  BY DEF LeftQuiet
<1>1. /\ ~ es_to_ms_valid
      /\ mem'.inst = mem.inst /\ mem'.flush = mem.flush
  BY MemoryMoves
<1>2. CASE ~ exs.valid
  <2>1. mem.inst.op \in LoadOps \cup {"nop"}
    BY <1>2 DEF BubbleRepeatsLoad, ReadsAgain, NothingYet
  <2>2. mem.inst.op # "lam"
    BY MemoryOp DEF NoTrapTwice
  <2> QED
    BY <1>1, <2>1, <2>2 DEF LoadOps, TrapOps
<1>3. CASE mul_stall
  <2>1. "mul" \in Ops
    <3>1. exs.inst.op = "mul"
      BY <1>3 DEF mul_stall
    <3>2. exs.inst \in Insts \cup {NOP_INST}
      BY DEF TypeOK
    <3> QED
      BY <3>1, <3>2 DEF Insts, NOP_INST, Inst
  <2>2. Ops \cap TrapOps = {}
    BY <2>1 DEF NoTrapTwice, NoTrapBeforeMul
  <2>3. mem.inst.op \notin TrapOps
    BY <2>2, MemoryOp DEF TrapOps
  <2> QED
    BY <1>1, <2>3
<1> QED
  BY <1>1, <1>2, <1>3 DEF es_to_ms_valid

(* An empty MEM makes no redirect.                                          *)
LEMMA QuietIsOnce ==
  ASSUME CodeInv, LeftQuiet
  PROVE  RedirectOnce
<1> SUFFICES ASSUME ~ mem.valid PROVE ~ exception_flag
  BY DEF RedirectOnce
<1>1. CASE mem.flush
  BY <1>1 DEF exception_flag, Trap, mret_jmp_flag, mret_flag
<1>2. CASE mem.inst.op \notin TrapOps
  <2>1. mem.exc \notin {"ecall", "mret"}
    BY <1>2 DEF CodeInv, TrapOps
  <2>2. ~ Access /\ ~ take_irq
    BY <1>2 DEF Access, TrapOps, take_irq
  <2> QED
    BY <2>1, <2>2 DEF exception_flag, Trap, sync_exception, mret_jmp_flag,
                      mret_flag
<1> QED
  BY <1>1, <1>2 DEF LeftQuiet

(* mstatus.MPIE is written by a trap, which the ghost records, or by       *)
(* something that ends the handler's claim to it.                          *)
LEMMA ClockSaved ==
  ASSUME TypeOK, CodeInv, RedirectOnce, SavedInterruptEnable,
         NEW outcome, NEW fetch, NEW exe_value, NEW load_value, NEW stall, NEW irq,
         Clock(outcome, fetch, exe_value, load_value, stall, irq)
  PROVE  SavedInterruptEnable'
<1> DEFINE mem_result == IF mem.inst.op \in LoadOps THEN load_value ELSE mem.result
<1>1. CsrEdge /\ GhostEdge(mem_result)
  BY DEF Clock
<1>2. CASE Trap
  <2>1. mem.valid /\ ~ csr_we
    BY <1>2 DEF RedirectOnce, exception_flag, csr_we
  <2>2. csr'.mpie = csr.mie
    BY <1>1, <1>2, <2>1 DEF CsrEdge, TrapEntry, TypeOK
  <2>3. entered' = [live |-> TRUE, mie |-> csr.mie]
    BY <1>1, <1>2, <2>1 DEF GhostEdge
  <2> QED
    BY <2>2, <2>3 DEF SavedInterruptEnable
<1>3. CASE ~ Trap /\ (csr_we \/ mret_flag)
  <2>1. entered' = [live |-> FALSE, mie |-> FALSE]
    BY <1>1, <1>3 DEF GhostEdge
  <2> QED
    BY <2>1 DEF SavedInterruptEnable
<1>4. CASE ~ Trap /\ ~ csr_we /\ ~ mret_flag
  <2>1. csr' = csr
    BY <1>1, <1>4 DEF CsrEdge
  <2>2. entered' = entered
    BY <1>1, <1>4 DEF GhostEdge
  <2> QED
    BY <2>1, <2>2 DEF SavedInterruptEnable
<1> QED
  BY <1>2, <1>3, <1>4

(* It is kept as long as no redirect is made twice.                        *)
LEMMA SavedInvariant == Spec /\ []RedirectOnce => []SavedInterruptEnable
<1>1. Init => SavedInterruptEnable
  BY DEF Init, SavedInterruptEnable
<1>2. ASSUME IInv, RedirectOnce, SavedInterruptEnable, [Next]_vars
      PROVE  SavedInterruptEnable'
  <2>1. CASE Next
    <3>1. PICK outcome, fetch, exe_value, load_value, stall, irq :
            Clock(outcome, fetch, exe_value, load_value, stall, irq)
      BY <1>2, <2>1, NextInputs DEF IInv
    <3> QED
      BY <1>2, <3>1, ClockSaved DEF IInv
  <2>2. CASE UNCHANGED vars
    BY <1>2, <2>2 DEF vars, SavedInterruptEnable
  <2> QED
    BY <1>2, <2>1, <2>2
<1>3. IInv /\ RedirectOnce /\ SavedInterruptEnable /\ [Next]_vars
        => SavedInterruptEnable'
  BY <1>2
<1> QED
  BY <1>1, <1>3, InvariantHolds, PTL DEF Spec

TInv == IInv /\ LeftQuiet

(* In such a program MEM never leaves a trap behind.                        *)
LEMMA TrapInvariant ==
  ASSUME NoTrapTwice
  PROVE  Spec => []TInv
<1>1. Init => TInv
  <2>1. Init => LeftQuiet
    BY DEF Init, LeftQuiet, NOP_INST, Inst, TrapOps
  <2> QED
    BY <2>1, InitIInv DEF TInv
<1>2. TInv /\ [Next]_vars => TInv'
  <2> SUFFICES ASSUME TInv, [Next]_vars PROVE TInv'
    OBVIOUS
  <2>1. IInv'
    BY StepIInv DEF TInv
  <2>2. CASE Next
    <3>1. PICK outcome, fetch, exe_value, load_value, stall, irq :
            Clock(outcome, fetch, exe_value, load_value, stall, irq)
      BY <2>2, NextInputs DEF TInv, IInv
    <3> QED
      BY <2>1, <3>1, ClockQuiet DEF TInv, IInv
  <2>3. CASE UNCHANGED vars
    BY <2>1, <2>3 DEF TInv, vars, LeftQuiet
  <2> QED
    BY <2>2, <2>3
<1> QED
  BY <1>1, <1>2, PTL DEF Spec

(* In a program in which neither a multi-cycle operation nor a bubble can  *)
(* stand behind an instruction that traps, every redirect by a trap or a   *)
(* return is made for the instruction that is in MEM in that cycle         *)
(* (mem_stage.sv:198, regfile_csr.sv:203-207).                             *)
THEOREM TrapsAreEnteredOnce ==
  ASSUME NoTrapTwice
  PROVE  Spec => []RedirectOnce
<1>1. TInv => RedirectOnce
  BY QuietIsOnce DEF TInv, IInv
<1> QED
  BY TrapInvariant, <1>1, PTL

(* In such a program MPIE keeps the MIE of before the trap until the       *)
(* handler writes mstatus or returns (regfile_csr.sv:144-149).             *)
THEOREM SavedEnableIsKept ==
  ASSUME NoTrapTwice
  PROVE  Spec => []SavedInterruptEnable
<1>1. TInv => RedirectOnce
  BY QuietIsOnce DEF TInv, IInv
<1> QED
  BY TrapInvariant, SavedInvariant, <1>1, PTL

-----------------------------------------------------------------------------
(* CSR instructions.  One in EX carries the mstatus that holds once the     *)
(* instruction in MEM has written it.                                       *)

ExecuteCsr ==
  exs.valid /\ ~ exs.flush /\ exs.inst.op \in CsrOps =>
    exs.csr = IF mem.inst.op \in CsrOps /\ ~ mem.flush THEN mem.csr ELSE MStatus

(* What is flushed in ID is a placeholder, and behind a flushed CSR         *)
(* instruction in EX, whose value would be forwarded all the same, stands   *)
(* nothing else.                                                            *)
FlushedNop == ids.valid /\ ids.flush => ids.inst.op = "nop"
FlushedCsr ==
  exs.valid /\ exs.flush /\ exs.inst.op \in CsrOps => ids.valid /\ ids.flush

CsrInv == ExecuteCsr /\ FlushedNop /\ FlushedCsr /\ CsrCurrent

(* An mret that finds no trap being served flushes nothing, and what it     *)
(* restores is not forwarded.  CSR instructions are right as long as none   *)
(* of them is so close behind it that it has read mstatus already.          *)
ReturnAlone ==
  mret_flag /\ ~ csr.prev =>
    mem.valid /\ exs.inst.op \notin CsrOps /\ ids.inst.op \notin CsrOps

(* In a cycle that redirects, ID does not hold anything up.                 *)
LEMMA DecodeAllows ==
  ASSUME RedirectHeard, PrevLoadInv,
         NEW outcome, exception_flag \/ br_redirect(outcome)
  PROVE  ds_allowin
<1>1. ~ mul_stall
  <2>1. CASE exception_flag
    BY <2>1 DEF RedirectHeard
  <2>2. CASE br_redirect(outcome)
    BY <2>2 DEF br_redirect, JumpOps, mul_stall
  <2> QED
    BY <2>1, <2>2
<1>2. ~ load_use_hazard
  <2>1. CASE exception_flag
    BY <2>1 DEF load_use_hazard, exe_load_use, exe_regfile_wen, es_flush
  <2>2. CASE br_redirect(outcome)
    <3>1. exs.inst.op \notin LoadOps
      BY <2>2 DEF br_redirect, JumpOps, LoadOps
    <3> QED
      BY <3>1 DEF load_use_hazard, exe_load_use, PrevLoadInv
  <2> QED
    BY <2>1, <2>2
<1> QED
  BY <1>1, <1>2, MemoryAllows DEF ds_allowin, es_allowin

(* What EX takes from ID.                                                   *)
LEMMA ExecuteEnters ==
  ASSUME NEW redirect, NEW exe_result, NEW mem_result, NEW stall,
         ds_to_es_valid, es_allowin,
         ExecuteEdge(redirect, exe_result, mem_result, stall)
  PROVE  /\ exs'.inst = ids.inst
         /\ exs'.flush = ds_flush(redirect)
         /\ ids.inst.op \in CsrOps => exs'.csr = csr_read
<1>1. exs' = [valid |-> TRUE, inst |-> ids.inst, pc |-> ids.pc,
              pred |-> ids.pred, flush |-> ds_flush(redirect),
              exc |-> exc_code(redirect),
              src |-> operand(exe_result, mem_result),
              csr |-> IF ids.inst.op \in CsrOps THEN csr_read ELSE NoCsr]
  BY DEF ExecuteEdge
<1> QED
  BY <1>1

(* A redirect flushes what is in ID after it, and puts a placeholder there. *)
LEMMA ClockFlushed ==
  ASSUME RedirectHeard, TypeOK, FillInv, CodeInv, PrevLoadInv,
         BubbleRepeatsLoad, FlushedNop, FlushedCsr,
         NEW outcome, NEW fetch, NEW exe_value, NEW load_value, NEW stall, NEW irq,
         Inputs(outcome, fetch, exe_value, load_value, stall, irq),
         Clock(outcome, fetch, exe_value, load_value, stall, irq)
  PROVE  FlushedNop' /\ FlushedCsr'
<1> DEFINE redirect == br_redirect(outcome)
           exe_result == IF es_flush THEN 0 ELSE exe_value
           mem_result == IF mem.inst.op \in LoadOps THEN load_value ELSE mem.result
<1>1. /\ DecodeEdge(fetch, redirect)
      /\ ExecuteEdge(redirect, exe_result, mem_result, stall)
  BY DEF Clock
<1>2. ids'.flush = FlushLatch(redirect)
  BY <1>1 DEF DecodeEdge
<1>3. exception_flag \/ redirect => ds_allowin
  BY DecodeAllows
<1>4. FlushedNop'
  <2> SUFFICES ASSUME ids'.valid, ids'.flush PROVE ids'.inst.op = "nop"
    BY DEF FlushedNop
  <2>1. CASE ifs.valid /\ ds_allowin
    <3>1. exception_flag \/ redirect
      BY <1>2, <2>1 DEF FlushLatch
    <3>2. fetch.inst = NOP_INST
      BY <2>1, <3>1 DEF Inputs, Fetches, Squash, fs_allowin
    <3>3. ids'.inst = fetch.inst
      BY <1>1, <2>1 DEF DecodeEdge
    <3> QED
      BY <3>2, <3>3 DEF NOP_INST, Inst
  <2>2. CASE ~ (ifs.valid /\ ds_allowin)
    <3>1. ids.valid /\ ~ ds_allowin /\ ids'.inst = ids.inst
      BY <2>2, DecodeMoves DEF FillInv
    <3>2. ids.flush
      BY <1>2, <1>3, <2>2, <3>1 DEF FlushLatch
    <3> QED
      BY <3>1, <3>2 DEF FlushedNop
  <2> QED
    BY <2>1, <2>2
<1>5. FlushedCsr'
  <2> SUFFICES ASSUME exs'.valid, exs'.flush, exs'.inst.op \in CsrOps
               PROVE  ids'.valid /\ ids'.flush
    BY DEF FlushedCsr
  <2>1. CASE ds_to_es_valid /\ es_allowin
    <3>1. exs'.inst = ids.inst /\ exs'.flush = ds_flush(redirect)
      <4> HIDE DEF redirect, exe_result, mem_result
      <4> QED
        BY <1>1, <2>1, ExecuteEnters
    <3>2. ids.valid /\ ifs.valid /\ ds_allowin
      BY <2>1 DEF ds_to_es_valid, ds_allowin, FillInv
    <3>3. ~ ids.flush
      BY <3>1, <3>2 DEF FlushedNop, CsrOps
    <3>4. exception_flag \/ redirect
      BY <3>1, <3>3 DEF ds_flush
    <3> QED
      BY <1>2, <3>2, <3>4, DecodeMoves DEF FlushLatch
  <2>2. CASE ~ (ds_to_es_valid /\ es_allowin)
    <3>1. exs' = [exs EXCEPT !.valid = IF es_allowin THEN FALSE ELSE @]
      BY <1>1, <2>2 DEF ExecuteEdge
    <3>2. exs'.inst = exs.inst /\ ~ es_allowin
      BY <3>1 DEF TypeOK
    <3>3. exs.inst.op = "mul"
      BY <3>2, MemoryAllows DEF es_allowin, mul_stall
    <3> QED
      BY <3>2, <3>3 DEF CsrOps
  <2> QED
    BY <2>1, <2>2
<1> QED
  BY <1>4, <1>5

(* mstatus after the edge, when neither a trap nor a return is in MEM.      *)
LEMMA MStatusMoves ==
  ASSUME TypeOK, ~ exception_flag, ~ mret_flag,
         NEW outcome, NEW fetch, NEW exe_value, NEW load_value, NEW stall, NEW irq,
         Clock(outcome, fetch, exe_value, load_value, stall, irq)
  PROVE  /\ csr_we <=> mem.inst.op \in CsrOps /\ ~ mem.flush
         /\ MStatus' = IF csr_we THEN mem.csr ELSE MStatus
<1>1. ~ Trap
  BY DEF exception_flag
<1>3. mem.csr = [mie |-> mem.csr.mie, mpie |-> mem.csr.mpie]
  BY DEF TypeOK
<1>4. CASE csr_we
  <2>1. csr' = [csr EXCEPT !.mie = mem.csr.mie, !.mpie = mem.csr.mpie]
    BY <1>4 DEF Clock, CsrEdge
  <2>2. csr'.mie = mem.csr.mie /\ csr'.mpie = mem.csr.mpie
    BY <2>1 DEF TypeOK
  <2> QED
    BY <1>1, <1>3, <1>4, <2>2 DEF csr_we, MStatus
<1>5. CASE ~ csr_we
  <2>1. csr' = csr
    BY <1>1, <1>5 DEF Clock, CsrEdge
  <2> QED
    BY <1>1, <1>5, <2>1 DEF csr_we, MStatus
<1> QED
  BY <1>4, <1>5

(* The value read in ID, or forwarded to it, is the one of the moment.      *)
LEMMA ClockExecuteCsr ==
  ASSUME ReturnAlone, TypeOK, FillInv, CodeInv, BubbleRepeatsLoad,
         FlushedCsr, ExecuteCsr,
         NEW outcome, NEW fetch, NEW exe_value, NEW load_value, NEW stall, NEW irq,
         Clock(outcome, fetch, exe_value, load_value, stall, irq)
  PROVE  ExecuteCsr'
<1> DEFINE redirect == br_redirect(outcome)
           exe_result == IF es_flush THEN 0 ELSE exe_value
           mem_result == IF mem.inst.op \in LoadOps THEN load_value ELSE mem.result
<1> SUFFICES ASSUME exs'.valid, ~ exs'.flush, exs'.inst.op \in CsrOps
             PROVE  exs'.csr = IF mem'.inst.op \in CsrOps /\ ~ mem'.flush
                                 THEN mem'.csr ELSE MStatus'
  BY DEF ExecuteCsr, MStatus
<1>1. ExecuteEdge(redirect, exe_result, mem_result, stall)
  BY DEF Clock
<1>2. ds_to_es_valid /\ es_allowin
  <2> SUFFICES ASSUME ~ (ds_to_es_valid /\ es_allowin) PROVE FALSE
    OBVIOUS
  <2>1. exs' = [exs EXCEPT !.valid = IF es_allowin THEN FALSE ELSE @]
    BY <1>1 DEF ExecuteEdge
  <2>2. exs'.inst = exs.inst /\ ~ es_allowin
    BY <2>1 DEF TypeOK
  <2> QED
    BY <2>2, MemoryAllows DEF es_allowin, mul_stall, CsrOps
<1>3. /\ exs'.inst = ids.inst /\ exs'.flush = ds_flush(redirect)
      /\ ids.inst.op \in CsrOps => exs'.csr = csr_read
  <2> HIDE DEF redirect, exe_result, mem_result
  <2> QED
    BY <1>1, <1>2, ExecuteEnters
<1>4. ~ exception_flag /\ ~ ids.flush /\ exs'.csr = csr_read
  BY <1>3 DEF ds_flush
<1>5. CASE exs.inst.op \in CsrOps
  <2>1. exs.valid
    BY <1>5 DEF BubbleRepeatsLoad, ReadsAgain, NothingYet, CsrOps, LoadOps
  <2>2. ~ exs.flush
    BY <1>4, <1>5, <2>1 DEF FlushedCsr
  <2>3. es_to_ms_valid
    BY <1>5, <2>1 DEF es_to_ms_valid, mul_stall, CsrOps
  <2>4. mem'.inst = exs.inst /\ ~ mem'.flush /\ mem'.csr = csr_wdata
    BY <1>4, <1>5, <2>2, <2>3, MemoryMoves DEF es_flush
  <2> QED
    BY <1>4, <1>5, <2>4 DEF csr_read
<1>6. CASE exs.inst.op \notin CsrOps
  <2>1. exs'.csr = MStatus'
    <3>1. ~ mret_flag
      BY <1>3, <1>4 DEF ReturnAlone, exception_flag, mret_jmp_flag
    <3> QED
      BY <1>4, <1>6, <3>1, MStatusMoves DEF csr_read
  <2>2. CASE es_to_ms_valid
    BY <1>6, <2>1, <2>2, MemoryMoves
  <2>3. CASE ~ es_to_ms_valid
    <3>1. ~ exs.valid
      BY <1>2, <2>3 DEF es_allowin, es_to_ms_valid
    <3>2. mem'.inst.op \notin CsrOps
      BY <2>3, <3>1, MemoryMoves
      DEF BubbleRepeatsLoad, ReadsAgain, NothingYet, LoadOps, CsrOps
    <3> QED
      BY <2>1, <3>2
  <2> QED
    BY <2>2, <2>3
<1> QED
  BY <1>5, <1>6

(* In MEM it is the current one.                                            *)
LEMMA ClockCsrCurrent ==
  ASSUME ReturnAlone, TypeOK, ExecuteCsr,
         NEW outcome, NEW fetch, NEW exe_value, NEW load_value, NEW stall, NEW irq,
         Clock(outcome, fetch, exe_value, load_value, stall, irq)
  PROVE  CsrCurrent'
<1> SUFFICES ASSUME mem'.valid, ~ mem'.flush, mem'.inst.op \in CsrOps
             PROVE  mem'.csr = Rewrite(mem'.inst.op, MStatus')
  BY DEF CsrCurrent, MStatus, Rewrite
<1>1. es_to_ms_valid
  BY MemoryMoves
<1>2. mem'.inst = exs.inst /\ mem'.flush = es_flush /\ mem'.csr = csr_wdata
  BY <1>1, MemoryMoves
<1>3. exs.valid /\ ~ exs.flush /\ ~ exception_flag
  BY <1>1, <1>2 DEF es_to_ms_valid, es_flush
<1>4. ~ mret_flag
  BY <1>2, <1>3 DEF ReturnAlone, exception_flag, mret_jmp_flag
<1>5. exs.csr = MStatus'
  BY <1>2, <1>3, <1>4, MStatusMoves DEF ExecuteCsr
<1> QED
  BY <1>2, <1>5 DEF csr_wdata

RInv == IInv /\ CsrInv

(* The invariant holds as long as neither happens.                          *)
LEMMA CsrInvariant == Spec /\ []RedirectHeard /\ []ReturnAlone => []RInv
<1> USE DEF RInv
<1>1. Init => RInv
  <2>1. Init => CsrInv
    BY DEF Init, CsrInv, ExecuteCsr, FlushedNop, FlushedCsr,
           CsrCurrent, NOP_INST, Inst
  <2> QED
    BY <2>1, InitIInv
<1>2. RInv /\ RedirectHeard /\ ReturnAlone /\ [Next]_vars => RInv'
  <2> SUFFICES ASSUME RInv, RedirectHeard, ReturnAlone, [Next]_vars PROVE RInv'
    OBVIOUS
  <2>1. IInv'
    BY StepIInv
  <2>2. CASE Next
    <3>1. PICK outcome, fetch, exe_value, load_value, stall, irq :
            /\ Inputs(outcome, fetch, exe_value, load_value, stall, irq)
            /\ Clock(outcome, fetch, exe_value, load_value, stall, irq)
      BY <2>2, NextInputs DEF IInv
    <3>3. FlushedNop' /\ FlushedCsr'
      BY <3>1, ClockFlushed DEF IInv, CsrInv
    <3>4. ExecuteCsr'
      BY <3>1, ClockExecuteCsr DEF IInv, CsrInv
    <3>5. CsrCurrent'
      BY <3>1, ClockCsrCurrent DEF IInv, CsrInv
    <3> QED
      BY <2>1, <3>3, <3>4, <3>5 DEF CsrInv
  <2>3. CASE UNCHANGED vars
    BY <2>1, <2>3 DEF vars, CsrInv, ExecuteCsr, FlushedNop,
                      FlushedCsr, CsrCurrent, MStatus
  <2> QED
    BY <2>2, <2>3
<1> QED
  BY <1>1, <1>2, PTL DEF Spec

(* In a program without mret, in which no trap is taken ahead of a          *)
(* multi-cycle operation, a CSR instruction rewrites the mstatus of its own *)
(* moment: neither a trap nor a CSR write ahead of it is undone             *)
(* (decode_unit.sv:372-391, exe_stage.sv:379-387).                          *)
THEOREM CsrAlwaysCurrent ==
  ASSUME NoTrapBeforeMul, "mret" \notin Ops
  PROVE  Spec => []CsrCurrent
<1>1. RInv => CsrCurrent
  BY DEF RInv, CsrInv
<1>2. IInv => ReturnAlone
  BY MemoryOp DEF IInv, CodeInv, ReturnAlone, mret_flag
<1> QED
  BY AlwaysHeard, InvariantHolds, CsrInvariant, <1>1, <1>2, PTL

-----------------------------------------------------------------------------
(* The stages implement the processor that executes one instruction after  *)
(* the other.  Four things keep them from it, each a state that the program *)
(* may get into: a redirect that fetch does not hear, one that is made a    *)
(* second time, an interrupt at a placeholder, and a CSR instruction that   *)
(* has read mstatus too early behind an mret.  As long as none of them      *)
(* happens there is no difference.                                          *)
Undisturbed == RedirectHeard /\ RedirectOnce /\ InterruptOnPath /\ ReturnAlone

(* What is in MEM leads to the next pc, unless it is a jump.                *)
NextInv == mem.valid /\ mem.inst.op \notin JumpOps => mem.next = Seq4(mem.pc)

(* An ecall or mret that is not flushed carries its code.                   *)
CarriedInv ==
  /\ ~ exs.flush /\ exs.inst.op \in {"ecall", "mret"} => exs.exc = exs.inst.op
  /\ ~ mem.flush /\ mem.inst.op \in {"ecall", "mret"} => mem.exc = mem.inst.op

(* A CSR instruction that MEM's registers outlive writes the same again.    *)
LeftCsr ==
  ~ mem.valid /\ ~ mem.flush /\ mem.inst.op \in CsrOps => mem.csr = MStatus

HInv ==
  PInv /\ NextInv /\ CarriedInv /\ LeftCsr /\ CsrCurrent /\ NextPC = arch_pc

(* The pc of the oldest instruction in the stages is the program's.         *)
LEMMA StandsAt ==
  ASSUME PInv
  PROVE  NextPC = arch_pc
<1> USE DEF PInv
<1>1. CASE Live(mem)
  BY <1>1 DEF NextPC, PathInv
<1>2. CASE ~ Live(mem)
  <2>1. AfterMem = arch_pc
    BY <1>2 DEF AfterMem
  <2>2. CASE Live(exs)
    BY <1>2, <2>1, <2>2 DEF NextPC, PathInv
  <2>3. CASE ~ Live(exs)
    <3>1. AfterExe = arch_pc
      BY <2>1, <2>3 DEF AfterExe
    <3>2. CASE Live(ids)
      BY <1>2, <2>3, <3>1, <3>2 DEF NextPC, PathInv
    <3>3. CASE ~ Live(ids)
      <4>1. AfterDec = arch_pc
        BY <3>1, <3>3 DEF AfterDec
      <4> QED
        BY <1>2, <2>1, <2>3, <3>3, <4>1 DEF NextPC, PathInv
    <3> QED
      BY <3>2, <3>3
  <2> QED
    BY <2>2, <2>3
<1> QED
  BY <1>1, <1>2

(* MEM takes over from EX where the instruction goes on.                    *)
LEMMA ClockNext ==
  ASSUME TypeOK,
         NEW outcome, NEW fetch, NEW exe_value, NEW load_value, NEW stall, NEW irq,
         Inputs(outcome, fetch, exe_value, load_value, stall, irq),
         Clock(outcome, fetch, exe_value, load_value, stall, irq)
  PROVE  NextInv'
<1> DEFINE exe_result == IF es_flush THEN 0 ELSE exe_value
<1> SUFFICES ASSUME mem'.valid, mem'.inst.op \notin JumpOps
             PROVE  mem'.next = Seq4(mem'.pc)
  BY DEF NextInv, Seq4
<1>1. es_to_ms_valid /\ mem'.inst = exs.inst /\ mem'.pc = exs.pc
  BY MemoryMoves
<1>2. MemoryEdge(outcome, exe_result)
  BY DEF Clock
<1>3. mem'.next = Follow(outcome)
  BY <1>1, <1>2, MemoryAllows DEF MemoryEdge
<1>4. outcome = NoPred
  BY <1>1 DEF Inputs, Outcomes
<1> QED
  BY <1>1, <1>3, <1>4 DEF Follow

(* The code of an ecall or mret is only dropped with a flush.               *)
LEMMA ClockCarried ==
  ASSUME TypeOK, CarriedInv,
         NEW outcome, NEW fetch, NEW exe_value, NEW load_value, NEW stall, NEW irq,
         Clock(outcome, fetch, exe_value, load_value, stall, irq)
  PROVE  CarriedInv'
<1> DEFINE redirect == br_redirect(outcome)
           exe_result == IF es_flush THEN 0 ELSE exe_value
           mem_result == IF mem.inst.op \in LoadOps THEN load_value ELSE mem.result
<1>1. /\ ExecuteEdge(redirect, exe_result, mem_result, stall)
      /\ MemoryEdge(outcome, exe_result)
  BY DEF Clock
<1>2. ASSUME ~ exs'.flush, exs'.inst.op \in {"ecall", "mret"}
      PROVE  exs'.exc = exs'.inst.op
  <2>1. CASE ds_to_es_valid /\ es_allowin
    <3>1. /\ exs'.inst = ids.inst /\ exs'.flush = ds_flush(redirect)
          /\ exs'.exc = exc_code(redirect)
      BY <1>1, <2>1 DEF ExecuteEdge
    <3> QED
      BY <1>2, <3>1 DEF exc_code
  <2>2. CASE ~ (ds_to_es_valid /\ es_allowin)
    <3>1. exs' = [exs EXCEPT !.valid = IF es_allowin THEN FALSE ELSE @]
      BY <1>1, <2>2 DEF ExecuteEdge
    <3>2. exs'.inst = exs.inst /\ exs'.flush = exs.flush /\ exs'.exc = exs.exc
      BY <3>1 DEF TypeOK
    <3> QED
      BY <1>2, <3>2 DEF CarriedInv
  <2> QED
    BY <2>1, <2>2
<1>3. ASSUME ~ mem'.flush, mem'.inst.op \in {"ecall", "mret"}
      PROVE  mem'.exc = mem'.inst.op
  <2>1. \/ mem'.exc = exs.exc /\ mem'.inst = exs.inst /\ mem'.flush = es_flush
        \/ mem'.exc = mem.exc /\ mem'.inst = mem.inst /\ mem'.flush = mem.flush
    BY <1>1 DEF MemoryEdge, TypeOK
  <2> QED
    BY <1>3, <2>1 DEF CarriedInv, es_flush
<1> QED
  BY <1>2, <1>3 DEF CarriedInv

(* A CSR instruction stays behind in MEM's registers only in front of a     *)
(* multi-cycle operation, and has written mstatus when it does.             *)
LEMMA ClockLeftCsr ==
  ASSUME RedirectHeard, TypeOK, CodeInv, BubbleRepeatsLoad,
         NEW outcome, NEW fetch, NEW exe_value, NEW load_value, NEW stall, NEW irq,
         Clock(outcome, fetch, exe_value, load_value, stall, irq)
  PROVE  LeftCsr'
<1> SUFFICES ASSUME ~ mem'.valid, ~ mem'.flush, mem'.inst.op \in CsrOps
             PROVE  mem'.csr = MStatus'
  BY DEF LeftCsr, MStatus
<1>1. /\ ~ es_to_ms_valid /\ mem'.inst = mem.inst
      /\ mem'.flush = mem.flush /\ mem'.csr = mem.csr
  BY MemoryMoves
<1>2. exs.valid
  BY <1>1 DEF BubbleRepeatsLoad, ReadsAgain, NothingYet, LoadOps, CsrOps
<1>3. ~ exception_flag
  BY <1>1, <1>2 DEF es_to_ms_valid, RedirectHeard
<1>4. ~ mret_flag
  BY <1>1 DEF mret_flag, CodeInv, CsrOps
<1> QED
  BY <1>1, <1>3, <1>4, MStatusMoves

(* All the invariants together.                                             *)
LEMMA HartInvariant == Spec /\ []Undisturbed => []HInv
<1> DEFINE Extra == NextInv /\ CarriedInv /\ LeftCsr
<1>1. Init => Extra
  BY DEF Init, NextInv, CarriedInv, LeftCsr, NOP_INST, Inst, CsrOps
<1>2. IInv /\ RedirectHeard /\ Extra /\ [Next]_vars => Extra'
  <2> SUFFICES ASSUME IInv, RedirectHeard, Extra, [Next]_vars PROVE Extra'
    OBVIOUS
  <2>1. CASE Next
    <3>1. PICK outcome, fetch, exe_value, load_value, stall, irq :
            /\ Inputs(outcome, fetch, exe_value, load_value, stall, irq)
            /\ Clock(outcome, fetch, exe_value, load_value, stall, irq)
      BY <2>1, NextInputs DEF IInv
    <3> QED
      BY <3>1, ClockNext, ClockCarried, ClockLeftCsr DEF IInv
  <2>2. CASE UNCHANGED vars
    BY <2>2 DEF vars, NextInv, Seq4, CarriedInv, LeftCsr, MStatus
  <2> QED
    BY <2>1, <2>2
<1>3. PInv => NextPC = arch_pc
  BY StandsAt
<1>4. RInv => CsrCurrent
  BY DEF RInv, CsrInv
<1>5. PInv /\ NextPC = arch_pc /\ CsrCurrent /\ Extra => HInv
  BY DEF HInv
<1>6. Undisturbed => RedirectHeard /\ ReturnAlone
  BY DEF Undisturbed
<1> HIDE DEF Extra
<1> QED
  BY <1>1, <1>2, <1>3, <1>4, <1>5, <1>6,
     InvariantHolds, PathInvariant, CsrInvariant, PTL DEF Spec

(* The sequential machine at one clock edge, by what is in MEM.             *)

(* What traps, returns or writes mstatus is an instruction of the program.  *)
LEMMA ActsWhenLive ==
  ASSUME Undisturbed, HInv
  PROVE  /\ Trap \/ mret_flag => Live(mem)
         /\ ~ Live(mem) /\ csr_we => mem.csr = MStatus
<1> USE DEF HInv, PInv, IInv, Undisturbed
<1>1. ASSUME sync_exception \/ mret_flag, ~ mem.flush PROVE Live(mem)
  <2>1. mem.inst.op # "nop"
    BY <1>1 DEF sync_exception, Access, mret_flag, CodeInv
  <2>2. mem.valid
    BY <1>1 DEF RedirectOnce, ReturnAlone, exception_flag, Trap, mret_jmp_flag
  <2> QED
    BY <1>1, <2>1, <2>2 DEF Live
<1>2. ASSUME take_irq PROVE Live(mem)
  BY <1>2 DEF take_irq, Live, InterruptOnPath
<1>3. ASSUME ~ Live(mem), csr_we PROVE mem.csr = MStatus
  <2>1. mem.inst.op \in CsrOps /\ ~ mem.flush
    BY <1>3 DEF csr_we
  <2>2. ~ mem.valid
    BY <1>3, <2>1 DEF Live, CsrOps
  <2> QED
    BY <2>1, <2>2 DEF LeftCsr
<1> QED
  BY <1>1, <1>2, <1>3 DEF Trap, mret_flag

(* A trap stops the next instruction of the program.                        *)
LEMMA ArchTrap ==
  ASSUME Undisturbed, HInv, Trap,
         NEW outcome, NEW fetch, NEW exe_value, NEW load_value, NEW stall, NEW irq,
         Clock(outcome, fetch, exe_value, load_value, stall, irq)
  PROVE  /\ arch_pc' = MTVEC /\ arch_reg' = arch_reg
         /\ csr' = [mie |-> FALSE, mpie |-> csr.mie, mepc |-> arch_pc,
                    prev |-> TRUE]
         /\ \/ mem.inst.op \in Ops \cap H!Faults
            \/ TRUE \in Irqs /\ csr.mie
<1> DEFINE mem_result == IF mem.inst.op \in LoadOps THEN load_value ELSE mem.result
<1> USE DEF HInv, PInv, IInv
<1>1. GhostEdge(mem_result) /\ CsrEdge
  BY DEF Clock
<1>2. mem.pc = arch_pc
  BY ActsWhenLive DEF PathInv
<1>3. arch_pc' = MTVEC /\ arch_reg' = arch_reg
  BY <1>1 DEF GhostEdge, Trap, perf_retire_valid
<1>4. csr' = [csr EXCEPT !.mepc = arch_pc, !.mpie = csr.mie, !.mie = FALSE,
                         !.prev = TRUE]
  BY <1>1, <1>2 DEF CsrEdge, csr_we, TrapEntry
<1>5. csr' = [mie |-> FALSE, mpie |-> csr.mie, mepc |-> arch_pc, prev |-> TRUE]
  BY <1>4 DEF TypeOK
<1>6. CASE sync_exception
  <2>1. mem.inst.op \in H!Faults
    BY <1>6 DEF sync_exception, Access, CodeInv, H!Faults
  <2>2. mem.inst.op \in Ops
    BY <2>1, MemoryOp DEF H!Faults
  <2> QED
    BY <1>3, <1>5, <2>1, <2>2
<1>7. CASE take_irq
  <2>1. plic_irq /\ csr.mie
    BY <1>7 DEF take_irq
  <2>2. TRUE \in Irqs
    BY <2>1, IrqsAssumption DEF TypeOK
  <2> QED
    BY <1>3, <1>5, <2>1, <2>2
<1> QED
  BY <1>6, <1>7 DEF Trap

(* An mret restores mstatus, and the pc if a trap is being served.          *)
LEMMA ArchReturn ==
  ASSUME Undisturbed, HInv, mret_flag,
         NEW outcome, NEW fetch, NEW exe_value, NEW load_value, NEW stall, NEW irq,
         Clock(outcome, fetch, exe_value, load_value, stall, irq)
  PROVE  /\ "mret" \in Ops
         /\ arch_pc' = IF csr.prev THEN csr.mepc ELSE Seq4(arch_pc)
         /\ arch_reg' = arch_reg
         /\ csr' = [csr EXCEPT !.mie = csr.mpie, !.mpie = TRUE, !.prev = FALSE]
<1> DEFINE mem_result == IF mem.inst.op \in LoadOps THEN load_value ELSE mem.result
<1> USE DEF HInv, PInv, IInv
<1>1. GhostEdge(mem_result) /\ CsrEdge
  BY DEF Clock
<1>2. mem.inst.op = "mret" /\ ~ Trap
  BY DEF mret_flag, CodeInv, Trap, sync_exception
<1>3. Live(mem) /\ mem.pc = arch_pc /\ mem.next = Seq4(arch_pc)
  BY <1>2, ActsWhenLive DEF PathInv, NextInv, Live, JumpOps
<1>4. "mret" \in Ops
  BY <1>2, MemoryOp
<1>5. arch_reg' = arch_reg
  BY <1>1, <1>2 DEF GhostEdge, Wen, WriteOps
<1>6. csr' = [csr EXCEPT !.mie = csr.mpie, !.mpie = TRUE, !.prev = FALSE]
  BY <1>1, <1>2 DEF CsrEdge, csr_we, CsrOps
<1>7. arch_pc' = IF csr.prev THEN csr.mepc ELSE Seq4(arch_pc)
  BY <1>1, <1>2, <1>3
  DEF GhostEdge, mret_jmp_flag, perf_retire_valid, Live, Trap, mret_flag
<1> QED
  BY <1>4, <1>5, <1>6, <1>7

(* Any other instruction of the program leaves MEM with its effect on the   *)
(* pc, on one register and on mstatus.                                      *)
LEMMA ArchExecute ==
  ASSUME Undisturbed, HInv, ~ Trap, ~ mret_flag, Live(mem),
         NEW outcome, NEW fetch, NEW exe_value, NEW load_value, NEW stall, NEW irq,
         Inputs(outcome, fetch, exe_value, load_value, stall, irq),
         Clock(outcome, fetch, exe_value, load_value, stall, irq)
  PROVE  /\ mem.inst.op \in Ops \ TrapOps
         /\ arch_pc' = mem.next /\ mem.next \in PCs
         /\ mem.inst.op \notin JumpOps => mem.next = Seq4(arch_pc)
         /\ IF Wen(mem.inst)
              THEN \E r \in Regs, v \in Values :
                     arch_reg' = IF r = 0 THEN arch_reg
                                 ELSE [arch_reg EXCEPT ![r] = v]
              ELSE arch_reg' = arch_reg
         /\ csr' = IF mem.inst.op \in CsrOps
                     THEN [csr EXCEPT !.mie  = Rewrite(mem.inst.op, MStatus).mie,
                                      !.mpie = Rewrite(mem.inst.op, MStatus).mpie]
                     ELSE csr
<1> DEFINE mem_result == IF mem.inst.op \in LoadOps THEN load_value ELSE mem.result
<1> USE DEF HInv, PInv, IInv
<1>1. GhostEdge(mem_result) /\ CsrEdge
  BY DEF Clock
<1>2. mem.valid /\ ~ mem.flush /\ mem.inst.op # "nop" /\ mem.pc = arch_pc
  BY DEF Live, PathInv
<1>3. ~ sync_exception /\ ~ take_irq /\ perf_retire_valid
  BY <1>2 DEF Trap, perf_retire_valid
<1>4. mem.inst.op \in Ops \ TrapOps
  <2>1. mem.inst.op \in Ops
    BY <1>2, MemoryOp
  <2>2. mem.inst.op \notin {"lam", "sam", "iam"}
    BY <1>2, <1>3 DEF sync_exception, Access
  <2>3. mem.inst.op # "ecall"
    BY <1>2, <1>3 DEF sync_exception, CarriedInv
  <2>4. mem.inst.op # "mret"
    BY <1>2, <1>3 DEF sync_exception, mret_flag, CarriedInv
  <2> QED
    BY <2>1, <2>2, <2>3, <2>4 DEF TrapOps
<1>5. arch_pc' = mem.next
  BY <1>1, <1>2, <1>3 DEF GhostEdge, mret_jmp_flag
<1>6. mem.inst.op \notin JumpOps => mem.next = Seq4(arch_pc)
  BY <1>2 DEF NextInv
<1>7. CASE Wen(mem.inst)
  <2>1. mem.inst.rd \in Regs /\ mem_result \in Values
    BY InstType DEF TypeOK, Inputs
  <2>2. arch_reg' = IF mem.inst.rd = 0 THEN arch_reg
                    ELSE [arch_reg EXCEPT ![mem.inst.rd] = mem_result]
    BY <1>1, <1>3, <1>7 DEF GhostEdge
  <2>3. mem.inst.op \notin CsrOps
    BY <1>7 DEF Wen, WriteOps, CsrOps
  <2>4. csr' = csr
    BY <1>1, <2>3 DEF CsrEdge, csr_we
  <2>5. \E r \in Regs, v \in Values :
          arch_reg' = IF r = 0 THEN arch_reg ELSE [arch_reg EXCEPT ![r] = v]
    BY <2>1, <2>2
  <2>6. mem.next \in PCs
    BY DEF TypeOK
  <2> QED
    BY <1>4, <1>5, <1>6, <1>7, <2>3, <2>4, <2>5, <2>6
<1>8. CASE ~ Wen(mem.inst)
  <2>1. arch_reg' = arch_reg
    BY <1>1, <1>8 DEF GhostEdge
  <2>2. mem.inst.op \in CsrOps => mem.csr = Rewrite(mem.inst.op, MStatus)
    BY <1>2, <1>4 DEF CsrCurrent
  <2>3. csr' = IF mem.inst.op \in CsrOps
                 THEN [csr EXCEPT !.mie  = Rewrite(mem.inst.op, MStatus).mie,
                                  !.mpie = Rewrite(mem.inst.op, MStatus).mpie]
                 ELSE csr
    BY <1>1, <1>2, <2>2 DEF CsrEdge, csr_we
  <2>4. mem.next \in PCs
    BY DEF TypeOK
  <2> QED
    BY <1>4, <1>5, <1>6, <1>8, <2>1, <2>3, <2>4
<1> QED
  BY <1>7, <1>8

(* Without an instruction of the program in MEM nothing changes.            *)
LEMMA ArchIdle ==
  ASSUME Undisturbed, HInv, ~ Live(mem),
         NEW outcome, NEW fetch, NEW exe_value, NEW load_value, NEW stall, NEW irq,
         Clock(outcome, fetch, exe_value, load_value, stall, irq)
  PROVE  arch_pc' = arch_pc /\ arch_reg' = arch_reg /\ csr' = csr
<1> DEFINE mem_result == IF mem.inst.op \in LoadOps THEN load_value ELSE mem.result
<1> USE DEF HInv, PInv, IInv
<1>1. GhostEdge(mem_result) /\ CsrEdge
  BY DEF Clock
<1>2. ~ Trap /\ ~ mret_flag
  BY ActsWhenLive
<1>3. arch_pc' = arch_pc
  BY <1>1, <1>2 DEF GhostEdge, mret_jmp_flag, perf_retire_valid, Live
<1>4. arch_reg' = arch_reg
  BY <1>1 DEF GhostEdge, perf_retire_valid, Live, Wen, WriteOps
<1>5. CASE csr_we
  <2>1. mem.csr = MStatus
    BY <1>5, ActsWhenLive
  <2>2. csr' = [csr EXCEPT !.mie = csr.mie, !.mpie = csr.mpie]
    BY <1>1, <1>5, <2>1 DEF CsrEdge, MStatus
  <2>3. csr' = csr
    BY <2>2 DEF TypeOK
  <2> QED
    BY <1>3, <1>4, <2>3
<1>6. CASE ~ csr_we
  BY <1>1, <1>2, <1>3, <1>4, <1>6 DEF CsrEdge
<1> QED
  BY <1>5, <1>6

(* Every step of the stages is one of the processor, or none.               *)
LEMMA HartStep ==
  Undisturbed /\ HInv /\ HInv' /\ [Next]_vars => [H!Next]_(H!vars)
<1> SUFFICES ASSUME Undisturbed, HInv, HInv', [Next]_vars
             PROVE  [H!Next]_(H!vars)
  OBVIOUS
<1>1. /\ NextPC = arch_pc /\ Committed = arch_reg
      /\ NextPC' = arch_pc' /\ Committed' = arch_reg'
  BY DEF HInv, PInv, IInv, RegistersCommitted
<1>2. CASE UNCHANGED vars
  BY <1>1, <1>2 DEF vars, H!vars
<1>3. CASE Next
  <2>1. PICK outcome, fetch, exe_value, load_value, stall, irq :
          /\ Inputs(outcome, fetch, exe_value, load_value, stall, irq)
          /\ Clock(outcome, fetch, exe_value, load_value, stall, irq)
    BY <1>3, NextInputs DEF HInv, PInv, IInv
  <2>2. H!Following = Seq4(arch_pc)
    BY <1>1 DEF H!Following, Seq4
  <2>3. CASE Trap
    <3>1. H!EnterTrap
      BY <1>1, <2>1, <2>3, ArchTrap DEF H!EnterTrap
    <3>2. CASE mem.inst.op \in Ops \cap H!Faults
      BY <3>1, <3>2 DEF H!Next, H!Fault
    <3>3. CASE TRUE \in Irqs /\ csr.mie
      BY <3>1, <3>3 DEF H!Next, H!Interrupt
    <3> QED
      BY <2>1, <2>3, <3>2, <3>3, ArchTrap
  <2>4. CASE mret_flag
    <3>1. H!Return("mret") /\ "mret" \in Ops
      BY <1>1, <2>1, <2>2, <2>4, ArchReturn DEF H!Return
    <3> QED
      BY <3>1 DEF H!Next
  <2>5. CASE ~ Trap /\ ~ mret_flag /\ Live(mem)
    <3> DEFINE op == mem.inst.op
    <3>1. /\ op \in Ops \ TrapOps
          /\ NextPC' \in PCs
          /\ op \notin JumpOps => NextPC' = H!Following
          /\ IF Wen(mem.inst) THEN H!WriteReg ELSE Committed' = Committed
          /\ csr' = IF op \in CsrOps
                      THEN [csr EXCEPT !.mie  = Rewrite(op, MStatus).mie,
                                       !.mpie = Rewrite(op, MStatus).mpie]
                      ELSE csr
      BY <1>1, <2>1, <2>2, <2>5, ArchExecute DEF H!WriteReg
    <3>2. op \in {"alu", "mul", "load", "store", "br", "jal", "jalr",
                  "sei", "cli", "spi"}
      BY <3>1, OpsAssumption DEF AllOps, TrapOps
    <3>3. CASE op \in {"alu", "mul", "load"}
      <4>1. H!Compute(op)
        BY <3>1, <3>3 DEF H!Compute, Wen, WriteOps, JumpOps, CsrOps
      <4> QED
        BY <3>1, <4>1 DEF H!Next
    <3>4. CASE op = "store"
      <4>1. H!Store(op)
        BY <3>1, <3>4 DEF H!Store, Wen, WriteOps, JumpOps, CsrOps
      <4> QED
        BY <3>1, <4>1 DEF H!Next
    <3>5. CASE op = "br"
      <4>1. H!Branch(op)
        BY <3>1, <3>5 DEF H!Branch, Wen, WriteOps, CsrOps, PCs
      <4> QED
        BY <3>1, <4>1 DEF H!Next
    <3>6. CASE op \in {"jal", "jalr"}
      <4>1. H!JumpAndLink(op)
        BY <3>1, <3>6 DEF H!JumpAndLink, Wen, WriteOps, CsrOps, PCs
      <4> QED
        BY <3>1, <4>1 DEF H!Next
    <3>7. CASE op \in CsrOps
      <4>1. /\ NextPC' = H!Following /\ Committed' = Committed
            /\ csr' = [csr EXCEPT !.mie  = Rewrite(op, MStatus).mie,
                                  !.mpie = Rewrite(op, MStatus).mpie]
        BY <3>1, <3>7 DEF Wen, WriteOps, JumpOps, CsrOps
      <4>2. csr \in [mie : BOOLEAN, mpie : BOOLEAN, mepc : PCs, prev : BOOLEAN]
        BY DEF HInv, PInv, IInv, TypeOK
      <4>3. \/ op = "sei" /\ csr' = [csr EXCEPT !.mie = TRUE]
            \/ op = "cli" /\ csr' = [csr EXCEPT !.mie = FALSE]
            \/ op = "spi" /\ csr' = [csr EXCEPT !.mpie = TRUE]
        BY <3>7, <4>1, <4>2 DEF Rewrite, MStatus, CsrOps
      <4>4. H!WriteStatus(op)
        BY <4>1, <4>3 DEF H!WriteStatus
      <4> QED
        BY <3>1, <4>4 DEF H!Next
    <3> HIDE DEF op
    <3> QED
      BY <3>2, <3>3, <3>4, <3>5, <3>6, <3>7 DEF CsrOps
  <2>6. CASE ~ Live(mem)
    BY <1>1, <2>1, <2>6, ArchIdle DEF H!vars
  <2> QED
    BY <2>3, <2>4, <2>5, <2>6
<1> QED
  BY <1>2, <1>3

(* Bypasses, stalls, predictions, squashes, redirects and the replay of     *)
(* what an interrupt stops cannot be told from the outside: whatever the    *)
(* program, the stages implement the processor that executes one            *)
(* instruction after the other and takes its traps in between, as long as   *)
(* none of the four things happens (if_stage.sv, id_stage.sv, exe_stage.sv, *)
(* mem_stage.sv, wb_stage.sv, regfile_csr.sv:144-207).                      *)
THEOREM PipelineImplementsHart == Spec /\ []Undisturbed => ImplementsHart
<1>1. Init => H!Init
  <2> SUFFICES ASSUME Init PROVE H!Init
    OBVIOUS
  <2>1. PInv
    BY InitPInv
  <2>2. NextPC = 0 /\ Committed = [r \in Regs |-> 0]
    BY <2>1, StandsAt DEF Init, PInv, IInv, RegistersCommitted
  <2> QED
    BY <2>2 DEF Init, H!Init
<1>2. Undisturbed /\ HInv /\ HInv' /\ [Next]_vars => [H!Next]_(H!vars)
  BY HartStep
<1> QED
  BY <1>1, <1>2, HartInvariant, PTL DEF Spec, ImplementsHart, H!Spec

(* Each of the four alone is what a property of the traps, the operands or  *)
(* the order needs: whatever the program, the findings of the README are    *)
(* the only ways in which one of them is violated.                          *)
THEOREM OnlyTheFindings ==
  /\ Spec /\ []RedirectHeard => []OperandsCurrent /\ []InOrder
  /\ Spec /\ []RedirectHeard /\ []InterruptOnPath => []InterruptPrecise
  /\ Spec /\ []RedirectHeard /\ []ReturnAlone => []CsrCurrent
  /\ Spec /\ []RedirectOnce => []SavedInterruptEnable
<1>1. PInv => InOrder
  BY DEF PInv, PathInv, InOrder
<1>2. RInv => CsrCurrent
  BY DEF RInv, CsrInv
<1> QED
  BY <1>1, <1>2, OperandInvariant, PathInvariant, PathIsPrecise, CsrInvariant,
     SavedInvariant, PTL

(* Programs in which none of the four can happen: neither a multi-cycle     *)
(* operation nor a bubble stands behind what traps, interrupts do not meet  *)
(* jumps, and CSR instructions do not follow an mret.                       *)
OneAtATime ==
  /\ NoTrapTwice
  /\ Irqs = {FALSE} \/ Ops \cap JumpOps = {}
  /\ "mret" \notin Ops \/ Ops \cap CsrOps = {}

(* The stages implement that processor for every such program.              *)
THEOREM TheseProgramsRun ==
  ASSUME OneAtATime
  PROVE  Spec => ImplementsHart
<1> USE DEF OneAtATime, NoTrapTwice
<1>1. TInv => RedirectHeard /\ RedirectOnce /\ ReturnAlone
  <2> SUFFICES ASSUME TInv
               PROVE  RedirectHeard /\ RedirectOnce /\ ReturnAlone
    OBVIOUS
  <2> USE DEF TInv, IInv
  <2>1. RedirectHeard /\ RedirectOnce
    BY NoTrapWhileWaiting, QuietIsOnce
  <2>2. ASSUME mret_flag
        PROVE  /\ mem.valid
               /\ exs.inst.op \notin CsrOps /\ ids.inst.op \notin CsrOps
    <3>1. mem.inst.op = "mret" /\ ~ mem.flush
      BY <2>2 DEF mret_flag, CodeInv
    <3>2. "mret" \in Ops
      BY <3>1, MemoryOp
    <3>3. Ops \cap CsrOps = {}
      BY <3>2
    <3>4. /\ exs.inst \in Insts \cup {NOP_INST}
          /\ ids.inst \in Insts \cup {NOP_INST}
      BY DEF TypeOK
    <3>5. exs.inst.op \notin CsrOps /\ ids.inst.op \notin CsrOps
      BY <3>3, <3>4 DEF Insts, NOP_INST, Inst, CsrOps
    <3> QED
      BY <3>1, <3>5 DEF LeftQuiet, TrapOps
  <2> QED
    BY <2>1, <2>2 DEF ReturnAlone
<1>2. Spec => []InterruptOnPath
  <2>1. CASE Irqs = {FALSE}
    <3>1. IInv => InterruptOnPath
      BY <2>1 DEF IInv, TypeOK, InterruptOnPath, take_irq
    <3> QED
      BY <3>1, InvariantHolds, PTL
  <2>2. CASE Ops \cap JumpOps = {}
    <3>1. NoPlaceholders => InterruptOnPath
      BY DEF NoPlaceholders, NoPlaceholder, InterruptOnPath, take_irq
    <3> QED
      BY <2>2, <3>1, PlaceholderInvariant, PTL
  <2> QED
    BY <2>1, <2>2
<1>3. (RedirectHeard /\ RedirectOnce /\ ReturnAlone /\ InterruptOnPath)  =>  Undisturbed
  BY DEF Undisturbed
<1> QED
  BY <1>1, <1>2, <1>3, TrapInvariant, PipelineImplementsHart, PTL
=============================================================================
