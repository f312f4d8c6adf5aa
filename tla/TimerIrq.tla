------------------------------ MODULE TimerIrq ------------------------------
(***************************************************************************)
(* The timer interrupt from end to end: Timer, Plic and the test program   *)
(* board_tests/02_timer_irq/main.c on the processor.  All of it runs on    *)
(* one clock; in a cycle the program makes its next step or does not come  *)
(* to it (a fetch, a stall, an instruction without a bus access).          *)
(*                                                                         *)
(* Interrupts are enabled in the wfi loop only: the trap clears MIE and    *)
(* mret sets it again.  The bridge and IO pass an access through in the    *)
(* same cycle.                                                             *)
(***************************************************************************)
EXTENDS Integers

CONSTANTS
  Periods,    (* what TIMER_LOAD_VALUE may be, up to MaxLoad               *)
  MaxLoad, MaxPrescaler, NumIrqs, MaxPrio, OtherData

ASSUME PeriodsAssumption ==
  MaxLoad \in Nat /\ Periods \subseteq 1 .. MaxLoad
ASSUME IrqsAssumption == NumIrqs \in Nat /\ NumIrqs >= 2
ASSUME PrioAssumption == MaxPrio \in Nat \ {0}

VARIABLES
  priority_regs, pending_regs, enable_regs, threshold_reg, in_service_regs,
  claim_id_r, claim_valid_r, plic_irq, plic_rdata,
  timer_load, timer_value, timer_ctrl, timer_prescaler, prescaler_count,
  periodic_wait_intclr, timer_int,
  pc,         (* the program's next step                                   *)
  irq_id,     (* the handler's variable                                    *)
  unserved    (* ghost: expiries of the timer the handler has not counted  *)

P == INSTANCE Plic
T == INSTANCE Timer

vars == <<priority_regs, pending_regs, enable_regs, threshold_reg,
          in_service_regs, claim_id_r, claim_valid_r, plic_irq, plic_rdata,
          timer_load, timer_value, timer_ctrl, timer_prescaler,
          prescaler_count, periodic_wait_intclr, timer_int,
          pc, irq_id, unserved>>

Clamp(n) == IF n > 2 THEN 2 ELSE IF n < -1 THEN -1 ELSE n  (* the ghost's bounds *)

TIMER_INT_ID == 1
peripheral_interrupts == IF timer_int THEN {TIMER_INT_ID} ELSE {}

(* TIMER_CTRL_ENABLE | INT_ENABLE | MODE_PERIODIC | RELOAD                 *)
CtrlWord == [enable |-> TRUE, int_enable |-> TRUE, mode |-> TRUE,
             reload |-> TRUE, prescaler_enable |-> FALSE]

-----------------------------------------------------------------------------
Goto(from, to) == pc = from /\ pc' = to
Plic(bus) == P!Clock(peripheral_interrupts, bus)

(* The timer in a cycle in which the program does not write to it.         *)
Expiries == IF T!timer_step /\ timer_value = 1 THEN 1 ELSE 0
Counted(n) == unserved' = Clamp(unserved + Expiries - n)
TimerRuns == T!Run /\ Counted(0)
Waits == Plic(P!Idle) /\ TimerRuns /\ UNCHANGED irq_id
Writes(bus) == Plic(bus) /\ TimerRuns /\ UNCHANGED irq_id
WritesTimer(action) == action /\ Plic(P!Idle) /\ UNCHANGED <<irq_id, unserved>>

(* main()                                                                   *)
SetPriority ==
  Goto("priority", "enable") /\ Writes(P!WritePriority(TIMER_INT_ID, 1))
EnableSource ==
  Goto("enable", "threshold") /\ Writes(P!WriteEnable({TIMER_INT_ID}))
SetThreshold == Goto("threshold", "load") /\ Writes(P!WriteThreshold(0))
LoadTimer ==
  \E period \in Periods :
    Goto("load", "ctrl") /\ WritesTimer(T!WriteLoad(period))
StartTimer == Goto("ctrl", "csr") /\ WritesTimer(T!WriteCtrl(CtrlWord))
EnableInterrupts == Goto("csr", "wfi") /\ Waits

(* The processor takes the interrupt in the wfi loop (mem_stage take_irq). *)
TakeInterrupt == plic_irq /\ Goto("wfi", "claim") /\ Waits

(* trap_handler()                                                           *)
Claim == Goto("claim", "dispatch") /\ Writes(P!ReadClaim)
Dispatch ==
  /\ Goto("dispatch", IF plic_rdata = TIMER_INT_ID THEN "count" ELSE "complete")
  /\ irq_id' = plic_rdata
  /\ Plic(P!Idle) /\ TimerRuns
Count ==
  /\ Goto("count", "intclr")
  /\ Plic(P!Idle) /\ T!Run /\ UNCHANGED irq_id
  /\ Counted(1)
MutClearTimer == Goto("intclr", "complete") /\ Waits
ClearTimer == Goto("intclr", "complete") /\ WritesTimer(T!WriteIntClr)
Complete == Goto("complete", "mret") /\ Writes(P!WriteClaim(irq_id))
Return == Goto("mret", "wfi") /\ Waits

Program ==
  \/ SetPriority \/ EnableSource \/ SetThreshold \/ LoadTimer \/ StartTimer
  \/ EnableInterrupts \/ TakeInterrupt
  \/ Claim \/ Dispatch \/ Count \/ ClearTimer \/ Complete \/ Return

Stall == UNCHANGED pc /\ Waits

Init ==
  /\ P!Init /\ T!Init
  /\ pc = "priority" /\ irq_id = 0 /\ unserved = 0

Next == Program \/ Stall

(* The clock keeps running, and the program is not stalled for ever        *)
(* (Pipeline's Progress); an interrupt is taken some time in the loop.     *)
Spec == Init /\ [][Next]_vars /\ WF_vars(Next) /\ WF_vars(Program)

-----------------------------------------------------------------------------
(* Properties.                                                              *)

(* Every expiry of the timer is one run of the handler: none is missed,    *)
(* although the PLIC remembers at most one, and the level of timer_int,    *)
(* still high when the handler starts, does not make the PLIC call twice.  *)
ServedOnce ==
  /\ unserved \in 0 .. 1
  /\ pc = "count" => unserved = 1
  /\ pc = "dispatch" => plic_rdata = TIMER_INT_ID

(* The periodic timer goes on for ever, with an interrupt for each period: *)
(* the handler always comes to clear it, and the timer to raise it again.  *)
KeepsTicking == []<>timer_int /\ []<>(~ timer_int)
=============================================================================
