------------------------------- MODULE Timer --------------------------------
(***************************************************************************)
(* The countdown timer, rtl/my_cpu/timer.sv.  One step is one rising clock *)
(* edge, with at most one bus write; a read only loads rdata and is left   *)
(* out.  A control word is the record of the bits the timer looks at.      *)
(***************************************************************************)
EXTENDS Naturals

CONSTANTS
  MaxLoad,       (* largest value written to the load register            *)
  MaxPrescaler   (* largest value written to the prescaler register       *)

ASSUME MaxLoadAssumption == MaxLoad \in Nat
ASSUME MaxPrescalerAssumption == MaxPrescaler \in Nat

VARIABLES
  timer_load, timer_value, timer_ctrl, timer_prescaler, prescaler_count,
  periodic_wait_intclr,  (* expired, to be reloaded by a write to INTCLR   *)
  timer_int

vars == <<timer_load, timer_value, timer_ctrl, timer_prescaler,
          prescaler_count, periodic_wait_intclr, timer_int>>

Controls == [enable : BOOLEAN, int_enable : BOOLEAN, mode : BOOLEAN,
             reload : BOOLEAN, prescaler_enable : BOOLEAN]

periodic == timer_ctrl.mode /\ timer_ctrl.reload
MutPrescalerPulse ==
  ~ timer_ctrl.prescaler_enable \/ prescaler_count > timer_prescaler
prescaler_pulse ==
  ~ timer_ctrl.prescaler_enable \/ prescaler_count >= timer_prescaler
timer_step ==
  timer_ctrl.enable /\ prescaler_pulse /\ ~ periodic_wait_intclr

-----------------------------------------------------------------------------
(* The prescaler counts in every cycle; a write to CTRL or PRESCALER       *)
(* restarts it.                                                             *)
MutPrescaleEdge(restart) ==
  prescaler_count' =
    IF \/ restart \/ ~ timer_ctrl.enable \/ ~ timer_ctrl.prescaler_enable
       \/ prescaler_count > timer_prescaler
    THEN 0 ELSE prescaler_count + 1
PrescaleEdge(restart) ==
  prescaler_count' =
    IF \/ restart \/ ~ timer_ctrl.enable \/ ~ timer_ctrl.prescaler_enable
       \/ prescaler_count >= timer_prescaler
    THEN 0 ELSE prescaler_count + 1

WriteLoad(v) ==
  /\ PrescaleEdge(FALSE)
  /\ timer_load' = v /\ timer_value' = v
  /\ periodic_wait_intclr' = FALSE
  /\ UNCHANGED <<timer_ctrl, timer_prescaler, timer_int>>

MutWriteCtrl(ctrl) ==
  /\ PrescaleEdge(TRUE)
  /\ timer_ctrl' = ctrl
  /\ timer_int' = FALSE
  /\ UNCHANGED <<timer_load, timer_value, timer_prescaler, periodic_wait_intclr>>
WriteCtrl(ctrl) ==
  /\ PrescaleEdge(TRUE)
  /\ timer_ctrl' = ctrl
  /\ timer_int' = FALSE /\ periodic_wait_intclr' = FALSE
  /\ UNCHANGED <<timer_load, timer_value, timer_prescaler>>

(* Clearing the interrupt of a waiting periodic timer starts it again.     *)
WriteIntClr ==
  /\ PrescaleEdge(FALSE)
  /\ timer_int' = FALSE
  /\ IF periodic /\ periodic_wait_intclr
       THEN timer_value' = timer_load /\ periodic_wait_intclr' = FALSE
       ELSE UNCHANGED <<timer_value, periodic_wait_intclr>>
  /\ UNCHANGED <<timer_load, timer_ctrl, timer_prescaler>>

WritePrescaler(v) ==
  /\ PrescaleEdge(TRUE)
  /\ timer_prescaler' = v
  /\ UNCHANGED <<timer_load, timer_value, timer_ctrl, periodic_wait_intclr,
                 timer_int>>

(* A write that changes no register still takes the place of a countdown.  *)
WriteOther ==
  /\ PrescaleEdge(FALSE)
  /\ UNCHANGED <<timer_load, timer_value, timer_ctrl, timer_prescaler,
                 periodic_wait_intclr, timer_int>>

(* Without a write: count down from above 1, expire from 1, or stay.       *)
Countdown ==
  /\ timer_step /\ timer_value > 1
  /\ PrescaleEdge(FALSE)
  /\ timer_value' = timer_value - 1
  /\ UNCHANGED <<timer_load, timer_ctrl, timer_prescaler, periodic_wait_intclr,
                 timer_int>>

Expire ==
  /\ timer_step /\ timer_value = 1
  /\ PrescaleEdge(FALSE)
  /\ timer_int' = (timer_int \/ timer_ctrl.int_enable)
  /\ timer_value' = IF periodic /\ ~ timer_ctrl.int_enable THEN timer_load ELSE 0
  /\ periodic_wait_intclr' =
       (periodic_wait_intclr \/ (periodic /\ timer_ctrl.int_enable))
  /\ UNCHANGED <<timer_load, timer_ctrl, timer_prescaler>>

Rest ==
  /\ ~ timer_step \/ timer_value = 0
  /\ PrescaleEdge(FALSE)
  /\ UNCHANGED <<timer_load, timer_value, timer_ctrl, timer_prescaler,
                 periodic_wait_intclr, timer_int>>

Run == Countdown \/ Expire \/ Rest

Init ==
  /\ timer_load = 0 /\ timer_value = 0
  /\ timer_ctrl = [enable |-> FALSE, int_enable |-> FALSE, mode |-> FALSE,
                   reload |-> FALSE, prescaler_enable |-> FALSE]
  /\ timer_prescaler = 0 /\ prescaler_count = 0
  /\ periodic_wait_intclr = FALSE /\ timer_int = FALSE

Next ==
  \/ \E v \in 0 .. MaxLoad : WriteLoad(v)
  \/ \E ctrl \in Controls : WriteCtrl(ctrl)
  \/ WriteIntClr
  \/ \E v \in 0 .. MaxPrescaler : WritePrescaler(v)
  \/ WriteOther
  \/ Run

Spec == Init /\ [][Next]_vars

(* The clock keeps running.  It is a cycle without a write that must come  *)
(* in the end; nothing says that the program ever writes again.            *)
FairSpec == Spec /\ WF_vars(Run)

-----------------------------------------------------------------------------
(* Properties.                                                              *)

(* Types; the prescaler's counter never passes the largest prescaler, also *)
(* when the prescaler is lowered under it (timer.sv:40-51).                *)
TypeOK ==
  /\ timer_load \in 0 .. MaxLoad /\ timer_value \in 0 .. MaxLoad
  /\ timer_ctrl \in Controls
  /\ timer_prescaler \in 0 .. MaxPrescaler
  /\ prescaler_count \in 0 .. timer_prescaler
  /\ periodic_wait_intclr \in BOOLEAN /\ timer_int \in BOOLEAN

(* A timer that waits to be restarted by the clearing of its interrupt has *)
(* that interrupt raised and is still set up to restart: it cannot wait    *)
(* for a handler that is never called, or one whose write does nothing.    *)
WaitIsHeard ==
  periodic_wait_intclr =>
    timer_int /\ timer_value = 0 /\ periodic /\ timer_ctrl.enable

(* When the program leaves the timer alone, an armed timer raises its      *)
(* interrupt, with a prescaler, with prescaler 0 or without one: its pulse *)
(* meets every countdown (timer.sv:36-51, 99-122).  Only a write that     *)
(* switches timer or interrupt off, or loads 0, can prevent it: an armed   *)
(* timer does not come to rest at 0 and stay silent.                        *)
SwitchedOn == timer_ctrl.enable /\ timer_ctrl.int_enable /\ timer_load > 0
Armed == SwitchedOn /\ timer_value > 0
Expires == <>[][Run]_vars => (Armed ~> (timer_int \/ ~ SwitchedOn))
=============================================================================
