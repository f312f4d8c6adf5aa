---------------------------- MODULE TimerProofs -----------------------------
(* Proofs about Timer, for every range of its load and prescaler registers. *)
EXTENDS Timer, TLAPS

(* The registers keep their types.  The counter of the prescaler stays at  *)
(* or below the prescaler because whoever writes the one restarts the other.*)
THEOREM TypeCorrect == Spec => []TypeOK
<1>1. Init => TypeOK
  <2> SUFFICES ASSUME Init PROVE TypeOK
    OBVIOUS
  <2>1. timer_ctrl \in Controls
    BY DEF Init, Controls
  <2>2. 0 \in 0 .. MaxLoad /\ 0 \in 0 .. MaxPrescaler /\ 0 \in 0 .. 0
    BY MaxLoadAssumption, MaxPrescalerAssumption
  <2> QED
    BY <2>1, <2>2 DEF Init, TypeOK
<1>2. ASSUME TypeOK, [Next]_vars PROVE TypeOK'
  <2> USE <1>2, MaxLoadAssumption, MaxPrescalerAssumption DEF TypeOK
  <2>1. ASSUME PrescaleEdge(FALSE), timer_prescaler' = timer_prescaler
        PROVE  prescaler_count' \in 0 .. timer_prescaler'
    <3>1. prescaler_count \in Nat /\ timer_prescaler \in Nat
      OBVIOUS
    <3>2. \/ prescaler_count' = 0
          \/ prescaler_count < timer_prescaler /\ prescaler_count' = prescaler_count + 1
      BY <2>1, <3>1 DEF PrescaleEdge
    <3> QED
      BY <2>1, <3>1, <3>2
  <2>2. ASSUME NEW v \in 0 .. MaxLoad, WriteLoad(v) PROVE TypeOK'
    BY <2>1, <2>2 DEF WriteLoad
  <2>3. ASSUME NEW ctrl \in Controls, WriteCtrl(ctrl) PROVE TypeOK'
    <3>1. prescaler_count' = 0
      BY <2>3 DEF WriteCtrl, PrescaleEdge
    <3>2. prescaler_count' \in 0 .. timer_prescaler'
      BY <2>3, <3>1 DEF WriteCtrl
    <3>3. timer_ctrl' \in Controls
      BY <2>3 DEF WriteCtrl
    <3>4. timer_int' \in BOOLEAN /\ periodic_wait_intclr' \in BOOLEAN
      BY <2>3 DEF WriteCtrl
    <3> QED
      BY <2>3, <3>2, <3>3, <3>4 DEF WriteCtrl
  <2>4. CASE WriteIntClr
    <3>1. /\ timer_value' \in 0 .. MaxLoad
          /\ periodic_wait_intclr' \in BOOLEAN
      BY <2>4 DEF WriteIntClr
    <3> QED
      BY <2>1, <2>4, <3>1 DEF WriteIntClr
  <2>5. ASSUME NEW v \in 0 .. MaxPrescaler, WritePrescaler(v) PROVE TypeOK'
    <3>1. prescaler_count' = 0
      BY <2>5 DEF WritePrescaler, PrescaleEdge
    <3> QED
      BY <2>5, <3>1 DEF WritePrescaler
  <2>6. CASE WriteOther
    BY <2>1, <2>6 DEF WriteOther
  <2>7. CASE Countdown
    BY <2>1, <2>7 DEF Countdown
  <2>8. CASE Expire
    <3>1. periodic \in BOOLEAN /\ timer_ctrl.int_enable \in BOOLEAN
      BY DEF periodic, Controls
    <3> QED
      BY <2>1, <2>8, <3>1 DEF Expire
  <2>9. CASE Rest
    BY <2>1, <2>9 DEF Rest
  <2>10. CASE UNCHANGED vars
    BY <2>10 DEF vars
  <2> QED
    BY <2>2, <2>3, <2>4, <2>5, <2>6, <2>7, <2>8, <2>9, <2>10 DEF Next, Run
<1> QED
  BY <1>1, <1>2, PTL DEF Spec

(* A waiting timer has its interrupt raised and restarts when it is        *)
(* cleared.  Only a write to CTRL could take either away, and that ends    *)
(* the wait.                                                                *)
THEOREM WaitIsAlwaysHeard == Spec => []WaitIsHeard
<1>1. Init => WaitIsHeard
  BY DEF Init, WaitIsHeard
<1>2. ASSUME TypeOK, WaitIsHeard, [Next]_vars PROVE WaitIsHeard'
  <2> USE <1>2 DEF WaitIsHeard
  <2>1. ASSUME NEW v \in 0 .. MaxLoad, WriteLoad(v) PROVE WaitIsHeard'
    BY <2>1 DEF WriteLoad
  <2>2. ASSUME NEW ctrl \in Controls, WriteCtrl(ctrl) PROVE WaitIsHeard'
    BY <2>2 DEF WriteCtrl
  <2>3. CASE WriteIntClr
    BY <2>3 DEF WriteIntClr
  <2>4. ASSUME NEW v \in 0 .. MaxPrescaler, WritePrescaler(v) PROVE WaitIsHeard'
    BY <2>4 DEF WritePrescaler, periodic
  <2>5. CASE WriteOther
    BY <2>5 DEF WriteOther, periodic
  <2>6. CASE Countdown
    BY <2>6 DEF Countdown, timer_step
  <2>7. CASE Expire
    BY <2>7 DEF Expire, timer_step, periodic
  <2>8. CASE Rest
    BY <2>8 DEF Rest, periodic
  <2>9. CASE UNCHANGED vars
    BY <2>9 DEF vars, periodic
  <2> QED
    BY <2>1, <2>2, <2>3, <2>4, <2>5, <2>6, <2>7, <2>8, <2>9 DEF Next, Run
<1> QED
  BY <1>1, <1>2, TypeCorrect, PTL DEF Spec
=============================================================================
