--------------------------- MODULE TimerIrqProofs ---------------------------
(***************************************************************************)
(* A proof about the timer interrupt program with its two devices, for     *)
(* every set of periods and every number of sources and priorities: the    *)
(* handler runs once for each expiry of the timer.                          *)
(***************************************************************************)
EXTENDS TimerIrq, TLAPS

Setup == {"priority", "enable", "threshold", "load", "ctrl"}
Served == {"dispatch", "count", "intclr", "complete"}

(* The timer waits with its interrupt raised; unserved is that interrupt,  *)
(* until the handler has counted it and is about to clear it.              *)
TimerInv ==
  /\ timer_int \in BOOLEAN /\ periodic_wait_intclr \in BOOLEAN
  /\ periodic_wait_intclr <=> timer_int
  /\ pc \in Setup => ~ timer_ctrl.enable /\ ~ timer_int
  /\ pc \notin Setup => timer_ctrl = CtrlWord
  /\ unserved = IF timer_int /\ pc # "intclr" THEN 1 ELSE 0
  /\ pc \in {"claim", "dispatch", "count", "intclr"} => timer_int

(* The controller knows of the timer only, asks for it while it is pending *)
(* and not before, and serves it from the claim to the completion.         *)
PlicInv ==
  /\ DOMAIN priority_regs = P!Ids /\ threshold_reg = 0
  /\ pc # "priority" => priority_regs[TIMER_INT_ID] = 1
  /\ enable_regs \subseteq {TIMER_INT_ID}
  /\ pc \notin {"priority", "enable"} => enable_regs = {TIMER_INT_ID}
  /\ in_service_regs = IF pc \in Served THEN {TIMER_INT_ID} ELSE {}
  /\ pending_regs \subseteq {TIMER_INT_ID}
  /\ pending_regs # {} => timer_int /\ pc \notin Served
  /\ claim_valid_r \in BOOLEAN /\ plic_irq \in BOOLEAN
  /\ plic_irq <=> claim_valid_r
  /\ claim_valid_r => claim_id_r = TIMER_INT_ID
  /\ claim_valid_r /\ pc # "dispatch" => pending_regs = {TIMER_INT_ID}
  /\ pc = "claim" => claim_valid_r
  /\ pc = "dispatch" => plic_rdata = TIMER_INT_ID
  /\ pc \in {"count", "intclr", "complete"} => irq_id = TIMER_INT_ID

IInv == TimerInv /\ PlicInv

(* The selection, when nothing but the timer can be pending.               *)
LEMMA Selection ==
  ASSUME IInv
  PROVE  /\ P!claim_valid_next <=> TIMER_INT_ID \in pending_regs
         /\ P!claim_valid_next => P!claim_id_next = TIMER_INT_ID
<1>1. TIMER_INT_ID = 1 /\ threshold_reg = 0
  BY DEF TIMER_INT_ID, IInv, PlicInv
<1>2. 1 \in P!Priorities \ {0}
  BY PrioAssumption DEF P!Priorities
<1>3. CASE TIMER_INT_ID \in pending_regs
  <2>1. /\ pending_regs = {1} /\ in_service_regs = {} /\ enable_regs = {1}
        /\ priority_regs[1] = 1
    BY <1>1, <1>3 DEF IInv, PlicInv, TimerInv, Setup, Served
  <2>2. P!eligible_irqs = {1}
    BY <2>1 DEF P!eligible_irqs
  <2>3. \A p : P!Bucket(p) = IF p = 1 THEN {1} ELSE {}
    BY <2>1, <2>2 DEF P!Bucket
  <2>4. P!Candidates = {1}
    BY <1>1, <1>2, <2>3 DEF P!Candidates
  <2>5. P!Greatest({1}) = 1 /\ P!Least({1}) = 1
    BY DEF P!Greatest, P!Least
  <2> QED
    BY <1>1, <1>3, <2>3, <2>4, <2>5 DEF P!claim_valid_next, P!claim_id_next
<1>4. CASE TIMER_INT_ID \notin pending_regs
  <2>1. pending_regs = {}
    BY <1>4 DEF IInv, PlicInv
  <2>2. \A p : P!Bucket(p) = {}
    BY <2>1 DEF P!Bucket, P!eligible_irqs
  <2> QED
    BY <1>4, <2>2 DEF P!Candidates, P!claim_valid_next
<1> QED
  BY <1>3, <1>4

(* A cycle of the controller.                                               *)
Taken(bus) == bus.reg = "read_claim" /\ claim_valid_r

(* What it does to the timer's request, whatever the access.               *)
LEMMA PlicCycle ==
  ASSUME IInv, NEW bus, Plic(bus)
  PROVE  /\ P!write_reg(bus)
         /\ pending_regs' = IF Taken(bus) THEN {}
                            ELSE IF timer_int /\ pc \notin Served
                                   THEN {TIMER_INT_ID} ELSE pending_regs
         /\ in_service_regs' =
              IF Taken(bus) THEN {TIMER_INT_ID}
              ELSE IF bus.reg = "write_claim" /\ bus.id = TIMER_INT_ID THEN {}
              ELSE in_service_regs
         /\ claim_valid_r' \in BOOLEAN /\ plic_irq' \in BOOLEAN
         /\ claim_valid_r' <=> TIMER_INT_ID \in pending_regs
         /\ plic_irq' <=> claim_valid_r'
         /\ claim_valid_r' => claim_id_r' = TIMER_INT_ID
         /\ bus.reg = "none" => plic_rdata' = plic_rdata
         /\ Taken(bus) => plic_rdata' = TIMER_INT_ID
<1>1. P!Clock(peripheral_interrupts, bus)
  BY DEF Plic
<1>2. /\ P!claim_valid_next <=> TIMER_INT_ID \in pending_regs
      /\ P!claim_valid_next => P!claim_id_next = TIMER_INT_ID
  BY Selection
<1>3. /\ P!write_reg(bus)
      /\ bus.reg = "none" => plic_rdata' = plic_rdata
      /\ Taken(bus) => plic_rdata' = claim_id_r
  BY <1>1 DEF P!Clock, Taken
<1>4. claim_valid_r => claim_id_r = TIMER_INT_ID
  BY DEF IInv, PlicInv
<1>5. /\ claim_valid_r' \in BOOLEAN /\ plic_irq' \in BOOLEAN
      /\ claim_valid_r' <=> TIMER_INT_ID \in pending_regs
      /\ plic_irq' <=> claim_valid_r'
      /\ claim_valid_r' => claim_id_r' = TIMER_INT_ID
  <2>1. /\ claim_valid_r' = P!claim_valid_next /\ plic_irq' = P!claim_valid_next
        /\ claim_id_r' = P!claim_id_next
    BY <1>1 DEF P!Clock
  <2>2. P!claim_valid_next \in BOOLEAN
    BY DEF P!claim_valid_next
  <2> QED
    BY <1>2, <2>1, <2>2
<1>6. P!claim_mask(bus) = IF Taken(bus) THEN {TIMER_INT_ID} ELSE {}
  BY <1>4 DEF P!claim_mask, Taken
<1>7. /\ pending_regs' = ((pending_regs \cup (peripheral_interrupts \ in_service_regs))
                            \ P!claim_mask(bus)) \ {0}
      /\ in_service_regs' =
           ((in_service_regs \cup P!claim_mask(bus)) \ P!release_mask(bus)) \ {0}
  BY <1>1 DEF P!Clock, P!pending_next, P!in_service_next
<1>8. /\ TIMER_INT_ID # 0
      /\ pending_regs \subseteq {TIMER_INT_ID}
      /\ in_service_regs = IF pc \in Served THEN {TIMER_INT_ID} ELSE {}
      /\ peripheral_interrupts = IF timer_int THEN {TIMER_INT_ID} ELSE {}
  BY DEF IInv, PlicInv, TIMER_INT_ID, peripheral_interrupts
<1>9. pending_regs' = IF Taken(bus) THEN {}
                      ELSE IF timer_int /\ pc \notin Served
                             THEN {TIMER_INT_ID} ELSE pending_regs
  BY <1>6, <1>7, <1>8
<1>10. in_service_regs' =
         IF Taken(bus) THEN {TIMER_INT_ID}
         ELSE IF bus.reg = "write_claim" /\ bus.id = TIMER_INT_ID THEN {}
         ELSE in_service_regs
  <2>1. P!release_mask(bus) = IF bus.reg = "write_claim" /\ bus.id = TIMER_INT_ID
                                THEN in_service_regs ELSE {}
    BY <1>8 DEF P!release_mask
  <2>2. ~ (Taken(bus) /\ bus.reg = "write_claim")
    BY DEF Taken
  <2> QED
    BY <1>6, <1>7, <1>8, <2>1, <2>2
<1>11. Taken(bus) => plic_rdata' = TIMER_INT_ID
  BY <1>3, <1>4 DEF Taken
<1> QED
  BY <1>3, <1>5, <1>9, <1>10, <1>11

(* A cycle in which the program leaves the timer alone.                     *)
LEMMA TimerCycle ==
  ASSUME IInv, T!Run
  PROVE  /\ UNCHANGED timer_ctrl
         /\ timer_int' \in BOOLEAN /\ periodic_wait_intclr' \in BOOLEAN
         /\ periodic_wait_intclr' <=> timer_int'
         /\ timer_int => timer_int'
         /\ pc \in Setup => ~ timer_int'
         /\ Expiries = IF timer_int' /\ ~ timer_int THEN 1 ELSE 0
<1>1. /\ timer_int \in BOOLEAN /\ periodic_wait_intclr \in BOOLEAN
      /\ periodic_wait_intclr <=> timer_int
      /\ pc \in Setup => ~ timer_ctrl.enable /\ ~ timer_int
      /\ pc \notin Setup => timer_ctrl = CtrlWord
  BY DEF IInv, TimerInv
<1>2. T!timer_step => /\ ~ timer_int /\ pc \notin Setup
                      /\ timer_ctrl.int_enable /\ T!periodic
  BY <1>1 DEF T!timer_step, T!periodic, CtrlWord
<1>3. CASE T!Countdown
  BY <1>1, <1>3 DEF T!Countdown, Expiries
<1>4. CASE T!Expire
  <2>1. timer_int' = TRUE /\ periodic_wait_intclr' = TRUE /\ UNCHANGED timer_ctrl
    BY <1>1, <1>2, <1>4 DEF T!Expire
  <2> QED
    BY <1>2, <1>4, <2>1 DEF T!Expire, Expiries
<1>5. CASE T!Rest
  BY <1>1, <1>5 DEF T!Rest, Expiries
<1> QED
  BY <1>3, <1>4, <1>5 DEF T!Run

(* A cycle in which the program leaves the controller alone.                *)
LEMMA PlicKept ==
  ASSUME IInv, Plic(P!Idle),
         timer_int' \/ ~ timer_int \/ pc \in Served,
         pc' # "priority" => pc # "priority",
         pc' \notin {"priority", "enable"} => pc \notin {"priority", "enable"},
         pc' \in Served <=> pc \in Served,
         pc' = "claim" => pc = "claim" \/ (pc = "wfi" /\ plic_irq),
         pc' = "dispatch" => pc = "dispatch",
         pc' \in {"count", "intclr", "complete"} => irq_id' = TIMER_INT_ID
  PROVE  PlicInv'
<1>1. P!Idle.reg = "none"
  BY DEF P!Idle, P!Access
<1>2. ~ Taken(P!Idle)
  BY <1>1 DEF Taken
<1>3. UNCHANGED <<priority_regs, enable_regs, threshold_reg>>
  BY <1>1, PlicCycle DEF P!write_reg
<1>4. /\ UNCHANGED <<in_service_regs, plic_rdata>>
      /\ pending_regs' = IF timer_int /\ pc \notin Served THEN {TIMER_INT_ID}
                         ELSE pending_regs
  BY <1>1, <1>2, PlicCycle
<1>5. /\ claim_valid_r' \in BOOLEAN /\ plic_irq' \in BOOLEAN
      /\ claim_valid_r' <=> TIMER_INT_ID \in pending_regs
      /\ plic_irq' <=> claim_valid_r'
      /\ claim_valid_r' => claim_id_r' = TIMER_INT_ID
  BY PlicCycle
<1>6. /\ DOMAIN priority_regs' = P!Ids /\ threshold_reg' = 0
      /\ pc' # "priority" => priority_regs'[TIMER_INT_ID] = 1
      /\ enable_regs' \subseteq {TIMER_INT_ID}
      /\ pc' \notin {"priority", "enable"} => enable_regs' = {TIMER_INT_ID}
      /\ in_service_regs' = IF pc' \in Served THEN {TIMER_INT_ID} ELSE {}
      /\ pc' = "dispatch" => plic_rdata' = TIMER_INT_ID
  BY <1>3, <1>4 DEF IInv, PlicInv
<1>7. pending_regs' \subseteq {TIMER_INT_ID}
  BY <1>4 DEF IInv, PlicInv
<1>8. pending_regs' # {} => timer_int' /\ pc' \notin Served
  BY <1>4 DEF IInv, PlicInv
<1>9. claim_valid_r' /\ pc' # "dispatch" => pending_regs' = {TIMER_INT_ID}
  BY <1>4, <1>5 DEF IInv, PlicInv, Served
<1>10. pc' = "claim" => claim_valid_r'
  BY <1>5 DEF IInv, PlicInv, TIMER_INT_ID
<1>11. P!Ids' = P!Ids /\ TIMER_INT_ID' = TIMER_INT_ID
  BY DEF P!Ids, TIMER_INT_ID
<1> QED
  BY <1>5, <1>6, <1>7, <1>8, <1>9, <1>10, <1>11 DEF PlicInv

(* A cycle in which the program leaves the timer alone and counts nothing. *)
LEMMA TimerKept ==
  ASSUME IInv, T!Run, Counted(0),
         pc' \in Setup <=> pc \in Setup,
         pc' = "intclr" <=> pc = "intclr",
         pc' \in {"claim", "dispatch", "count"} => timer_int
  PROVE  TimerInv'
<1>1. /\ UNCHANGED timer_ctrl
      /\ timer_int' \in BOOLEAN /\ periodic_wait_intclr' \in BOOLEAN
      /\ periodic_wait_intclr' <=> timer_int'
      /\ timer_int => timer_int'
      /\ pc \in Setup => ~ timer_int'
      /\ Expiries = IF timer_int' /\ ~ timer_int THEN 1 ELSE 0
  BY TimerCycle
<1>2. /\ timer_int \in BOOLEAN
      /\ pc \in Setup => ~ timer_ctrl.enable
      /\ pc \notin Setup => timer_ctrl = CtrlWord
      /\ unserved = IF timer_int /\ pc # "intclr" THEN 1 ELSE 0
      /\ pc = "intclr" => timer_int
  BY DEF IInv, TimerInv
<1>3. unserved + Expiries - 0 = IF timer_int' /\ pc' # "intclr" THEN 1 ELSE 0
  BY <1>1, <1>2
<1>4. unserved' = IF timer_int' /\ pc' # "intclr" THEN 1 ELSE 0
  BY <1>3 DEF Counted, Clamp
<1>5. CtrlWord' = CtrlWord
  BY DEF CtrlWord
<1> QED
  BY <1>1, <1>2, <1>4, <1>5 DEF TimerInv

(* The registers that no access to the claim register changes.             *)
LEMMA ClaimAccess ==
  ASSUME IInv, NEW bus, Plic(bus), bus.reg \in {"read_claim", "write_claim"}
  PROVE  UNCHANGED <<priority_regs, enable_regs, threshold_reg>>
BY PlicCycle DEF P!write_reg

(* The setup's write to the controller: nothing is pending yet.             *)
LEMMA SetupAccess ==
  ASSUME IInv, NEW bus, Plic(bus), pc \in Setup, pc' \in Setup,
         bus.reg \notin {"read_claim", "write_claim"},
         DOMAIN priority_regs' = P!Ids, threshold_reg' = 0,
         enable_regs' \subseteq {TIMER_INT_ID},
         pc' # "priority" => priority_regs'[TIMER_INT_ID] = 1,
         pc' \notin {"priority", "enable"} => enable_regs' = {TIMER_INT_ID}
  PROVE  PlicInv'
<1>1. ~ timer_int /\ pending_regs = {} /\ in_service_regs = {}
  BY DEF IInv, TimerInv, PlicInv, Setup, Served
<1>2. ~ Taken(bus)
  BY DEF Taken
<1>3. /\ pending_regs' = {} /\ in_service_regs' = {}
      /\ claim_valid_r' = FALSE /\ plic_irq' = FALSE
  BY <1>1, <1>2, PlicCycle
<1>4. pc' \notin Served /\ pc' \notin {"claim", "dispatch", "count"}
  BY DEF Setup, Served
<1>5. P!Ids' = P!Ids /\ TIMER_INT_ID' = TIMER_INT_ID
  BY DEF P!Ids, TIMER_INT_ID
<1> QED
  BY <1>3, <1>4, <1>5 DEF PlicInv, Served

(* The invariant is inductive.                                              *)
LEMMA Start == Init => IInv
<1> SUFFICES ASSUME Init PROVE IInv
  OBVIOUS
<1>1. TimerInv
  BY DEF Init, T!Init, TimerInv, Setup
<1>2. PlicInv
  BY DEF Init, P!Init, PlicInv, Served
<1> QED
  BY <1>1, <1>2 DEF IInv

LEMMA Step == IInv /\ [Next]_vars => IInv'
<1> SUFFICES ASSUME IInv, [Next]_vars PROVE TimerInv' /\ PlicInv'
  BY DEF IInv
<1> USE DEF Goto
<1>1. CASE SetPriority
  <2>1. /\ pc = "priority" /\ pc' = "enable" /\ Plic(P!WritePriority(1, 1))
        /\ T!Run /\ Counted(0)
    BY <1>1 DEF SetPriority, Writes, TimerRuns, TIMER_INT_ID
  <2>2. TimerInv'
    BY <2>1, TimerKept DEF Setup
  <2>3. /\ priority_regs' = [priority_regs EXCEPT ![1] = 1]
        /\ UNCHANGED <<enable_regs, threshold_reg>>
    BY <2>1, PlicCycle DEF P!write_reg, P!WritePriority, P!Access
  <2>4. 1 \in P!Ids
    BY IrqsAssumption DEF P!Ids
  <2>5. /\ DOMAIN priority_regs' = P!Ids /\ threshold_reg' = 0
        /\ enable_regs' \subseteq {TIMER_INT_ID}
        /\ priority_regs'[TIMER_INT_ID] = 1
    BY <2>3, <2>4 DEF IInv, PlicInv, TIMER_INT_ID
  <2>6. P!WritePriority(1, 1).reg \notin {"read_claim", "write_claim"}
    BY DEF P!WritePriority, P!Access
  <2>7. PlicInv'
    BY <2>1, <2>5, <2>6, SetupAccess DEF Setup
  <2> QED
    BY <2>2, <2>7
<1>2. CASE EnableSource
  <2>1. /\ pc = "enable" /\ pc' = "threshold"
        /\ Plic(P!WriteEnable({TIMER_INT_ID})) /\ T!Run /\ Counted(0)
    BY <1>2 DEF EnableSource, Writes, TimerRuns
  <2>2. TimerInv'
    BY <2>1, TimerKept DEF Setup
  <2>3. /\ enable_regs' = {TIMER_INT_ID} \ {0}
        /\ UNCHANGED <<priority_regs, threshold_reg>>
    BY <2>1, PlicCycle DEF P!write_reg, P!WriteEnable, P!Access
  <2>4. /\ DOMAIN priority_regs' = P!Ids /\ threshold_reg' = 0
        /\ enable_regs' = {TIMER_INT_ID}
        /\ priority_regs'[TIMER_INT_ID] = 1
    BY <2>1, <2>3 DEF IInv, PlicInv, TIMER_INT_ID
  <2>5. P!WriteEnable({TIMER_INT_ID}).reg \notin {"read_claim", "write_claim"}
    BY DEF P!WriteEnable, P!Access
  <2>6. PlicInv'
    BY <2>1, <2>4, <2>5, SetupAccess DEF Setup
  <2> QED
    BY <2>2, <2>6
<1>3. CASE SetThreshold
  <2>1. /\ pc = "threshold" /\ pc' = "load" /\ Plic(P!WriteThreshold(0))
        /\ T!Run /\ Counted(0)
    BY <1>3 DEF SetThreshold, Writes, TimerRuns
  <2>2. TimerInv'
    BY <2>1, TimerKept DEF Setup
  <2>3. /\ threshold_reg' = 0
        /\ UNCHANGED <<priority_regs, enable_regs>>
    BY <2>1, PlicCycle DEF P!write_reg, P!WriteThreshold, P!Access
  <2>4. /\ DOMAIN priority_regs' = P!Ids
        /\ enable_regs' = {TIMER_INT_ID}
        /\ priority_regs'[TIMER_INT_ID] = 1
    BY <2>1, <2>3 DEF IInv, PlicInv
  <2>5. P!WriteThreshold(0).reg \notin {"read_claim", "write_claim"}
    BY DEF P!WriteThreshold, P!Access
  <2>6. PlicInv'
    BY <2>1, <2>3, <2>4, <2>5, SetupAccess DEF Setup
  <2> QED
    BY <2>2, <2>6
<1>4. CASE LoadTimer
  <2>1. PICK period \in Periods :
          Goto("load", "ctrl") /\ WritesTimer(T!WriteLoad(period))
    BY <1>4 DEF LoadTimer
  <2>2. /\ pc = "load" /\ pc' = "ctrl" /\ Plic(P!Idle)
        /\ UNCHANGED <<irq_id, unserved>> /\ T!WriteLoad(period)
    BY <2>1 DEF WritesTimer
  <2>3. ~ timer_int /\ ~ timer_ctrl.enable /\ unserved = 0
    BY <2>2 DEF IInv, TimerInv, Setup
  <2>4. /\ UNCHANGED timer_ctrl
        /\ timer_int' = FALSE /\ periodic_wait_intclr' = FALSE
    BY <2>2, <2>3 DEF T!WriteLoad, IInv, TimerInv
  <2>5. TimerInv'
    BY <2>2, <2>3, <2>4 DEF TimerInv, Setup
  <2>6. PlicInv'
    BY <2>2, <2>3, PlicKept DEF Served
  <2> QED
    BY <2>5, <2>6
<1>5. CASE StartTimer
  <2>1. /\ pc = "ctrl" /\ pc' = "csr" /\ Plic(P!Idle)
        /\ UNCHANGED <<irq_id, unserved>> /\ T!WriteCtrl(CtrlWord)
    BY <1>5 DEF StartTimer, WritesTimer
  <2>2. /\ timer_ctrl' = CtrlWord
        /\ timer_int' = FALSE /\ periodic_wait_intclr' = FALSE
    BY <2>1 DEF T!WriteCtrl
  <2>3. ~ timer_int /\ unserved = 0 /\ CtrlWord' = CtrlWord
    BY <2>1 DEF IInv, TimerInv, Setup, CtrlWord
  <2>4. TimerInv'
    BY <2>1, <2>2, <2>3 DEF TimerInv, Setup
  <2>5. PlicInv'
    BY <2>1, <2>3, PlicKept DEF Served
  <2> QED
    BY <2>4, <2>5
<1>6. CASE EnableInterrupts \/ Return
  <2>1. /\ pc \in {"csr", "mret"} /\ pc' = "wfi"
        /\ Plic(P!Idle) /\ T!Run /\ Counted(0)
    BY <1>6 DEF EnableInterrupts, Return, Waits, TimerRuns
  <2>2. timer_int => timer_int'
    BY <2>1, TimerCycle
  <2>3. TimerInv'
    BY <2>1, TimerKept DEF Setup
  <2>4. timer_int' \/ ~ timer_int
    BY <2>2
  <2>5. PlicInv'
    BY <2>1, <2>4, PlicKept DEF Served
  <2> QED
    BY <2>3, <2>5
<1>7. CASE TakeInterrupt
  <2>1. /\ plic_irq /\ pc = "wfi" /\ pc' = "claim"
        /\ Plic(P!Idle) /\ T!Run /\ Counted(0)
    BY <1>7 DEF TakeInterrupt, Waits, TimerRuns
  <2>2. timer_int
    BY <2>1 DEF IInv, PlicInv, TIMER_INT_ID
  <2>3. TimerInv'
    BY <2>1, <2>2, TimerKept DEF Setup
  <2>4. timer_int' \/ ~ timer_int
    BY <2>1, TimerCycle
  <2>5. PlicInv'
    BY <2>1, <2>4, PlicKept DEF Served
  <2> QED
    BY <2>3, <2>5
<1>8. CASE Claim
  <2>1. /\ pc = "claim" /\ pc' = "dispatch"
        /\ Plic(P!ReadClaim) /\ T!Run /\ Counted(0)
    BY <1>8 DEF Claim, Writes, TimerRuns
  <2>2. timer_int /\ claim_valid_r
    BY <2>1 DEF IInv, PlicInv, TimerInv
  <2>3. TimerInv'
    BY <2>1, <2>2, TimerKept DEF Setup
  <2>4. P!ReadClaim.reg = "read_claim"
    BY DEF P!ReadClaim, P!Access
  <2>5. Taken(P!ReadClaim)
    BY <2>2, <2>4 DEF Taken
  <2>6. /\ pending_regs' = {} /\ in_service_regs' = {TIMER_INT_ID}
        /\ claim_valid_r' \in BOOLEAN /\ plic_irq' \in BOOLEAN
        /\ plic_irq' <=> claim_valid_r'
        /\ claim_valid_r' => claim_id_r' = TIMER_INT_ID
        /\ plic_rdata' = TIMER_INT_ID
    BY <2>1, <2>5, PlicCycle
  <2>7. UNCHANGED <<priority_regs, enable_regs, threshold_reg>>
    BY <2>1, <2>4, ClaimAccess
  <2>8. P!Ids' = P!Ids /\ TIMER_INT_ID' = TIMER_INT_ID
    BY DEF P!Ids, TIMER_INT_ID
  <2>9. PlicInv'
    BY <2>1, <2>6, <2>7, <2>8 DEF IInv, PlicInv, Served
  <2> QED
    BY <2>3, <2>9
<1>9. CASE Dispatch
  <2>1. /\ pc = "dispatch" /\ plic_rdata = TIMER_INT_ID
    BY <1>9 DEF Dispatch, IInv, PlicInv
  <2>2. /\ pc' = "count" /\ irq_id' = TIMER_INT_ID
        /\ Plic(P!Idle) /\ T!Run /\ Counted(0)
    BY <1>9, <2>1 DEF Dispatch, TimerRuns
  <2>3. timer_int
    BY <2>1 DEF IInv, TimerInv
  <2>4. TimerInv'
    BY <2>1, <2>2, <2>3, TimerKept DEF Setup
  <2>5. timer_int' \/ ~ timer_int
    BY <2>2, TimerCycle
  <2>6. PlicInv'
    BY <2>1, <2>2, <2>5, PlicKept DEF Served
  <2> QED
    BY <2>4, <2>6
<1>10. CASE Count
  <2>1. /\ pc = "count" /\ pc' = "intclr"
        /\ Plic(P!Idle) /\ T!Run /\ UNCHANGED irq_id /\ Counted(1)
    BY <1>10 DEF Count
  <2>2. /\ UNCHANGED timer_ctrl
        /\ timer_int' \in BOOLEAN /\ periodic_wait_intclr' \in BOOLEAN
        /\ periodic_wait_intclr' <=> timer_int'
        /\ timer_int => timer_int'
        /\ Expiries = IF timer_int' /\ ~ timer_int THEN 1 ELSE 0
    BY <2>1, TimerCycle
  <2>3. timer_int /\ unserved = 1 /\ irq_id = TIMER_INT_ID
    BY <2>1 DEF IInv, TimerInv, PlicInv
  <2>4. unserved' = 0
    BY <2>1, <2>2, <2>3 DEF Counted, Clamp
  <2>5. TimerInv'
    BY <2>1, <2>2, <2>3, <2>4 DEF IInv, TimerInv, Setup, CtrlWord
  <2>6. PlicInv'
    BY <2>1, <2>2, <2>3, PlicKept DEF Served
  <2> QED
    BY <2>5, <2>6
<1>11. CASE ClearTimer
  <2>1. /\ pc = "intclr" /\ pc' = "complete" /\ Plic(P!Idle)
        /\ UNCHANGED <<irq_id, unserved>> /\ T!WriteIntClr
    BY <1>11 DEF ClearTimer, WritesTimer
  <2>2. /\ timer_ctrl = CtrlWord /\ timer_int /\ periodic_wait_intclr
        /\ unserved = 0 /\ irq_id = TIMER_INT_ID
    BY <2>1 DEF IInv, TimerInv, PlicInv, Setup
  <2>3. /\ UNCHANGED timer_ctrl
        /\ timer_int' = FALSE /\ periodic_wait_intclr' = FALSE
    BY <2>1, <2>2 DEF T!WriteIntClr, T!periodic, CtrlWord
  <2>4. TimerInv'
    BY <2>1, <2>2, <2>3 DEF TimerInv, Setup, CtrlWord
  <2>5. PlicInv'
    BY <2>1, <2>2, PlicKept DEF Served
  <2> QED
    BY <2>4, <2>5
<1>12. CASE Complete
  <2>1. /\ pc = "complete" /\ pc' = "mret"
        /\ Plic(P!WriteClaim(irq_id)) /\ T!Run /\ Counted(0)
    BY <1>12 DEF Complete, Writes, TimerRuns
  <2>2. TimerInv'
    BY <2>1, TimerKept DEF Setup
  <2>3. irq_id = TIMER_INT_ID
    BY <2>1 DEF IInv, PlicInv
  <2>4. /\ P!WriteClaim(irq_id).reg = "write_claim"
        /\ P!WriteClaim(irq_id).id = TIMER_INT_ID
    BY <2>3 DEF P!WriteClaim, P!Access
  <2>5. ~ Taken(P!WriteClaim(irq_id))
    BY <2>4 DEF Taken
  <2>6. pc \in Served /\ pending_regs = {}
    BY <2>1 DEF IInv, PlicInv, Served
  <2>7. /\ pending_regs' = {} /\ in_service_regs' = {}
        /\ claim_valid_r' = FALSE /\ plic_irq' = FALSE
    BY <2>1, <2>4, <2>5, <2>6, PlicCycle
  <2>8. UNCHANGED <<priority_regs, enable_regs, threshold_reg>>
    BY <2>1, <2>4, ClaimAccess
  <2>9. P!Ids' = P!Ids /\ TIMER_INT_ID' = TIMER_INT_ID
    BY DEF P!Ids, TIMER_INT_ID
  <2>10. PlicInv'
    BY <2>1, <2>7, <2>8, <2>9 DEF IInv, PlicInv, Served
  <2> QED
    BY <2>2, <2>10
<1>13. CASE Stall
  <2>1. pc' = pc /\ irq_id' = irq_id /\ Plic(P!Idle) /\ T!Run /\ Counted(0)
    BY <1>13 DEF Stall, Waits, TimerRuns
  <2>2. /\ pc \in {"claim", "dispatch", "count"} => timer_int
        /\ pc \in {"count", "intclr", "complete"} => irq_id = TIMER_INT_ID
    BY DEF IInv, TimerInv, PlicInv
  <2>3. TimerInv'
    BY <2>1, <2>2, TimerKept
  <2>4. timer_int' \/ ~ timer_int
    BY <2>1, TimerCycle
  <2>5. PlicInv'
    BY <2>1, <2>2, <2>4, PlicKept
  <2> QED
    BY <2>3, <2>5
<1>14. CASE UNCHANGED vars
  BY <1>14 DEF vars, IInv, TimerInv, PlicInv, P!Ids, TIMER_INT_ID, CtrlWord
<1> QED
  BY <1>1, <1>2, <1>3, <1>4, <1>5, <1>6, <1>7, <1>8, <1>9, <1>10, <1>11, <1>12,
     <1>13, <1>14 DEF Next, Program

LEMMA Invariant == Spec => []IInv
BY Start, Step, PTL DEF Spec

(* The handler's timer branch runs once for each expiry of the timer: the  *)
(* one flag of the controller and the level of the timer's line lose none  *)
(* and repeat none (PLIC.sv:119-158, timer.sv:67-110, main.c:26-47).        *)
THEOREM ServedOnceAlways == Spec => []ServedOnce
<1>1. IInv => ServedOnce
  BY DEF IInv, TimerInv, PlicInv, ServedOnce
<1> QED
  BY <1>1, Invariant, PTL
=============================================================================
