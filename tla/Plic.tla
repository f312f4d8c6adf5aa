-------------------------------- MODULE Plic --------------------------------
(***************************************************************************)
(* The interrupt controller, rtl/my_cpu/PLIC.sv.  One step is one rising   *)
(* clock edge; in it the peripherals' lines are sampled and the bus makes  *)
(* at most one access.  Bit vectors over the sources are sets of ids.      *)
(*                                                                         *)
(* A read of a register other than claim only loads plic_rdata; what it    *)
(* loads is OtherData.  The id of a completion is the low bits of the data *)
(* word, so that it is always in Ids.                                      *)
(***************************************************************************)
EXTENDS Naturals

CONSTANTS
  NumIrqs,    (* PLIC_NUM_INTERRUPTS: ids are 0 .. NumIrqs - 1, 0 unused   *)
  MaxPrio,    (* largest value of a priority field                         *)
  OtherData   (* what a read of another register leaves in plic_rdata      *)

ASSUME NumIrqsAssumption == NumIrqs \in Nat \ {0}
ASSUME MaxPrioAssumption == MaxPrio \in Nat

VARIABLES
  priority_regs, pending_regs, enable_regs, threshold_reg, in_service_regs,
  claim_id_r, claim_valid_r,  (* the selector's result, registered         *)
  plic_irq, plic_rdata

vars == <<priority_regs, pending_regs, enable_regs, threshold_reg,
          in_service_regs, claim_id_r, claim_valid_r, plic_irq, plic_rdata>>

Ids == 0 .. NumIrqs - 1
Sources == Ids \ {0}
Priorities == 0 .. MaxPrio

(* A bus access: its register and what is written there.                    *)
Access(reg, id, value, set) ==
  [reg |-> reg, id |-> id, value |-> value, set |-> set]
Idle == Access("none", 0, 0, {})
ReadClaim == Access("read_claim", 0, 0, {})
ReadOther == Access("read_other", 0, 0, {})
WriteClaim(id) == Access("write_claim", id, 0, {})
WritePriority(id, p) == Access("write_priority", id, p, {})
WriteThreshold(p) == Access("write_threshold", 0, p, {})
WriteEnable(set) == Access("write_enable", 0, 0, set)

Accesses ==
  {Idle, ReadClaim, ReadOther} \cup {WriteClaim(i) : i \in Ids}
    \cup {WritePriority(i, p) : i \in Ids, p \in Priorities}
    \cup {WriteThreshold(p) : p \in Priorities}
    \cup {WriteEnable(set) : set \in SUBSET Ids}

-----------------------------------------------------------------------------
(* The selector: the lowest id in the highest priority bucket above the    *)
(* threshold.                                                               *)
eligible_irqs == (pending_regs \cap enable_regs) \ in_service_regs
Bucket(p) == {i \in eligible_irqs \ {0} : priority_regs[i] = p}
MutCandidates ==
  {p \in Priorities \ {0} : Bucket(p) # {} /\ p >= threshold_reg}
Candidates == {p \in Priorities \ {0} : Bucket(p) # {} /\ p > threshold_reg}

Least(S) == CHOOSE i \in S : \A j \in S : i <= j
Greatest(S) == CHOOSE i \in S : \A j \in S : i >= j

claim_valid_next == Candidates # {}
claim_id_next ==
  IF claim_valid_next THEN Least(Bucket(Greatest(Candidates))) ELSE 0

(* A claim answers with the registered selection, not the current one.     *)
claim_mask(bus) ==
  IF bus.reg = "read_claim" /\ claim_valid_r THEN {claim_id_r} ELSE {}
release_mask(bus) ==
  IF bus.reg = "write_claim" /\ bus.id # 0 THEN {bus.id} \cap in_service_regs
  ELSE {}

MutPendingNext(lines, bus) ==
  ((pending_regs \cup lines) \ claim_mask(bus)) \ {0}
pending_next(lines, bus) ==
  ((pending_regs \cup (lines \ in_service_regs)) \ claim_mask(bus)) \ {0}
in_service_next(bus) ==
  ((in_service_regs \cup claim_mask(bus)) \ release_mask(bus)) \ {0}

MutWriteReg(bus) ==
  /\ priority_regs' = IF bus.reg = "write_priority"
                        THEN [priority_regs EXCEPT ![bus.id] = bus.value]
                        ELSE priority_regs
  /\ enable_regs' = IF bus.reg = "write_enable" THEN bus.set ELSE enable_regs
  /\ threshold_reg' = IF bus.reg = "write_threshold" THEN bus.value
                      ELSE threshold_reg
write_reg(bus) ==
  /\ priority_regs' = IF bus.reg = "write_priority" /\ bus.id # 0
                        THEN [priority_regs EXCEPT ![bus.id] = bus.value]
                        ELSE priority_regs
  /\ enable_regs' = IF bus.reg = "write_enable" THEN bus.set \ {0}
                    ELSE enable_regs
  /\ threshold_reg' = IF bus.reg = "write_threshold" THEN bus.value
                      ELSE threshold_reg

Clock(lines, bus) ==
  /\ write_reg(bus)
  /\ pending_regs' = pending_next(lines, bus)
  /\ in_service_regs' = in_service_next(bus)
  /\ claim_id_r' = claim_id_next
  /\ claim_valid_r' = claim_valid_next
  /\ plic_irq' = claim_valid_next
  /\ plic_rdata' = IF bus.reg = "read_claim"
                     THEN IF claim_valid_r THEN claim_id_r ELSE 0
                   ELSE IF bus.reg = "read_other" THEN OtherData
                   ELSE plic_rdata

Init ==
  /\ priority_regs = [i \in Ids |-> 0]
  /\ pending_regs = {} /\ enable_regs = {} /\ in_service_regs = {}
  /\ threshold_reg = 0
  /\ claim_id_r = 0 /\ claim_valid_r = FALSE
  /\ plic_irq = FALSE /\ plic_rdata = 0

Next == \E lines \in SUBSET Ids, bus \in Accesses : Clock(lines, bus)

Spec == Init /\ [][Next]_vars

-----------------------------------------------------------------------------
(* Properties.                                                              *)

(* Types; source 0 does not exist: it is never enabled, pending or served  *)
(* and keeps priority 0 whatever is written (PLIC.sv:92-97, 156-158).      *)
TypeOK ==
  /\ priority_regs \in [Ids -> Priorities] /\ priority_regs[0] = 0
  /\ pending_regs \subseteq Sources
  /\ enable_regs \subseteq Sources
  /\ threshold_reg \in Priorities
  /\ in_service_regs \subseteq Sources
  /\ claim_id_r \in Ids
  /\ claim_valid_r \in BOOLEAN /\ plic_irq \in BOOLEAN
  /\ plic_rdata \in Ids \cup {OtherData}

(* Sources ask, are claimed and are completed as Gateway says.  The hazard *)
(* is the registered selection: a claim answers with what was best a cycle *)
(* ago, and two claims in a row answer with the same source.               *)
G ==
  INSTANCE Gateway WITH waiting <- pending_regs, serving <- in_service_regs
ImplementsGateway == G!Spec

(* The answer prepared for a claim in the next cycle is an eligible source *)
(* above the threshold that no other eligible source outranks, by priority *)
(* and then by lower id; and if there is none, there is no interrupt.      *)
Outranks(j, i) ==
  \/ priority_regs[j] > priority_regs[i]
  \/ priority_regs[j] = priority_regs[i] /\ j < i
Deliverable ==
  {i \in (pending_regs \cap enable_regs) \ in_service_regs :
     priority_regs[i] > threshold_reg}
BestClaim ==
  [][ /\ plic_irq' <=> Deliverable # {}
      /\ plic_irq' => /\ claim_id_r' \in Deliverable
                      /\ \A j \in Deliverable : ~ Outranks(j, claim_id_r') ]_vars
=============================================================================
