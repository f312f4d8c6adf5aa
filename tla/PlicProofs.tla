----------------------------- MODULE PlicProofs -----------------------------
(***************************************************************************)
(* Proofs about Plic for every number of sources and priority levels: type *)
(* correctness, that the selector chooses the best source, and that        *)
(* requests are handled as Gateway says.                                   *)
(***************************************************************************)
EXTENDS Plic, Orders, TLAPS

(* No source waits while it is served; the prepared answer to a claim is   *)
(* waiting, or it is in service because the cycle before claimed it.       *)
Exclusive == pending_regs \cap in_service_regs = {}
ClaimBacked ==
  claim_valid_r => claim_id_r \in pending_regs \cup in_service_regs
IInv == TypeOK /\ Exclusive /\ ClaimBacked

(* A nonempty set of sources has a least element.                          *)
LEMMA LeastElement ==
  ASSUME NEW S \in SUBSET Nat, S # {}
  PROVE  Least(S) \in S /\ \A j \in S : Least(S) <= j
<1>1. PICK x \in S : \A j \in S : x <= j
  BY LeastExists
<1> QED
  BY <1>1 DEF Least

(* And a nonempty set of priorities a greatest one.                        *)
LEMMA GreatestElement ==
  ASSUME NEW S \in SUBSET Priorities, S # {}
  PROVE  Greatest(S) \in S /\ \A j \in S : Greatest(S) >= j
<1>1. PICK x \in S : \A j \in S : x >= j
  BY GreatestExists, MaxPrioAssumption DEF Priorities
<1> QED
  BY <1>1 DEF Greatest

(* The bucket search returns the best of the deliverable sources.          *)
LEMMA Selected ==
  ASSUME TypeOK
  PROVE  /\ claim_valid_next <=> Deliverable # {}
         /\ claim_valid_next =>
              /\ claim_id_next \in Deliverable
              /\ \A j \in Deliverable : ~ Outranks(j, claim_id_next)
         /\ claim_id_next \in Ids
<1> USE NumIrqsAssumption, MaxPrioAssumption DEF TypeOK, Ids, Sources, Priorities
<1>1. \A i \in Deliverable : priority_regs[i] \in Candidates
                              /\ i \in Bucket(priority_regs[i])
  BY DEF Deliverable, Candidates, Bucket, eligible_irqs
<1>2. \A p \in Candidates : Bucket(p) # {} /\ Bucket(p) \subseteq Deliverable
                             /\ \A i \in Bucket(p) : priority_regs[i] = p
  BY DEF Deliverable, Candidates, Bucket, eligible_irqs
<1>3. claim_valid_next <=> Deliverable # {}
  BY <1>1, <1>2 DEF claim_valid_next
<1>4. ASSUME claim_valid_next
      PROVE  /\ claim_id_next \in Deliverable
             /\ \A j \in Deliverable : ~ Outranks(j, claim_id_next)
  <2> DEFINE p == Greatest(Candidates)
  <2>1. p \in Candidates /\ \A q \in Candidates : p >= q
    BY <1>4, GreatestElement DEF claim_valid_next, Candidates
  <2>2. Bucket(p) \in SUBSET Nat
    <3>1. pending_regs \subseteq Nat
      OBVIOUS
    <3> QED
      BY <3>1 DEF Bucket, eligible_irqs
  <2>3. /\ Least(Bucket(p)) \in Bucket(p)
        /\ \A j \in Bucket(p) : Least(Bucket(p)) <= j
    BY <1>2, <2>1, <2>2, LeastElement
  <2>4. claim_id_next = Least(Bucket(p))
    BY <1>4 DEF claim_id_next
  <2>5. ASSUME NEW j \in Deliverable PROVE ~ Outranks(j, claim_id_next)
    <3>1. p >= priority_regs[j] /\ j \in Bucket(priority_regs[j])
      BY <1>1, <2>1
    <3>2. priority_regs[claim_id_next] = p
      BY <1>2, <2>1, <2>3, <2>4
    <3>3. p \in Nat /\ priority_regs[j] \in Nat /\ j \in Nat /\ claim_id_next \in Nat
      BY <2>1, <2>2, <2>3, <2>4 DEF Candidates, Deliverable
    <3> QED
      BY <2>3, <2>4, <3>1, <3>2, <3>3 DEF Outranks
  <2> QED
    BY <1>2, <2>1, <2>3, <2>4, <2>5
<1>5. claim_id_next \in Ids
  <2>1. 0 \in Ids
    OBVIOUS
  <2>2. Deliverable \subseteq Sources
    <3>1. pending_regs \subseteq Sources
      OBVIOUS
    <3> HIDE DEF TypeOK, Sources
    <3> QED
      BY <3>1 DEF Deliverable
  <2>3. Deliverable \subseteq Ids
    BY <2>2
  <2> QED
    BY <1>4, <2>1, <2>3 DEF claim_id_next
<1> QED
  BY <1>3, <1>4, <1>5

(* The sources exist and the bus accesses are well formed.                 *)
LEMMA AccessType ==
  ASSUME NEW bus \in Accesses
  PROVE  /\ bus.id \in Ids /\ bus.value \in Priorities
         /\ bus.set \in SUBSET Ids
<1>1. 0 \in Ids /\ 0 \in Priorities /\ {} \in SUBSET Ids
  BY NumIrqsAssumption, MaxPrioAssumption DEF Ids, Priorities
<1>2. CASE bus \in {Idle, ReadClaim, ReadOther}
  BY <1>1, <1>2 DEF Access, Idle, ReadClaim, ReadOther
<1>3. CASE \E i \in Ids : bus = WriteClaim(i)
  BY <1>1, <1>3 DEF Access, WriteClaim
<1>4. CASE \E i \in Ids, p \in Priorities : bus = WritePriority(i, p)
  BY <1>1, <1>4 DEF Access, WritePriority
<1>5. CASE \E p \in Priorities : bus = WriteThreshold(p)
  BY <1>1, <1>5 DEF Access, WriteThreshold
<1>6. CASE \E set \in SUBSET Ids : bus = WriteEnable(set)
  BY <1>1, <1>6 DEF Access, WriteEnable
<1> QED
  BY <1>2, <1>3, <1>4, <1>5, <1>6 DEF Accesses

(* The reset state satisfies the invariant.                                *)
LEMMA InitIInv == Init => IInv
<1>1. 0 \in Ids /\ 0 \in Priorities
  BY NumIrqsAssumption, MaxPrioAssumption DEF Ids, Priorities
<1> QED
  BY <1>1 DEF Init, IInv, TypeOK, Exclusive, ClaimBacked

(* A clock edge keeps it.  The answer prepared for the next cycle was      *)
(* waiting in this one, and only a claim of it takes it off the waiting    *)
(* sources, into service.                                                  *)
LEMMA ClockIInv ==
  ASSUME IInv, NEW lines \in SUBSET Ids, NEW bus \in Accesses, Clock(lines, bus)
  PROVE  IInv'
<1> USE DEF IInv
<1>1. /\ bus.id \in Ids /\ bus.value \in Priorities
      /\ bus.set \in SUBSET Ids
  BY AccessType
<1>2. /\ claim_id_next \in Ids
      /\ claim_valid_next => claim_id_next \in pending_regs
  BY Selected DEF Deliverable
<1>3. claim_mask(bus) \in SUBSET Ids /\ release_mask(bus) \in SUBSET Ids
  BY <1>1 DEF claim_mask, release_mask, TypeOK, Sources
<1>4. TypeOK'
  <2>1. priority_regs' \in [Ids -> Priorities] /\ priority_regs'[0] = 0
    BY <1>1 DEF Clock, write_reg, TypeOK
  <2>2. enable_regs' \subseteq Sources /\ threshold_reg' \in Priorities
    BY <1>1 DEF Clock, write_reg, TypeOK, Sources
  <2>3. pending_regs' \subseteq Sources /\ in_service_regs' \subseteq Sources
    BY <1>3 DEF Clock, pending_next, in_service_next, TypeOK, Sources
  <2>4. claim_id_r' \in Ids /\ claim_valid_r' \in BOOLEAN /\ plic_irq' \in BOOLEAN
    BY <1>2 DEF Clock, claim_valid_next
  <2>5. plic_rdata' \in Ids \cup {OtherData}
    BY NumIrqsAssumption DEF Clock, TypeOK, Ids
  <2> QED
    BY <2>1, <2>2, <2>3, <2>4, <2>5 DEF TypeOK
<1>5. Exclusive'
  BY DEF Clock, pending_next, in_service_next, Exclusive
<1>6. ClaimBacked'
  <2>1. CASE ~ claim_valid_next
    BY <2>1 DEF Clock, ClaimBacked
  <2>2. CASE claim_valid_next
    <3>1. claim_id_r' = claim_id_next /\ claim_id_next \in pending_regs
      BY <1>2, <2>2 DEF Clock
    <3>2. claim_id_next \notin in_service_regs /\ claim_id_next # 0
      BY <3>1 DEF Exclusive, TypeOK, Sources
    <3>3. claim_id_next \in pending_regs' \cup in_service_regs'
      BY <3>1, <3>2
         DEF Clock, pending_next, in_service_next, release_mask
    <3> QED
      BY <3>1, <3>3 DEF ClaimBacked
  <2> QED
    BY <2>1, <2>2
<1> QED
  BY <1>4, <1>5, <1>6

(* So does every step, and the invariant always holds.                     *)
LEMMA InvariantHolds == Spec => []IInv
<1>1. IInv /\ [Next]_vars => IInv'
  <2> SUFFICES ASSUME IInv, [Next]_vars PROVE IInv'
    OBVIOUS
  <2>1. CASE Next
    BY <2>1, ClockIInv DEF Next
  <2>2. CASE UNCHANGED vars
    BY <2>2 DEF vars, IInv, TypeOK, Exclusive, ClaimBacked
  <2> QED
    BY <2>1, <2>2
<1> QED
  BY <1>1, InitIInv, PTL DEF Spec

(* Every register keeps its type and source 0 stays out of everything.     *)
THEOREM TypeCorrect == Spec => []TypeOK
<1>1. IInv => TypeOK
  BY DEF IInv
<1> QED
  BY <1>1, InvariantHolds, PTL

(* The answer prepared for a claim is the best deliverable source of the   *)
(* cycle before, and the interrupt line says whether there is one.         *)
THEOREM ClaimIsBest == Spec => BestClaim
<1> DEFINE Best == /\ plic_irq' <=> Deliverable # {}
                   /\ plic_irq' => /\ claim_id_r' \in Deliverable
                                   /\ \A j \in Deliverable :
                                        ~ Outranks(j, claim_id_r')
<1>1. IInv /\ [Next]_vars => [Best]_vars
  <2> SUFFICES ASSUME IInv, Next PROVE Best
    OBVIOUS
  <2>1. /\ plic_irq' = claim_valid_next
        /\ claim_id_r' = claim_id_next
    BY DEF Next, Clock
  <2>2. /\ claim_valid_next <=> Deliverable # {}
        /\ claim_valid_next =>
             /\ claim_id_next \in Deliverable
             /\ \A j \in Deliverable : ~ Outranks(j, claim_id_next)
    BY Selected DEF IInv
  <2> QED
    BY <2>1, <2>2
<1> QED
  BY <1>1, InvariantHolds, PTL DEF Spec, BestClaim

(* A clock edge is a step of Gateway: it raises the lines of sources not   *)
(* in service, and claims or completes at most one.                        *)
LEMMA ClockRefines ==
  ASSUME IInv, NEW lines \in SUBSET Ids, NEW bus \in Accesses, Clock(lines, bus)
  PROVE  G!Next
<1> USE DEF IInv
<1> DEFINE raised == lines \ (in_service_regs \cup {0})
<1>1. raised \in SUBSET (Sources \ in_service_regs)
  BY DEF Sources
<1>2. /\ pending_regs' = (pending_regs \cup raised) \ claim_mask(bus)
      /\ in_service_regs' = (in_service_regs \cup (claim_mask(bus) \ {0}))
                              \ release_mask(bus)
  BY DEF Clock, pending_next, in_service_next, TypeOK, Sources
<1>3. CASE bus.reg = "read_claim" /\ claim_valid_r
  <2>1. claim_mask(bus) = {claim_id_r} /\ release_mask(bus) = {}
    BY <1>3 DEF claim_mask, release_mask
  <2>2. claim_id_r \in Sources /\ claim_id_r # 0
    BY <1>3 DEF ClaimBacked, TypeOK, Sources
  <2>3. CASE claim_id_r \in pending_regs
    <3>1. G!Claim(claim_id_r, raised)
      BY <1>2, <2>1, <2>2, <2>3 DEF G!Claim
    <3> QED
      BY <1>1, <2>2, <3>1 DEF G!Next
  <2>4. CASE claim_id_r \in in_service_regs
    <3>1. claim_id_r \notin pending_regs /\ claim_id_r \notin raised
      BY <2>4 DEF Exclusive
    <3>2. G!Raise(raised)
      BY <1>2, <2>1, <2>4, <3>1 DEF G!Raise
    <3> QED
      BY <1>1, <3>2 DEF G!Next
  <2> QED
    BY <1>3, <2>3, <2>4 DEF ClaimBacked
<1>4. CASE claim_mask(bus) = {} /\ release_mask(bus) = {}
  <2>1. G!Raise(raised)
    BY <1>2, <1>4 DEF G!Raise
  <2> QED
    BY <1>1, <2>1 DEF G!Next
<1>5. CASE claim_mask(bus) = {} /\ release_mask(bus) # {}
  <2>1. release_mask(bus) = {bus.id} /\ bus.id \in in_service_regs
    BY <1>5 DEF release_mask
  <2>2. bus.id \in Sources
    BY <2>1 DEF TypeOK
  <2>3. G!Complete(bus.id, raised)
    BY <1>2, <1>5, <2>1 DEF G!Complete
  <2> QED
    BY <1>1, <2>2, <2>3 DEF G!Next
<1> QED
  BY <1>3, <1>4, <1>5 DEF claim_mask

(* The controller implements Gateway: no request is lost, none is served   *)
(* twice, and a source cannot ask again before it is completed.            *)
THEOREM ControllerIsGateway == Spec => ImplementsGateway
<1>1. Init => G!Init
  BY DEF Init, G!Init
<1>2. IInv /\ [Next]_vars => [G!Next]_(G!vars)
  <2> SUFFICES ASSUME IInv, [Next]_vars PROVE [G!Next]_(G!vars)
    OBVIOUS
  <2>1. CASE Next
    BY <2>1, ClockRefines DEF Next
  <2>2. CASE UNCHANGED vars
    BY <2>2 DEF vars, G!vars
  <2> QED
    BY <2>1, <2>2
<1> QED
  BY <1>1, <1>2, InvariantHolds, PTL DEF Spec, ImplementsGateway, G!Spec
=============================================================================
