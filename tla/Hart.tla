-------------------------------- MODULE Hart --------------------------------
(***************************************************************************)
(* What the processor promises a program, said without stages: one         *)
(* instruction after the other, each from the pc and the registers that    *)
(* the one before it left.  Between two of them an interrupt may be taken. *)
(* A trap saves the pc of the instruction that is not executed, and the    *)
(* interrupt enable; mret restores both, the pc only if a trap is being    *)
(* served.  Pipeline is shown to implement this specification.             *)
(***************************************************************************)
EXTENDS Integers

CONSTANTS
  Ops,       (* instruction classes the program may contain                *)
  Regs,      (* register numbers, x0 is 0                                  *)
  Values,    (* what a register may hold                                   *)
  NumPC,     (* pcs are 0 .. NumPC - 1                                     *)
  MTVEC,     (* the trap handler's pc                                      *)
  Irqs       (* values of the interrupt line: {FALSE} or BOOLEAN           *)

VARIABLES
  pc,        (* of the next instruction                                    *)
  reg,
  csr        (* mstatus.MIE and .MPIE, mepc, whether a trap is served      *)

vars == <<pc, reg, csr>>

Following == (pc + 1) % NumPC
Faults == {"ecall", "lam", "sam", "iam"}

Init ==
  /\ pc = 0
  /\ reg = [r \in Regs |-> 0]
  /\ csr = [mie |-> FALSE, mpie |-> FALSE, mepc |-> 0, prev |-> FALSE]

(* Some value in some register; x0 is not written.                         *)
WriteReg ==
  \E r \in Regs, v \in Values :
    reg' = IF r = 0 THEN reg ELSE [reg EXCEPT ![r] = v]

Compute(op) ==
  op \in {"alu", "mul", "load"} /\ pc' = Following /\ WriteReg /\ UNCHANGED csr

Store(op) == op = "store" /\ pc' = Following /\ UNCHANGED <<reg, csr>>

Branch(op) == op = "br" /\ pc' \in 0 .. NumPC - 1 /\ UNCHANGED <<reg, csr>>

JumpAndLink(op) ==
  op \in {"jal", "jalr"} /\ pc' \in 0 .. NumPC - 1 /\ WriteReg /\ UNCHANGED csr

WriteStatus(op) ==
  /\ \/ op = "sei" /\ csr' = [csr EXCEPT !.mie = TRUE]
     \/ op = "cli" /\ csr' = [csr EXCEPT !.mie = FALSE]
     \/ op = "spi" /\ csr' = [csr EXCEPT !.mpie = TRUE]
  /\ pc' = Following
  /\ UNCHANGED reg

Return(op) ==
  /\ op = "mret"
  /\ pc' = IF csr.prev THEN csr.mepc ELSE Following
  /\ csr' = [csr EXCEPT !.mie = csr.mpie, !.mpie = TRUE, !.prev = FALSE]
  /\ UNCHANGED reg

EnterTrap ==
  /\ pc' = MTVEC
  /\ csr' = [mie |-> FALSE, mpie |-> csr.mie, mepc |-> pc, prev |-> TRUE]
  /\ UNCHANGED reg

Fault(op) == op \in Faults /\ EnterTrap
Interrupt == TRUE \in Irqs /\ csr.mie /\ EnterTrap

Next ==
  \/ \E op \in Ops :
       \/ Compute(op) \/ Store(op) \/ Branch(op) \/ JumpAndLink(op)
       \/ WriteStatus(op) \/ Return(op) \/ Fault(op)
  \/ Interrupt

Spec == Init /\ [][Next]_vars
=============================================================================
