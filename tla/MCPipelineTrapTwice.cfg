CONSTANTS
  Ops = {"lam", "sei", "alu"}
  Regs = {0, 1}
  Values = {0}
  NumPC = 3
  MTVEC = 2
  MaxStall = 1
  Irqs = {FALSE}
SPECIFICATION Spec
INVARIANT SavedInterruptEnable
