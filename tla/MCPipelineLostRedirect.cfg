CONSTANTS
  Ops = {"alu", "sei", "mul"}
  Regs = {0}
  Values = {0}
  NumPC = 4
  MTVEC = 3
  MaxStall = 1
  Irqs = {FALSE, TRUE}
SPECIFICATION Spec
INVARIANT InOrder
