CONSTANTS
  Ops = {"load", "mul", "jal"}
  Regs = {0, 1}
  Values = {0, 1}
  NumPC = 1
  MTVEC = 0
  MaxStall = 1
  Irqs = {FALSE}
SPECIFICATION FairSpec
INVARIANT TypeOK
INVARIANT OperandsCurrent
INVARIANT RegistersCommitted
INVARIANT BubbleRepeatsLoad
PROPERTY Progress
