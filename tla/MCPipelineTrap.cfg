CONSTANTS
  Ops = {"load", "sei", "cli", "spi", "ecall"}
  Regs = {0, 1}
  Values = {0}
  NumPC = 3
  MTVEC = 2
  MaxStall = 1
  Irqs = {FALSE, TRUE}
SPECIFICATION Spec
INVARIANT CsrCurrent
INVARIANT SavedInterruptEnable
INVARIANT RedirectOnce
INVARIANT InterruptPrecise
INVARIANT InOrder
PROPERTY ImplementsHart
