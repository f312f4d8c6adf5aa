CONSTANTS
  Periods = {1, 2, 3, 7, 100}
  MaxLoad = 100
  NumIrqs = 3
  MaxPrio = 1
  MaxPrescaler = 0
  OtherData = other
SPECIFICATION Spec
INVARIANT ServedOnce
PROPERTY KeepsTicking
