CONSTANTS
  DEPTH = 4
  Items = {i1, i2, i3}
  ZeroItem = zero
  NoPush = none
SPECIFICATION Spec
INVARIANT TypeOK
INVARIANT RingInv
PROPERTY ImplementsFifo
