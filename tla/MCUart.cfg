CONSTANTS
  Messages <- Texts
  Chars <- Codes
  FIFO_DEPTH = 2
  BITS = 2
  NumIrqs = 4
  MaxPrio = 1
  OtherData = other
SPECIFICATION Spec
INVARIANT TypeOK
INVARIANT Conserved
INVARIANT WriteFits
INVARIANT Printed
INVARIANT Echoed
INVARIANT BurstFits
INVARIANT Transmitted
PROPERTY Finishes
