CONSTANTS
  NumIrqs = 3
  MaxPrio = 2
  OtherData = other
SPECIFICATION Spec
INVARIANT TypeOK
PROPERTY ImplementsGateway
PROPERTY BestClaim
