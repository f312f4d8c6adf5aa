CONSTANTS
  MaxLoad = 2
  MaxPrescaler = 2
SPECIFICATION FairSpec
INVARIANT TypeOK
INVARIANT WaitIsHeard
PROPERTY Expires
