CONSTANTS
  NULL = NULL
  Configs <- Passing
SPECIFICATION Spec
INVARIANT TypeOK
INVARIANT NoCellLost
INVARIANT Sorted
INVARIANT Classified
INVARIANT BlocksFit
INVARIANT ListRestored
INVARIANT BlocksRestored
INVARIANT KnownResults
INVARIANT Timed
PROPERTY Terminates
CHECK_DEADLOCK FALSE
