SPECIFICATION FairSpec
CONSTANTS
  memRead = memRead
  memWrite = memWrite
  Links <- MCLinks
  MaxCalls = 3
  MaxTimer = 1
  MaxHalts = 1
CHECK_DEADLOCK FALSE
INVARIANTS StatusIsTrue
PROPERTIES LinkServed BiosReturns
