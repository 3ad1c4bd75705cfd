CONSTANTS
  Addr <- MCAddr
  Data <- MCData
  Contents <- MCContents
  RetryMax = 1
  Keys <- MemoryKeys
  AddrStep = 1
  FromPowerOn = FALSE
  Radix = 2
  KeySlots = 2
  MaxKeys = 3
  MaxTimer = 1
  Chunks = 0
SPECIFICATION Spec
INVARIANTS OneRequestPerJob DisplayIsMemory OperatorHaltHolds
