CONSTANTS
  Addr <- MCAddr
  Data <- MCData
  Contents <- MCContents
  RetryMax = 1
  Keys <- ControlKeys
  AddrStep = 2
  FromPowerOn = TRUE
  Radix = 2
  KeySlots = 2
  MaxKeys = 2
  MaxTimer = 1
  Chunks = 2
SPECIFICATION Spec
PROPERTIES JobsEnd PanelFollowsCpu
