CONSTANTS
  Slots = {0, 1}
  DelayMask = 255
  CpuLines <- MCCpuLines
  IoLines <- MCIoLines
  DataLines <- MCDataLines
  Watches <- MCWatches
  Touched <- MCTouched
  Delays = {0, 1}
  MaxOps = 6
SPECIFICATION Spec
INVARIANTS ArmedAsAsked StepsAfterItsDelay
PROPERTY EachDrivesItsOwn
CHECK_DEADLOCK FALSE
