SPECIFICATION FairSpec
CONSTANTS
  Slots = {0}
  Watches <- EndingWatches
  Accesses <- MCAccesses
  Requests = {"read", "clear", "run", "step"}
  MaxInstr = 3
  MaxRequests = 3
  MaxTimer = 0
  MaxExecs = 1
\* The program halts after MaxInstr instructions, and a stop halts the CPU.
CHECK_DEADLOCK FALSE
INVARIANTS Int2NotNested
PROPERTIES HandlersEnd
