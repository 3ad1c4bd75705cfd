SPECIFICATION FairSpec
CONSTANTS
  Slots <- MCSlots
  Watches <- WriteWatches
  Accesses <- MCAccesses
  Requests = {"read"}
  MaxInstr = 4
  MaxRequests = 2
  MaxTimer = 1
  MaxExecs = 0
\* The program halts after MaxInstr instructions, and a stop halts the CPU.
CHECK_DEADLOCK FALSE
  
PROPERTIES ProgramGoesOn
