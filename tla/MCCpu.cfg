SPECIFICATION MCSpec
CONSTANTS
  Machines <- AllMachines
  Breakpoints <- Stops
  FloatResults <- Sums
  MaxEdges = 2
INVARIANTS InterruptsInvisible PairsUndo
 
