CONSTANTS
  Socks <- MCSocks
  Slots <- MCSlots
  GoodSlots <- MCGoodSlots
  PcKinds <- MCPcKinds
  MaxBytes = 40
  CpuType = "MN1613"
  Top = 15
  HalfWindow = 4
  Margin = 1
  RowWords <- MCRowWords
  Lines = 2
  Entry = 6
  Entries <- MCEntries
  Goto <- MCGoto
  MaxEvents = 2
  MaxQueue = 1
SPECIFICATION Spec
INVARIANTS AnswersInOrder ShowsWhatWasAsked RestIsCovered
PROPERTY EveryReadIsDrawn
CHECK_DEADLOCK FALSE
