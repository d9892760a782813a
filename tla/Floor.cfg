SPECIFICATION FairFloor
CONSTANTS
  Ops <- AllOps
  P <- Payloads
  Tables = {"T1"}
  MaxOps = 2
  Ticks = 2
  Overlap = 2
  Limit = 1
  Budget = 1
INVARIANTS WindowHolds
PROPERTIES OwnWorkStays ScreenCatchesUp
CHECK_DEADLOCK FALSE
