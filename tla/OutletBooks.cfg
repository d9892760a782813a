SPECIFICATION MCSpec
CONSTANTS
  d1 = d1
  d2 = d2
  None = None
  Txs <- Two
  Ops <- AllOps
  P <- Payloads
  LastMonth = 2
  Items = {"i", "j"}
  Lots = {1, 2}
  OnHand0 = 2
  Registered = TRUE
  PointsPer = 2
  Points0 = 2
  Batches = {"b"}
  Punches = {"p1", "p2"}
  Staff = {"e"}
  MaxSales = 4
  MaxOps = 3
SYMMETRY Symmetric
INVARIANTS DocumentsRunOn ReversedOnce MemberTies StockHolds OfficeHolds
CHECK_DEADLOCK FALSE
