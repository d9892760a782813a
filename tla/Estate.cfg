SPECIFICATION Spec
CONSTANTS
  Ids = {1, 2}
  Copies = {11}
  Outlets = {1, 2}
  Asked = {1}
  Names = {"a", "b"}
  Workers = {1, 2}
  MaxHead = 2
  MaxOps = 4
  MaxRows = 2
  Clients = {1, 2}
  CodeTries = 1
  LockTries = 1
  Limit = 1
  MaxCalls = 5
  Viewers = {1, 2}
  Licences <- Sales
  MaxFaults = 3
  Panels = {1, 2}
  Firms = {1, 2}
  Situations <- Cases
  MaxTroubles = 1
  Sweeps = {1, 2}
  MaxTurns = 2
CHECK_DEADLOCK FALSE
INVARIANTS NothingUnnamed OneHome LastGoodKept AtHome VerifiedPasswordIsProven
PROPERTIES SwapIsSeen LicenceArrives TellsWhatIs SetupFinishes
