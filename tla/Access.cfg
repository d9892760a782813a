SPECIFICATION Spec
CONSTANTS
  Staff = {"ada", "ben"}
  Admins = {"ada"}
  Pins = {"1111", "2222"}
  Terminals = {"t1", "t2"}
  Awaiting = {"t1"}
  First <- MCFirst
  Clients = {c1, c2}
  c1 = c1
  c2 = c2
  TTL = 1
  Cap = 2
  Window = 2
  CallerTries = 2
  OutletFails = 2
  MaxRequests = 5
  MaxClock = 2
  Restarts = 1
SYMMETRY Symmetry
INVARIANTS GuessesBounded
PROPERTIES RevokedIsRefused
CHECK_DEADLOCK FALSE
