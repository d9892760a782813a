CONSTANTS
  a = a  b = b  d = d  f1 = f1  f2 = f2
  Op = {a, b}
  Record = {}
  Lamport <- MCLamport
  Install = {i1}
  First = i1
  Unnamed = unnamed
  Nobody = nobody
  Ended = ended
  Flight = {f1, f2}
  PUSH_CHUNK = 1
  DEAD_TRIES = 1
  MaxRefusals = 1
  MaxFaults = 1
  CleanSwitch = TRUE
  BootAnswers = FALSE
SPECIFICATION Spec
INVARIANTS NothingLost NoOvertaking
SYMMETRY Alike
