CONSTANTS
  a = a  b = b  d = d  f1 = f1  f2 = f2
  Op = {a, b, d}
  Record = {d}
  Lamport <- MCLamport
  Install = {i1, i2}
  First = i1
  Unnamed = unnamed
  Nobody = nobody
  Ended = ended
  Flight = {f1}
  PUSH_CHUNK = 1
  DEAD_TRIES = 2
  MaxRefusals = 2
  MaxFaults = 1
  CleanSwitch = TRUE
  BootAnswers = TRUE
SPECIFICATION FairSpec
INVARIANT FenceHolds
PROPERTY Settles
