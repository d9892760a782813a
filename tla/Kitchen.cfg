CONSTANTS
  Session = {s1, s2}
  Line = {a, b, c}
  Ops <- AllOps
  MaxOps = 5
  a = a
  b = b
  c = c
SPECIFICATION Spec
CHECK_DEADLOCK FALSE
INVARIANT RungIsExact
PROPERTY NoEarlyCall
