CONSTANTS
  Session = {s1, s2}
  Ticket <- MCTicket
  Lid = {l1, l2}
  Label = {T6, T06, T7}
  Key <- MCKey
  Ops <- AllOps
  MaxOps = 5
  Nil = Nil
  New = New
  T6 = T6
  T06 = T06
  T7 = T7
  l1 = l1
  l2 = l2
SPECIFICATION Spec
CHECK_DEADLOCK FALSE
INVARIANT LastWriterWins
PROPERTY BillsAreKept
