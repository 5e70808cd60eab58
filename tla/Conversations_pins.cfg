SPECIFICATION Spec
CONSTANTS
  a = a
  b = b
  c = c
  d = d
  c1 = c1
  c2 = c2
  c3 = c3
  t1 = t1
  t2 = t2
  NoUser = NoUser
  NoConv = NoConv
  NoKey = NoKey
  User <- PinUser
  Order <- PinOrder
  Conv <- PinConv
  Existing <- OfA
  Task = {t1, t2}
  Caller <- OnlyA
  Leavers <- OnlyA
  PinLimit = 1
INVARIANTS PinBound
CHECK_DEADLOCK FALSE
