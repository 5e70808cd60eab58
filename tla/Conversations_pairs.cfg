SPECIFICATION Spec
CONSTANTS
  a = a
  b = b
  c = c
  d = d
  c1 = c1
  c2 = c2
  c3 = c3
  t1 = t1
  t2 = t2
  NoUser = NoUser
  NoConv = NoConv
  NoKey = NoKey
  User <- PairUser
  Order <- PairOrder
  Conv <- PairConv
  Existing <- NoConversation
  Task = {t1, t2}
  Caller <- PairUser
  Leavers <- PairUser
  PinLimit = 1
INVARIANTS TypeOK OneConversation
PROPERTIES ChatSpec
CHECK_DEADLOCK FALSE
