SPECIFICATION Spec
CONSTANTS
  a = a
  b = b
  c = c
  sa = sa
  sb = sb
  sc = sc
  m1 = m1
  m2 = m2
  NoUser = NoUser
  User <- DirectUser
  Socket <- DirectSocket
  Owner <- DirectOwner
  BlockPairs <- NoBlocks
  Message = {m1}
  Request = {}
  Frames = {"message"}
  Leavers <- NoLeavers
  MaxChannel = 1
  MayLose = FALSE
  Sent <- NoHistory
INVARIANTS SkippedMeansReceived
CHECK_DEADLOCK FALSE
