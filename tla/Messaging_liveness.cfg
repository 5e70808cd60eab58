SPECIFICATION FairSpec
CONSTANTS
  a = a
  b = b
  c = c
  sa = sa
  sb = sb
  sc = sc
  m1 = m1
  m2 = m2
  NoUser = NoUser
  User <- DirectUser
  Socket <- OneSocket
  Owner <- OneOwner
  BlockPairs <- NoBlocks
  Message = {m1}
  Request = {r1, r2}
  Frames = {"delivery", "read", "reaction"}
  Leavers <- OnlyA
  MaxChannel = 1
  MayLose = FALSE
  Sent <- OneFromA
PROPERTIES HandlersFinish
CHECK_DEADLOCK FALSE
