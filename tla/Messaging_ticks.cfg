SPECIFICATION Spec
CONSTANTS
  a = a
  b = b
  c = c
  sa = sa
  sb = sb
  sc = sc
  m1 = m1
  m2 = m2
  NoUser = NoUser
  User <- DirectUser
  Socket <- TwinSocket
  Owner <- TwinOwner
  BlockPairs <- NoBlocks
  Message = {m1, m2}
  Request = {r1}
  Frames = {"delivery", "read"}
  Leavers <- OnlyA
  MaxChannel = 1
  MayLose = TRUE
  Sent <- TwoFromA
INVARIANTS EventsBacked
PROPERTIES LifeSpec
CHECK_DEADLOCK FALSE
