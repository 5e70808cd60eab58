SPECIFICATION Spec
CONSTANTS
  a = a
  b = b
  c = c
  sa = sa
  sb = sb
  sc = sc
  m1 = m1
  m2 = m2
  NoUser = NoUser
  User <- GroupUser
  Socket <- GroupSocket
  Owner <- GroupOwner
  BlockPairs <- GroupBlocks
  Message = {m1}
  Request = {}
  Frames = {"message"}
  Leavers <- AorB
  MaxChannel = 1
  MayLose = TRUE
  Sent <- NoHistory
INVARIANTS TypeOK BlockRespected
PROPERTIES NeverWritten
CHECK_DEADLOCK FALSE
