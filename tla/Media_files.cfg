SPECIFICATION Spec
CONSTANTS
  a = a
  b1 = b1
  m1 = m1
  m2 = m2
  t1 = t1
  t2 = t2
  w1 = w1
  NoUser = NoUser
  NoBlob = NoBlob
  NoMessage = NoMessage
  User = {a}
  Blob = {b1}
  Message = {m1, m2}
  Task = {t1, t2}
  Sweeper = {w1}
  MayRefuse = TRUE
INVARIANTS TypeOK AttachmentReadable StrayFilesExplained UsedMediaKept
