SPECIFICATION Spec
CONSTANTS
  a = a
  b = b
  s1 = s1
  s2 = s2
  s3 = s3
  x1 = x1
  x2 = x2
  Part = {"connections", "calls", "lockout", "throttle", "history", "chats"}
  User = {a, b}
  Task = {t1, t2}
  NoUser = NoUser
  Socket = {s1, s2, s3, x1, x2}
  UserSocket = {x1, x2}
  Owner <- ActivityOwner
  Blocker = {b}
  Call = {c1}
  Party <- EitherCalls
  Time = {e1}
  Sends = {"other"}
  Never = Never
  Swept = Swept
  MaxWrites = 4
  Number = {n1}
  NoNumber = NoNumber
  Limit = 2
  MaxOutages = 1
  MaxEvents = 2
  Window = 2
  MaxNow = 6
  MaxPassed = 6
  MaxMessages = 4
  PageLimit = 2
  MaxMails = 4
  Own = {2}
INVARIANTS ConnectionsTypeOK RegistryExact StayersServed
INVARIANTS CallLogTypeOK NoPhantomCall EndedBound
INVARIANTS LockoutTypeOK LockoutBound CounterExpires
INVARIANTS BurstBound
INVARIANTS HistoryTypeOK WalkComplete
INVARIANTS ListCoherent
PROPERTIES SubscriberReads CallsClosed
CHECK_DEADLOCK FALSE
