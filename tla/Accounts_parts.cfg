SPECIFICATION Spec
CONSTANTS
  a = a
  b = b
  Part = {"sessions", "devices", "signaling"}
  User = {a, b}
  Task = {t1, t2}
  NoUser = NoUser
  Number = {n1}
  Password = {p0, p1, pd}
  DeletePassword = pd
  Newcomer = {a}
  MaxTokens = 3
  NoNumber = NoNumber
  MaxDevices = 3
  PushToken = {x1}
  NoPush = NoPush
  Pair <- CallsB
  Refusal <- BlocksA
  CallId = {c1}
  TTL = 1
  Ring = 1
  MaxTime = 2
SYMMETRY Alike
INVARIANTS SessionsTypeOK RotationBound PasswordChangeLogsOut
INVARIANTS DevicesTypeOK TokenReclaimed DuplicateBound
INVARIANTS SignalingTypeOK ForwardJustified RefusalsFresh PushRate
CHECK_DEADLOCK FALSE
