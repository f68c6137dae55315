\* Three clients of both protocols, two entries, few descriptors; one UDP
\* client times out, and may then talk to another client's port.
CONSTANTS
  t1 = t1  u1 = u1  u2 = u2
  TcpClient = {t1}
  UdpClient = {u1, u2}
  None = None
  LENGTH_CLIENT = 2
  Backlog = 1
  FdLimit = 3
  IntMax = 127
  Data = {2}
  Garbage <- MCGarbage
  Slow = {u2}
  Killable = {}
  MaxInterrupts = 0
SPECIFICATION Spec
INVARIANTS IInv SlotAccounting AdmitHasRoom SessionMatchesEntry DialogueHasThread AnswerIsCube
PROPERTIES CycleSpec
CHECK_DEADLOCK FALSE
