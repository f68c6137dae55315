\* Both protocols at once, two UDP clients at one socket, Ctrl+C.
CONSTANTS
  t1 = t1  t2 = t2  u1 = u1  u2 = u2
  TcpClient = {t1}
  UdpClient = {u1, u2}
  None = None
  Backlog = 1
  IntMax = 127
  Data = {2}
  Slow = {}
  Killable = {}
  MaxInterrupts = 1
  MaxUdpThreads = 2
SPECIFICATION Spec
SYMMETRY UdpSymmetry
INVARIANTS IInv FlagsCountThreads UdpDialogueIsConnected UdpAnswerIsCube
CHECK_DEADLOCK FALSE
