\* A TCP session is followed by a UDP session on the same entry.
CONSTANTS
  t1 = t1
  u1 = u1
  TcpClient = {t1}
  UdpClient = {u1}
  None = None
  LENGTH_CLIENT = 1
  Backlog = 1
  FdLimit = 9
  IntMax = 127
  Data = {2}
  Garbage <- MCGarbage
  Slow = {}
  Killable = {}
  MaxInterrupts = 0
SPECIFICATION Spec
INVARIANT RedirectAwaited
CHECK_DEADLOCK FALSE
