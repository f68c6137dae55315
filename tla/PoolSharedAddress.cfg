\* Two UDP clients at once, no Ctrl+C: the threads share one address.
CONSTANTS
  t1 = t1  u1 = u1  u2 = u2
  TcpClient = {}
  UdpClient = {u1, u2}
  None = None
  LENGTH_CLIENT = 2
  Backlog = 1
  FdLimit = 20
  IntMax = 127
  Data = {2}
  Garbage <- MCGarbage
  Slow = {}
  Killable = {}
  MaxInterrupts = 0
SPECIFICATION Spec
INVARIANT StopsOnlyOnInterrupt
CHECK_DEADLOCK FALSE
