\* Two TCP clients, one of which may die, a UDP client that times out, one
\* entry, few descriptors, one Ctrl+C.
CONSTANTS
  t1 = t1  t2 = t2  u1 = u1
  TcpClient = {t1, t2}
  UdpClient = {u1}
  None = None
  LENGTH_CLIENT = 1
  Backlog = 1
  FdLimit = 3
  IntMax = 127
  Data = {2}
  Garbage <- MCGarbage
  Slow = {u1}
  Killable = {t1}
  MaxInterrupts = 1
SPECIFICATION FairSpec
PROPERTIES ThreadNoticesClient TcpSlotReturned
CHECK_DEADLOCK FALSE
