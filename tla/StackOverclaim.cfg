\* Two TCP clients and two threads.
CONSTANTS
  t1 = t1  t2 = t2
  TcpClient = {t1, t2}
  UdpClient = {}
  None = None
  LENGTH_CLIENT = 2
  LENGTH_STACK = 2
  Backlog = 1
  FdLimit = 20
  IntMax = 127
  Data = {2}
  Garbage <- MCGarbage
  Slow = {}
  Killable = {}
  MaxInterrupts = 0
SPECIFICATION FairSpec
PROPERTY StackedClientServed
CHECK_DEADLOCK FALSE
