\* Two TCP clients on two threads; few descriptors, Ctrl+C.
CONSTANTS
  t1 = t1  t2 = t2
  TcpClient = {t1, t2}
  UdpClient = {}
  None = None
  LENGTH_CLIENT = 2
  LENGTH_STACK = 2
  Backlog = 1
  FdLimit = 3
  IntMax = 127
  Data = {2}
  Garbage <- MCGarbage
  Slow = {}
  Killable = {}
  MaxInterrupts = 1
SPECIFICATION FairSpec
PROPERTIES NoEntryWaits MutexReleased
CHECK_DEADLOCK FALSE
