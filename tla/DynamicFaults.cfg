\* One entry, few descriptors, which are given out again: deaths, Ctrl+C, a process that dies.
CONSTANTS
  t1 = t1  t2 = t2  u1 = u1
  TcpClient = {t1, t2}
  UdpClient = {u1}
  None = None
  LENGTH_CLIENT = 1
  Backlog = 1
  FdLimit = 4
  IntMax = 127
  Data = {2}
  Garbage <- MCGarbage
  Slow = {}
  Killable = {t1}
  MaxInterrupts = 1
SPECIFICATION FairSpec
INVARIANTS SlotAccounting
PROPERTIES InterruptStopsAdmission TcpSlotReturned
CHECK_DEADLOCK FALSE
