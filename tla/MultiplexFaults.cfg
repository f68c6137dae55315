\* Two TCP clients, one may die, one times out, Ctrl+C.
CONSTANTS
  t1 = t1  t2 = t2  u1 = u1  u2 = u2
  TcpClient = {t1, t2}
  UdpClient = {}
  None = None
  Backlog = 1
  IntMax = 127
  Data = {2}
  Slow = {t2}
  Killable = {t1}
  MaxInterrupts = 1
  MaxUdpThreads = 2
SPECIFICATION FairSpec
INVARIANTS OneTcpSession
PROPERTIES InterruptStopsAdmission NextTcpServed
CHECK_DEADLOCK FALSE
