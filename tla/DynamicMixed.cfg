\* Three clients of both protocols compete for two entries; nobody fails.
CONSTANTS
  t1 = t1  u2 = u2  u1 = u1
  TcpClient = {t1}
  UdpClient = {u1, u2}
  None = None
  LENGTH_CLIENT = 2
  Backlog = 1
  FdLimit = 9
  IntMax = 127
  Data = {2}
  Garbage <- MCGarbage
  Slow = {}
  Killable = {}
  MaxInterrupts = 1
SYMMETRY UdpSymmetry
SPECIFICATION Spec
INVARIANTS IInv BusyIffHeld AdmitHasRoom JoinsCreatedThreads RedirectNamesOwnSlot
           AnswerIsCube
PROPERTY PoolSpec
CHECK_DEADLOCK FALSE
