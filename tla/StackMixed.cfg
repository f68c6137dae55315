\* One TCP and two UDP clients, one of which may miss its redirect, on a stack
\* of two elements for two threads.
CONSTANTS
  t1 = t1  u1 = u1  u2 = u2
  TcpClient = {t1}
  UdpClient = {u1, u2}
  None = None
  LENGTH_CLIENT = 2
  LENGTH_STACK = 2
  Backlog = 1
  FdLimit = 20
  IntMax = 127
  Data = {2}
  Garbage <- MCGarbage
  Slow = {u2}
  Killable = {}
  MaxInterrupts = 0
SPECIFICATION Spec
INVARIANTS IInv SlotAccounting StackFilled ClaimOnStack RedirectAwaited DialogueHasThread
PROPERTIES StackSpec
CHECK_DEADLOCK FALSE
