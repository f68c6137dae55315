\* Two runs of a raw client, or of an echo client one of which may be killed;
\* two numbers sent, one frame of another program, one Ctrl+C; headers of at
\* most six bytes of one bit.
SPECIFICATION SmallSpec
CONSTANTS
  Byte = 2
  MaxSize = 6
  IntMax = 7
  Client = {c1, c2}
  Mortal = {c2}
  Nobody = Nobody
  RawNumber = {2, 3}
  MaxRounds = 2
  MaxTraffic = 1
  MaxInterrupts = 1
CHECK_DEADLOCK FALSE
INVARIANTS ReceiverAccepts RawOwnAnswer EchoHeardInOrder
PROPERTIES RawAnswerComes EchoPairEnds
