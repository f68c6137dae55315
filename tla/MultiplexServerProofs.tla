------------------------- MODULE MultiplexServerProofs -------------------------
(***************************************************************************)
(* Theorems about MultiplexServer, for every number of clients, threads    *)
(* and interrupts: while no update of an unlocked flag is lost, the flags  *)
(* count the threads, and the sessions are kept apart.                     *)
(***************************************************************************)
EXTENDS MultiplexServerProps, CubeProofs, FiniteSetTheorems, TLAPS

-----------------------------------------------------------------------------
(* Types *)

LEMMA NetKept == NetTypeOK /\ UNCHANGED netVars => NetTypeOK'
  BY DEF NetTypeOK, netVars

LEMMA ClientKept == ClientTypeOK /\ UNCHANGED clientVars => ClientTypeOK'
  BY DEF ClientTypeOK, clientVars

LEMMA MainKept == MainTypeOK /\ UNCHANGED <<flag, interrupts, mainVars, flagVars>> => MainTypeOK'
  BY DEF MainTypeOK, mainVars, flagVars

LEMMA ThreadKept == ThreadTypeOK /\ UNCHANGED <<wfd, tcpVars, udpVars>> => ThreadTypeOK'
  BY DEF ThreadTypeOK, tcpVars, udpVars

\* No client is both, and None is neither.
LEMMA ClientFacts == /\ TcpClient \subseteq Client /\ UdpClient \subseteq Client
                     /\ TcpClient \cap UdpClient = {} /\ None \notin Client
  BY ClientAssumption DEF Client

LEMMA InitType == Init => TypeOK
<1> SUFFICES ASSUME Init PROVE TypeOK
  OBVIOUS
<1>1. ZeroMsg \in Message
  BY DEF ZeroMsg, Msg, Message, DATA
<1>2. NetTypeOK
  <2>1. \A S : <<>> \in Seq(S)
    OBVIOUS
  <2> QED
    BY <2>1 DEF Init, ClientInit, NetTypeOK
<1>3. ClientTypeOK
  BY <1>1 DEF Init, ClientInit, ClientTypeOK, ClientPc
<1>4. MainTypeOK
  BY BoundAssumption DEF Init, MainTypeOK
<1>5. ThreadTypeOK
  BY <1>1 DEF Init, ClientInit, ThreadTypeOK, TcpPc, UdpPc
<1> QED
  BY <1>2, <1>3, <1>4, <1>5 DEF TypeOK

\* An answer leaves the messages for clients messages.
LEMMA AnswerType ==
  ASSUME toCli \in [Client -> Seq(Message)], NEW c, NEW m \in Message, Answer(c, m)
  PROVE  toCli' \in [Client -> Seq(Message)]
<1>1. CASE c \in Client
  <2>1. Append(toCli[c], m) \in Seq(Message)
    BY <1>1
  <2> QED
    BY <2>1 DEF Answer
<1>2. CASE c \notin Client
  BY <1>2 DEF Answer
<1> QED
  BY <1>1, <1>2

LEMMA LoseType ==
  ASSUME lost \subseteq {"tcp", "udp"}, NEW p \in {"tcp", "udp"}, NEW v, NEW s, Lose(p, v, s)
  PROVE  lost' \subseteq {"tcp", "udp"}
  BY DEF Lose

LEMMA MainType == ASSUME TypeOK, MainStep PROVE TypeOK'
<1> USE DEF TypeOK
<1>1. CASE MainLoop \/ SkipTcp \/ SkipUdp \/ Join \/ Select
  <2>1. UNCHANGED <<netVars, clientVars, tcpVars, udpVars>> /\ UNCHANGED wfd
    BY <1>1 DEF MainLoop, SkipTcp, SkipUdp, Join, Select, netVars
  <2>2. MainTypeOK'
    BY <1>1 DEF MainLoop, SkipTcp, SkipUdp, Join, Select, MainTypeOK, flagVars
  <2> QED
    BY <2>1, <2>2, NetKept, ClientKept, ThreadKept
<1>2. CASE TakeTcp
  <2>1. mainq # <<>> /\ mainq \in Seq(TcpClient)
    BY <1>2 DEF TakeTcp, NetTypeOK
  <2>2. Head(mainq) \in TcpClient /\ Tail(mainq) \in Seq(TcpClient)
    BY <2>1, QueueHead
  <2>3. NetTypeOK' /\ MainTypeOK'
    BY <1>2, <2>2 DEF TakeTcp, NetTypeOK, MainTypeOK, flagVars
  <2>4. ThreadTypeOK'
    BY <1>2, <2>2 DEF TakeTcp, ThreadTypeOK, TcpPc, udpVars
  <2>5. ClientTypeOK'
    BY <1>2, ClientKept DEF TakeTcp
  <2> QED
    BY <2>3, <2>4, <2>5
<1>3. CASE TakeUdp
  <2>1. UNCHANGED <<netVars, clientVars, tcpVars>> /\ UNCHANGED wfd
    BY <1>3 DEF TakeUdp, netVars
  <2>2. MainTypeOK'
    BY <1>3 DEF TakeUdp, MainTypeOK, flagVars
  <2>3. ThreadTypeOK'
    BY <1>3, <2>1 DEF TakeUdp, ThreadTypeOK, UdpPc, tcpVars
  <2> QED
    BY <2>1, <2>2, <2>3, NetKept, ClientKept
<1>4. CASE ReadFlag
  <2>1. UNCHANGED <<netVars, clientVars, tcpVars, udpVars>> /\ UNCHANGED wfd
    BY <1>4 DEF ReadFlag, netVars
  <2>2. MainTypeOK'
    BY <1>4 DEF ReadFlag, MainTypeOK, flagVars
  <2> QED
    BY <2>1, <2>2, NetKept, ClientKept, ThreadKept
<1>5. CASE WriteFlag
  <2>1. UNCHANGED <<netVars, clientVars, tcpVars, udpVars>> /\ UNCHANGED wfd
    BY <1>5 DEF WriteFlag, netVars
  <2>2. lost' \subseteq {"tcp", "udp"}
    BY <1>5, LoseType DEF WriteFlag, MainTypeOK
  <2>3. MainTypeOK'
    BY <1>5, <2>2 DEF WriteFlag, MainTypeOK
  <2> QED
    BY <2>1, <2>3, NetKept, ClientKept, ThreadKept
<1>6. CASE JoinGarbage \/ Return
  <2>1. UNCHANGED <<clientVars, tcpVars, udpVars>> /\ UNCHANGED wfd
    BY <1>6 DEF JoinGarbage, Return
  <2>2. NetTypeOK' /\ MainTypeOK'
    BY <1>6 DEF JoinGarbage, Return, NetTypeOK, MainTypeOK, mainVars, flagVars
  <2> QED
    BY <2>1, <2>2, ClientKept, ThreadKept
<1> QED
  BY <1>1, <1>2, <1>3, <1>4, <1>5, <1>6 DEF MainStep

LEMMA TcpType == ASSUME TypeOK, NEW w \in TcpClient, TcpStep(w) PROVE TypeOK'
<1> USE DEF TypeOK
<1>0. /\ ZeroMsg \in Message
      /\ \A pc \in TcpPc : GotoTcp(w, pc) => tpc' \in [TcpClient -> TcpPc]
  BY DEF ZeroMsg, Msg, Message, DATA, GotoTcp, ThreadTypeOK
<1>1. CASE CallRecvTcp(w)
  <2>1. open \subseteq TcpClient
    BY DEF NetTypeOK
  <2>2. NetTypeOK' /\ MainTypeOK'
    BY <1>1, <2>1, MainKept DEF CallRecvTcp, NetTypeOK
  <2>3. ThreadTypeOK'
    BY <1>1, <2>1 DEF CallRecvTcp, ThreadTypeOK, NetTypeOK, GotoTcp, TcpPc, udpVars
  <2> QED
    BY <1>1, <2>2, <2>3, ClientKept DEF CallRecvTcp
<1>2. CASE RecvTcp(w)
  <2>1. wfd[w] \in TcpClient
    BY <1>2 DEF RecvTcp, ThreadTypeOK
  <2>2. toSrv[wfd[w]] \in Seq(Message) /\ toSrv[wfd[w]] # <<>>
    BY <1>2, <2>1 DEF RecvTcp, NetTypeOK
  <2>3. Head(toSrv[wfd[w]]) \in Message /\ Tail(toSrv[wfd[w]]) \in Seq(Message)
    BY <2>2, QueueHead
  <2>4. Reply(Head(toSrv[wfd[w]])) \in Message
    BY <2>3, ReplyType
  <2>5. NetTypeOK' /\ MainTypeOK'
    BY <1>2, <2>3, MainKept DEF RecvTcp, NetTypeOK
  <2>6. ThreadTypeOK'
    BY <1>2, <2>4 DEF RecvTcp, ThreadTypeOK, NetTypeOK, GotoTcp, TcpPc, udpVars
  <2> QED
    BY <1>2, <2>5, <2>6, ClientKept DEF RecvTcp
<1>3. CASE RecvTcpEnd(w)
  <2>1. NetTypeOK' /\ MainTypeOK'
    BY <1>3, MainKept DEF RecvTcpEnd, NetTypeOK
  <2>2. ThreadTypeOK'
    BY <1>3 DEF RecvTcpEnd, ThreadTypeOK, NetTypeOK, GotoTcp, TcpPc, udpVars
  <2> QED
    BY <1>3, <2>1, <2>2, ClientKept DEF RecvTcpEnd
<1>4. CASE SendTcp(w)
  <2>1. tbuf[w] \in Message
    BY DEF ThreadTypeOK
  <2>2. toCli' \in [Client -> Seq(Message)]
    BY <1>4, <2>1, AnswerType DEF SendTcp, NetTypeOK
  <2>3. NetTypeOK' /\ MainTypeOK'
    BY <1>4, <2>2, MainKept DEF SendTcp, NetTypeOK
  <2>4. ThreadTypeOK'
    BY <1>0, <1>4 DEF SendTcp, ThreadTypeOK, GotoTcp, TcpPc, udpVars
  <2> QED
    BY <1>4, <2>3, <2>4, ClientKept DEF SendTcp
<1>5. CASE ReadFlagTcp(w)
  <2>1. NetTypeOK' /\ MainTypeOK' /\ ClientTypeOK' /\ UNCHANGED wfd
    BY <1>5, NetKept, MainKept, ClientKept DEF ReadFlagTcp, netVars
  <2>2. ThreadTypeOK'
    BY <1>5, <2>1 DEF ReadFlagTcp, ThreadTypeOK, MainTypeOK, GotoTcp, TcpPc, udpVars
  <2> QED
    BY <2>1, <2>2
<1>6. CASE WriteFlagTcp(w)
  <2>1. NetTypeOK' /\ ClientTypeOK' /\ UNCHANGED wfd
    BY <1>6, NetKept, ClientKept DEF WriteFlagTcp, netVars
  <2>2. ThreadTypeOK'
    BY <1>6, <2>1 DEF WriteFlagTcp, ThreadTypeOK, GotoTcp, TcpPc, udpVars
  <2>3. lost' \subseteq {"tcp", "udp"}
    BY <1>6, LoseType DEF WriteFlagTcp, MainTypeOK
  <2>4. MainTypeOK'
    BY <1>6, <2>3 DEF WriteFlagTcp, ThreadTypeOK, MainTypeOK, mainVars
  <2> QED
    BY <2>1, <2>2, <2>4
<1>7. CASE CloseTcp(w)
  <2>1. NetTypeOK' /\ MainTypeOK'
    BY <1>7, MainKept DEF CloseTcp, NetTypeOK
  <2>2. ThreadTypeOK'
    BY <1>7 DEF CloseTcp, ThreadTypeOK, GotoTcp, TcpPc, udpVars
  <2> QED
    BY <1>7, <2>1, <2>2, ClientKept DEF CloseTcp
<1> QED
  BY <1>1, <1>2, <1>3, <1>4, <1>5, <1>6, <1>7 DEF TcpStep

LEMMA UdpType == ASSUME TypeOK, NEW u \in UdpThread, UdpStep(u) PROVE TypeOK'
<1> USE DEF TypeOK
<1>0. /\ ZeroMsg \in Message
      /\ ubuf[u] \in Message /\ Reply(ubuf[u]) \in Message
  BY ReplyType DEF ZeroMsg, Msg, Message, DATA, ThreadTypeOK
<1>1. CASE CallRecvUdp(u)
  <2>1. UNCHANGED <<netVars, clientVars, flag, interrupts, mainVars, flagVars, tcpVars>> /\ UNCHANGED wfd
    BY <1>1 DEF CallRecvUdp, netVars
  <2>2. ThreadTypeOK'
    BY <1>1, <2>1 DEF CallRecvUdp, ThreadTypeOK, GotoUdp, UdpPc, tcpVars
  <2> QED
    BY <2>1, <2>2, NetKept, ClientKept, MainKept
<1>2. CASE RecvUdp(u)
  <2>1. udpq \in Seq([from : UdpClient, msg : Message]) /\ udpq # <<>>
    BY <1>2 DEF RecvUdp, NetTypeOK
  <2>2. Head(udpq) \in [from : UdpClient, msg : Message] /\ Tail(udpq) \in Seq([from : UdpClient, msg : Message])
    BY <2>1, QueueHead
  <2>3. NetTypeOK' /\ MainTypeOK' /\ ClientTypeOK'
    BY <1>2, <2>2, MainKept, ClientKept DEF RecvUdp, NetTypeOK
  <2>4. ThreadTypeOK'
    BY <1>2, <2>2 DEF RecvUdp, ThreadTypeOK, GotoUdp, UdpPc, tcpVars
  <2> QED
    BY <2>3, <2>4
<1>3. CASE CheckUdp(u)
  <2>1. UNCHANGED <<netVars, clientVars, flag, interrupts, mainVars, flagVars, tcpVars>> /\ UNCHANGED wfd
    BY <1>3 DEF CheckUdp, netVars
  <2>2. ThreadTypeOK'
    BY <1>0, <1>3, <2>1 DEF CheckUdp, ThreadTypeOK, GotoUdp, UdpPc, tcpVars
  <2> QED
    BY <2>1, <2>2, NetKept, ClientKept, MainKept
<1>4. CASE SendUdp(u)
  <2>1. toCli' \in [Client -> Seq(Message)]
    BY <1>0, <1>4, AnswerType DEF SendUdp, NetTypeOK
  <2>2. NetTypeOK' /\ MainTypeOK' /\ ClientTypeOK'
    BY <1>4, <2>1, MainKept, ClientKept DEF SendUdp, NetTypeOK
  <2>3. ThreadTypeOK'
    BY <1>0, <1>4 DEF SendUdp, ThreadTypeOK, GotoUdp, UdpPc, tcpVars
  <2> QED
    BY <2>2, <2>3
<1>5. CASE ReadFlagUdp(u)
  <2>1. UNCHANGED <<netVars, clientVars, flag, interrupts, mainVars, flagVars, tcpVars>> /\ UNCHANGED wfd
    BY <1>5 DEF ReadFlagUdp, netVars
  <2>2. ThreadTypeOK'
    BY <1>5, <2>1 DEF ReadFlagUdp, ThreadTypeOK, MainTypeOK, GotoUdp, UdpPc, tcpVars
  <2> QED
    BY <2>1, <2>2, NetKept, ClientKept, MainKept
<1>6. CASE WriteFlagUdp(u)
  <2>1. UNCHANGED <<netVars, clientVars, tcpVars>> /\ UNCHANGED wfd
    BY <1>6 DEF WriteFlagUdp, netVars
  <2>2. ThreadTypeOK'
    BY <1>6, <2>1 DEF WriteFlagUdp, ThreadTypeOK, GotoUdp, UdpPc, tcpVars
  <2>3. lost' \subseteq {"tcp", "udp"}
    BY <1>6, LoseType DEF WriteFlagUdp, MainTypeOK
  <2>4. MainTypeOK'
    BY <1>6, <2>3 DEF WriteFlagUdp, ThreadTypeOK, MainTypeOK, mainVars
  <2> QED
    BY <2>1, <2>2, <2>4, NetKept, ClientKept
<1> QED
  BY <1>1, <1>2, <1>3, <1>4, <1>5, <1>6 DEF UdpStep

LEMMA InterruptType == ASSUME TypeOK, Interrupt PROVE TypeOK'
<1> USE DEF TypeOK
<1>1. ASSUME Signal PROVE flag' \in {0, 1} /\ interrupts' \in 0 .. MaxInterrupts
  BY <1>1, BoundAssumption DEF Signal, MainTypeOK
<1>2. CASE InterruptMain \/ InterruptRunning
  <2>1. UNCHANGED <<netVars, clientVars, tcpVars, udpVars>> /\ UNCHANGED wfd
    BY <1>2 DEF InterruptMain, InterruptRunning, netVars
  <2>2. MainTypeOK'
    BY <1>1, <1>2 DEF InterruptMain, InterruptRunning, MainTypeOK, mainVars, flagVars
  <2> QED
    BY <2>1, <2>2, NetKept, ClientKept, ThreadKept
<1>3. ASSUME NEW w \in TcpClient, InterruptTcp(w) PROVE TypeOK'
  <2>1. NetTypeOK' /\ ClientTypeOK'
    BY <1>3, ClientKept DEF InterruptTcp, NetTypeOK
  <2>2. ThreadTypeOK'
    BY <1>3 DEF InterruptTcp, ThreadTypeOK, NetTypeOK, GotoTcp, TcpPc, udpVars
  <2>3. MainTypeOK'
    BY <1>1, <1>3 DEF InterruptTcp, MainTypeOK, mainVars, flagVars
  <2> QED
    BY <2>1, <2>2, <2>3
<1>4. ASSUME NEW u \in UdpThread, InterruptUdp(u) PROVE TypeOK'
  <2>1. UNCHANGED <<netVars, clientVars, tcpVars>> /\ UNCHANGED wfd
    BY <1>4 DEF InterruptUdp, netVars
  <2>2. ThreadTypeOK'
    BY <1>4, <2>1 DEF InterruptUdp, ThreadTypeOK, GotoUdp, UdpPc, tcpVars
  <2>3. MainTypeOK'
    BY <1>1, <1>4 DEF InterruptUdp, MainTypeOK, mainVars, flagVars
  <2> QED
    BY <2>1, <2>2, <2>3, NetKept, ClientKept
<1> QED
  BY <1>2, <1>3, <1>4 DEF Interrupt

\* A client that ends, a message it sends, and a further turn of its loop.
LEMMA EndsType ==
  ASSUME NEW c \in Client, ClientTypeOK, toCli \in [Client -> Seq(Message)], Ends(c)
  PROVE  ClientTypeOK' /\ toCli' \in [Client -> Seq(Message)]
<1>1. ZeroMsg \in Message /\ <<>> \in Seq(Message)
  BY DEF ZeroMsg, Msg, Message, DATA
<1> QED
  BY <1>1 DEF Ends, ClientTypeOK, ClientPc

LEMMA DeliverType ==
  ASSUME NEW c \in Client, NEW m \in Message, NetTypeOK, Deliver(c, m)
  PROVE  /\ toSrv' \in [TcpClient -> Seq(Message)]
         /\ udpq' \in Seq([from : UdpClient, msg : Message])
<1>1. toSrv' \in [TcpClient -> Seq(Message)]
  <2>1. CASE c \in TcpClient
    <3>1. Append(toSrv[c], m) \in Seq(Message)
      BY <2>1 DEF NetTypeOK
    <3> QED
      BY <2>1, <3>1 DEF Deliver, NetTypeOK
  <2>2. CASE c \notin TcpClient
    BY <2>2 DEF Deliver, NetTypeOK
  <2> QED
    BY <2>1, <2>2
<1>2. udpq' \in Seq([from : UdpClient, msg : Message])
  <2> DEFINE d == [from |-> c, msg |-> m]
             D == [from : UdpClient, msg : Message]
  <2>1. c \in UdpClient => d \in D
    OBVIOUS
  <2>2. udpq \in Seq(D) /\ udpq' = IF c \in UdpClient /\ server = "up" THEN Append(udpq, d) ELSE udpq
    BY DEF Deliver, NetTypeOK
  <2> HIDE DEF d, D
  <2>3. udpq' \in Seq(D)
    BY <2>1, <2>2
  <2> QED
    BY <2>3 DEF D
<1> QED
  BY <1>1, <1>2

LEMMA ClientType ==
  ASSUME TypeOK, NEW c \in Client, ClientStep(c) \/ UserStep(c), ClientKeeps
  PROVE  TypeOK'
<1> USE DEF TypeOK
<1>0. /\ Msg(PROBE, 0) \in Message /\ cbuf[c] \in Message
      /\ Msg(QUIT, cbuf[c].message) \in Message
      /\ \A n \in Data : n \in Int /\ Msg(cbuf[c].sign, n) \in Message
  BY UserAssumption DEF ClientTypeOK, Msg, Message, PROBE, QUIT
<1>1. SUFFICES ASSUME UNCHANGED wfd PROVE NetTypeOK' /\ ClientTypeOK'
  <2>1. UNCHANGED wfd
    BY DEF ClientStep, UserStep, netVars,
           SendProbe, RecvProbe, ProbeTimesOut, ProbeGivesUp, RecvAnswer, RecvEofAsAnswer,
           AnswerFails, StartTcp, StartUdp, Ask, AskBroken, Again, Quit, Kill
  <2> QED
    BY <1>1, <2>1, MainKept, ThreadKept DEF ClientKeeps
<1>2. ASSUME NEW m \in Message, SendServer(c, m), UNCHANGED <<server, open, toCli>>,
             mainq' \in Seq(TcpClient)
      PROVE  NetTypeOK' /\ refused' \in [Client -> BOOLEAN]
  <2>1. /\ toSrv' \in [TcpClient -> Seq(Message)]
        /\ udpq' \in Seq([from : UdpClient, msg : Message])
    BY <1>2, DeliverType DEF SendServer
  <2> QED
    BY <1>1, <1>2, <2>1 DEF SendServer, NetTypeOK, ClientTypeOK
<1>3. CASE SendProbe(c)
  <2>1. mainq' \in Seq(TcpClient)
    BY <1>3 DEF SendProbe, NetTypeOK
  <2>2. NetTypeOK' /\ refused' \in [Client -> BOOLEAN]
    BY <1>0, <1>2, <1>3, <2>1 DEF SendProbe
  <2> QED
    BY <1>3, <2>2 DEF SendProbe, ClientTypeOK, ClientPc
<1>4. ASSUME NextTurn(c) PROVE tries' \in [Client -> 0 .. 4] /\ cpc' \in [Client -> ClientPc]
  <2>1. tries[c] + 1 \in 0 .. 4
    BY <1>4 DEF NextTurn, ClientTypeOK
  <2> QED
    BY <1>4, <2>1 DEF NextTurn, ClientTypeOK, ClientPc
<1>5. ASSUME toCli[c] # <<>>, toCli' = [toCli EXCEPT ![c] = Tail(@)],
             UNCHANGED <<server, mainq, open, udpq, toSrv>>
      PROVE  Head(toCli[c]) \in Message /\ NetTypeOK'
  <2>1. toCli[c] \in Seq(Message)
    BY DEF NetTypeOK
  <2>2. Head(toCli[c]) \in Message /\ Tail(toCli[c]) \in Seq(Message)
    BY <1>5, <2>1, QueueHead
  <2> QED
    BY <1>1, <1>5, <2>2 DEF NetTypeOK
<1>6. CASE RecvProbe(c)
  <2> DEFINE m == Head(toCli[c])
  <2>1. m \in Message /\ NetTypeOK'
    BY <1>5, <1>6 DEF RecvProbe
  <2>2. CASE m.sign = PROBE_ACK
    <3>1. Msg(DATA, m.message) \in Message
      BY <2>1 DEF Msg, Message, DATA
    <3>2. /\ cbuf' = [cbuf EXCEPT ![c] = Msg(DATA, m.message)]
          /\ tries' = [tries EXCEPT ![c] = 0]
          /\ cpc' = [cpc EXCEPT ![c] = "chat"] /\ UNCHANGED <<asked, refused>>
      BY <1>6, <2>2 DEF RecvProbe
    <3> QED
      BY <2>1, <3>1, <3>2 DEF ClientTypeOK, ClientPc
  <2>3. CASE m.sign # PROBE_ACK
    BY <1>4, <1>6, <2>1, <2>3 DEF RecvProbe, ClientTypeOK
  <2> QED
    BY <2>2, <2>3
<1>7. CASE ProbeTimesOut(c)
  BY <1>4, <1>7, NetKept DEF ProbeTimesOut, ClientTypeOK
<1>8. CASE ProbeGivesUp(c) \/ AnswerFails(c) \/ AskBroken(c) \/ Kill(c)
  <2>1. Ends(c) /\ UNCHANGED <<server, mainq, open, wfd, udpq, toSrv>>
    BY <1>8 DEF ProbeGivesUp, AnswerFails, AskBroken, Kill
  <2> QED
    BY <2>1, EndsType DEF NetTypeOK
<1>9. CASE RecvAnswer(c)
  <2>1. Head(toCli[c]) \in Message /\ NetTypeOK'
    BY <1>5, <1>9 DEF RecvAnswer
  <2> QED
    BY <1>9, <2>1 DEF RecvAnswer, ClientTypeOK, ClientPc
<1>10. CASE RecvEofAsAnswer(c) \/ Again(c)
  <2>1. UNCHANGED netVars
    BY <1>10 DEF RecvEofAsAnswer, Again
  <2>2. ClientTypeOK'
    BY <1>10 DEF RecvEofAsAnswer, Again, ClientTypeOK, ClientPc
  <2> QED
    BY <2>1, <2>2, NetKept
<1>11. CASE StartTcp(c)
  <2>1. mainq' \in Seq(TcpClient)
    BY <1>11 DEF StartTcp, NetTypeOK
  <2>2. NetTypeOK' /\ refused' \in [Client -> BOOLEAN]
    BY <1>0, <1>2, <1>11, <2>1 DEF StartTcp
  <2> QED
    BY <1>0, <1>11, <2>2 DEF StartTcp, ClientTypeOK, ClientPc
<1>12. CASE StartUdp(c)
  BY <1>0, <1>12, NetKept DEF StartUdp, ClientTypeOK, ClientPc
<1>13. CASE Ask(c)
  <2>1. PICK n \in Data : /\ asked' = [asked EXCEPT ![c] = n]
                          /\ cbuf' = [cbuf EXCEPT ![c] = Msg(@.sign, n)]
                          /\ SendServer(c, Msg(cbuf[c].sign, n))
    BY <1>13 DEF Ask
  <2>2. mainq' \in Seq(TcpClient)
    BY <1>13 DEF Ask, NetTypeOK
  <2>3. NetTypeOK' /\ refused' \in [Client -> BOOLEAN]
    BY <1>0, <1>2, <1>13, <2>1, <2>2 DEF Ask
  <2> QED
    BY <1>0, <1>13, <2>1, <2>3 DEF Ask, ClientTypeOK, ClientPc
<1>14. CASE Quit(c)
  <2>1. /\ toSrv' \in [TcpClient -> Seq(Message)]
        /\ udpq' \in Seq([from : UdpClient, msg : Message])
    BY <1>0, <1>14, DeliverType DEF Quit
  <2>2. ClientTypeOK' /\ toCli' \in [Client -> Seq(Message)]
    BY <1>14, EndsType DEF Quit, NetTypeOK
  <2> QED
    BY <1>14, <2>1, <2>2 DEF Quit, NetTypeOK
<1> QED
  BY <1>3, <1>6, <1>7, <1>8, <1>9, <1>10, <1>11, <1>12, <1>13, <1>14 DEF ClientStep, UserStep

LEMMA NextType == TypeOK /\ [Next]_vars => TypeOK'
<1> SUFFICES ASSUME TypeOK, [Next]_vars PROVE TypeOK'
  OBVIOUS
<1>1. CASE UNCHANGED vars
  <2>1. UNCHANGED wfd
    BY <1>1 DEF vars, netVars
  <2> QED
    BY <1>1, <2>1, NetKept, ClientKept, MainKept, ThreadKept DEF TypeOK, vars
<1> QED
  BY <1>1, MainType, TcpType, UdpType, InterruptType, ClientType DEF Next

-----------------------------------------------------------------------------
(* The queue of TCP clients *)

LEMMA QueueFrame ==
  ASSUME QueueInv, TypeOK, mainq' = mainq,
         \A c \in TcpClient : /\ tpc'[c] = "none" <=> tpc[c] = "none"
                              /\ cpc'[c] = "start" <=> cpc[c] = "start"
  PROVE  QueueInv'
<1>1. \A i \in 1 .. Len(mainq) : mainq[i] \in TcpClient
  BY DEF TypeOK, NetTypeOK
<1> QED
  BY <1>1 DEF QueueInv

\* accept takes the first client of the queue, which had no thread.
LEMMA TakeTcpQueue == ASSUME QueueInv, TypeOK, TakeTcp PROVE QueueInv'
<1> DEFINE c == Head(mainq)
<1>1. mainq # <<>> /\ mainq \in Seq(TcpClient)
  BY DEF TakeTcp, TypeOK, NetTypeOK
<1>2. /\ c \in TcpClient /\ mainq' = Tail(mainq) /\ tpc' = [tpc EXCEPT ![c] = "loop"] /\ cpc' = cpc
      /\ c = mainq[1] /\ 1 \in 1 .. Len(mainq) /\ Len(mainq) \in Nat
      /\ \A i \in 1 .. Len(mainq') : i + 1 \in 1 .. Len(mainq) /\ i + 1 # 1 /\ mainq'[i] = mainq[i + 1]
  BY <1>1, QueueHead DEF TakeTcp, clientVars
<1> HIDE DEF c
<1>3. cpc[c] # "start"
  BY <1>2 DEF QueueInv
<1>4. \A i, j \in 1 .. Len(mainq') : mainq'[i] = mainq'[j] => i = j
  <2> SUFFICES ASSUME NEW i \in 1 .. Len(mainq'), NEW j \in 1 .. Len(mainq'), mainq'[i] = mainq'[j]
               PROVE  i = j
    OBVIOUS
  <2>1. i + 1 = j + 1
    BY <1>2 DEF QueueInv
  <2> QED
    BY <2>1
<1>5. \A i \in 1 .. Len(mainq') : mainq'[i] # c
  BY <1>2 DEF QueueInv
<1> QED
  BY <1>2, <1>3, <1>4, <1>5 DEF QueueInv, TypeOK, ThreadTypeOK

LEMMA StartTcpQueue == ASSUME QueueInv, TypeOK, NEW c \in Client, StartTcp(c), tpc' = tpc PROVE QueueInv'
<1>1. /\ mainq \in Seq(TcpClient) /\ c \in TcpClient /\ cpc[c] = "start"
      /\ mainq' = Append(mainq, c) /\ cpc' = [cpc EXCEPT ![c] = "probing"]
  BY DEF StartTcp, TypeOK, NetTypeOK
<1>2. /\ Len(mainq) \in Nat /\ Len(mainq') = Len(mainq) + 1 /\ mainq'[Len(mainq) + 1] = c
      /\ \A i \in 1 .. Len(mainq) : mainq'[i] = mainq[i] /\ mainq[i] # c
  BY <1>1, AppendElements DEF QueueInv
<1>3. \A i \in 1 .. Len(mainq') : i \in 1 .. Len(mainq) \/ i = Len(mainq) + 1
  BY <1>2
<1>4. \A i, j \in 1 .. Len(mainq') : mainq'[i] = mainq'[j] => i = j
  BY <1>2, <1>3 DEF QueueInv
<1>5. \A i \in 1 .. Len(mainq') : cpc'[mainq'[i]] # "start" /\ tpc'[mainq'[i]] = "none"
  BY <1>1, <1>2, <1>3 DEF QueueInv, TypeOK, ClientTypeOK
<1> QED
  BY <1>1, <1>4, <1>5 DEF QueueInv, TypeOK, ClientTypeOK

\* A client starts once, and no other of its steps concerns the queue.
LEMMA ClientQueue ==
  ASSUME QueueInv, TypeOK, NEW c \in Client, ClientStep(c) \/ UserStep(c), ClientKeeps
  PROVE  QueueInv'
<1>1. tpc' = tpc
  BY DEF ClientKeeps, tcpVars
<1>2. CASE StartTcp(c)
  BY <1>1, <1>2, StartTcpQueue
<1>3. CASE ~StartTcp(c)
  <2>1. ASSUME Ends(c), cpc[c] # "start" PROVE \A d \in Client : cpc'[d] = "start" <=> cpc[d] = "start"
    BY <2>1 DEF Ends, TypeOK, ClientTypeOK
  <2>2. CASE ProbeGivesUp(c) \/ AnswerFails(c) \/ AskBroken(c) \/ Kill(c) \/ Quit(c)
    <3>1. Ends(c) /\ cpc[c] # "start" /\ mainq' = mainq
      BY <2>2 DEF ProbeGivesUp, AnswerFails, AskBroken, Kill, Quit
    <3> QED
      BY <1>1, <2>1, <3>1, QueueFrame, ClientFacts
  <2>3. CASE StartUdp(c)
    <3>1. mainq' = mainq /\ \A d \in TcpClient : cpc'[d] = cpc[d]
      BY <2>3, ClientFacts DEF StartUdp, netVars, TypeOK, ClientTypeOK
    <3> QED
      BY <1>1, <3>1, QueueFrame
  <2>4. CASE SendProbe(c) \/ RecvAnswer(c) \/ RecvEofAsAnswer(c) \/ Ask(c) \/ Again(c)
    <3>1. mainq' = mainq /\ \A d \in Client : cpc'[d] = "start" <=> cpc[d] = "start"
      BY <2>4 DEF SendProbe, RecvAnswer, RecvEofAsAnswer, Ask, Again, netVars, TypeOK, ClientTypeOK
    <3> QED
      BY <1>1, <3>1, QueueFrame, ClientFacts
  <2>5. CASE RecvProbe(c) \/ ProbeTimesOut(c)
    <3>1. mainq' = mainq /\ cpc[c] = "probing"
      BY <2>5 DEF RecvProbe, ProbeTimesOut, netVars
    <3>2. \E pc \in {"chat", "probe", "probing"} : cpc' = [cpc EXCEPT ![c] = pc]
      BY <2>5 DEF RecvProbe, ProbeTimesOut, NextTurn
    <3>3. \A d \in Client : cpc'[d] = "start" <=> cpc[d] = "start"
      BY <3>1, <3>2 DEF TypeOK, ClientTypeOK
    <3> QED
      BY <1>1, <3>1, <3>3, QueueFrame, ClientFacts
  <2> QED
    BY <1>3, <2>2, <2>3, <2>4, <2>5 DEF ClientStep, UserStep
<1> QED
  BY <1>2, <1>3

LEMMA QueueNext == QueueInv /\ TypeOK /\ [Next]_vars => QueueInv'
<1> SUFFICES ASSUME QueueInv, TypeOK, [Next]_vars PROVE QueueInv'
  OBVIOUS
<1>1. ASSUME UNCHANGED <<mainq, tpc, cpc>> PROVE QueueInv'
  BY <1>1, QueueFrame
<1>2. CASE UNCHANGED vars
  BY <1>1, <1>2 DEF vars, netVars, tcpVars, clientVars
<1>3. CASE MainStep /\ ~TakeTcp
  <2>1. UNCHANGED <<mainq, tpc, cpc>>
    BY <1>3 DEF MainStep, MainLoop, Select, SkipTcp, SkipUdp, TakeUdp, ReadFlag, WriteFlag, Join,
                JoinGarbage, Return, netVars, tcpVars, clientVars
  <2> QED
    BY <1>1, <2>1
<1>4. ASSUME NEW w \in TcpClient, TcpStep(w) PROVE QueueInv'
  <2>1. UNCHANGED <<mainq, cpc>> /\ tpc[w] # "none"
    BY <1>4 DEF TcpStep, CallRecvTcp, RecvTcp, RecvTcpEnd, SendTcp, ReadFlagTcp, WriteFlagTcp, CloseTcp,
                netVars, clientVars
  <2>2. \E pc \in TcpPc \ {"none"} : tpc' = [tpc EXCEPT ![w] = pc]
    BY <1>4 DEF TcpStep, CallRecvTcp, RecvTcp, RecvTcpEnd, SendTcp, ReadFlagTcp, WriteFlagTcp, CloseTcp,
                GotoTcp, TcpPc
  <2>3. \A c \in TcpClient : tpc'[c] = "none" <=> tpc[c] = "none"
    BY <2>1, <2>2 DEF TypeOK, ThreadTypeOK
  <2> QED
    BY <2>1, <2>3, QueueFrame
<1>5. ASSUME NEW u \in UdpThread, UdpStep(u) PROVE QueueInv'
  <2>1. UNCHANGED <<mainq, tpc, cpc>>
    BY <1>5 DEF UdpStep, CallRecvUdp, RecvUdp, CheckUdp, SendUdp, ReadFlagUdp, WriteFlagUdp,
                netVars, tcpVars, clientVars
  <2> QED
    BY <1>1, <2>1
<1>6. CASE InterruptMain \/ InterruptRunning \/ \E u \in UdpThread : InterruptUdp(u)
  BY <1>1, <1>6 DEF InterruptMain, InterruptRunning, InterruptUdp, netVars, tcpVars, clientVars
<1>7. ASSUME NEW w \in TcpClient, InterruptTcp(w) PROVE QueueInv'
  <2>1. UNCHANGED <<mainq, cpc>> /\ tpc[w] = "recv" /\ tpc' = [tpc EXCEPT ![w] = "read"]
    BY <1>7 DEF InterruptTcp, GotoTcp, clientVars
  <2> QED
    BY <2>1, QueueFrame DEF TypeOK, ThreadTypeOK
<1> QED
  BY <1>2, <1>3, <1>4, <1>5, <1>6, <1>7, TakeTcpQueue, ClientQueue DEF Next, Interrupt

-----------------------------------------------------------------------------
(* The flags and the threads *)

\* What was lost stays lost.
LEMMA LostStays == [Next]_vars => lost \subseteq lost'
<1> SUFFICES ASSUME [Next]_vars PROVE lost \subseteq lost'
  OBVIOUS
<1>1. \A p, v, n : Lose(p, v, n) => lost \subseteq lost'
  BY DEF Lose
<1>2. CASE MainStep
  BY <1>1, <1>2 DEF MainStep, MainLoop, Select, SkipTcp, TakeTcp, SkipUdp, TakeUdp, ReadFlag, WriteFlag,
                    Join, JoinGarbage, Return, flagVars
<1>3. ASSUME NEW w \in TcpClient, TcpStep(w) PROVE lost \subseteq lost'
  BY <1>1, <1>3 DEF TcpStep, CallRecvTcp, RecvTcp, RecvTcpEnd, SendTcp, ReadFlagTcp, WriteFlagTcp,
                    CloseTcp, flagVars
<1>4. ASSUME NEW u \in UdpThread, UdpStep(u) PROVE lost \subseteq lost'
  BY <1>1, <1>4 DEF UdpStep, CallRecvUdp, RecvUdp, CheckUdp, SendUdp, ReadFlagUdp, WriteFlagUdp, flagVars
<1>5. CASE Interrupt
  BY <1>5 DEF Interrupt, InterruptMain, InterruptRunning, InterruptTcp, InterruptUdp, flagVars
<1> QED
  BY <1>2, <1>3, <1>4, <1>5 DEF Next, vars, flagVars, ClientKeeps

\* The live threads are finitely many, so that they can be counted.
LEMMA LiveFinite ==
  /\ IsFiniteSet(LiveTcp) /\ Count(LiveTcp) \in Nat /\ (Count(LiveTcp) = 0 => LiveTcp = {})
  /\ IsFiniteSet(LiveUdp) /\ Count(LiveUdp) \in Nat /\ (Count(LiveUdp) = 0 => LiveUdp = {})
<1>1. IsFiniteSet(TcpClient) /\ IsFiniteSet(UdpThread)
  BY ClientAssumption, BoundAssumption, FS_Interval DEF UdpThread
<1>2. IsFiniteSet(LiveTcp) /\ IsFiniteSet(LiveUdp)
  BY <1>1, FS_Subset DEF LiveTcp, LiveUdp
<1> QED
  BY <1>2, FS_CardinalityType, FS_EmptySet DEF Count

\* A thread is created, or ends.
LEMMA OneMore ==
  ASSUME NEW S, IsFiniteSet(S), NEW x, x \notin S
  PROVE  Count(S \cup {x}) = Count(S) + 1
  BY FS_AddElement DEF Count

LEMMA OneLess ==
  ASSUME NEW S, IsFiniteSet(S), NEW x \in S
  PROVE  Count(S \ {x}) = Count(S) - 1
  BY FS_RemoveElement DEF Count

LEMMA TcpFrame ==
  ASSUME TcpCounted, UNCHANGED <<flag_tcp, LiveTcp>>,
         (mpc \in {"readTcp", "writeTcp"}) <=> (mpc' \in {"readTcp", "writeTcp"})
  PROVE  TcpCounted'
  BY DEF TcpCounted

LEMMA UdpFrame ==
  ASSUME UdpCounted, UNCHANGED <<flag_udp, LiveUdp>>,
         (mpc \in {"readUdp", "writeUdp"}) <=> (mpc' \in {"readUdp", "writeUdp"})
  PROVE  UdpCounted'
  BY DEF UdpCounted

\* main() counts the thread it created.
LEMMA MainCounts ==
  ASSUME TypeOK, QueueInv, MainStep
  PROVE  /\ TcpCounted /\ "tcp" \notin lost' => TcpCounted'
         /\ UdpCounted /\ "udp" \notin lost' => UdpCounted'
<1>0. /\ flag_tcp \in Int /\ flag_udp \in Int /\ mread \in Int
      /\ Count(LiveTcp) \in Nat /\ Count(LiveUdp) \in Nat
  BY LiveFinite DEF TypeOK, MainTypeOK
<1>1. CASE MainLoop \/ Select \/ SkipTcp \/ SkipUdp \/ ReadFlag \/ Join \/ JoinGarbage \/ Return
  <2>1. UNCHANGED <<flag_tcp, flag_udp, tpc, upc>>
    BY <1>1 DEF MainLoop, Select, SkipTcp, SkipUdp, ReadFlag, Join, JoinGarbage, Return,
                flagVars, tcpVars, udpVars
  <2>2. /\ (mpc \in {"readTcp", "writeTcp"}) <=> (mpc' \in {"readTcp", "writeTcp"})
        /\ (mpc \in {"readUdp", "writeUdp"}) <=> (mpc' \in {"readUdp", "writeUdp"})
    BY <1>1 DEF MainLoop, Select, SkipTcp, SkipUdp, ReadFlag, Join, JoinGarbage, Return, mainVars
  <2>3. LiveTcp' = LiveTcp /\ LiveUdp' = LiveUdp
    BY <2>1 DEF LiveTcp, LiveUdp
  <2> QED
    BY <2>1, <2>2, <2>3, TcpFrame, UdpFrame
<1>2. CASE TakeTcp
  <2> DEFINE c == Head(mainq)
  <2>1. /\ mpc = "tcp" /\ mpc' = "readTcp" /\ UNCHANGED <<flag_tcp, flag_udp, upc>>
        /\ tpc' = [tpc EXCEPT ![c] = "loop"] /\ mainq # <<>> /\ mainq \in Seq(TcpClient)
    BY <1>2 DEF TakeTcp, flagVars, udpVars, TypeOK, NetTypeOK
  <2>2. c \in TcpClient /\ c = mainq[1] /\ 1 \in 1 .. Len(mainq)
    BY <2>1, QueueHead
  <2>3. tpc[c] = "none"
    BY <2>2 DEF QueueInv
  <2> HIDE DEF c
  <2>4. LiveTcp' = LiveTcp \cup {c} /\ c \notin LiveTcp /\ LiveUdp' = LiveUdp
    BY <2>1, <2>2, <2>3 DEF LiveTcp, LiveUdp, TypeOK, ThreadTypeOK
  <2>5. Count(LiveTcp') = Count(LiveTcp) + 1
    BY <2>4, OneMore, LiveFinite
  <2>6. UdpCounted => UdpCounted'
    BY <2>1, <2>4, UdpFrame
  <2> QED
    BY <1>0, <2>1, <2>5, <2>6 DEF TcpCounted
<1>3. CASE TakeUdp
  <2>1. PICK u \in UdpThread : upc[u] = "none" /\ upc' = [upc EXCEPT ![u] = "loop"]
    BY <1>3 DEF TakeUdp
  <2>2. mpc = "udp" /\ mpc' = "readUdp" /\ UNCHANGED <<flag_tcp, flag_udp, tpc>>
    BY <1>3 DEF TakeUdp, flagVars, tcpVars
  <2>3. LiveUdp' = LiveUdp \cup {u} /\ u \notin LiveUdp /\ LiveTcp' = LiveTcp
    BY <2>1, <2>2 DEF LiveTcp, LiveUdp, TypeOK, ThreadTypeOK
  <2>4. Count(LiveUdp') = Count(LiveUdp) + 1
    BY <2>3, OneMore, LiveFinite
  <2>5. TcpCounted => TcpCounted'
    BY <2>2, <2>3, TcpFrame
  <2> QED
    BY <1>0, <2>2, <2>4, <2>5 DEF UdpCounted
<1>4. CASE WriteFlag
  <2>1. LiveTcp' = LiveTcp /\ LiveUdp' = LiveUdp
    BY <1>4 DEF WriteFlag, LiveTcp, LiveUdp, tcpVars, udpVars
  <2>2. CASE mpc = "writeTcp"
    <3>1. /\ mpc' = "udp" /\ flag_tcp' = mread - 1 /\ flag_udp' = flag_udp
          /\ "tcp" \notin lost' => flag_tcp = mread
      BY <1>4, <2>2 DEF WriteFlag, Lose
    <3>2. UdpCounted => UdpCounted'
      BY <2>1, <2>2, <3>1, UdpFrame
    <3> QED
      BY <1>0, <2>1, <2>2, <3>1, <3>2 DEF TcpCounted
  <2>3. CASE mpc = "writeUdp"
    <3>1. /\ mpc' = "loop" /\ flag_udp' = mread - 1 /\ flag_tcp' = flag_tcp
          /\ "udp" \notin lost' => flag_udp = mread
      BY <1>4, <2>3 DEF WriteFlag, Lose
    <3>2. TcpCounted => TcpCounted'
      BY <2>1, <2>3, <3>1, TcpFrame
    <3> QED
      BY <1>0, <2>1, <2>3, <3>1, <3>2 DEF UdpCounted
  <2> QED
    BY <1>4, <2>2, <2>3 DEF WriteFlag
<1> QED
  BY <1>1, <1>2, <1>3, <1>4 DEF MainStep

\* A thread gives its place back.
LEMMA TcpCounts ==
  ASSUME TypeOK, NEW w \in TcpClient, TcpStep(w)
  PROVE  /\ TcpCounted /\ "tcp" \notin lost' => TcpCounted'
         /\ UdpCounted => UdpCounted'
<1>0. flag_tcp \in Int /\ Count(LiveTcp) \in Nat /\ tpc \in [TcpClient -> TcpPc]
  BY LiveFinite DEF TypeOK, MainTypeOK, ThreadTypeOK
<1>1. UNCHANGED <<mpc, flag_udp, upc>>
  BY DEF TcpStep, CallRecvTcp, RecvTcp, RecvTcpEnd, SendTcp, ReadFlagTcp, WriteFlagTcp, CloseTcp,
         mainVars, flagVars, udpVars
<1>2. UdpCounted => UdpCounted'
  BY <1>1, UdpFrame DEF LiveUdp
<1>3. CASE WriteFlagTcp(w)
  <2>1. /\ tpc[w] = "write" /\ tpc' = [tpc EXCEPT ![w] = "close"] /\ flag_tcp' = tread[w] + 1
        /\ "tcp" \notin lost' => flag_tcp = tread[w]
    BY <1>3 DEF WriteFlagTcp, GotoTcp, Lose
  <2>2. LiveTcp' = LiveTcp \ {w} /\ w \in LiveTcp
    BY <1>0, <2>1 DEF LiveTcp
  <2>3. Count(LiveTcp') = Count(LiveTcp) - 1
    BY <2>2, OneLess, LiveFinite
  <2> QED
    BY <1>0, <1>1, <1>2, <2>1, <2>3 DEF TcpCounted
<1>4. CASE ~WriteFlagTcp(w)
  <2>1. flag_tcp' = flag_tcp
    BY <1>4 DEF TcpStep, CallRecvTcp, RecvTcp, RecvTcpEnd, SendTcp, ReadFlagTcp, CloseTcp, flagVars
  <2>2. \/ /\ tpc[w] \in {"loop", "recv", "send", "read"}
           /\ \E pc \in {"loop", "recv", "send", "read", "write"} : tpc' = [tpc EXCEPT ![w] = pc]
        \/ tpc[w] = "close" /\ tpc' = [tpc EXCEPT ![w] = "exited"]
    BY <1>4 DEF TcpStep, CallRecvTcp, RecvTcp, RecvTcpEnd, SendTcp, ReadFlagTcp, CloseTcp, GotoTcp
  <2>3. LiveTcp' = LiveTcp
    BY <1>0, <2>2 DEF LiveTcp
  <2> QED
    BY <1>1, <1>2, <2>1, <2>3, TcpFrame
<1> QED
  BY <1>3, <1>4

LEMMA UdpCounts ==
  ASSUME TypeOK, NEW u \in UdpThread, UdpStep(u)
  PROVE  /\ UdpCounted /\ "udp" \notin lost' => UdpCounted'
         /\ TcpCounted => TcpCounted'
<1>0. flag_udp \in Int /\ Count(LiveUdp) \in Nat /\ upc \in [UdpThread -> UdpPc]
  BY LiveFinite DEF TypeOK, MainTypeOK, ThreadTypeOK
<1>1. UNCHANGED <<mpc, flag_tcp, tpc>>
  BY DEF UdpStep, CallRecvUdp, RecvUdp, CheckUdp, SendUdp, ReadFlagUdp, WriteFlagUdp,
         mainVars, flagVars, tcpVars
<1>2. TcpCounted => TcpCounted'
  BY <1>1, TcpFrame DEF LiveTcp
<1>3. CASE WriteFlagUdp(u)
  <2>1. /\ upc[u] = "write" /\ upc' = [upc EXCEPT ![u] = "none"] /\ flag_udp' = uread[u] + 1
        /\ "udp" \notin lost' => flag_udp = uread[u]
    BY <1>3 DEF WriteFlagUdp, GotoUdp, Lose
  <2>2. LiveUdp' = LiveUdp \ {u} /\ u \in LiveUdp
    BY <1>0, <2>1 DEF LiveUdp
  <2>3. Count(LiveUdp') = Count(LiveUdp) - 1
    BY <2>2, OneLess, LiveFinite
  <2> QED
    BY <1>0, <1>1, <1>2, <2>1, <2>3 DEF UdpCounted
<1>4. CASE ~WriteFlagUdp(u)
  <2>1. flag_udp' = flag_udp
    BY <1>4 DEF UdpStep, CallRecvUdp, RecvUdp, CheckUdp, SendUdp, ReadFlagUdp, flagVars
  <2>2. /\ upc[u] # "none"
        /\ \E pc \in UdpPc \ {"none"} : upc' = [upc EXCEPT ![u] = pc]
    BY <1>4 DEF UdpStep, CallRecvUdp, RecvUdp, CheckUdp, SendUdp, ReadFlagUdp, GotoUdp, UdpPc
  <2>3. LiveUdp' = LiveUdp
    BY <1>0, <2>2 DEF LiveUdp
  <2> QED
    BY <1>1, <1>2, <2>1, <2>3, UdpFrame
<1> QED
  BY <1>3, <1>4

\* Ctrl+C and the clients leave the counting to the threads.
LEMMA OthersCount ==
  ASSUME TypeOK, Interrupt \/ (UNCHANGED <<flag_tcp, flag_udp, mpc, tpc, upc>>)
  PROVE  (TcpCounted => TcpCounted') /\ (UdpCounted => UdpCounted')
<1>1. /\ UNCHANGED <<flag_tcp, flag_udp>>
      /\ mpc' = mpc \/ (mpc = "select" /\ mpc' = "loop")
  BY DEF Interrupt, InterruptMain, InterruptRunning, InterruptTcp, InterruptUdp, flagVars, mainVars
<1>2. LiveTcp' = LiveTcp
  BY DEF Interrupt, InterruptMain, InterruptRunning, InterruptTcp, InterruptUdp, GotoTcp, tcpVars, LiveTcp,
         TypeOK, ThreadTypeOK
<1>3. LiveUdp' = LiveUdp
  BY DEF Interrupt, InterruptMain, InterruptRunning, InterruptTcp, InterruptUdp, GotoUdp, udpVars, LiveUdp,
         TypeOK, ThreadTypeOK
<1> QED
  BY <1>1, <1>2, <1>3, TcpFrame, UdpFrame

LEMMA FlagsNext == TypeOK /\ QueueInv /\ FlagsCountThreads /\ [Next]_vars => FlagsCountThreads'
<1> SUFFICES ASSUME TypeOK, QueueInv, FlagsCountThreads, [Next]_vars PROVE FlagsCountThreads'
  OBVIOUS
<1>1. lost \subseteq lost'
  BY LostStays
<1>2. /\ TcpCounted /\ "tcp" \notin lost' => TcpCounted'
      /\ UdpCounted /\ "udp" \notin lost' => UdpCounted'
  <2>1. ASSUME UNCHANGED <<mainVars, tcpVars, udpVars, flagVars>>
        PROVE  (TcpCounted => TcpCounted') /\ (UdpCounted => UdpCounted')
    <3>1. UNCHANGED <<flag_tcp, flag_udp, mpc, tpc, upc>>
      BY <2>1 DEF mainVars, tcpVars, udpVars, flagVars
    <3> QED
      BY <3>1, OthersCount
  <2> QED
    BY <2>1, MainCounts, TcpCounts, UdpCounts, OthersCount DEF Next, vars, ClientKeeps
<1> QED
  BY <1>1, <1>2 DEF FlagsCountThreads

-----------------------------------------------------------------------------
(* One TCP session *)

LEMMA OneTcpNext == TypeOK /\ FlagsCountThreads /\ OneTcpSession /\ [Next]_vars => OneTcpSession'
<1> SUFFICES ASSUME TypeOK, FlagsCountThreads, OneTcpSession, [Next]_vars, "tcp" \notin lost'
             PROVE  \A v, w \in TcpClient : {tpc'[v], tpc'[w]} \subseteq {"loop", "recv", "send"} => v = w
  BY DEF OneTcpSession
<1>1. "tcp" \notin lost
  BY LostStays
<1>2. ASSUME \A w \in TcpClient : tpc'[w] \in {"loop", "recv", "send"} => tpc[w] \in {"loop", "recv", "send"}
      PROVE  \A v, w \in TcpClient : {tpc'[v], tpc'[w]} \subseteq {"loop", "recv", "send"} => v = w
  BY <1>1, <1>2 DEF OneTcpSession
<1>3. CASE UNCHANGED tpc
  BY <1>2, <1>3
<1>4. CASE TakeTcp
  <2>1. flag_tcp > 0 /\ mpc = "tcp" /\ flag_tcp = 1 - Count(LiveTcp) /\ tpc' = [tpc EXCEPT ![Head(mainq)] = "loop"]
    BY <1>1, <1>4, LiveFinite DEF TakeTcp, FlagsCountThreads, TcpCounted
  <2>2. LiveTcp = {}
    BY <2>1, LiveFinite
  <2>3. \A w \in TcpClient : tpc[w] \notin {"loop", "recv", "send"}
    BY <2>2 DEF LiveTcp
  <2> QED
    BY <2>1, <2>3 DEF TypeOK, ThreadTypeOK
<1>5. ASSUME NEW w \in TcpClient, TcpStep(w) \/ InterruptTcp(w)
      PROVE  \A v \in TcpClient : tpc'[v] \in {"loop", "recv", "send"} => tpc[v] \in {"loop", "recv", "send"}
  BY <1>5 DEF TcpStep, CallRecvTcp, RecvTcp, RecvTcpEnd, SendTcp, ReadFlagTcp, WriteFlagTcp, CloseTcp,
              InterruptTcp, GotoTcp, TypeOK, ThreadTypeOK
<1>6. CASE MainStep /\ ~TakeTcp
  <2>1. UNCHANGED tpc
    BY <1>6 DEF MainStep, MainLoop, Select, SkipTcp, SkipUdp, TakeUdp, ReadFlag, WriteFlag, Join,
                JoinGarbage, Return, tcpVars
  <2> QED
    BY <1>3, <2>1
<1>7. ASSUME NEW u \in UdpThread, UdpStep(u) PROVE UNCHANGED tpc
  BY <1>7 DEF UdpStep, CallRecvUdp, RecvUdp, CheckUdp, SendUdp, ReadFlagUdp, WriteFlagUdp, tcpVars
<1>8. CASE InterruptMain \/ InterruptRunning \/ \E u \in UdpThread : InterruptUdp(u)
  BY <1>3, <1>8 DEF InterruptMain, InterruptRunning, InterruptUdp, tcpVars
<1>9. CASE UNCHANGED vars \/ ClientKeeps
  BY <1>3, <1>9 DEF vars, ClientKeeps, tcpVars
<1> QED
  BY <1>2, <1>3, <1>4, <1>5, <1>6, <1>7, <1>8, <1>9 DEF Next, Interrupt

-----------------------------------------------------------------------------
(* The UDP session: steps of the server *)

\* What is at a UDP client and at the server's UDP socket stays as it was.
ClientSame(c) == /\ cpc'[c] = cpc[c] /\ cbuf'[c] = cbuf[c] /\ asked'[c] = asked[c]
                 /\ toCli'[c] = toCli[c]

LEMMA SessionFrame ==
  ASSUME UdpInv, UNCHANGED <<udpq, upc, ubuf, ph, is_client_connected, connected_client>>,
         flag' \in {flag, 0}, \A c \in UdpClient : ClientSame(c)
  PROVE  UdpInv'
<1>1. UdpThreadInv'
  BY DEF UdpInv, UdpThreadInv
<1>2. ASSUME NEW c \in UdpClient PROVE QuitInv(c)'
  BY DEF UdpInv, QuitInv, Queued, Held, Told, ClientSame
<1>3. ASSUME NEW c \in UdpClient PROVE ConnectedInv(c)'
  BY DEF UdpInv, ConnectedInv, InDialogue, Told, ClientSame
<1>4. ASSUME NEW c \in UdpClient \ Slow PROVE TurnInv(c)'
  BY DEF UdpInv, TurnInv, InDialogue, Queued, Held, Told, IsRequest, IsAnswer, ClientSame
<1> QED
  BY <1>1, <1>2, <1>3, <1>4 DEF UdpInv

\* A thread at work is the only one.
LEMMA Alone ==
  ASSUME UdpThreadInv, NEW u \in UdpThread, upc[u] # "none"
  PROVE  \A v \in UdpThread : v # u => upc[v] = "none"
  BY DEF UdpThreadInv

\* pthread_create, while no thread is left of the last session.
LEMMA TakeUdpInv ==
  ASSUME TypeOK, UdpInv, FlagsCountThreads, "udp" \notin lost, TakeUdp
  PROVE  UdpInv'
<1>1. PICK u \in UdpThread : upc' = [upc EXCEPT ![u] = "loop"]
  BY DEF TakeUdp
<1>2. /\ UNCHANGED <<udpq, toCli, cpc, cbuf, asked, flag, ubuf, is_client_connected, connected_client>>
      /\ ph' = None
  BY DEF TakeUdp, netVars, clientVars
<1>3. flag_udp > 0 /\ flag_udp = 1 - Count(LiveUdp)
  BY LiveFinite DEF TakeUdp, FlagsCountThreads, UdpCounted
<1>4. \A v \in UdpThread : upc[v] = "none"
  BY <1>3, LiveFinite DEF LiveUdp
<1>5. is_client_connected # 1
  BY <1>4 DEF UdpInv, UdpThreadInv, Serving
<1>6. \A v \in UdpThread : upc'[v] \in {"none", "loop"} /\ (upc'[v] # "none" => v = u)
  BY <1>1, <1>4 DEF TypeOK, ThreadTypeOK
<1>7. UdpThreadInv'
  BY <1>2, <1>5, <1>6 DEF UdpThreadInv, Serving, Holding
<1>8. \A c \in UdpClient : ~Held(c) /\ ~Held(c)'
  BY <1>4, <1>6 DEF Held, Holding
<1>9. ASSUME NEW c \in UdpClient PROVE QuitInv(c)'
  BY <1>2, <1>6, <1>8 DEF UdpInv, QuitInv, Queued, Told, Holding
<1>10. ASSUME NEW c \in UdpClient PROVE ConnectedInv(c)'
  BY <1>2, <1>5 DEF UdpInv, ConnectedInv, InDialogue, Told
<1>11. ASSUME NEW c \in UdpClient \ Slow PROVE TurnInv(c)'
  BY <1>2, <1>6, <1>8 DEF UdpInv, TurnInv, InDialogue, Queued, Told, IsRequest, IsAnswer
<1> QED
  BY <1>7, <1>9, <1>10, <1>11 DEF UdpInv

\* The thread goes on to another place where it holds no datagram.
LEMMA MoveInv ==
  ASSUME TypeOK, UdpInv, NEW u \in UdpThread, upc[u] \in {"loop", "recv", "read", "write"},
         NEW pc \in {"none", "recv", "read", "write"}, upc' = [upc EXCEPT ![u] = pc],
         UNCHANGED <<udpq, toCli, cpc, cbuf, asked, ubuf, ph, connected_client>>,
         flag' \in {flag, 0},
         \/ /\ upc[u] \in {"loop", "recv"} /\ is_client_connected' = is_client_connected
            /\ pc = "recv" \/ (pc = "read" /\ flag' = 0)
         \/ upc[u] = "read" /\ pc = "write" /\ is_client_connected' = 0
         \/ upc[u] = "write" /\ pc = "none" /\ is_client_connected' = is_client_connected
  PROVE  UdpInv'
<1>0. UdpThreadInv
  BY DEF UdpInv
<1>1. \A v \in UdpThread : v # u => upc[v] = "none"
  BY <1>0, Alone
<1>2. upc'[u] = pc /\ \A v \in UdpThread : v # u => upc'[v] = "none"
  BY <1>1 DEF TypeOK, ThreadTypeOK
<1>3. upc[u] = "write" => is_client_connected # 1
  BY <1>0, <1>1 DEF UdpThreadInv, Serving
<1>4. UdpThreadInv'
  BY <1>0, <1>2, <1>3 DEF UdpThreadInv, Serving, Holding
<1>5. \A v \in UdpThread : upc[v] \notin Holding /\ upc'[v] \notin Holding
  BY <1>1, <1>2 DEF Holding
<1>6. ASSUME NEW c \in UdpClient PROVE QuitInv(c)'
  BY <1>5 DEF UdpInv, QuitInv, Queued, Held, Told
<1>7. ASSUME NEW c \in UdpClient PROVE ConnectedInv(c)'
  <2> SUFFICES ASSUME flag' = 1, (InDialogue(c) \/ Told(c))'
               PROVE  /\ is_client_connected' = 1 /\ connected_client' = c
                      /\ \E v \in UdpThread : upc'[v] \in Serving
    BY DEF ConnectedInv
  <2>1. /\ is_client_connected = 1 /\ connected_client = c
        /\ \E v \in UdpThread : upc[v] \in Serving
    BY DEF UdpInv, ConnectedInv, InDialogue, Told
  <2>2. upc[u] \in Serving
    BY <1>1, <2>1 DEF Serving
  <2> QED
    BY <1>2, <2>1, <2>2 DEF Serving
<1>8. ASSUME NEW c \in UdpClient \ Slow PROVE TurnInv(c)'
  BY <1>5 DEF UdpInv, TurnInv, InDialogue, Queued, Held, Told, IsRequest, IsAnswer, Holding
<1> QED
  BY <1>4, <1>6, <1>7, <1>8 DEF UdpInv

\* recvfrom takes the first datagram out of the queue and into the buffer.
LEMMA RecvUdpInv ==
  ASSUME TypeOK, UdpInv, NEW u \in UdpThread, RecvUdp(u)
  PROVE  UdpInv'
<1> DEFINE D == [from : UdpClient, msg : Message]
           h == Head(udpq)
<1>0. UdpThreadInv /\ upc \in [UdpThread -> UdpPc] /\ ubuf \in [UdpThread -> Message]
  BY DEF UdpInv, TypeOK, ThreadTypeOK
<1>1. /\ udpq # <<>> /\ udpq \in Seq(D) /\ upc[u] = "recv" /\ upc' = [upc EXCEPT ![u] = "check"]
      /\ ph' = h.from /\ ubuf' = [ubuf EXCEPT ![u] = h.msg] /\ udpq' = Tail(udpq)
      /\ UNCHANGED <<toCli, cpc, cbuf, asked, flag, is_client_connected, connected_client>>
  BY DEF RecvUdp, GotoUdp, clientVars, TypeOK, NetTypeOK
<1> HIDE DEF D
<1>2. /\ h \in D /\ h = udpq[1] /\ 1 \in 1 .. Len(udpq)
      /\ \A i \in 1 .. Len(udpq') : i + 1 \in 1 .. Len(udpq) /\ i + 1 # 1 /\ udpq'[i] = udpq[i + 1]
  <2>1. /\ Head(udpq) \in D /\ Len(udpq) \in Nat /\ Len(udpq) > 0 /\ Head(udpq) = udpq[1]
        /\ \A i \in 1 .. Len(Tail(udpq)) :
             i + 1 \in 1 .. Len(udpq) /\ i + 1 # 1 /\ Tail(udpq)[i] = udpq[i + 1]
    BY <1>1, QueueHead
  <2> QED
    BY <1>1, <2>1
<1>3. h.from \in UdpClient
  BY <1>2 DEF D
<1> HIDE DEF h
<1>4. \A v \in UdpThread : v # u => upc[v] = "none" /\ upc'[v] = "none"
  BY <1>0, <1>1, Alone
<1>5. upc'[u] = "check" /\ ubuf'[u] = h.msg
  BY <1>0, <1>1
<1>6. UdpThreadInv'
  BY <1>0, <1>1, <1>3, <1>4, <1>5 DEF UdpThreadInv, Serving, Holding
<1>7. \A c \in UdpClient : /\ ~Held(c) /\ Held(c)' => h.from = c /\ Queued(c)
                           /\ Queued(c)' => Queued(c)
  BY <1>1, <1>2, <1>4, <1>5 DEF Held, Holding, Queued
<1>8. ASSUME NEW c \in UdpClient PROVE QuitInv(c)'
  <2>1. QuitInv(c)
    BY DEF UdpInv
  <2> QED
    BY <1>1, <1>2, <1>4, <1>5, <1>7, <2>1 DEF QuitInv, Told, Holding
<1>9. ASSUME NEW c \in UdpClient PROVE ConnectedInv(c)'
  <2>1. ConnectedInv(c)
    BY DEF UdpInv
  <2> QED
    BY <1>1, <1>5, <2>1 DEF ConnectedInv, InDialogue, Told, Serving
<1>10. ASSUME NEW c \in UdpClient \ Slow PROVE TurnInv(c)'
  <2>1. TurnInv(c)
    BY DEF UdpInv
  <2>2. UNCHANGED <<cpc, cbuf, asked, toCli>>
    BY <1>1
  <2>3. CASE cpc[c] \notin {"probing", "reply"}
    BY <1>7, <2>1, <2>2, <2>3 DEF TurnInv, InDialogue, Told
  <2>4. CASE cpc[c] \in {"probing", "reply"}
    <3>1. h.from = c => \A i \in 1 .. Len(udpq') : udpq'[i].from # c
      BY <1>2, <2>1, <2>4 DEF TurnInv
    <3>2. ~(Queued(c)' /\ Held(c)') /\ ~(Queued(c)' /\ Told(c)') /\ ~(Held(c)' /\ Told(c)')
      BY <1>7, <2>1, <2>2, <2>4, <3>1 DEF TurnInv, Told, Queued
    <3>3. \A i, j \in 1 .. Len(udpq') : udpq'[i].from = c /\ udpq'[j].from = c => i = j
      <4> SUFFICES ASSUME NEW i \in 1 .. Len(udpq'), NEW j \in 1 .. Len(udpq'),
                          udpq'[i].from = c, udpq'[j].from = c
                   PROVE  i = j
        OBVIOUS
      <4>1. i + 1 = j + 1
        BY <1>2, <2>1, <2>4 DEF TurnInv
      <4> QED
        BY <4>1
    <3>4. /\ Len(toCli[c])' <= 1
          /\ (\A i \in 1 .. Len(udpq) : udpq[i].from = c => IsRequest(c, udpq[i].msg))'
          /\ (\A i \in 1 .. Len(toCli[c]) : IsAnswer(c, toCli[c][i]))'
      BY <1>2, <2>1, <2>2, <2>4 DEF TurnInv, IsRequest, IsAnswer
    <3>5. ASSUME NEW v \in UdpThread, ph' = c
          PROVE  /\ upc'[v] = "check" => IsRequest(c, ubuf[v])'
                 /\ upc'[v] # "send"
      BY <1>1, <1>2, <1>4, <1>5, <2>1, <2>2, <2>4, <3>5 DEF TurnInv, IsRequest
    <3>6. /\ cpc'[c] \notin {"start", "probe", "chat", "ask"}
          /\ cpc'[c] \in {"probe", "probing"} => cbuf'[c].sign = PROBE
          /\ InDialogue(c)' => cbuf'[c].sign = DATA
      BY <2>1, <2>2, <2>4 DEF TurnInv, InDialogue
    <3> QED
      BY <3>2, <3>3, <3>4, <3>5, <3>6 DEF TurnInv
  <2> QED
    BY <2>3, <2>4
<1> QED
  BY <1>6, <1>8, <1>9, <1>10 DEF UdpInv

\* A reply ends a session exactly if the request did, and answers it.
LEMMA ReplyGoesOn ==
  ASSUME NEW m \in Message
  PROVE  /\ GoesOn(m) => GoesOn(Reply(m))
         /\ Reply(m).sign # QUIT
         /\ \A c : IsRequest(c, m) => IsAnswer(c, Reply(m))
  BY DEF GoesOn, Reply, Msg, Message, IsRequest, IsAnswer, DATA, QUIT, QUIT_ACK, PROBE, PROBE_ACK

\* The datagram is answered if it is the connected client's, or makes its
\* sender the connected client; else it is dropped.
LEMMA CheckUdpInv ==
  ASSUME TypeOK, UdpInv, NEW u \in UdpThread, CheckUdp(u)
  PROVE  UdpInv'
<1>0. /\ UdpThreadInv /\ upc \in [UdpThread -> UdpPc] /\ ubuf \in [UdpThread -> Message]
      /\ is_client_connected \in {0, 1}
  BY DEF UdpInv, TypeOK, ThreadTypeOK
<1>1. /\ upc[u] = "check"
      /\ UNCHANGED <<udpq, toCli, cpc, cbuf, asked, flag, ph>>
  BY DEF CheckUdp, netVars, clientVars
<1>2. \A v \in UdpThread : v # u => upc[v] = "none"
  BY <1>0, <1>1, Alone
<1>3. ph \in UdpClient
  BY <1>0, <1>1 DEF UdpThreadInv, Holding
<1>4. CASE is_client_connected = 1 /\ ph # connected_client
  <2>1. /\ upc' = [upc EXCEPT ![u] = "loop"]
        /\ UNCHANGED <<is_client_connected, connected_client>>
    BY <1>4 DEF CheckUdp, GotoUdp
  <2>2. upc'[u] = "loop" /\ \A v \in UdpThread : v # u => upc'[v] = "none"
    BY <1>0, <1>2, <2>1
  <2>3. UdpThreadInv'
    BY <1>0, <2>1, <2>2 DEF UdpThreadInv, Serving, Holding
  <2>4. \A v \in UdpThread : upc'[v] \notin Holding
    BY <2>2 DEF Holding
  <2>5. ASSUME NEW c \in UdpClient PROVE QuitInv(c)'
    BY <1>1, <2>4 DEF UdpInv, QuitInv, Queued, Held, Told
  <2>6. ASSUME NEW c \in UdpClient PROVE ConnectedInv(c)'
    BY <1>1, <2>1, <2>2 DEF UdpInv, ConnectedInv, InDialogue, Told, Serving
  <2>7. ASSUME NEW c \in UdpClient \ Slow PROVE TurnInv(c)'
    BY <1>1, <2>4 DEF UdpInv, TurnInv, InDialogue, Queued, Held, Told, IsRequest, IsAnswer, Holding
  <2> QED
    BY <2>3, <2>5, <2>6, <2>7 DEF UdpInv
<1>5. CASE ~(is_client_connected = 1 /\ ph # connected_client)
  <2>1. /\ upc' = [upc EXCEPT ![u] = "send"] /\ ubuf' = [ubuf EXCEPT ![u] = Reply(@)]
        /\ is_client_connected' = 1 /\ connected_client' = ph
    BY <1>5 DEF CheckUdp, GotoUdp
  <2>2. /\ upc'[u] = "send" /\ ubuf'[u] = Reply(ubuf[u]) /\ ubuf[u] \in Message
        /\ \A v \in UdpThread : v # u => upc'[v] = "none"
    BY <1>0, <1>2, <2>1
  <2>3. UdpThreadInv'
    BY <1>0, <1>1, <1>3, <2>1, <2>2 DEF UdpThreadInv, Serving, Holding
  <2>4. \A c \in UdpClient : /\ Held(c) <=> ph = c
                             /\ Held(c)' <=> ph = c
                             /\ Queued(c)' <=> Queued(c)
                             /\ Told(c)' <=> Told(c)
    BY <1>1, <2>2 DEF Held, Holding, Queued, Told
  <2>5. ASSUME NEW c \in UdpClient PROVE QuitInv(c)'
    <3>1. QuitInv(c)
      BY DEF UdpInv
    <3>2. ph = c /\ cpc[c] # "done" => GoesOn(Reply(ubuf[u]))
      BY <1>1, <2>2, <3>1, ReplyGoesOn DEF QuitInv, Holding
    <3> QED
      BY <1>1, <2>2, <2>4, <3>1, <3>2 DEF QuitInv, Holding
  <2>6. ASSUME NEW c \in UdpClient PROVE ConnectedInv(c)'
    <3>1. ConnectedInv(c)
      BY DEF UdpInv
    <3> QED
      BY <1>1, <1>5, <2>1, <2>2, <3>1 DEF ConnectedInv, InDialogue, Told, Serving
  <2>7. ASSUME NEW c \in UdpClient \ Slow PROVE TurnInv(c)'
    <3>1. TurnInv(c)
      BY DEF UdpInv
    <3>2. ASSUME ph = c, cpc[c] \in {"probing", "reply"} PROVE IsAnswer(c, Reply(ubuf[u]))
      <4>1. IsRequest(c, ubuf[u])
        BY <1>1, <3>1, <3>2 DEF TurnInv
      <4> QED
        BY <2>2, <4>1, ReplyGoesOn
    <3>3. cpc[c] \in {"probing", "reply"} =>
            (\A v \in UdpThread : ph = c => /\ upc[v] = "check" => IsRequest(c, ubuf[v])
                                            /\ upc[v] = "send" => IsAnswer(c, ubuf[v]))'
      BY <1>1, <2>2, <3>2 DEF IsAnswer
    <3> QED
      BY <1>1, <2>4, <3>1, <3>3 DEF TurnInv, InDialogue, IsRequest, IsAnswer
  <2> QED
    BY <2>3, <2>5, <2>6, <2>7 DEF UdpInv
<1> QED
  BY <1>4, <1>5

\* The answer goes to the connected client, if it is still there.
LEMMA SendUdpInv ==
  ASSUME TypeOK, UdpInv, NEW u \in UdpThread, SendUdp(u)
  PROVE  UdpInv'
<1>0. /\ UdpThreadInv /\ upc \in [UdpThread -> UdpPc] /\ ubuf \in [UdpThread -> Message]
      /\ toCli \in [Client -> Seq(Message)]
  BY DEF UdpInv, TypeOK, ThreadTypeOK, NetTypeOK
<1>1. /\ upc[u] = "send" /\ Answer(ph, ubuf[u])
      /\ upc' = [upc EXCEPT ![u] = IF ubuf[u].sign = QUIT_ACK THEN "read" ELSE "loop"]
      /\ UNCHANGED <<udpq, cpc, cbuf, asked, flag, ph, is_client_connected, connected_client>>
  BY DEF SendUdp, GotoUdp, clientVars
<1>2. \A v \in UdpThread : v # u => upc[v] = "none" /\ upc'[v] = "none"
  BY <1>0, <1>1, Alone
<1>3. ph \in UdpClient /\ is_client_connected = 1 /\ connected_client = ph
  BY <1>0, <1>1 DEF UdpThreadInv, Holding
<1>4. upc'[u] = IF ubuf[u].sign = QUIT_ACK THEN "read" ELSE "loop"
  BY <1>0, <1>1
<1>5. UdpThreadInv'
  BY <1>0, <1>1, <1>2, <1>4 DEF UdpThreadInv, Serving, Holding
<1>6. \A v \in UdpThread : upc'[v] \notin Holding
  BY <1>2, <1>4 DEF Holding
<1>7. Held(ph)
  BY <1>1 DEF Held, Holding
<1>8. cpc[ph] \notin {"start", "probe", "done"} => GoesOn(ubuf[u])
  BY <1>1, <1>3 DEF UdpInv, QuitInv, Holding
<1>9. /\ \A c \in UdpClient : c # ph => toCli'[c] = toCli[c]
      /\ cpc[ph] \in {"start", "done"} => toCli' = toCli
      /\ cpc[ph] \notin {"start", "done"} => toCli'[ph] = Append(toCli[ph], ubuf[u])
  BY <1>0, <1>1, <1>3, ClientFacts DEF Answer
<1>10. ph \in Client /\ toCli[ph] \in Seq(Message) /\ ubuf[u] \in Message
  BY <1>0, <1>3, ClientFacts
<1>11. /\ Len(toCli[ph]) \in Nat /\ Len(Append(toCli[ph], ubuf[u])) = Len(toCli[ph]) + 1
       /\ Append(toCli[ph], ubuf[u])[Len(toCli[ph]) + 1] = ubuf[u]
       /\ \A i \in 1 .. Len(toCli[ph]) : Append(toCli[ph], ubuf[u])[i] = toCli[ph][i]
  BY <1>10, AppendElements
<1>12. ASSUME NEW c \in UdpClient PROVE QuitInv(c)'
  <2>1. QuitInv(c)
    BY DEF UdpInv
  <2>2. \A i \in 1 .. Len(toCli'[c]) : GoesOn(toCli'[c][i])
    <3>1. CASE c # ph \/ cpc[ph] \in {"start", "done"}
      BY <1>9, <2>1, <3>1 DEF QuitInv
    <3>2. CASE c = ph /\ cpc[ph] \notin {"start", "done"}
      <4>1. cpc[ph] # "done" => GoesOn(ubuf[u])
        BY <1>1, <2>1, <3>2 DEF QuitInv, Holding
      <4>2. \A i \in 1 .. Len(toCli'[c]) : i \in 1 .. Len(toCli[c]) \/ i = Len(toCli[c]) + 1
        BY <1>9, <1>11, <3>2
      <4> QED
        BY <1>9, <1>11, <2>1, <3>2, <4>1, <4>2 DEF QuitInv
    <3> QED
      BY <3>1, <3>2
  <2>3. cpc'[c] \in {"start", "done"} => toCli'[c] = <<>>
    BY <1>1, <1>9, <2>1 DEF QuitInv, Told
  <2> QED
    BY <1>1, <1>6, <2>1, <2>2, <2>3 DEF QuitInv, Queued, Held, Told
<1>13. ASSUME NEW c \in UdpClient PROVE ConnectedInv(c)'
  <2> SUFFICES ASSUME flag = 1, InDialogue(c) \/ toCli'[c] # <<>>
               PROVE  connected_client = c /\ upc'[u] = "loop"
    BY <1>1, <1>3 DEF ConnectedInv, InDialogue, Told, Serving
  <2>1. ConnectedInv(c) /\ QuitInv(c)
    BY DEF UdpInv
  <2>2. connected_client = c
    BY <1>3, <1>9, <2>1 DEF ConnectedInv, Told
  <2>3. cpc[c] # "done"
    <3>1. ASSUME cpc[c] = "done" PROVE FALSE
      <4>1. ~InDialogue(c) /\ toCli[c] = <<>>
        BY <2>1, <3>1 DEF InDialogue, QuitInv, Told
      <4> QED
        BY <1>3, <1>9, <2>2, <3>1, <4>1
    <3> QED
      BY <3>1
  <2>4. GoesOn(ubuf[u])
    BY <1>1, <1>3, <2>1, <2>2, <2>3 DEF QuitInv, Holding
  <2> QED
    BY <1>4, <2>2, <2>4 DEF GoesOn
<1>14. ASSUME NEW c \in UdpClient \ Slow PROVE TurnInv(c)'
  <2>1. TurnInv(c)
    BY DEF UdpInv
  <2>2. ~Held(c)' /\ (Queued(c)' <=> Queued(c))
    BY <1>1, <1>6 DEF Held, Queued
  <2>3. CASE c # ph \/ cpc[c] \in {"start", "done"}
    <3>1. toCli'[c] = toCli[c]
      BY <1>9, <2>3
    <3> QED
      BY <1>1, <1>6, <2>1, <2>2, <3>1 DEF TurnInv, InDialogue, Told, IsRequest, IsAnswer, Holding
  <2>4. CASE c = ph /\ cpc[c] \notin {"start", "done"}
    <3>1. cpc[c] \in {"probing", "reply"}
      BY <1>7, <2>1, <2>4, ClientFacts DEF TurnInv, TypeOK, ClientTypeOK, ClientPc
    <3>2. toCli[c] = <<>> /\ ~Queued(c)
      BY <1>7, <2>1, <2>4, <3>1 DEF TurnInv, Told
    <3>3. IsAnswer(c, ubuf[u])
      BY <1>1, <2>1, <2>4, <3>1 DEF TurnInv
    <3>4. toCli'[c] = <<ubuf[u]>>
      <4>1. Append(<<>>, ubuf[u]) = <<ubuf[u]>>
        OBVIOUS
      <4> QED
        BY <1>9, <2>4, <3>2, <4>1
    <3>5. (\A i \in 1 .. Len(toCli[c]) : IsAnswer(c, toCli[c][i]))' /\ Len(toCli'[c]) <= 1
      BY <1>1, <3>3, <3>4 DEF IsAnswer
    <3> QED
      BY <1>1, <1>6, <2>1, <2>2, <3>1, <3>2, <3>5 DEF TurnInv, InDialogue, Queued, Holding
  <2> QED
    BY <2>3, <2>4
<1> QED
  BY <1>5, <1>12, <1>13, <1>14 DEF UdpInv

-----------------------------------------------------------------------------
(* The UDP session: steps of the clients *)

\* The queue grows by no more than one datagram of client c, with message m.
Grown(c, m) ==
  /\ \A i \in 1 .. Len(udpq) : i \in 1 .. Len(udpq') /\ udpq'[i] = udpq[i]
  /\ \A i \in 1 .. Len(udpq') :
       \/ i \in 1 .. Len(udpq)
       \/ i = Len(udpq) + 1 /\ udpq'[i].from = c /\ udpq'[i].msg = m

ServerSame == UNCHANGED <<upc, ubuf, ph, is_client_connected, connected_client, flag>>

LEMMA DeliverGrows ==
  ASSUME TypeOK, NEW c \in UdpClient, NEW m \in Message, Deliver(c, m)
  PROVE  Grown(c, m)
<1> DEFINE d == [from |-> c, msg |-> m]
           D == [from : UdpClient, msg : Message]
<1>1. udpq \in Seq(D) /\ d \in D /\ d.from = c /\ d.msg = m
  BY DEF TypeOK, NetTypeOK
<1>2. udpq' = udpq \/ udpq' = Append(udpq, d)
  BY DEF Deliver
<1> HIDE DEF d, D
<1>3. /\ Len(Append(udpq, d)) = Len(udpq) + 1 /\ Len(udpq) \in Nat
      /\ Append(udpq, d)[Len(udpq) + 1] = d
      /\ \A i \in 1 .. Len(udpq) : Append(udpq, d)[i] = udpq[i]
  BY <1>1, AppendElements
<1> QED
  BY <1>1, <1>2, <1>3 DEF Grown

\* What one client does changes nothing for the threads and the other clients.
LEMMA OtherClients ==
  ASSUME UdpInv, ServerSame, NEW c \in UdpClient, NEW m, Grown(c, m),
         \A d \in UdpClient \ {c} : ClientSame(d)
  PROVE  /\ UdpThreadInv'
         /\ \A d \in UdpClient \ {c} : QuitInv(d)' /\ ConnectedInv(d)'
         /\ \A d \in UdpClient \ ({c} \cup Slow) : TurnInv(d)'
<1>1. UdpThreadInv'
  BY DEF UdpInv, UdpThreadInv, ServerSame
<1>2. \A d \in UdpClient \ {c} : \A i \in 1 .. Len(udpq') :
        udpq'[i].from = d => i \in 1 .. Len(udpq) /\ udpq'[i] = udpq[i]
  BY DEF Grown
<1>3. ASSUME NEW d \in UdpClient \ {c}
      PROVE  /\ Queued(d)' => Queued(d)
             /\ Held(d)' <=> Held(d)
             /\ Told(d)' <=> Told(d)
  BY <1>2 DEF Queued, Held, Told, ServerSame, ClientSame
<1>4. ASSUME NEW d \in UdpClient \ {c} PROVE QuitInv(d)'
  <2>1. QuitInv(d)
    BY DEF UdpInv
  <2> QED
    BY <1>2, <1>3, <2>1 DEF QuitInv, ServerSame, ClientSame
<1>5. ASSUME NEW d \in UdpClient \ {c} PROVE ConnectedInv(d)'
  <2>1. ConnectedInv(d)
    BY DEF UdpInv
  <2> QED
    BY <1>3, <2>1 DEF ConnectedInv, InDialogue, ServerSame, ClientSame
<1>6. ASSUME NEW d \in UdpClient \ ({c} \cup Slow) PROVE TurnInv(d)'
  <2>1. TurnInv(d)
    BY DEF UdpInv
  <2>2. ClientSame(d)
    OBVIOUS
  <2> QED
    BY <1>2, <1>3, <2>1, <2>2 DEF TurnInv, InDialogue, IsRequest, IsAnswer, ServerSame, ClientSame
<1> QED
  BY <1>1, <1>4, <1>5, <1>6

\* A client comes into dialogue only with an answer in hand.
LEMMA OwnConnected ==
  ASSUME UdpInv, ServerSame, NEW c \in UdpClient,
         InDialogue(c)' \/ Told(c)' => InDialogue(c) \/ Told(c)
  PROVE  ConnectedInv(c)'
<1>1. ConnectedInv(c)
  BY DEF UdpInv
<1> QED
  BY <1>1 DEF ConnectedInv, ServerSame

\* The client's process ends, perhaps with a QUIT.
LEMMA EndsInv ==
  ASSUME TypeOK, UdpInv, ServerSame, NEW c \in UdpClient, Ends(c), NEW m, Grown(c, m)
  PROVE  UdpInv'
<1>1. c \in Client /\ cpc'[c] = "done" /\ cbuf'[c] = ZeroMsg /\ toCli'[c] = <<>>
  BY ClientFacts DEF Ends, TypeOK, ClientTypeOK, NetTypeOK
<1>2. \A d \in UdpClient \ {c} : ClientSame(d)
  BY DEF Ends, ClientSame
<1>3. QuitInv(c)'
  BY <1>1 DEF QuitInv, Told, GoesOn, ZeroMsg, Msg, DATA, QUIT, QUIT_ACK
<1>4. ConnectedInv(c)'
  BY <1>1 DEF ConnectedInv, InDialogue, Told
<1>5. TurnInv(c)'
  BY <1>1 DEF TurnInv, InDialogue
<1> QED
  BY <1>2, <1>3, <1>4, <1>5, OtherClients DEF UdpInv

\* The client sends a request, with nothing of its own on its way.
LEMMA SendsInv ==
  ASSUME TypeOK, UdpInv, ServerSame, NEW c \in UdpClient, NEW m \in Message, Grown(c, m), GoesOn(m),
         \A d \in UdpClient \ {c} : ClientSame(d), toCli' = toCli,
         cpc[c] \in {"probe", "chat"}, cpc'[c] = IF cpc[c] = "probe" THEN "probing" ELSE "reply",
         GoesOn(cbuf'[c]), cpc[c] = "chat" => cbuf'[c].sign = cbuf[c].sign,
         cpc[c] = "probe" => cbuf'[c] = cbuf[c],
         c \notin Slow => IsRequest(c, m)'
  PROVE  UdpInv'
<1>1. QuitInv(c) /\ (c \notin Slow => TurnInv(c))
  BY DEF UdpInv
<1>2. QuitInv(c)'
  BY <1>1 DEF QuitInv, ServerSame, Grown
<1>3. ConnectedInv(c)'
  BY OwnConnected DEF InDialogue, Told
<1>4. ASSUME c \notin Slow PROVE TurnInv(c)'
  <2>1. ~Queued(c) /\ ~Held(c) /\ ~Told(c)
    BY <1>1, <1>4 DEF TurnInv
  <2>2. ~Held(c)' /\ ~Told(c)'
    BY <2>1 DEF Held, Told, ServerSame
  <2>3. \A i \in 1 .. Len(udpq') : udpq'[i].from = c => i = Len(udpq) + 1 /\ udpq'[i].msg = m
    BY <2>1 DEF Grown, Queued
  <2>4. (\A i \in 1 .. Len(udpq) : udpq[i].from = c => IsRequest(c, udpq[i].msg))'
    BY <1>4, <2>3
  <2>5. /\ cpc'[c] \in {"probe", "probing"} => cbuf'[c].sign = PROBE
        /\ InDialogue(c)' => cbuf'[c].sign = DATA
    BY <1>1, <1>4 DEF TurnInv, InDialogue
  <2>6. toCli'[c] = <<>>
    BY <2>1 DEF Told
  <2>7. \A u \in UdpThread : ph' = c => upc'[u] \notin {"check", "send"}
    BY <2>2 DEF Held, Holding
  <2> QED
    BY <2>2, <2>3, <2>4, <2>5, <2>6, <2>7 DEF TurnInv
<1> QED
  BY <1>2, <1>3, <1>4, OtherClients DEF UdpInv

\* The client takes an answer, with nothing else of its own on its way.
LEMMA HearsInv ==
  ASSUME TypeOK, UdpInv, ServerSame, NEW c \in UdpClient, UNCHANGED <<udpq, asked>>,
         \A d \in UdpClient \ {c} : ClientSame(d),
         cpc[c] \in {"probing", "reply"}, Told(c), toCli'[c] = Tail(toCli[c]),
         GoesOn(cbuf'[c]),
         cpc'[c] \in {"chat", "probe", "ask"},
         c \notin Slow =>
           \/ cpc[c] = "probing" /\ (Head(toCli[c]).sign = PROBE_ACK => cpc'[c] = "chat" /\ cbuf'[c].sign = DATA)
           \/ cpc[c] = "reply" /\ cpc'[c] = "ask" /\ cbuf'[c] = Head(toCli[c])
  PROVE  UdpInv'
<1>1. QuitInv(c) /\ (c \notin Slow => TurnInv(c)) /\ toCli[c] \in Seq(Message) /\ toCli[c] # <<>>
  BY ClientFacts DEF UdpInv, Told, TypeOK, NetTypeOK
<1>2. /\ Head(toCli[c]) = toCli[c][1] /\ 1 \in 1 .. Len(toCli[c])
      /\ \A i \in 1 .. Len(toCli'[c]) : i + 1 \in 1 .. Len(toCli[c]) /\ toCli'[c][i] = toCli[c][i + 1]
  BY <1>1, QueueHead
<1>3. QuitInv(c)'
  BY <1>1, <1>2 DEF QuitInv, ServerSame, Queued, Held
<1>4. ConnectedInv(c)'
  BY OwnConnected
<1>5. ASSUME c \notin Slow PROVE TurnInv(c)'
  <2>1. /\ ~Queued(c) /\ ~Held(c) /\ Len(toCli[c]) <= 1 /\ IsAnswer(c, Head(toCli[c]))
    BY <1>1, <1>2, <1>5 DEF TurnInv
  <2>2. toCli'[c] = <<>>
    BY <1>1, <2>1, LastOne
  <2>3. ~Queued(c)' /\ ~Held(c)' /\ ~Told(c)'
    BY <2>1, <2>2 DEF Queued, Held, Told, ServerSame
  <2>4. CASE cpc[c] = "probing"
    <3>1. cpc'[c] = "chat" /\ cbuf'[c].sign = DATA
      BY <1>5, <2>1, <2>4 DEF IsAnswer
    <3> QED
      BY <2>3, <3>1 DEF TurnInv, InDialogue
  <2>5. CASE cpc[c] = "reply"
    <3>1. cpc'[c] = "ask" /\ cbuf'[c] = Msg(DATA, Pow3(asked'[c]))
      BY <1>5, <2>1, <2>5 DEF IsAnswer
    <3> QED
      BY <2>3, <3>1 DEF TurnInv, InDialogue, Msg
  <2> QED
    BY <2>4, <2>5
<1>6. Grown(c, ZeroMsg)
  BY DEF Grown
<1> QED
  BY <1>3, <1>4, <1>5, <1>6, OtherClients DEF UdpInv

\* Every step of a UDP client is one of these, or of its user alone.
LEMMA UdpClientInv ==
  ASSUME TypeOK, UdpInv, NEW c \in UdpClient, ClientStep(c) \/ UserStep(c), ClientKeeps
  PROVE  UdpInv'
<1>1. ServerSame /\ flag' = flag
  BY DEF ClientKeeps, udpVars, ServerSame
<1>2. /\ c \in Client /\ c \notin TcpClient /\ QuitInv(c) /\ (c \notin Slow => TurnInv(c))
      /\ DOMAIN cpc = Client /\ DOMAIN cbuf = Client /\ DOMAIN asked = Client /\ DOMAIN toCli = Client
      /\ cbuf[c] \in Message /\ toCli[c] \in Seq(Message)
  BY ClientFacts DEF UdpInv, TypeOK, ClientTypeOK, NetTypeOK
<1>3. /\ \A n \in Data : Msg(cbuf[c].sign, n) \in Message /\ Msg(cbuf[c].sign, n).sign = cbuf[c].sign
      /\ Msg(QUIT, cbuf[c].message) \in Message
  BY <1>2, UserAssumption DEF Msg, Message, QUIT
<1>4. ASSUME UNCHANGED udpq PROVE Grown(c, ZeroMsg)
  BY <1>4 DEF Grown
<1>5. CASE ProbeGivesUp(c) \/ AnswerFails(c) \/ AskBroken(c) \/ Kill(c)
  <2>1. Ends(c) /\ UNCHANGED udpq
    BY <1>5 DEF ProbeGivesUp, AnswerFails, AskBroken, Kill
  <2> QED
    BY <1>1, <1>4, <2>1, EndsInv
<1>6. CASE Quit(c)
  <2>1. Ends(c) /\ Deliver(c, Msg(QUIT, cbuf[c].message))
    BY <1>6 DEF Quit
  <2>2. Grown(c, Msg(QUIT, cbuf[c].message))
    BY <1>3, <2>1, DeliverGrows
  <2> QED
    BY <1>1, <2>1, <2>2, EndsInv
<1>7. CASE SendProbe(c)
  <2>1. PICK m \in Message : m = cbuf[c]
    BY <1>2
  <2>2. /\ cpc[c] = "probe" /\ Deliver(c, m) /\ cpc' = [cpc EXCEPT ![c] = "probing"]
        /\ UNCHANGED <<toCli, cbuf, asked>>
    BY <1>7, <2>1 DEF SendProbe, SendServer
  <2>3. Grown(c, m) /\ GoesOn(m) /\ GoesOn(cbuf'[c])
    BY <1>2, <2>1, <2>2, DeliverGrows DEF QuitInv
  <2>4. cpc'[c] = "probing" /\ \A d \in UdpClient \ {c} : ClientSame(d)
    BY <1>2, <2>2 DEF ClientSame
  <2>5. c \notin Slow => IsRequest(c, m)'
    BY <1>2, <2>1, <2>2, <2>4 DEF TurnInv, IsRequest
  <2> QED
    BY <1>1, <2>2, <2>3, <2>4, <2>5, SendsInv
<1>8. CASE Ask(c)
  <2>1. PICK n \in Data : /\ asked' = [asked EXCEPT ![c] = n]
                          /\ cbuf' = [cbuf EXCEPT ![c] = Msg(@.sign, n)]
                          /\ SendServer(c, Msg(cbuf[c].sign, n))
    BY <1>8 DEF Ask
  <2>2. PICK m \in Message : m = Msg(cbuf[c].sign, n)
    BY <1>3
  <2>3. /\ cpc[c] = "chat" /\ Deliver(c, m) /\ cpc' = [cpc EXCEPT ![c] = "reply"] /\ toCli' = toCli
    BY <1>8, <2>1, <2>2 DEF Ask, SendServer
  <2>4. /\ cpc'[c] = "reply" /\ cbuf'[c] = m /\ asked'[c] = n /\ m.sign = cbuf[c].sign
        /\ \A d \in UdpClient \ {c} : ClientSame(d)
    BY <1>2, <1>3, <2>1, <2>2, <2>3 DEF ClientSame
  <2>5. Grown(c, m) /\ GoesOn(m)
    BY <1>2, <2>3, <2>4, DeliverGrows DEF QuitInv, GoesOn
  <2>6. c \notin Slow => IsRequest(c, m)'
    BY <1>2, <2>2, <2>3, <2>4 DEF TurnInv, InDialogue, IsRequest
  <2> QED
    BY <1>1, <2>3, <2>4, <2>5, <2>6, SendsInv
<1>9. CASE RecvProbe(c)
  <2>1. /\ cpc[c] = "probing" /\ Told(c) /\ toCli' = [toCli EXCEPT ![c] = Tail(@)] /\ UNCHANGED <<udpq, asked>>
    BY <1>9 DEF RecvProbe, Told
  <2>2. /\ Head(toCli[c]) = toCli[c][1] /\ 1 \in 1 .. Len(toCli[c])
    BY <1>2, <2>1, QueueHead DEF Told
  <2>3. \/ /\ Head(toCli[c]).sign = PROBE_ACK
           /\ cbuf' = [cbuf EXCEPT ![c] = Msg(DATA, Head(toCli[c]).message)]
           /\ cpc' = [cpc EXCEPT ![c] = "chat"]
        \/ /\ Head(toCli[c]).sign # PROBE_ACK
           /\ cbuf' = [cbuf EXCEPT ![c] = Head(toCli[c])]
           /\ cpc' = [cpc EXCEPT ![c] = "probe"]
    BY <1>2, <1>9 DEF RecvProbe, NextTurn
  <2>4. /\ toCli'[c] = Tail(toCli[c]) /\ \A d \in UdpClient \ {c} : ClientSame(d)
    <3>1. PICK x, y : cbuf' = [cbuf EXCEPT ![c] = x] /\ cpc' = [cpc EXCEPT ![c] = y]
      BY <2>3
    <3> QED
      BY <1>2, <2>1, <3>1 DEF ClientSame
  <2>5. GoesOn(cbuf'[c]) /\ cpc'[c] \in {"chat", "probe"}
    BY <1>2, <2>2, <2>3 DEF QuitInv, GoesOn, Msg, DATA, QUIT, QUIT_ACK
  <2>6. Head(toCli[c]).sign = PROBE_ACK => cpc'[c] = "chat" /\ cbuf'[c].sign = DATA
    BY <1>2, <2>3 DEF Msg
  <2> QED
    BY <1>1, <2>1, <2>4, <2>5, <2>6, HearsInv
<1>10. CASE RecvAnswer(c)
  <2>1. /\ cpc[c] = "reply" /\ Told(c) /\ toCli' = [toCli EXCEPT ![c] = Tail(@)] /\ UNCHANGED <<udpq, asked>>
        /\ cbuf' = [cbuf EXCEPT ![c] = Head(toCli[c])] /\ cpc' = [cpc EXCEPT ![c] = "ask"]
    BY <1>10 DEF RecvAnswer, Told
  <2>2. /\ Head(toCli[c]) = toCli[c][1] /\ 1 \in 1 .. Len(toCli[c])
    BY <1>2, <2>1, QueueHead DEF Told
  <2>3. /\ toCli'[c] = Tail(toCli[c]) /\ cbuf'[c] = Head(toCli[c]) /\ cpc'[c] = "ask"
        /\ \A d \in UdpClient \ {c} : ClientSame(d)
    BY <1>2, <2>1 DEF ClientSame
  <2>4. GoesOn(cbuf'[c])
    BY <1>2, <2>2, <2>3 DEF QuitInv
  <2> QED
    BY <1>1, <2>1, <2>3, <2>4, HearsInv
<1>11. ASSUME UNCHANGED <<udpq, toCli>>, \A d \in UdpClient \ {c} : ClientSame(d),
              QuitInv(c)', ConnectedInv(c)', c \notin Slow => TurnInv(c)'
       PROVE  UdpInv'
  BY <1>1, <1>4, <1>11, OtherClients DEF UdpInv
<1>12. CASE StartUdp(c) \/ ProbeTimesOut(c) \/ Again(c)
  <2>1. /\ UNCHANGED <<udpq, toCli, asked>> /\ cpc[c] \in {"start", "probing", "ask"}
        /\ cpc' = [cpc EXCEPT ![c] = IF cpc[c] = "ask" THEN "chat" ELSE "probe"]
        /\ cbuf' = IF cpc[c] = "start" THEN [cbuf EXCEPT ![c] = Msg(PROBE, 0)] ELSE cbuf
        /\ cpc[c] = "probing" => c \in Slow
    BY <1>2, <1>12 DEF StartUdp, ProbeTimesOut, Again, NextTurn, TimesOut, netVars
  <2>2. /\ cpc'[c] = (IF cpc[c] = "ask" THEN "chat" ELSE "probe")
        /\ cbuf'[c] = (IF cpc[c] = "start" THEN Msg(PROBE, 0) ELSE cbuf[c])
        /\ \A d \in UdpClient \ {c} : ClientSame(d)
    BY <1>2, <2>1 DEF ClientSame
  <2>3. /\ Queued(c)' <=> Queued(c)
        /\ Held(c)' <=> Held(c)
        /\ Told(c)' <=> Told(c)
    BY <1>1, <2>1 DEF Queued, Held, Told, ServerSame
  <2>4. QuitInv(c)'
    BY <1>1, <1>2, <2>1, <2>2, <2>3 DEF QuitInv, ServerSame, GoesOn, Msg, PROBE, QUIT, QUIT_ACK
  <2>5. ConnectedInv(c)'
    BY <1>1, <2>1, <2>2, <2>3, OwnConnected DEF InDialogue
  <2>6. c \notin Slow => TurnInv(c)'
    BY <1>2, <2>1, <2>2, <2>3 DEF TurnInv, InDialogue, Msg
  <2> QED
    BY <1>11, <2>1, <2>2, <2>4, <2>5, <2>6
<1>13. ~RecvEofAsAnswer(c) /\ ~StartTcp(c)
  BY <1>2 DEF RecvEofAsAnswer, AtEof, StartTcp
<1> QED
  BY <1>5, <1>6, <1>7, <1>8, <1>9, <1>10, <1>12, <1>13 DEF ClientStep, UserStep

\* A TCP client has nothing to do with the UDP session.
LEMMA TcpClientInv ==
  ASSUME TypeOK, UdpInv, NEW c \in TcpClient, ClientStep(c) \/ UserStep(c), ClientKeeps
  PROVE  UdpInv'
<1>1. /\ UNCHANGED <<upc, ubuf, ph, is_client_connected, connected_client, flag>>
      /\ c \notin UdpClient
  BY ClientFacts DEF ClientKeeps, udpVars
<1>2. ASSUME NEW m, Deliver(c, m) PROVE udpq' = udpq
  BY <1>1, <1>2 DEF Deliver
<1>3. udpq' = udpq
  BY <1>1, <1>2 DEF ClientStep, UserStep, SendProbe, RecvProbe, ProbeTimesOut, ProbeGivesUp, RecvAnswer,
                    RecvEofAsAnswer, AnswerFails, StartTcp, StartUdp, Ask, AskBroken, Again, Quit, Kill,
                    SendServer, netVars
<1>4. /\ DOMAIN cpc = Client /\ DOMAIN cbuf = Client /\ DOMAIN asked = Client /\ DOMAIN toCli = Client
      /\ \A d \in UdpClient : d \in Client /\ d # c
  BY <1>1, ClientFacts DEF TypeOK, ClientTypeOK, NetTypeOK
<1>5. \A d \in UdpClient :
        /\ \A x : cpc' = [cpc EXCEPT ![c] = x] => cpc'[d] = cpc[d]
        /\ \A x : cbuf' = [cbuf EXCEPT ![c] = x] => cbuf'[d] = cbuf[d]
        /\ \A x : asked' = [asked EXCEPT ![c] = x] => asked'[d] = asked[d]
        /\ \A x : toCli' = [toCli EXCEPT ![c] = x] => toCli'[d] = toCli[d]
  BY <1>4
<1>6. \A d \in UdpClient : ClientSame(d)
  <2>1. CASE ProbeGivesUp(c) \/ AnswerFails(c) \/ AskBroken(c) \/ Kill(c) \/ Quit(c)
    <3>1. Ends(c)
      BY <2>1 DEF ProbeGivesUp, AnswerFails, AskBroken, Kill, Quit
    <3> QED
      BY <1>5, <3>1 DEF Ends, ClientSame
  <2>2. CASE SendProbe(c) \/ ProbeTimesOut(c) \/ RecvAnswer(c) \/ RecvEofAsAnswer(c)
    BY <1>5, <2>2 DEF SendProbe, ProbeTimesOut, RecvAnswer, RecvEofAsAnswer, NextTurn, netVars,
                      ClientSame
  <2>3. CASE RecvProbe(c)
    <3>1. PICK y : cbuf' = [cbuf EXCEPT ![c] = y]
      BY <2>3 DEF RecvProbe
    <3>2. PICK x : cpc' = [cpc EXCEPT ![c] = x]
      BY <2>3 DEF RecvProbe, NextTurn
    <3>3. asked' = asked /\ toCli' = [toCli EXCEPT ![c] = Tail(@)]
      BY <2>3 DEF RecvProbe
    <3> QED
      BY <1>5, <3>1, <3>2, <3>3 DEF ClientSame
  <2>4. CASE StartTcp(c) \/ StartUdp(c) \/ Again(c)
    BY <1>5, <2>4 DEF StartTcp, StartUdp, Again, netVars, ClientSame
  <2>5. CASE Ask(c)
    <3>1. PICK n \in Data : asked' = [asked EXCEPT ![c] = n] /\ cbuf' = [cbuf EXCEPT ![c] = Msg(@.sign, n)]
      BY <2>5 DEF Ask
    <3>2. cpc' = [cpc EXCEPT ![c] = "reply"] /\ toCli' = toCli
      BY <2>5 DEF Ask
    <3> QED
      BY <1>5, <3>1, <3>2 DEF ClientSame
  <2> QED
    BY <2>1, <2>2, <2>3, <2>4, <2>5 DEF ClientStep, UserStep
<1> QED
  BY <1>1, <1>3, <1>6, SessionFrame

-----------------------------------------------------------------------------
(* The inductive invariant *)

LEMMA InitInv == Init => IInv
<1> SUFFICES ASSUME Init PROVE IInv
  OBVIOUS
<1>1. QueueInv
  BY DEF Init, ClientInit, QueueInv
<1>2. FlagsCountThreads
  <2>1. LiveTcp = {} /\ LiveUdp = {}
    BY DEF Init, LiveTcp, LiveUdp
  <2>2. Count({}) = 0
    BY FS_EmptySet DEF Count
  <2> QED
    BY <2>1, <2>2 DEF Init, FlagsCountThreads, TcpCounted, UdpCounted
<1>3. OneTcpSession
  BY DEF Init, OneTcpSession
<1>4. UdpThreadInv
  BY DEF Init, UdpThreadInv, Holding
<1>5. ASSUME NEW c \in UdpClient PROVE QuitInv(c) /\ ConnectedInv(c) /\ TurnInv(c)
  <2>1. /\ cpc[c] = "start" /\ cbuf[c] = ZeroMsg /\ toCli[c] = <<>>
        /\ ~Queued(c) /\ ~Held(c) /\ ~Told(c) /\ udpq = <<>>
    BY ClientFacts DEF Init, ClientInit, Queued, Held, Told, Holding
  <2>2. GoesOn(cbuf[c]) /\ Len(udpq) = 0 /\ Len(toCli[c]) = 0
    BY <2>1 DEF GoesOn, ZeroMsg, Msg, DATA, QUIT, QUIT_ACK
  <2>3. QuitInv(c)
    BY <2>1, <2>2 DEF Init, QuitInv, Holding
  <2>4. ConnectedInv(c) /\ TurnInv(c)
    BY <2>1 DEF ConnectedInv, TurnInv, InDialogue
  <2> QED
    BY <2>3, <2>4
<1> QED
  BY <1>1, <1>2, <1>3, <1>4, <1>5, InitType DEF IInv, UdpInv

LEMMA MainUdp ==
  ASSUME TypeOK, FlagsCountThreads, "udp" \notin lost, UdpInv, MainStep
  PROVE  UdpInv'
<1>1. CASE TakeUdp
  BY <1>1, TakeUdpInv
<1>2. CASE ~TakeUdp
  <2>1. UNCHANGED <<udpq, toCli, clientVars, flag, udpVars>>
    BY <1>2 DEF MainStep, MainLoop, Select, SkipTcp, TakeTcp, SkipUdp, ReadFlag, WriteFlag, Join,
                JoinGarbage, Return, netVars
  <2> QED
    BY <2>1, SessionFrame DEF clientVars, udpVars, ClientSame
<1> QED
  BY <1>1, <1>2

LEMMA TcpUdp ==
  ASSUME TypeOK, UdpInv, NEW w \in TcpClient, TcpStep(w)
  PROVE  UdpInv'
<1>1. UNCHANGED <<udpq, clientVars, flag, udpVars>>
  BY DEF TcpStep, CallRecvTcp, RecvTcp, RecvTcpEnd, SendTcp, ReadFlagTcp, WriteFlagTcp, CloseTcp, netVars
<1>2. ASSUME NEW c \in UdpClient PROVE toCli'[c] = toCli[c]
  <2>1. CASE SendTcp(w)
    <3>1. client_fd_tcp # c /\ DOMAIN toCli = Client
      BY ClientFacts DEF TypeOK, MainTypeOK, NetTypeOK
    <3>2. toCli' = toCli \/ toCli' = [toCli EXCEPT ![client_fd_tcp] = Append(@, tbuf[w])]
      BY <2>1 DEF SendTcp, Answer
    <3> QED
      BY <3>1, <3>2, ClientFacts
  <2>2. CASE ~SendTcp(w)
    BY <2>2 DEF TcpStep, CallRecvTcp, RecvTcp, RecvTcpEnd, ReadFlagTcp, WriteFlagTcp, CloseTcp, netVars
  <2> QED
    BY <2>1, <2>2
<1>3. \A c \in UdpClient : ClientSame(c)
  BY <1>1, <1>2 DEF ClientSame, clientVars
<1> QED
  BY <1>1, <1>3, SessionFrame DEF udpVars

LEMMA UdpUdp ==
  ASSUME TypeOK, UdpInv, NEW u \in UdpThread, UdpStep(u)
  PROVE  UdpInv'
<1>1. CASE CallRecvUdp(u)
  <2>1. PICK pc \in {"recv", "read"} : /\ upc' = [upc EXCEPT ![u] = pc]
                                       /\ pc = "read" => flag # 1
    BY <1>1 DEF CallRecvUdp, GotoUdp
  <2>2. /\ upc[u] = "loop" /\ flag \in {0, 1}
        /\ UNCHANGED <<udpq, toCli, cpc, cbuf, asked, ubuf, ph, connected_client, flag, is_client_connected>>
    BY <1>1 DEF CallRecvUdp, netVars, clientVars, TypeOK, MainTypeOK
  <2> QED
    BY <2>1, <2>2, MoveInv
<1>2. CASE ReadFlagUdp(u)
  <2>1. /\ upc[u] = "read" /\ upc' = [upc EXCEPT ![u] = "write"] /\ is_client_connected' = 0
        /\ UNCHANGED <<udpq, toCli, cpc, cbuf, asked, ubuf, ph, connected_client, flag>>
    BY <1>2 DEF ReadFlagUdp, GotoUdp, netVars, clientVars
  <2> QED
    BY <2>1, MoveInv
<1>3. CASE WriteFlagUdp(u)
  <2>1. /\ upc[u] = "write" /\ upc' = [upc EXCEPT ![u] = "none"]
        /\ UNCHANGED <<udpq, toCli, cpc, cbuf, asked, ubuf, ph, connected_client, flag, is_client_connected>>
    BY <1>3 DEF WriteFlagUdp, GotoUdp, netVars, clientVars
  <2> QED
    BY <2>1, MoveInv
<1> QED
  BY <1>1, <1>2, <1>3, RecvUdpInv, CheckUdpInv, SendUdpInv DEF UdpStep

LEMMA InterruptUdpInv ==
  ASSUME TypeOK, UdpInv, Interrupt
  PROVE  UdpInv'
<1>1. ASSUME NEW u \in UdpThread, InterruptUdp(u) PROVE UdpInv'
  <2>1. /\ upc[u] = "recv" /\ upc' = [upc EXCEPT ![u] = "read"] /\ flag' = 0
        /\ UNCHANGED <<udpq, toCli, cpc, cbuf, asked, ubuf, ph, connected_client, is_client_connected>>
    BY <1>1 DEF InterruptUdp, Signal, GotoUdp, netVars, clientVars
  <2> QED
    BY <2>1, MoveInv
<1>2. CASE InterruptMain \/ InterruptRunning \/ \E w \in TcpClient : InterruptTcp(w)
  <2>1. flag' = 0 /\ UNCHANGED <<udpq, toCli, clientVars, udpVars>>
    BY <1>2 DEF InterruptMain, InterruptRunning, InterruptTcp, Signal, netVars
  <2> QED
    BY <2>1, SessionFrame DEF clientVars, udpVars, ClientSame
<1> QED
  BY <1>1, <1>2 DEF Interrupt

LEMMA UdpNext == TypeOK /\ FlagsCountThreads /\ "udp" \notin lost /\ UdpInv /\ [Next]_vars => UdpInv'
<1> SUFFICES ASSUME TypeOK, FlagsCountThreads, "udp" \notin lost, UdpInv, [Next]_vars PROVE UdpInv'
  OBVIOUS
<1>1. CASE UNCHANGED vars
  BY <1>1, SessionFrame DEF vars, netVars, clientVars, udpVars, ClientSame
<1>2. ASSUME NEW c \in Client, (ClientStep(c) \/ UserStep(c)) /\ ClientKeeps PROVE UdpInv'
  <2>1. c \in TcpClient \/ c \in UdpClient
    BY DEF Client
  <2> QED
    BY <1>2, <2>1, TcpClientInv, UdpClientInv
<1> QED
  BY <1>1, <1>2, MainUdp, TcpUdp, UdpUdp, InterruptUdpInv DEF Next

LEMMA NextInv == IInv /\ [Next]_vars => IInv'
<1> SUFFICES ASSUME IInv, [Next]_vars PROVE IInv'
  OBVIOUS
<1>1. TypeOK' /\ QueueInv' /\ FlagsCountThreads' /\ OneTcpSession'
  BY NextType, QueueNext, FlagsNext, OneTcpNext DEF IInv
<1>2. "udp" \notin lost' => UdpInv'
  BY LostStays, UdpNext DEF IInv
<1> QED
  BY <1>1, <1>2 DEF IInv

\* The parts of the server and its clients fit together in every reachable state.
THEOREM Invariance == Spec => []IInv
  BY InitInv, NextInv, PTL DEF Spec

-----------------------------------------------------------------------------
(* The properties *)

\* Every variable of the server, the network and the clients keeps its type:
\* a thread is in recv only with the descriptor of a connection.
THEOREM TypeCorrect == Spec => []TypeOK
<1>1. IInv => TypeOK
  BY DEF IInv
<1> QED
  BY <1>1, Invariance, PTL

\* flag_tcp and flag_udp, decremented by main() after pthread_create
\* (server.c:103, :113) and incremented by the threads (phread_tcp.c:58,
\* phread_udp.c:69) without a lock, count the sessions until an update is lost.
THEOREM FlagsAreCounts == Spec => []FlagsCountThreads
<1>1. IInv => FlagsCountThreads
  BY DEF IInv
<1> QED
  BY <1>1, Invariance, PTL

\* The one client_fd_tcp is used by one thread at a time until an update of
\* flag_tcp is lost (server.c:95-103).
THEOREM TcpServedAlone == Spec => []OneTcpSession
<1>1. IInv => OneTcpSession
  BY DEF IInv
<1> QED
  BY <1>1, Invariance, PTL

\* However the datagrams of other clients interleave with its own, a UDP
\* client in dialogue keeps its session (phread_udp.c:27-38).
THEOREM UdpSessionKept == Spec => []UdpDialogueIsConnected
<1>1. IInv => UdpDialogueIsConnected
  BY DEF IInv, UdpInv, ConnectedInv, UdpDialogueIsConnected, Serving
<1> QED
  BY <1>1, Invariance, PTL

\* A UDP client whose recv does not time out hears the cube of the number it
\* sent last, never the answer to another request (phread_udp.c:42-60,
\* client_udp.c:34).
THEOREM UdpAnswerCorrect == Spec => []UdpAnswerIsCube
<1>1. IInv => UdpAnswerIsCube
  BY DEF IInv, UdpInv, TurnInv, UdpAnswerIsCube
<1> QED
  BY <1>1, Invariance, PTL
=============================================================================
