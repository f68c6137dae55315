---------------------------- MODULE CubeClientProofs ----------------------------
(***************************************************************************)
(* Facts about the clients, their sockets and their messages, for every    *)
(* number of clients and entries: what the proofs of all the servers with  *)
(* threads rest on.                                                        *)
(***************************************************************************)
EXTENDS CubeClient, CubeProofs, FiniteSetTheorems, TLAPS

-----------------------------------------------------------------------------
(* Facts about the operators. *)

\* What a client sends first on its session socket is a message.
LEMMA FirstProbeType == ASSUME NEW m \in Message PROVE FirstProbe(m) \in Message
  BY DEF FirstProbe, Msg, Message, REDIRECT, PROBE

\* Entry 0 exists.
LEMMA SlotFacts == 0 \in Slot /\ Slot \subseteq Nat /\ LENGTH_CLIENT \in Nat
  BY LengthAssumption DEF Slot

-----------------------------------------------------------------------------
(* Types. *)

\* Steps that leave a group of variables alone keep its type.
LEMMA SocketKept ==
  ASSUME NEW X, SocketTypeOK(X), UNCHANGED netVars
  PROVE  SocketTypeOK(X)'
  BY DEF SocketTypeOK, netVars

LEMMA ClientKept == ClientTypeOK /\ UNCHANGED clientVars => ClientTypeOK'
  BY DEF ClientTypeOK, clientVars

\* A message appended to the queue of one client, if it reaches it.
LEMMA SendType ==
  ASSUME NEW c, NEW m \in Message, toCli \in [Client -> Seq(Message)],
         toCli' = toCli \/ toCli' = [toCli EXCEPT ![c] = Append(@, m)]
  PROVE  toCli' \in [Client -> Seq(Message)]
<1>1. CASE c \in Client
  <2>1. Append(toCli[c], m) \in Seq(Message)
    BY <1>1
  <2> QED
    BY <2>1
<1>2. CASE c \notin Client
  BY <1>2
<1> QED
  BY <1>1, <1>2

\* A client that ends, and a message it sends on its session socket.
LEMMA EndsType ==
  ASSUME NEW c \in Client, ClientTypeOK, toCli \in [Client -> Seq(Message)], Ends(c)
  PROVE  ClientTypeOK' /\ toCli' \in [Client -> Seq(Message)]
<1>1. ZeroMsg \in Message
  BY DEF ZeroMsg, Msg, Message, DATA
<1>2. LENGTH_CLIENT \in Int
  BY LengthAssumption
<1> QED
  BY <1>1, <1>2 DEF Ends, ClientTypeOK, ClientPc

LEMMA DeliverType ==
  ASSUME NEW c \in Client, NEW m \in Message, NEW p, NEW X, SocketTypeOK(X), Deliver(c, m, p)
  PROVE  /\ toSrv' \in [Client -> Seq(Message)]
         /\ dgrams' \in [X -> Seq([from : Client, msg : Message])]
<1>1. CASE c \in TcpClient
  <2>1. Append(toSrv[c], m) \in Seq(Message)
    BY DEF SocketTypeOK
  <2> QED
    BY <1>1, <2>1 DEF Deliver, SocketTypeOK
<1>2. CASE c \notin TcpClient
  <2> DEFINE D == [from : Client, msg : Message]
             d == [from |-> c, msg |-> m]
  <2>1. d \in D
    OBVIOUS
  <2>2. \A x \in X : dgrams[x] \in Seq(D)
    BY DEF SocketTypeOK
  <2>3. DOMAIN dgrams = X
    BY DEF SocketTypeOK
  <2>4. dgrams' = [x \in X |-> IF x \in UdpAt(p) THEN Append(dgrams[x], d) ELSE dgrams[x]]
    BY <1>2, <2>3 DEF Deliver
  <2> HIDE DEF D, d
  <2>5. \A x \in X : Append(dgrams[x], d) \in Seq(D)
    BY <2>1, <2>2
  <2>6. dgrams' \in [X -> Seq(D)]
    BY <2>2, <2>4, <2>5
  <2>7. toSrv' \in [Client -> Seq(Message)]
    BY <1>2 DEF Deliver, SocketTypeOK
  <2> QED
    BY <2>6, <2>7 DEF D
<1> QED
  BY <1>1, <1>2

\* What a client makes of the answer to its first message, real or not.
LEMMA FollowType ==
  ASSUME NEW c \in Client, NEW m \in Message, ClientTypeOK,
         toCli \in [Client -> Seq(Message)], Follow(c, m)
  PROVE  ClientTypeOK' /\ toCli' \in [Client -> Seq(Message)]
<1>1. CASE m.sign = LIMIT
  BY <1>1, EndsType DEF Follow
<1>2. CASE m.sign # LIMIT
  <2>1. toCli' \in [Client -> Seq(Message)]
    <3>1. toCli' = [toCli EXCEPT ![c] = <<>>]
      BY <1>2 DEF Follow
    <3>2. <<>> \in Seq(Message)
      OBVIOUS
    <3> QED
      BY <3>1, <3>2
  <2>2. ClientTypeOK'
    BY <1>2 DEF Follow, ClientTypeOK, ClientPc
  <2> QED
    BY <2>1, <2>2
<1> QED
  BY <1>1, <1>2

LEMMA ClientStepType ==
  ASSUME NEW X, SocketTypeOK(X), ClientTypeOK, NEW c \in Client, ClientStep(c)
  PROVE  SocketTypeOK(X)' /\ ClientTypeOK'
<1>0. toCli \in [Client -> Seq(Message)]
  BY DEF SocketTypeOK
<1>1. ASSUME toCli[c] # <<>>
      PROVE  Head(toCli[c]) \in Message /\ Tail(toCli[c]) \in Seq(Message)
  BY <1>0, <1>1, QueueHead
<1>2. CASE RecvRedirect(c)
  <2>1. ClientTypeOK' /\ toCli' \in [Client -> Seq(Message)]
    BY <1>0, <1>1, <1>2, FollowType DEF RecvRedirect
  <2> QED
    BY <1>2, <2>1 DEF RecvRedirect, SocketTypeOK
<1>3. CASE RecvRedirectFails(c)
  <2>1. PICK g \in Garbage : Follow(c, IF c \in TcpClient THEN g ELSE Msg(PROBE, g.message))
    BY <1>3 DEF RecvRedirectFails
  <2>2. g \in Message /\ Msg(PROBE, g.message) \in Message
    BY DataAssumption DEF Message, Msg, PROBE
  <2>3. (IF c \in TcpClient THEN g ELSE Msg(PROBE, g.message)) \in Message
    BY <2>2
  <2>4. ClientTypeOK' /\ toCli' \in [Client -> Seq(Message)]
    BY <1>0, <2>1, <2>3, FollowType
  <2> QED
    BY <1>3, <2>4 DEF RecvRedirectFails, SocketTypeOK
<1>4. CASE ConnectSessionTcp(c)
  <2>1. FirstProbe(cbuf[c]) \in Message /\ cbuf[c].message \in Int
    BY FirstProbeType DEF ClientTypeOK, Message
  <2>2. Deliver(c, FirstProbe(cbuf[c]), cbuf[c].message)
    BY <1>4 DEF ConnectSessionTcp, SendSession
  <2>3. /\ toSrv' \in [Client -> Seq(Message)]
        /\ dgrams' \in [X -> Seq([from : Client, msg : Message])]
    BY <2>1, <2>2, DeliverType
  <2>4. backlog' \in [X -> Seq(Client)]
    <3>1. PICK x \in DOMAIN sock : backlog' = [backlog EXCEPT ![x] = Append(@, c)]
      BY <1>4 DEF ConnectSessionTcp, SocketsAt
    <3>2. x \in X /\ Append(backlog[x], c) \in Seq(Client)
      BY DEF SocketTypeOK
    <3> QED
      BY <3>1, <3>2 DEF SocketTypeOK
  <2>5. SocketTypeOK(X)'
    BY <1>4, <2>3, <2>4 DEF ConnectSessionTcp, SocketTypeOK
  <2>6. refused' \in [Client -> BOOLEAN]
    BY <1>4 DEF ConnectSessionTcp, SendSession, ClientTypeOK
  <2>7. ClientTypeOK'
    BY <1>4, <2>1, <2>6 DEF ConnectSessionTcp, ClientTypeOK, ClientPc
  <2> QED
    BY <2>5, <2>7
<1>5. CASE ConnectSessionRefused(c)
  <2>1. ClientTypeOK' /\ toCli' \in [Client -> Seq(Message)]
    BY <1>0, <1>5, EndsType DEF ConnectSessionRefused
  <2> QED
    BY <1>5, <2>1 DEF ConnectSessionRefused, SocketTypeOK
<1>6. CASE ConnectSessionUdp(c)
  <2>1. FirstProbe(cbuf[c]) \in Message /\ cbuf[c].message \in Int
    BY FirstProbeType DEF ClientTypeOK, Message
  <2>2. Deliver(c, FirstProbe(cbuf[c]), cbuf[c].message)
    BY <1>6 DEF ConnectSessionUdp, SendSession
  <2>3. /\ toSrv' \in [Client -> Seq(Message)]
        /\ dgrams' \in [X -> Seq([from : Client, msg : Message])]
    BY <2>1, <2>2, DeliverType
  <2>4. SocketTypeOK(X)'
    BY <1>6, <2>3 DEF ConnectSessionUdp, SocketTypeOK
  <2>5. refused' \in [Client -> BOOLEAN]
    BY <1>6 DEF ConnectSessionUdp, SendSession, ClientTypeOK
  <2>6. ClientTypeOK'
    BY <1>6, <2>1, <2>5 DEF ConnectSessionUdp, ClientTypeOK, ClientPc
  <2> QED
    BY <2>4, <2>6
<1>7. CASE RecvProbeAck(c)
  <2>1. Head(toCli[c]) \in Message /\ Tail(toCli[c]) \in Seq(Message)
    BY <1>1, <1>7 DEF RecvProbeAck
  <2>2. Msg(DATA, Head(toCli[c]).message) \in Message
    BY <2>1 DEF Msg, Message, DATA
  <2>3. SocketTypeOK(X)'
    BY <1>7, <2>1 DEF RecvProbeAck, SocketTypeOK
  <2>4. ClientTypeOK'
    BY <1>7, <2>2 DEF RecvProbeAck, ClientTypeOK, ClientPc
  <2> QED
    BY <2>3, <2>4
<1>8. CASE RecvOtherAck(c)
  <2> DEFINE m == FirstProbe(Head(toCli[c]))
  <2>1. Head(toCli[c]) \in Message /\ Tail(toCli[c]) \in Seq(Message)
    BY <1>1, <1>8 DEF RecvOtherAck
  <2>2. m \in Message
    BY <2>1, FirstProbeType
  <2>3. Deliver(c, m, cport[c]) /\ cbuf' = [cbuf EXCEPT ![c] = m]
    BY <1>8 DEF RecvOtherAck, SendSession
  <2>4. refused' \in [Client -> BOOLEAN]
    BY <1>8 DEF RecvOtherAck, SendSession, ClientTypeOK
  <2> HIDE DEF m
  <2>5. /\ toSrv' \in [Client -> Seq(Message)]
        /\ dgrams' \in [X -> Seq([from : Client, msg : Message])]
    BY <2>2, <2>3, DeliverType
  <2>6. SocketTypeOK(X)'
    BY <1>8, <2>1, <2>5 DEF RecvOtherAck, SocketTypeOK
  <2>7. tries' \in [Client -> 0 .. 4]
    <3>1. tries[c] \in 0 .. 4 /\ tries[c] < 4
      BY <1>8 DEF RecvOtherAck, ClientTypeOK
    <3>2. tries[c] + 1 \in 0 .. 4
      BY <3>1
    <3>3. tries' = [tries EXCEPT ![c] = tries[c] + 1]
      BY <1>8 DEF RecvOtherAck
    <3> QED
      BY <3>2, <3>3 DEF ClientTypeOK
  <2>8. ClientTypeOK'
    BY <1>8, <2>2, <2>3, <2>4, <2>7 DEF RecvOtherAck, ClientTypeOK
  <2> QED
    BY <2>6, <2>8
<1>9. CASE ProbeTimesOut(c)
  <2>1. tries' \in [Client -> 0 .. 4]
    <3>1. tries[c] \in 0 .. 4 /\ tries[c] < 4
      BY <1>9 DEF ProbeTimesOut, ClientTypeOK
    <3>2. tries[c] + 1 \in 0 .. 4
      BY <3>1
    <3>3. tries' = [tries EXCEPT ![c] = tries[c] + 1]
      BY <1>9 DEF ProbeTimesOut
    <3> QED
      BY <3>2, <3>3 DEF ClientTypeOK
  <2>2. ClientTypeOK'
    BY <1>9, <2>1 DEF ProbeTimesOut, ClientTypeOK
  <2> QED
    BY <1>9, <2>2, SocketKept DEF ProbeTimesOut
<1>10. CASE ProbeGivesUp(c)
  <2>1. ClientTypeOK' /\ toCli' \in [Client -> Seq(Message)]
    BY <1>0, <1>10, EndsType DEF ProbeGivesUp
  <2> QED
    BY <1>10, <2>1 DEF ProbeGivesUp, SocketTypeOK
<1>11. CASE RecvAnswer(c)
  <2>1. Head(toCli[c]) \in Message /\ Tail(toCli[c]) \in Seq(Message)
    BY <1>1, <1>11 DEF RecvAnswer
  <2>2. SocketTypeOK(X)'
    BY <1>11, <2>1 DEF RecvAnswer, SocketTypeOK
  <2>3. ClientTypeOK'
    BY <1>11, <2>1 DEF RecvAnswer, ClientTypeOK, ClientPc
  <2> QED
    BY <2>2, <2>3
<1>12. CASE RecvEofAsAnswer(c)
  <2>1. ClientTypeOK'
    BY <1>12 DEF RecvEofAsAnswer, ClientTypeOK, ClientPc
  <2> QED
    BY <1>12, <2>1, SocketKept DEF RecvEofAsAnswer
<1>13. CASE AnswerFails(c)
  <2>1. ClientTypeOK' /\ toCli' \in [Client -> Seq(Message)]
    BY <1>0, <1>13, EndsType DEF AnswerFails
  <2> QED
    BY <1>13, <2>1 DEF AnswerFails, SocketTypeOK
<1> QED
  BY <1>2, <1>3, <1>4, <1>5, <1>6, <1>7, <1>8, <1>9, <1>10, <1>11, <1>12, <1>13 DEF ClientStep

LEMMA UserStepType ==
  ASSUME NEW X, SocketTypeOK(X), ClientTypeOK, NEW c \in Client, UserStep(c)
  PROVE  SocketTypeOK(X)' /\ ClientTypeOK'
<1>0. toCli \in [Client -> Seq(Message)]
  BY DEF SocketTypeOK
<1>1. \A p \in {"tcp", "udp"} : Append(mainq[p], c) \in Seq(Client)
  BY DEF SocketTypeOK
<1>2. CASE StartTcp(c)
  <2>1. SocketTypeOK(X)'
    BY <1>1, <1>2 DEF StartTcp, SocketTypeOK
  <2>2. ClientTypeOK'
    BY <1>2 DEF StartTcp, ClientTypeOK, ClientPc
  <2> QED
    BY <2>1, <2>2
<1>3. CASE StartUdp(c)
  <2>1. SocketTypeOK(X)'
    BY <1>1, <1>3 DEF StartUdp, SocketTypeOK
  <2>2. ClientTypeOK'
    BY <1>3 DEF StartUdp, ClientTypeOK, ClientPc
  <2> QED
    BY <2>1, <2>2
<1>4. CASE Ask(c)
  <2>1. PICK n \in Data :
          /\ asked' = [asked EXCEPT ![c] = n]
          /\ cbuf' = [cbuf EXCEPT ![c] = Msg(@.sign, n)]
          /\ SendSession(c, Msg(cbuf[c].sign, n), cport[c])
    BY <1>4 DEF Ask
  <2>2. n \in Int /\ Msg(cbuf[c].sign, n) \in Message
    BY DataAssumption DEF ClientTypeOK, Msg, Message
  <2>3. /\ toSrv' \in [Client -> Seq(Message)]
        /\ dgrams' \in [X -> Seq([from : Client, msg : Message])]
    BY <2>1, <2>2, DeliverType DEF SendSession
  <2>4. SocketTypeOK(X)'
    BY <1>4, <2>3 DEF Ask, SocketTypeOK
  <2>5. refused' \in [Client -> BOOLEAN]
    BY <2>1 DEF SendSession, ClientTypeOK
  <2>6. ClientTypeOK'
    BY <1>4, <2>1, <2>2, <2>5 DEF Ask, ClientTypeOK, ClientPc
  <2> QED
    BY <2>4, <2>6
<1>5. CASE Again(c)
  <2>1. ClientTypeOK'
    BY <1>5 DEF Again, ClientTypeOK, ClientPc
  <2> QED
    BY <1>5, <2>1, SocketKept DEF Again
<1>6. CASE Quit(c)
  <2>1. Msg(QUIT, cbuf[c].message) \in Message
    BY DEF ClientTypeOK, Msg, Message, QUIT
  <2>2. /\ toSrv' \in [Client -> Seq(Message)]
        /\ dgrams' \in [X -> Seq([from : Client, msg : Message])]
    BY <1>6, <2>1, DeliverType DEF Quit
  <2>3. ClientTypeOK' /\ toCli' \in [Client -> Seq(Message)]
    BY <1>0, <1>6, EndsType DEF Quit
  <2> QED
    BY <1>6, <2>2, <2>3 DEF Quit, SocketTypeOK
<1>7. CASE Kill(c)
  <2>1. ClientTypeOK' /\ toCli' \in [Client -> Seq(Message)]
    BY <1>0, <1>7, EndsType DEF Kill
  <2> QED
    BY <1>7, <2>1 DEF Kill, SocketTypeOK
<1>8. CASE AskBroken(c)
  <2>1. ClientTypeOK' /\ toCli' \in [Client -> Seq(Message)]
    BY <1>0, <1>8, EndsType DEF AskBroken
  <2> QED
    BY <1>8, <2>1 DEF AskBroken, SocketTypeOK
<1> QED
  BY <1>2, <1>3, <1>4, <1>5, <1>6, <1>7, <1>8 DEF UserStep

\* A client changes nothing of the server, and enters one of its queues at most.
LEMMA ClientFrame ==
  ASSUME NEW X, SocketTypeOK(X), NEW c \in Client, ClientStep(c) \/ UserStep(c)
  PROVE  /\ UNCHANGED <<server, accepted, sock, conn>>
         /\ \/ mainq' = mainq
            \/ mainq' = [mainq EXCEPT ![Proto(c)] = Append(@, c)]
         /\ \A p \in {"tcp", "udp"} : mainq[p] # <<>> => mainq'[p] # <<>>
<1>1. UNCHANGED <<server, accepted, sock, conn>>
  <2>1. CASE ClientStep(c)
    BY <2>1 DEF ClientStep, RecvRedirect, RecvRedirectFails, ConnectSessionTcp,
       ConnectSessionRefused, ConnectSessionUdp, RecvProbeAck, RecvOtherAck, ProbeTimesOut,
       ProbeGivesUp, RecvAnswer, RecvEofAsAnswer, AnswerFails, netVars
  <2>2. CASE UserStep(c)
    BY <2>2 DEF UserStep, StartTcp, StartUdp, Ask, AskBroken, Again, Quit, Kill, netVars
  <2> QED
    BY <2>1, <2>2
<1>2. mainq' = mainq \/ mainq' = [mainq EXCEPT ![Proto(c)] = Append(@, c)]
  <2>1. CASE ClientStep(c)
    BY <2>1 DEF ClientStep, RecvRedirect, RecvRedirectFails, ConnectSessionTcp,
       ConnectSessionRefused, ConnectSessionUdp, RecvProbeAck, RecvOtherAck, ProbeTimesOut,
       ProbeGivesUp, RecvAnswer, RecvEofAsAnswer, AnswerFails, netVars
  <2>2. CASE StartTcp(c) \/ StartUdp(c)
    BY <2>2, ClientAssumption DEF StartTcp, StartUdp, Proto
  <2>3. CASE UserStep(c) /\ ~StartTcp(c) /\ ~StartUdp(c)
    BY <2>3 DEF UserStep, Ask, AskBroken, Again, Quit, Kill, netVars
  <2> QED
    BY <2>1, <2>2, <2>3
<1>3. ASSUME NEW p \in {"tcp", "udp"}, mainq[p] # <<>> PROVE mainq'[p] # <<>>
  <2>1. mainq \in [{"tcp", "udp"} -> Seq(Client)] /\ Proto(c) \in {"tcp", "udp"}
    BY DEF SocketTypeOK, Proto
  <2>2. mainq'[p] = mainq[p] \/ mainq'[p] = Append(mainq[p], c)
    BY <1>2, <2>1
  <2>3. \A q \in Seq(Client) : Append(q, c) # <<>>
    OBVIOUS
  <2> QED
    BY <1>3, <2>1, <2>2, <2>3
<1> QED
  BY <1>1, <1>2, <1>3

-----------------------------------------------------------------------------
(* What a client's step changes for the serving sockets X and for the other *)
(* clients.                                                                 *)

\* Serving socket w may have got a connection or a datagram of c, no other thing.
MayReach(c, w) ==
  /\ \/ backlog'[w] = backlog[w]
     \/ backlog'[w] = Append(backlog[w], c) /\ sock[w].proto = "tcp"
  /\ \/ dgrams'[w] = dgrams[w]
     \/ /\ \E m : dgrams'[w] = Append(dgrams[w], [from |-> c, msg |-> m])
        /\ sock[w].proto = "udp"

\* Client c does something, and no other client does.
OnlyItself(c, X) ==
  /\ UNCHANGED <<sock, conn>>
  /\ \A d \in Client \ {c} :
       /\ cpc'[d] = cpc[d] /\ cbuf'[d] = cbuf[d] /\ cport'[d] = cport[d]
       /\ asked'[d] = asked[d] /\ toSrv'[d] = toSrv[d] /\ toCli'[d] = toCli[d]
  /\ \A w \in X : MayReach(c, w)

\* What the message a client sends on its session socket changes.
LEMMA DeliverEffect ==
  ASSUME NEW X, SocketTypeOK(X), NEW c \in Client, NEW m \in Message, NEW p, Deliver(c, m, p)
  PROVE  /\ \A d \in Client \ {c} : toSrv'[d] = toSrv[d]
         /\ toSrv'[c] = IF c \in TcpClient THEN Append(toSrv[c], m) ELSE toSrv[c]
         /\ \A w \in X :
              dgrams'[w] = IF server = "up" /\ c \notin TcpClient /\ sock[w] = Bound("udp", p)
                           THEN Append(dgrams[w], [from |-> c, msg |-> m]) ELSE dgrams[w]
<1>1. /\ toSrv \in [Client -> Seq(Message)] /\ DOMAIN dgrams = X /\ DOMAIN sock = X
  BY DEF SocketTypeOK
<1>2. CASE c \in TcpClient
  BY <1>1, <1>2 DEF Deliver
<1>3. CASE c \notin TcpClient
  <2>1. UdpAt(p) = {x \in X : server = "up" /\ sock[x] = Bound("udp", p)}
    BY <1>1 DEF UdpAt, SocketsAt
  <2> QED
    BY <1>1, <1>3, <2>1 DEF Deliver
<1> QED
  BY <1>2, <1>3

LEMMA DeliverReaches ==
  ASSUME NEW X, SocketTypeOK(X), NEW c \in Client, NEW m \in Message, NEW p, Deliver(c, m, p),
         NEW w \in X
  PROVE  \/ dgrams'[w] = dgrams[w]
         \/ /\ \E n : dgrams'[w] = Append(dgrams[w], [from |-> c, msg |-> n])
            /\ sock[w].proto = "udp"
<1>1. dgrams'[w] = IF server = "up" /\ c \notin TcpClient /\ sock[w] = Bound("udp", p)
                   THEN Append(dgrams[w], [from |-> c, msg |-> m]) ELSE dgrams[w]
  BY DeliverEffect
<1>2. Bound("udp", p).proto = "udp"
  BY DEF Bound
<1>3. CASE server = "up" /\ c \notin TcpClient /\ sock[w] = Bound("udp", p)
  <2>1. dgrams'[w] = Append(dgrams[w], [from |-> c, msg |-> m])
    BY <1>1, <1>3
  <2> QED
    BY <1>2, <1>3, <2>1
<1>4. CASE ~(server = "up" /\ c \notin TcpClient /\ sock[w] = Bound("udp", p))
  BY <1>1, <1>4
<1> QED
  BY <1>3, <1>4

\* The only request of a client that had none on its way.
LEMMA DeliverFirst ==
  ASSUME NEW X, SocketTypeOK(X), NEW c \in Client, NEW m \in Message, NEW p, Deliver(c, m, p),
         toSrv[c] = <<>>,
         \A w \in X : \A i \in 1 .. Len(dgrams[w]) : dgrams[w][i].from # c
  PROVE  /\ toSrv'[c] = IF c \in TcpClient THEN <<m>> ELSE <<>>
         /\ \A w \in X : \A i \in 1 .. Len(dgrams'[w]) : dgrams'[w][i].from = c =>
              /\ c \notin TcpClient /\ sock[w] = Bound("udp", p)
              /\ i = Len(dgrams[w]) + 1 /\ dgrams'[w][i].msg = m
<1>1. toSrv[c] = <<>> /\ \A w \in X : \A i \in 1 .. Len(dgrams[w]) : dgrams[w][i].from # c
  OBVIOUS
<1>2. toSrv'[c] = IF c \in TcpClient THEN <<m>> ELSE <<>>
  <2>1. toSrv'[c] = IF c \in TcpClient THEN Append(toSrv[c], m) ELSE toSrv[c]
    BY DeliverEffect
  <2>2. Append(<<>>, m) = <<m>>
    OBVIOUS
  <2> QED
    BY <1>1, <2>1, <2>2
<1>3. ASSUME NEW w \in X, NEW i \in 1 .. Len(dgrams'[w]), dgrams'[w][i].from = c
      PROVE  /\ c \notin TcpClient /\ sock[w] = Bound("udp", p)
             /\ i = Len(dgrams[w]) + 1 /\ dgrams'[w][i].msg = m
  <2> DEFINE D == [from : Client, msg : Message]
             e == [from |-> c, msg |-> m]
  <2>1. dgrams'[w] = IF server = "up" /\ c \notin TcpClient /\ sock[w] = Bound("udp", p)
                     THEN Append(dgrams[w], e) ELSE dgrams[w]
    BY DeliverEffect
  <2>2. dgrams[w] \in Seq(D) /\ e \in D /\ e.msg = m
    BY DEF SocketTypeOK
  <2> HIDE DEF D, e
  <2>3. i \in 1 .. Len(dgrams'[w]) /\ dgrams'[w][i].from = c
    BY <1>3
  <2>4. CASE server = "up" /\ c \notin TcpClient /\ sock[w] = Bound("udp", p)
    <3>1. /\ Len(dgrams'[w]) = Len(dgrams[w]) + 1 /\ Len(dgrams[w]) \in Nat
          /\ dgrams'[w][Len(dgrams[w]) + 1] = e
          /\ \A j \in 1 .. Len(dgrams[w]) : dgrams'[w][j] = dgrams[w][j]
      BY <2>1, <2>2, <2>4
    <3>2. i = Len(dgrams[w]) + 1
      BY <1>1, <2>3, <3>1
    <3> QED
      BY <2>2, <2>4, <3>1, <3>2
  <2>5. CASE ~(server = "up" /\ c \notin TcpClient /\ sock[w] = Bound("udp", p))
    BY <1>1, <2>1, <2>3, <2>5
  <2> QED
    BY <2>4, <2>5
<1> QED
  BY <1>2, <1>3

LEMMA ClientAlone ==
  ASSUME NEW X, SocketTypeOK(X), ClientTypeOK, NEW c \in Client,
         ClientStep(c) \/ UserStep(c)
  PROVE  OnlyItself(c, X)
<1> DEFINE Others == \A d \in Client \ {c} :
             /\ cpc'[d] = cpc[d] /\ cbuf'[d] = cbuf[d] /\ cport'[d] = cport[d]
             /\ asked'[d] = asked[d] /\ toSrv'[d] = toSrv[d] /\ toCli'[d] = toCli[d]
<1>0. /\ DOMAIN cpc = Client /\ DOMAIN cbuf = Client /\ DOMAIN cport = Client
      /\ DOMAIN asked = Client /\ DOMAIN toSrv = Client /\ DOMAIN toCli = Client
  BY DEF ClientTypeOK, SocketTypeOK
<1>1. ASSUME Ends(c)
      PROVE  \A d \in Client \ {c} :
               /\ cpc'[d] = cpc[d] /\ cbuf'[d] = cbuf[d] /\ cport'[d] = cport[d]
               /\ asked'[d] = asked[d] /\ toCli'[d] = toCli[d]
  BY <1>1 DEF Ends
<1>2. ASSUME NEW m, Follow(c, m)
      PROVE  \A d \in Client \ {c} :
               /\ cpc'[d] = cpc[d] /\ cbuf'[d] = cbuf[d] /\ cport'[d] = cport[d]
               /\ asked'[d] = asked[d] /\ toCli'[d] = toCli[d]
  <2>1. CASE m.sign = LIMIT
    BY <1>1, <1>2, <2>1 DEF Follow
  <2>2. CASE m.sign # LIMIT
    BY <1>0, <1>2, <2>2 DEF Follow
  <2> QED
    BY <2>1, <2>2
<1>3. ASSUME Others, UNCHANGED <<sock, backlog, dgrams, conn>> PROVE OnlyItself(c, X)
  BY <1>3 DEF OnlyItself, MayReach
<1>4. ASSUME NEW m \in Message, NEW p, Deliver(c, m, p),
             \A d \in Client \ {c} :
               /\ cpc'[d] = cpc[d] /\ cbuf'[d] = cbuf[d] /\ cport'[d] = cport[d]
               /\ asked'[d] = asked[d] /\ toCli'[d] = toCli[d],
             UNCHANGED <<sock, conn>>,
             \A w \in X : \/ backlog'[w] = backlog[w]
                          \/ backlog'[w] = Append(backlog[w], c) /\ sock[w].proto = "tcp"
      PROVE  OnlyItself(c, X)
  <2>1. \A d \in Client \ {c} : toSrv'[d] = toSrv[d]
    BY <1>4, DeliverEffect
  <2>2. \A w \in X : MayReach(c, w)
    BY <1>4, DeliverReaches DEF MayReach
  <2> QED
    BY <1>4, <2>1, <2>2 DEF OnlyItself
<1>5. /\ FirstProbe(cbuf[c]) \in Message /\ Msg(QUIT, cbuf[c].message) \in Message
      /\ \A n \in Data : Msg(cbuf[c].sign, n) \in Message
  BY FirstProbeType, DataAssumption DEF ClientTypeOK, Msg, Message, QUIT
<1> HIDE DEF Others
<1>6. CASE RecvRedirect(c) \/ RecvRedirectFails(c)
  <2>1. \E m : Follow(c, m)
    BY <1>6 DEF RecvRedirect, RecvRedirectFails
  <2>2. UNCHANGED <<sock, backlog, dgrams, conn, toSrv>>
    BY <1>6 DEF RecvRedirect, RecvRedirectFails
  <2> QED
    BY <1>2, <1>3, <2>1, <2>2 DEF Others
<1>7. CASE ConnectSessionTcp(c)
  <2>1. /\ Deliver(c, FirstProbe(cbuf[c]), cbuf[c].message)
        /\ UNCHANGED <<sock, conn, toCli, asked>>
        /\ cpc' = [cpc EXCEPT ![c] = "probing"]
        /\ cport' = [cport EXCEPT ![c] = cbuf[c].message]
        /\ cbuf' = [cbuf EXCEPT ![c] = FirstProbe(@)]
    BY <1>7 DEF ConnectSessionTcp, SendSession
  <2>2. PICK x \in X : /\ sock[x] = Bound("tcp", cbuf[c].message)
                       /\ backlog' = [backlog EXCEPT ![x] = Append(@, c)]
    BY <1>7 DEF ConnectSessionTcp, SocketsAt, SocketTypeOK
  <2>3. \A w \in X : \/ backlog'[w] = backlog[w]
                     \/ backlog'[w] = Append(backlog[w], c) /\ sock[w].proto = "tcp"
    BY <2>2 DEF Bound, SocketTypeOK
  <2>4. \A d \in Client \ {c} :
           /\ cpc'[d] = cpc[d] /\ cbuf'[d] = cbuf[d] /\ cport'[d] = cport[d]
           /\ asked'[d] = asked[d] /\ toCli'[d] = toCli[d]
    BY <2>1
  <2> QED
    BY <1>4, <1>5, <2>1, <2>3, <2>4
<1>8. CASE ConnectSessionUdp(c)
  <2>1. /\ Deliver(c, FirstProbe(cbuf[c]), cbuf[c].message)
        /\ UNCHANGED <<sock, backlog, conn, toCli, asked>>
        /\ cpc' = [cpc EXCEPT ![c] = "probing"]
        /\ cport' = [cport EXCEPT ![c] = cbuf[c].message]
        /\ cbuf' = [cbuf EXCEPT ![c] = FirstProbe(@)]
    BY <1>8 DEF ConnectSessionUdp, SendSession
  <2>2. \A d \in Client \ {c} :
           /\ cpc'[d] = cpc[d] /\ cbuf'[d] = cbuf[d] /\ cport'[d] = cport[d]
           /\ asked'[d] = asked[d] /\ toCli'[d] = toCli[d]
    BY <2>1
  <2> QED
    BY <1>4, <1>5, <2>1, <2>2
<1>9. CASE RecvOtherAck(c)
  <2>1. toCli[c] \in Seq(Message) /\ toCli[c] # <<>>
    BY <1>9 DEF RecvOtherAck, SocketTypeOK
  <2>2. PICK m \in Message : m = FirstProbe(Head(toCli[c]))
    BY <2>1, QueueHead, FirstProbeType
  <2>3. /\ Deliver(c, m, cport[c])
        /\ UNCHANGED <<sock, backlog, conn, cpc, cport, asked>>
        /\ cbuf' = [cbuf EXCEPT ![c] = m]
        /\ toCli' = [toCli EXCEPT ![c] = Tail(@)]
    BY <1>9, <2>2 DEF RecvOtherAck, SendSession
  <2>4. \A d \in Client \ {c} :
           /\ cpc'[d] = cpc[d] /\ cbuf'[d] = cbuf[d] /\ cport'[d] = cport[d]
           /\ asked'[d] = asked[d] /\ toCli'[d] = toCli[d]
    BY <2>3
  <2> QED
    BY <1>4, <2>3, <2>4
<1>10. CASE Ask(c)
  <2>1. PICK n \in Data :
          /\ asked' = [asked EXCEPT ![c] = n]
          /\ cbuf' = [cbuf EXCEPT ![c] = Msg(@.sign, n)]
          /\ Deliver(c, Msg(cbuf[c].sign, n), cport[c])
    BY <1>10 DEF Ask, SendSession
  <2>2. UNCHANGED <<sock, backlog, conn, toCli, cport>> /\ cpc' = [cpc EXCEPT ![c] = "reply"]
    BY <1>10 DEF Ask
  <2>3. \A d \in Client \ {c} :
           /\ cpc'[d] = cpc[d] /\ cbuf'[d] = cbuf[d] /\ cport'[d] = cport[d]
           /\ asked'[d] = asked[d] /\ toCli'[d] = toCli[d]
    BY <2>1, <2>2
  <2> QED
    BY <1>4, <1>5, <2>1, <2>2, <2>3
<1>11. CASE Quit(c)
  <2>1. /\ Deliver(c, Msg(QUIT, cbuf[c].message), cport[c]) /\ Ends(c)
        /\ UNCHANGED <<sock, backlog, conn>>
    BY <1>11 DEF Quit
  <2> QED
    BY <1>1, <1>4, <1>5, <2>1
<1>12. CASE \/ ConnectSessionRefused(c) \/ ProbeGivesUp(c) \/ AnswerFails(c)
            \/ AskBroken(c) \/ Kill(c)
  <2>1. Ends(c) /\ UNCHANGED <<sock, backlog, dgrams, conn, toSrv>>
    BY <1>12 DEF ConnectSessionRefused, ProbeGivesUp, AnswerFails, AskBroken, Kill
  <2> QED
    BY <1>1, <1>3, <2>1 DEF Others
<1>13. CASE RecvProbeAck(c) \/ RecvAnswer(c)
  <2>1. Others /\ UNCHANGED <<sock, backlog, dgrams, conn>>
    BY <1>0, <1>13 DEF RecvProbeAck, RecvAnswer, Others
  <2> QED
    BY <1>3, <2>1
<1>14. CASE ProbeTimesOut(c) \/ RecvEofAsAnswer(c) \/ Again(c)
  <2>1. Others /\ UNCHANGED <<sock, backlog, dgrams, conn>>
    BY <1>0, <1>14 DEF ProbeTimesOut, RecvEofAsAnswer, Again, netVars, Others
  <2> QED
    BY <1>3, <2>1
<1>15. CASE StartTcp(c) \/ StartUdp(c)
  <2>1. Others /\ UNCHANGED <<sock, backlog, dgrams, conn>>
    BY <1>0, <1>15 DEF StartTcp, StartUdp, Others
  <2> QED
    BY <1>3, <2>1
<1> QED
  BY <1>6, <1>7, <1>8, <1>9, <1>10, <1>11, <1>12, <1>13, <1>14, <1>15 DEF ClientStep, UserStep
=============================================================================
