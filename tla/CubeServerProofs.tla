---------------------------- MODULE CubeServerProofs ----------------------------
(***************************************************************************)
(* What PoolServerProofs and StackServerProofs share: the steps of         *)
(* CubeServer keep the types and SessionInv, for every number of clients,  *)
(* threads, descriptors and interrupts.                                    *)
(***************************************************************************)
EXTENDS CubeSession, CubeClientProofs

-----------------------------------------------------------------------------
(* Types. *)

LEMMA ServerInitType == ServerInit => ServerTypeOK /\ ClientTypeOK
<1> SUFFICES ASSUME ServerInit PROVE ServerTypeOK /\ ClientTypeOK
  OBVIOUS
<1> USE SlotFacts, MaxInterruptsAssumption, LengthAssumption
<1>1. ZeroMsg \in Message
  BY DEF ZeroMsg, Msg, Message, DATA
<1>2. NoRequest \in [from : Client \cup {None}, msg : Message]
  BY <1>1 DEF NoRequest
<1>3. ClientTypeOK
  BY <1>1 DEF ServerInit, ClientInit, ClientTypeOK, ClientPc
<1>4. SocketTypeOK(Slot)
  BY DEF ServerInit, SocketTypeOK, SocketState
<1>5. MainTypeOK
  BY DEF ServerInit, MainTypeOK
<1>6. ThreadTypeOK
  BY <1>2 DEF ServerInit, ThreadTypeOK
<1> QED
  BY <1>3, <1>4, <1>5, <1>6 DEF ServerTypeOK

\* Steps that leave a group of variables alone keep its type.
LEMMA NetKept == SocketTypeOK(Slot) /\ UNCHANGED netVars => SocketTypeOK(Slot)'
  BY SocketKept

LEMMA MainKept == MainTypeOK /\ UNCHANGED <<flag, interrupts, mainVars>> => MainTypeOK'
  BY DEF MainTypeOK, mainVars

LEMMA ThreadKept == ThreadTypeOK /\ UNCHANGED <<wpeer, wbuf>> => ThreadTypeOK'
  BY DEF ThreadTypeOK

LEMMA AllKept ==
  ServerTypeOK /\ ClientTypeOK /\ UNCHANGED <<netVars, clientVars, serverVars>>
    => ServerTypeOK' /\ ClientTypeOK'
  BY NetKept, MainKept, ThreadKept, ClientKept DEF ServerTypeOK, serverVars, threadVars

\* The client main() takes from a queue.
LEMMA TakeNextType ==
  ASSUME SocketTypeOK(Slot), TakeNext
  PROVE  /\ Head(mainq[Now]) \in Client
         /\ mainq' \in [{"tcp", "udp"} -> Seq(Client)]
         /\ accepted' \subseteq Client
<1>1. Now \in {"tcp", "udp"} /\ mainq[Now] \in Seq(Client) /\ mainq[Now] # <<>>
  BY DEF TakeNext, Now, SocketTypeOK
<1>2. Head(mainq[Now]) \in Client /\ Tail(mainq[Now]) \in Seq(Client)
  BY <1>1, QueueHead
<1>3. mainq' = [mainq EXCEPT ![Now] = Tail(@)]
  BY DEF TakeNext
<1>4. accepted' = accepted \/ (Now = "tcp" /\ accepted' = accepted \cup {Head(mainq[Now])})
  BY DEF TakeNext
<1> QED
  BY <1>1, <1>2, <1>3, <1>4 DEF SocketTypeOK

\* The steps of main() that both servers have.
LEMMA MainType ==
  ASSUME ServerTypeOK, ClientTypeOK, NEW end,
         MainLoop \/ Select(end) \/ Check \/ Refuse(end) \/ Join \/ Return \/ Fail
  PROVE  ServerTypeOK' /\ ClientTypeOK'
<1> USE DEF ServerTypeOK
<1>1. CASE MainLoop \/ Select(end) \/ Check
  <2>1. UNCHANGED <<netVars, clientVars, threadVars, flag, interrupts, flag_client, locked, join>>
    BY <1>1 DEF MainLoop, Select, Check
  <2>2. ready' \subseteq {"tcp", "udp"}
    BY <1>1 DEF MainLoop, Select, Check, MainTypeOK
  <2> QED
    BY <2>1, <2>2, NetKept, ClientKept, ThreadKept DEF MainTypeOK, threadVars
<1>2. CASE Refuse(end)
  <2> DEFINE c == Head(mainq[Now])
  <2>1. c \in Client /\ mainq' \in [{"tcp", "udp"} -> Seq(Client)] /\ accepted' \subseteq Client
    BY <1>2, TakeNextType DEF Refuse
  <2>2. Msg(LIMIT, 0) \in Message
    BY DEF Msg, Message, LIMIT
  <2>3. toCli' \in [Client -> Seq(Message)]
    BY <1>2, <2>2, SendType DEF Refuse, SendMain, SocketTypeOK
  <2>4. SocketTypeOK(Slot)'
    BY <1>2, <2>1, <2>3 DEF Refuse, SocketTypeOK
  <2>5. MainTypeOK'
    BY <1>2 DEF Refuse, NextBranch, MainTypeOK
  <2> QED
    BY <1>2, <2>4, <2>5, ClientKept, ThreadKept DEF Refuse, threadVars
<1>3. CASE Join
  <2>1. MainTypeOK'
    BY <1>3, LengthAssumption DEF Join, MainTypeOK
  <2> QED
    BY <1>3, <2>1, NetKept, ClientKept, ThreadKept DEF Join, threadVars
<1>4. CASE Return \/ Fail
  <2>1. /\ server' \in {"exited", "failed"}
        /\ UNCHANGED <<mainq, accepted, sock, backlog, dgrams, conn, toSrv, toCli,
                       clientVars, serverVars>>
    BY <1>4 DEF Return, Fail
  <2>2. SocketTypeOK(Slot)'
    BY <2>1 DEF SocketTypeOK
  <2> QED
    BY <2>1, <2>2, MainKept, ClientKept, ThreadKept DEF serverVars, threadVars
<1> QED
  BY <1>1, <1>2, <1>3, <1>4

\* The steps of a session.
LEMMA SessionType ==
  ASSUME ServerTypeOK, ClientTypeOK, NEW w \in Slot,
         wpeer[w] \in Client \/ ~RecvTcp(w),
         SessionTcp(w) \/ SessionUdp(w)
  PROVE  ServerTypeOK' /\ ClientTypeOK'
<1> USE DEF ServerTypeOK
<1>1. CASE CallRecv(w) \/ RecvTcpEnd(w)
  BY <1>1, NetKept, ClientKept, MainKept, ThreadKept DEF CallRecv, RecvTcpEnd, Proceed
<1>2. CASE RecvTcp(w)
  <2> DEFINE c == wpeer[w]
  <2>1. c \in Client
    BY <1>2
  <2>2. Head(toSrv[c]) \in Message /\ Tail(toSrv[c]) \in Seq(Message)
    BY <1>2, <2>1, QueueHead DEF RecvTcp, SocketTypeOK
  <2>3. [from |-> c, msg |-> Reply(Head(toSrv[c]))] \in [from : Client \cup {None}, msg : Message]
    BY <2>1, <2>2, ReplyType
  <2>4. SocketTypeOK(Slot)'
    BY <1>2, <2>1, <2>2 DEF RecvTcp, SocketTypeOK
  <2>5. ThreadTypeOK'
    BY <1>2, <2>3 DEF RecvTcp, ThreadTypeOK
  <2> QED
    BY <1>2, <2>4, <2>5, ClientKept, MainKept DEF RecvTcp
<1>3. CASE RecvUdp(w)
  <2> DEFINE d == Head(dgrams[w])
  <2>1. /\ d \in [from : Client, msg : Message]
        /\ Tail(dgrams[w]) \in Seq([from : Client, msg : Message])
    BY <1>3, QueueHead DEF RecvUdp, SocketTypeOK
  <2>2. [from |-> d.from, msg |-> Reply(d.msg)] \in [from : Client \cup {None}, msg : Message]
    BY <2>1, ReplyType
  <2>3. SocketTypeOK(Slot)'
    BY <1>3, <2>1 DEF RecvUdp, SocketTypeOK
  <2>4. ThreadTypeOK'
    <3>1. CASE SameClient(w, d.from)
      BY <1>3, <2>1, <2>2, <3>1 DEF RecvUdp, ThreadTypeOK
    <3>2. CASE ~SameClient(w, d.from)
      BY <1>3, <3>2 DEF RecvUdp, ThreadTypeOK
    <3> QED
      BY <3>1, <3>2
  <2> QED
    BY <1>3, <2>3, <2>4, ClientKept, MainKept DEF RecvUdp
<1>4. CASE Send(w)
  <2>1. wbuf[w].msg \in Message
    BY DEF ThreadTypeOK
  <2>2. toCli' \in [Client -> Seq(Message)]
    BY <1>4, <2>1, SendType DEF Send, SendClient, SocketTypeOK
  <2>3. SocketTypeOK(Slot)'
    BY <1>4, <2>2 DEF Send, SocketTypeOK
  <2>4. NoRequest \in [from : Client \cup {None}, msg : Message]
    BY DEF NoRequest, ZeroMsg, Msg, Message, DATA
  <2>5. ThreadTypeOK'
    BY <1>4, <2>4 DEF Send, ThreadTypeOK
  <2> QED
    BY <1>4, <2>3, <2>5, ClientKept, MainKept DEF Send
<1>5. CASE Close(w)
  <2>1. sock' \in [Slot -> SocketState]
    BY <1>5 DEF Close, SocketTypeOK, SocketState
  <2>2. SocketTypeOK(Slot)'
    <3>1. backlog' \in [Slot -> Seq(Client)]
      BY <1>5 DEF Close, SocketTypeOK
    <3> DEFINE D == [from : Client, msg : Message]
    <3>2. dgrams \in [Slot -> Seq(D)] /\ dgrams' = [dgrams EXCEPT ![w] = <<>>]
      BY <1>5 DEF Close, SocketTypeOK
    <3> HIDE DEF D
    <3>3. dgrams' \in [Slot -> Seq(D)]
      BY <3>2
    <3> QED
      BY <1>5, <2>1, <3>1, <3>3 DEF Close, SocketTypeOK, D
  <2>3. ThreadTypeOK'
    BY <1>5 DEF Close, ThreadTypeOK
  <2> QED
    BY <1>5, <2>2, <2>3, ClientKept, MainKept DEF Close
<1> QED
  BY <1>1, <1>2, <1>3, <1>4, <1>5 DEF SessionTcp, SessionUdp

\* Ctrl+C.
LEMMA SignalType ==
  Signal /\ MainTypeOK => flag' \in {0, 1} /\ interrupts' \in 0 .. MaxInterrupts
  BY MaxInterruptsAssumption DEF Signal, MainTypeOK

LEMMA InterruptType ==
  ASSUME ServerTypeOK, ClientTypeOK,
         InterruptMain \/ InterruptRunning \/ \E w \in Slot : InterruptRecv(w)
  PROVE  ServerTypeOK' /\ ClientTypeOK'
<1> USE DEF ServerTypeOK
<1>1. UNCHANGED <<netVars, clientVars, flag_client, locked, ready, join, wpeer, wbuf>> /\ Signal
  BY DEF InterruptMain, InterruptRunning, InterruptRecv, threadVars, mainVars
<1>2. MainTypeOK'
  BY <1>1, SignalType DEF MainTypeOK
<1> QED
  BY <1>1, <1>2, NetKept, ClientKept, ThreadKept

\* The clients.
LEMMA ClientsType ==
  ASSUME ServerTypeOK, ClientTypeOK, NEW c \in Client, ClientStep(c) \/ UserStep(c),
         UNCHANGED serverVars
  PROVE  ServerTypeOK' /\ ClientTypeOK'
<1>1. SocketTypeOK(Slot)' /\ ClientTypeOK'
  BY ClientStepType, UserStepType DEF ServerTypeOK
<1> QED
  BY <1>1, MainKept, ThreadKept DEF ServerTypeOK, serverVars, threadVars

\* At the start nobody has come to any thread.
LEMMA InitSession == ServerInit => LiveInv
<1> SUFFICES ASSUME ServerInit PROVE LiveInv
  OBVIOUS
<1>1. \A w \in Slot : /\ sock[w] = Closed /\ backlog[w] = <<>> /\ dgrams[w] = <<>>
                      /\ wpc[w] = "loop" /\ wpeer[w] = None /\ wbuf[w] = NoRequest
  BY DEF ServerInit
<1>2. \A c \in Client : cpc[c] = "start" /\ toSrv[c] = <<>> /\ toCli[c] = <<>>
  BY DEF ServerInit, ClientInit
<1>3. PortInv /\ \A w \in Slot : ThreadInv(w)
  BY <1>1 DEF PortInv, ThreadInv, OpenPc, InDialogue, NoRequest
<1>4. ASSUME NEW c \in Client PROVE ClientInv(c)
  <2>1. c # None
    BY ClientAssumption DEF Client
  <2>2. \A w \in Slot : ~Reached(c, w)
    BY <1>1, <2>1 DEF Reached, HasDatagram
  <2>3. PlaceInv(c) /\ TurnInv(c) /\ ContentInv(c) /\ ConnInv(c) /\ ServedInv(c)
    BY <1>1, <1>2, <2>1, <2>2
       DEF PlaceInv, TurnInv, ContentInv, ConnInv, ServedInv, Told, AtSession, Talking
  <2> QED
    BY <2>3 DEF ClientInv
<1> QED
  BY <1>3, <1>4 DEF LiveInv

-----------------------------------------------------------------------------
(* Sessions: what a step may do to a client's session without touching it. *)

\* The client itself stays where it is; main() may write to it.
SameClientState(c) ==
  /\ cpc'[c] = cpc[c] /\ cbuf'[c] = cbuf[c] /\ cport'[c] = cport[c]
  /\ asked'[c] = asked[c] /\ toSrv'[c] = toSrv[c]
  /\ toCli'[c] = toCli[c] \/ AtMain(c) \/ cpc[c] = "done"

\* The datagrams of c at thread w are old ones, k places further to the front.
OldDatagrams(c, w) ==
  \E k \in Nat : \A i \in 1 .. Len(dgrams'[w]) :
    HasDatagram(c, w, i)' => HasDatagram(c, w, i + k) /\ dgrams'[w][i] = dgrams[w][i + k]

\* Thread w has nothing new of c.
NothingNew(c, w) ==
  /\ OldDatagrams(c, w)
  /\ wbuf'[w].from = c => wbuf'[w] = wbuf[w]
  /\ wpeer'[w] = c => Reached(c, w)
  /\ \A i \in 1 .. Len(backlog'[w]) : backlog'[w][i] = c => Reached(c, w)
  /\ Reached(c, w)' => sock'[w] = sock[w]

\* A thread in dialogue with c stays so, unless the server is going down.
StaysServed(c) ==
  flag' = 1 /\ AtSession(c) =>
               /\ flag = 1
               /\ \A w \in Slot : wpeer[w] = c /\ wpc[w] \in InDialogue
                                    => wpeer'[w] = c /\ wpc'[w] \in InDialogue

\* The server has a connection of c if a thread has.
StaysConnected(c) ==
  /\ conn \subseteq conn'
  /\ \A w \in Slot : wpeer'[w] = c => wpeer[w] = c \/ \E p \in Slot : <<c, p>> \in conn'

Untouched(c) == /\ SameClientState(c) /\ StaysServed(c) /\ StaysConnected(c)
                /\ \A w \in Slot : NothingNew(c, w)

LEMMA NothingNewReached ==
  ASSUME NEW c, NEW w, NothingNew(c, w)
  PROVE  Reached(c, w)' => Reached(c, w) /\ sock'[w] = sock[w]
<1> SUFFICES ASSUME Reached(c, w)' PROVE Reached(c, w)
  BY DEF NothingNew
<1>1. CASE wpeer'[w] = c
  BY <1>1 DEF NothingNew
<1>2. CASE \E i \in 1 .. Len(backlog'[w]) : backlog'[w][i] = c
  BY <1>2 DEF NothingNew
<1>3. CASE \E i \in 1 .. Len(dgrams'[w]) : HasDatagram(c, w, i)'
  <2>1. PICK k \in Nat : \A i \in 1 .. Len(dgrams'[w]) :
          HasDatagram(c, w, i)' => HasDatagram(c, w, i + k)
    BY DEF NothingNew, OldDatagrams
  <2>2. \E j : HasDatagram(c, w, j)
    BY <1>3, <2>1
  <2> QED
    BY <2>2 DEF Reached, HasDatagram
<1> QED
  BY <1>1, <1>2, <1>3 DEF Reached

LEMMA PlaceFrame ==
  ASSUME NEW c, PlaceInv(c), cpc'[c] = cpc[c], cport'[c] = cport[c],
         \A w \in Slot : Reached(c, w)' => Reached(c, w) /\ sock'[w] = sock[w]
  PROVE  PlaceInv(c)'
  BY DEF PlaceInv, Before, AtSession

\* A client that a step does not touch keeps its part of the invariant.
LEMMA UntouchedInv ==
  ASSUME NEW c \in Client, ClientInv(c), Untouched(c)
  PROVE  ClientInv(c)'
<1> USE DEF ClientInv
<1>0. /\ cpc'[c] = cpc[c] /\ cbuf'[c] = cbuf[c] /\ cport'[c] = cport[c]
      /\ asked'[c] = asked[c] /\ toSrv'[c] = toSrv[c]
      /\ toCli'[c] = toCli[c] \/ cpc[c] \in {"await", "done"}
  BY DEF Untouched, SameClientState, AtMain
<1>1. PlaceInv(c)'
  <2>1. \A w \in Slot : Reached(c, w)' => Reached(c, w) /\ sock'[w] = sock[w]
    BY NothingNewReached DEF Untouched
  <2> QED
    BY <1>0, <2>1, PlaceFrame
<1>2. ASSUME NEW w \in Slot
      PROVE  /\ \A i \in 1 .. Len(dgrams'[w]) : HasDatagram(c, w, i)' =>
                  \E j \in 1 .. Len(dgrams[w]) :
                    HasDatagram(c, w, j) /\ dgrams'[w][i] = dgrams[w][j]
             /\ wbuf'[w].from = c => wbuf'[w] = wbuf[w]
  <2>1. OldDatagrams(c, w) /\ (wbuf'[w].from = c => wbuf'[w] = wbuf[w])
    BY DEF Untouched, NothingNew
  <2>2. \A i \in 1 .. Len(dgrams'[w]) : HasDatagram(c, w, i)' =>
          \E j : HasDatagram(c, w, j) /\ dgrams'[w][i] = dgrams[w][j]
    BY <2>1 DEF OldDatagrams
  <2> QED
    BY <2>1, <2>2 DEF HasDatagram
<1>3. TurnInv(c)'
  <2>1. (Asks(c)' => Asks(c)) /\ (Taken(c)' => Taken(c))
    BY <1>0, <1>2 DEF Asks, Taken
  <2>2. ASSUME AtSession(c), NEW w \in Slot,
               NEW i \in 1 .. Len(dgrams'[w]), NEW j \in 1 .. Len(dgrams'[w]),
               HasDatagram(c, w, i)', HasDatagram(c, w, j)'
        PROVE  i = j
    <3>1. PICK k \in Nat : HasDatagram(c, w, i + k) /\ HasDatagram(c, w, j + k)
      BY <2>2 DEF Untouched, NothingNew, OldDatagrams
    <3>2. i + k \in 1 .. Len(dgrams[w]) /\ j + k \in 1 .. Len(dgrams[w])
      BY <3>1 DEF HasDatagram
    <3>3. i + k = j + k
      BY <2>2, <3>1, <3>2 DEF TurnInv
    <3> QED
      BY <3>3
  <2>3. AtSession(c)' => AtSession(c) /\ toCli'[c] = toCli[c]
    BY <1>0 DEF AtSession
  <2> QED
    BY <1>0, <2>1, <2>2, <2>3 DEF TurnInv, Told, Before, AtSession
<1>4. ContentInv(c)'
  <2>1. CASE cpc[c] = "reply"
    <3>1. toCli'[c] = toCli[c]
      BY <1>0, <2>1
    <3> QED
      BY <1>0, <1>2, <2>1, <3>1 DEF ContentInv, Talking, IsRequest, IsAnswer
  <2>2. CASE cpc[c] # "reply"
    BY <1>0, <2>2 DEF ContentInv, Talking
  <2> QED
    BY <2>1, <2>2
<1>5. ConnInv(c)'
  <2>1. StaysConnected(c)
    BY DEF Untouched
  <2> QED
    BY <1>0, <2>1 DEF ConnInv, StaysConnected, AtSession, Talking, Told
<1>6. ServedInv(c)'
  <2>1. StaysServed(c)
    BY DEF Untouched
  <2> QED
    BY <1>0, <2>1 DEF ServedInv, StaysServed, Talking, Told, AtSession
<1> QED
  BY <1>1, <1>3, <1>4, <1>5, <1>6

-----------------------------------------------------------------------------
(* Steps outside the sessions, and the opening of a serving socket. *)

\* A thread none of whose queues changes has nothing new of any client.
LEMMA QuietThread ==
  ASSUME NEW c, NEW w, backlog'[w] = backlog[w], dgrams'[w] = dgrams[w],
         wpeer'[w] = wpeer[w], wbuf'[w] = wbuf[w]
  PROVE  /\ Reached(c, w)' <=> Reached(c, w)
         /\ sock'[w] = sock[w] \/ ~Reached(c, w) => NothingNew(c, w)
<1>1. Reached(c, w)' <=> Reached(c, w)
  BY DEF Reached, HasDatagram
<1>2. OldDatagrams(c, w)
  <2>1. \A i \in 1 .. Len(dgrams'[w]) :
          HasDatagram(c, w, i)' => HasDatagram(c, w, i + 0) /\ dgrams'[w][i] = dgrams[w][i + 0]
    BY DEF HasDatagram
  <2> QED
    BY <2>1 DEF OldDatagrams
<1>3. /\ \A i \in 1 .. Len(backlog'[w]) : backlog'[w][i] = c => Reached(c, w)
      /\ wpeer'[w] = c => Reached(c, w)
  BY DEF Reached
<1> QED
  BY <1>1, <1>2, <1>3 DEF NothingNew

\* main() talks to new clients; threads without a socket do as they like.
LEMMA QuietInv ==
  ASSUME LiveInv, UNCHANGED <<sock, backlog, dgrams, conn, toSrv, clientVars, wpeer, wbuf>>,
         \A c \in Client : toCli'[c] = toCli[c] \/ AtMain(c),
         \A w \in Slot : wpc'[w] = wpc[w] \/ (wpc[w] \notin OpenPc /\ wpc'[w] \notin OpenPc),
         flag' = 1 => flag = 1
  PROVE  LiveInv'
<1>1. PortInv'
  BY DEF LiveInv, PortInv
<1>2. ASSUME NEW w \in Slot PROVE ThreadInv(w)'
  BY DEF LiveInv, ThreadInv, OpenPc, InDialogue
<1>3. ASSUME NEW c \in Client PROVE ClientInv(c)'
  <2>1. SameClientState(c)
    BY DEF clientVars, SameClientState
  <2>2. StaysServed(c)
    BY DEF StaysServed, InDialogue, OpenPc
  <2>3. \A w \in Slot : NothingNew(c, w)
    BY QuietThread
  <2> QED
    BY <2>1, <2>2, <2>3, UntouchedInv DEF LiveInv, Untouched, StaysConnected
<1> QED
  BY <1>1, <1>2, <1>3 DEF LiveInv

\* Nobody has come to a socket that is not open.
LEMMA ClosedEmpty ==
  ASSUME LiveInv, NEW w \in Slot, wpc[w] \notin OpenPc
  PROVE  /\ sock[w] = Closed /\ backlog[w] = <<>> /\ dgrams[w] = <<>>
         /\ wpeer[w] \notin Client /\ wbuf[w].from = None
         /\ \A c \in Client : ~Reached(c, w)
<1>1. sock[w] = Closed /\ backlog[w] = <<>> /\ dgrams[w] = <<>> /\ wbuf[w].from = None
  BY DEF LiveInv, ThreadInv, Closed, OpenPc
<1>2. \A c \in Client : ~Reached(c, w)
  BY <1>1 DEF LiveInv, ClientInv, PlaceInv, Closed, Proto
<1>3. wpeer[w] \notin Client
  BY <1>2 DEF Reached
<1> QED
  BY <1>1, <1>2, <1>3

\* A thread opens its serving socket on a free port.
LEMMA OpenInv ==
  ASSUME LiveInv, ServerTypeOK, NEW w \in Slot, NEW p \in Slot, NEW proto \in {"tcp", "udp"},
         NEW PC, wpc \in [Slot -> PC], wpc[w] \notin OpenPc, ~PortInUse(proto, p),
         sock' = [sock EXCEPT ![w] = Bound(proto, p)],
         Goto(w, IF proto = "tcp" THEN "accept" ELSE "session"),
         UNCHANGED <<backlog, dgrams, conn, toSrv, clientVars, wpeer, wbuf, flag>>,
         \A c \in Client : toCli'[c] = toCli[c] \/ AtMain(c)
  PROVE  LiveInv'
<1>1. /\ sock[w] = Closed /\ backlog[w] = <<>> /\ dgrams[w] = <<>>
      /\ wpeer[w] = None /\ wbuf[w].from = None
      /\ \A c \in Client : ~Reached(c, w)
  BY ClosedEmpty DEF ServerTypeOK, ThreadTypeOK
<1>2. DOMAIN sock = Slot /\ DOMAIN wpc = Slot
  BY DEF ServerTypeOK, SocketTypeOK
<1>3. /\ sock'[w] = Bound(proto, p)
      /\ wpc'[w] = IF proto = "tcp" THEN "accept" ELSE "session"
      /\ \A v \in Slot : v # w => sock'[v] = sock[v] /\ wpc'[v] = wpc[v]
  BY <1>2 DEF Goto
<1>4. \A v \in Slot : sock[v] # Bound(proto, p)
  BY <1>2 DEF PortInUse, SocketsAt
<1>5. PortInv'
  BY <1>3, <1>4 DEF LiveInv, PortInv
<1>6. ASSUME NEW v \in Slot PROVE ThreadInv(v)'
  <2>1. CASE v = w
    BY <1>1, <1>3, <2>1 DEF ThreadInv, Bound, Closed, OpenPc, InDialogue
  <2>2. CASE v # w
    BY <1>3, <2>2 DEF LiveInv, ThreadInv
  <2> QED
    BY <2>1, <2>2
<1>7. ASSUME NEW c \in Client PROVE ClientInv(c)'
  <2>1. SameClientState(c)
    BY DEF clientVars, SameClientState
  <2>2. StaysServed(c)
    BY <1>1, <1>3, ClientAssumption DEF StaysServed, Client
  <2>3. \A v \in Slot : NothingNew(c, v)
    BY <1>1, <1>3, QuietThread
  <2> QED
    BY <2>1, <2>2, <2>3, UntouchedInv DEF LiveInv, Untouched, StaysConnected
<1> QED
  BY <1>5, <1>6, <1>7 DEF LiveInv

-----------------------------------------------------------------------------
(* The steps of a session. *)

\* A thread goes on to its next call, or gives up a session that has no
\* client any more.
LEMMA MoveInv ==
  ASSUME LiveInv, NEW w \in Slot, NEW PC, wpc \in [Slot -> PC],
         NEW pc \in {"session", "recv", "close"}, Goto(w, pc),
         wpc[w] \in {"accept", "session", "recv"},
         pc # "close" => wpc[w] # "accept",
         pc = "close" => wpc[w] = "accept" \/ flag' # 1 \/ cpc[wpeer[w]] = "done",
         flag' = 1 => flag = 1,
         UNCHANGED <<sock, backlog, dgrams, conn, toSrv, toCli, clientVars, wpeer, wbuf>>
  PROVE  LiveInv'
<1>1. wpc'[w] = pc /\ \A v \in Slot : v # w => wpc'[v] = wpc[v]
  BY DEF Goto
<1>2. PortInv'
  BY DEF LiveInv, PortInv
<1>3. ASSUME NEW v \in Slot PROVE ThreadInv(v)'
  <2>1. CASE v = w
    <3>1. ThreadInv(w)
      BY DEF LiveInv
    <3>2. UNCHANGED <<sock[w], backlog[w], dgrams[w], wpeer[w], wbuf[w]>>
      OBVIOUS
    <3> QED
      BY <1>1, <2>1, <3>1, <3>2 DEF ThreadInv, OpenPc, InDialogue
  <2>2. CASE v # w
    BY <1>1, <2>2 DEF LiveInv, ThreadInv
  <2> QED
    BY <2>1, <2>2
<1>4. ASSUME NEW c \in Client PROVE ClientInv(c)'
  <2>1. SameClientState(c)
    BY DEF clientVars, SameClientState
  <2>2. StaysServed(c)
    BY <1>1 DEF StaysServed, AtSession, InDialogue
  <2>3. \A v \in Slot : NothingNew(c, v)
    BY QuietThread
  <2> QED
    BY <2>1, <2>2, <2>3, UntouchedInv DEF LiveInv, Untouched, StaysConnected
<1> QED
  BY <1>2, <1>3, <1>4 DEF LiveInv

\* accept: the thread knows its client from here on.
LEMMA AcceptInv ==
  ASSUME LiveInv, ServerTypeOK, NEW w \in Slot, NEW p \in Slot, NEW PC, wpc \in [Slot -> PC],
         wpc[w] = "accept", backlog[w] # <<>>,
         conn' = conn \cup {<<Head(backlog[w]), p>>},
         wpeer' = [wpeer EXCEPT ![w] = Head(backlog[w])],
         backlog' = [backlog EXCEPT ![w] = Tail(@)],
         Goto(w, "session"),
         UNCHANGED <<sock, dgrams, toSrv, toCli, clientVars, wbuf, flag>>
  PROVE  LiveInv'
<1> DEFINE h == Head(backlog[w])
<1>1. /\ DOMAIN wpeer = Slot /\ backlog \in [Slot -> Seq(Client)]
      /\ backlog[w] \in Seq(Client)
  BY DEF ServerTypeOK, ThreadTypeOK, SocketTypeOK
<1>2. /\ h \in Client /\ h = backlog[w][1] /\ 1 \in 1 .. Len(backlog[w])
      /\ \A i \in 1 .. Len(Tail(backlog[w])) :
           i + 1 \in 1 .. Len(backlog[w]) /\ Tail(backlog[w])[i] = backlog[w][i + 1]
  BY <1>1, QueueHead
<1>3. /\ wpc'[w] = "session" /\ wpeer'[w] = h /\ backlog'[w] = Tail(backlog[w])
      /\ \A v \in Slot : v # w => /\ wpc'[v] = wpc[v] /\ wpeer'[v] = wpeer[v]
                                  /\ backlog'[v] = backlog[v]
  BY <1>1 DEF Goto
<1>4. /\ ThreadInv(w) /\ Reached(h, w)
      /\ sock[w].proto = "tcp" /\ sock[w] # Closed /\ wpeer[w] = None
      /\ dgrams[w] = <<>> /\ wbuf[w].from = None
  BY <1>2 DEF LiveInv, ThreadInv, Reached, OpenPc, Closed
<1>5. <<h, p>> \in conn' /\ conn \subseteq conn'
  OBVIOUS
<1> HIDE DEF h
<1>6. PortInv'
  BY DEF LiveInv, PortInv
<1>7. ASSUME NEW v \in Slot PROVE ThreadInv(v)'
  <2>1. CASE v = w
    <3>1. h # None
      BY <1>2, ClientAssumption DEF Client
    <3> QED
      BY <1>3, <1>4, <2>1, <3>1 DEF ThreadInv, OpenPc, InDialogue
  <2>2. CASE v # w
    BY <1>3, <2>2 DEF LiveInv, ThreadInv
  <2> QED
    BY <2>1, <2>2
<1>8. ASSUME NEW c \in Client PROVE ClientInv(c)'
  <2>1. SameClientState(c)
    BY DEF clientVars, SameClientState
  <2>2. StaysServed(c)
    BY <1>3, <1>4, ClientAssumption DEF StaysServed, InDialogue, Client
  <2>3. ASSUME NEW v \in Slot PROVE NothingNew(c, v)
    <3>1. CASE v = w
      <4>1. OldDatagrams(c, w)
        BY <1>4 DEF OldDatagrams, HasDatagram
      <4>2. \A i \in 1 .. Len(backlog'[w]) : backlog'[w][i] = c => Reached(c, w)
        BY <1>2, <1>3 DEF Reached
      <4> QED
        BY <1>3, <1>4, <3>1, <4>1, <4>2 DEF NothingNew
    <3>2. CASE v # w
      BY <1>3, <3>2, QuietThread
    <3> QED
      BY <3>1, <3>2
  <2>4. StaysConnected(c)
    BY <1>3, <1>5 DEF StaysConnected
  <2> QED
    BY <2>1, <2>2, <2>3, <2>4, UntouchedInv DEF LiveInv, Untouched
<1> QED
  BY <1>6, <1>7, <1>8 DEF LiveInv

\* A client that talks to the server has come to one socket only.
LEMMA OnePlace ==
  ASSUME LiveInv, ServerTypeOK, NEW c \in Client, AtSession(c),
         NEW v \in Slot, NEW w \in Slot, Reached(c, v), Reached(c, w)
  PROVE  v = w
<1>1. /\ sock[v].proto = Proto(c) /\ sock[v].port = cport[c]
      /\ sock[w].proto = Proto(c) /\ sock[w].port = cport[c]
  BY DEF LiveInv, ClientInv, PlaceInv
<1>2. sock[v] \in [proto : {"tcp", "udp"}, port : Slot] /\ sock[w] \in [proto : {"tcp", "udp"}, port : Slot]
  BY <1>1 DEF ServerTypeOK, SocketTypeOK, SocketState, Closed, Proto
<1>3. sock[v] = sock[w] /\ sock[v] # Closed
  BY <1>1, <1>2 DEF Closed
<1> QED
  BY <1>3 DEF LiveInv, PortInv

LEMMA CloseInv ==
  ASSUME LiveInv, ServerTypeOK, NEW PC, wpc \in [Slot -> PC], NEW w \in Slot, Close(w)
  PROVE  LiveInv'
<1>1. /\ wpc'[w] = "release" /\ wpeer'[w] = None /\ sock'[w] = Closed
      /\ backlog'[w] = <<>> /\ dgrams'[w] = <<>>
      /\ \A v \in Slot : v # w => /\ wpc'[v] = wpc[v] /\ wpeer'[v] = wpeer[v] /\ sock'[v] = sock[v]
                                  /\ backlog'[v] = backlog[v] /\ dgrams'[v] = dgrams[v]
  BY DEF Close, Goto, ServerTypeOK, ThreadTypeOK, SocketTypeOK
<1>2. UNCHANGED <<conn, toSrv, toCli, clientVars, wbuf, flag>> /\ wpc[w] = "close"
  BY DEF Close
<1>3. PortInv'
  BY <1>1 DEF LiveInv, PortInv
<1>4. ASSUME NEW v \in Slot PROVE ThreadInv(v)'
  <2>1. CASE v = w
    BY <1>1, <1>2, <2>1 DEF LiveInv, ThreadInv, Closed, OpenPc, InDialogue
  <2>2. CASE v # w
    BY <1>1, <1>2, <2>2 DEF LiveInv, ThreadInv
  <2> QED
    BY <2>1, <2>2
<1>5. ASSUME NEW c \in Client PROVE ClientInv(c)'
  <2>1. SameClientState(c)
    BY <1>2 DEF clientVars, SameClientState
  <2>2. StaysServed(c)
    BY <1>1, <1>2 DEF StaysServed, InDialogue
  <2>3. ASSUME NEW v \in Slot PROVE NothingNew(c, v)
    <3>1. CASE v = w
      <4>1. ~Reached(c, w)'
        BY <1>1, ClientAssumption DEF Reached, Client
      <4>2. OldDatagrams(c, w)
        BY <1>1 DEF OldDatagrams, HasDatagram
      <4> QED
        BY <1>1, <1>2, <3>1, <4>1, <4>2, ClientAssumption DEF NothingNew, Client
    <3>2. CASE v # w
      BY <1>1, <1>2, <3>2, QuietThread
    <3> QED
      BY <3>1, <3>2
  <2>4. StaysConnected(c)
    BY <1>1, <1>2, ClientAssumption DEF StaysConnected, Client
  <2> QED
    BY <2>1, <2>2, <2>3, <2>4, UntouchedInv DEF LiveInv, Untouched
<1> QED
  BY <1>3, <1>4, <1>5 DEF LiveInv

\* What a thread makes of a request of a client is an answer to it.
LEMMA ReplyAnswers ==
  ASSUME NEW c, NEW m, IsRequest(c, m)
  PROVE  IsAnswer(c, Reply(m))
  BY DEF IsRequest, IsAnswer, GoesOn, Reply, Msg, QUIT, QUIT_ACK, PROBE, PROBE_ACK

\* Messages that are on their way, and those that are not.
LEMMA RecvTcpInv ==
  ASSUME LiveInv, ServerTypeOK, NEW PC, wpc \in [Slot -> PC], NEW w \in Slot, RecvTcp(w),
         sock[w].proto = "tcp"
  PROVE  LiveInv'
<1>2. ThreadInv(w) /\ wpc[w] = "recv"
  BY DEF LiveInv, RecvTcp
<1>3. PICK c \in Client : c = wpeer[w] /\ c # None /\ Reached(c, w)
  <2>1. wpeer[w] # None
    BY <1>2 DEF ThreadInv, InDialogue
  <2> QED
    BY <2>1 DEF ServerTypeOK, ThreadTypeOK, Reached
<1>0. PICK m : m = Head(toSrv[c])
  OBVIOUS
<1>1. /\ wpc[w] = "recv" /\ toSrv[c] # <<>>
      /\ wbuf' = [wbuf EXCEPT ![w] = [from |-> c, msg |-> Reply(m)]]
      /\ toSrv' = [toSrv EXCEPT ![c] = Tail(@)]
      /\ Goto(w, "send")
      /\ UNCHANGED <<sock, backlog, dgrams, conn, toCli, clientVars, wpeer, flag>>
  BY <1>3, <1>0 DEF RecvTcp
<1>4. /\ toSrv[c] \in Seq(Message) /\ m = toSrv[c][1] /\ Len(toSrv[c]) \in Nat
      /\ Len(toSrv[c]) > 0 /\ Tail(toSrv[c]) \in Seq(Message)
      /\ Len(Tail(toSrv[c])) = Len(toSrv[c]) - 1
  <2>1. toSrv[c] \in Seq(Message)
    BY <1>3 DEF ServerTypeOK, SocketTypeOK
  <2> QED
    BY <1>0, <1>1, <2>1, QueueHead
<1>5. /\ wbuf'[w].from = c /\ wbuf'[w].msg = Reply(m) /\ wpc'[w] = "send"
      /\ toSrv'[c] = Tail(toSrv[c])
      /\ \A v \in Slot : v # w => wbuf'[v] = wbuf[v] /\ wpc'[v] = wpc[v]
      /\ \A d \in Client : d # c => toSrv'[d] = toSrv[d]
  BY <1>1, <1>3 DEF Goto, ServerTypeOK, ThreadTypeOK, SocketTypeOK
<1>6. PortInv'
  BY <1>1 DEF LiveInv, PortInv
<1>7. ASSUME NEW v \in Slot PROVE ThreadInv(v)'
  <2>1. CASE v = w
    BY <1>1, <1>2, <1>3, <1>5, <2>1 DEF ThreadInv, OpenPc, InDialogue
  <2>2. CASE v # w
    BY <1>1, <1>5, <2>2 DEF LiveInv, ThreadInv
  <2> QED
    BY <2>1, <2>2
<1>8. ASSUME NEW d \in Client, d # c PROVE ClientInv(d)'
  <2>1. SameClientState(d)
    BY <1>1, <1>5, <1>8 DEF clientVars, SameClientState
  <2>2. StaysServed(d) /\ StaysConnected(d)
    BY <1>1, <1>3, <1>5, <1>8 DEF StaysServed, StaysConnected, InDialogue
  <2>3. ASSUME NEW v \in Slot PROVE NothingNew(d, v)
    <3>1. OldDatagrams(d, v)
      <4>1. \A i \in 1 .. Len(dgrams'[v]) :
              HasDatagram(d, v, i)' => HasDatagram(d, v, i + 0) /\ dgrams'[v][i] = dgrams[v][i + 0]
        BY <1>1 DEF HasDatagram
      <4> QED
        BY <4>1 DEF OldDatagrams
    <3>2. /\ \A i \in 1 .. Len(backlog'[v]) : backlog'[v][i] = d => Reached(d, v)
          /\ wpeer'[v] = d => Reached(d, v)
      BY <1>1 DEF Reached
    <3>3. wbuf'[v].from = d => wbuf'[v] = wbuf[v]
      BY <1>5, <1>8
    <3> QED
      BY <1>1, <3>1, <3>2, <3>3 DEF NothingNew
  <2> QED
    BY <2>1, <2>2, <2>3, UntouchedInv DEF LiveInv, Untouched
<1>9. ClientInv(c)'
  <2>1. ClientInv(c)
    BY <1>3 DEF LiveInv
  <2>2. /\ cpc'[c] = cpc[c] /\ cbuf'[c] = cbuf[c] /\ cport'[c] = cport[c]
        /\ asked'[c] = asked[c] /\ toCli'[c] = toCli[c]
    BY <1>1 DEF clientVars
  <2>3. PlaceInv(c)'
    <3>1. \A v \in Slot : Reached(c, v)' => Reached(c, v) /\ sock'[v] = sock[v]
      BY <1>1 DEF Reached, HasDatagram
    <3> QED
      BY <2>1, <2>2, <3>1, PlaceFrame DEF ClientInv
  <2>4. ~Before(c) /\ Proto(c) = "tcp" /\ c \in TcpClient
    BY <1>3, <2>1 DEF ClientInv, PlaceInv, Proto
  <2>5. \A v \in Slot : \A i : ~HasDatagram(c, v, i)
    <3> SUFFICES ASSUME NEW v \in Slot, NEW i, HasDatagram(c, v, i) PROVE FALSE
      OBVIOUS
    <3>1. Reached(c, v) /\ dgrams[v] # <<>>
      BY DEF Reached, HasDatagram
    <3>2. sock[v].proto = "tcp" /\ sock[v].proto = "udp"
      BY <2>1, <2>4, <3>1 DEF ClientInv, PlaceInv, LiveInv, ThreadInv
    <3> QED
      BY <3>2
  <2>6. ASSUME AtSession(c)
        PROVE  ~Taken(c) /\ ~Told(c) /\ cpc[c] \notin {"chat", "ask"} /\ toSrv'[c] = <<>>
    <3>1. Asks(c)
      BY <1>1 DEF Asks
    <3>2. ~Taken(c) /\ ~Told(c) /\ cpc[c] \notin {"chat", "ask"} /\ Len(toSrv[c]) <= 1
      BY <2>1, <2>6, <3>1 DEF ClientInv, TurnInv
    <3>3. Tail(toSrv[c]) = <<>>
      BY <1>1, <1>4, <3>2, LastOne
    <3> QED
      BY <1>5, <3>2, <3>3
  <2>7. TurnInv(c)'
    <3>1. \A v \in Slot : \A i : ~HasDatagram(c, v, i)'
      BY <1>1, <2>5 DEF HasDatagram
    <3>2. AtSession(c)' => AtSession(c) /\ ~Asks(c)' /\ ~Told(c)'
      BY <2>2, <2>6, <3>1 DEF AtSession, Asks, Told
    <3>3. ~Before(c)' /\ cpc'[c] # "redirected" /\ c \notin UdpClient
      BY <2>2, <2>4, ClientAssumption DEF Before
    <3>4. AtSession(c)' => cpc'[c] \notin {"chat", "ask"} /\ Len(toSrv'[c]) = 0 /\ Len(toCli'[c]) <= 1
      BY <2>1, <2>2, <2>6, <3>2 DEF ClientInv, TurnInv
    <3> QED
      BY <3>1, <3>2, <3>3, <3>4 DEF TurnInv
  <2>8. ContentInv(c)'
    <3>1. CASE cpc[c] = "reply"
      <4>1. AtSession(c)
        BY <3>1 DEF AtSession
      <4>2. IsAnswer(c, Reply(m))
        BY <1>4, <2>1, <3>1, ReplyAnswers DEF ClientInv, ContentInv
      <4>3. \A v \in Slot : wbuf'[v].from = c => v = w
        BY <1>5, <2>6, <4>1 DEF Taken
      <4>4. \A v \in Slot : wbuf'[v].from = c => IsAnswer(c, wbuf[v].msg)'
        BY <1>5, <2>2, <4>2, <4>3 DEF IsAnswer
      <4>5. toSrv'[c] = <<>> /\ toCli'[c] = <<>>
        BY <2>2, <2>6, <4>1 DEF Told
      <4>6. \A v \in Slot : \A i : ~HasDatagram(c, v, i)'
        BY <1>1, <2>5 DEF HasDatagram
      <4>7. GoesOn(cbuf[c])
        BY <2>1, <3>1 DEF ClientInv, ContentInv, Talking
      <4> QED
        BY <2>2, <3>1, <4>4, <4>5, <4>6, <4>7 DEF ContentInv, Talking
    <3>2. CASE cpc[c] # "reply"
      BY <2>1, <2>2, <3>2 DEF ClientInv, ContentInv, Talking
    <3> QED
      BY <3>1, <3>2
  <2>9. ConnInv(c)' /\ ServedInv(c)'
    BY <1>1, <1>5, <2>1, <2>2 DEF ClientInv, ConnInv, ServedInv, AtSession, Talking, Told, InDialogue
  <2> QED
    BY <2>3, <2>7, <2>8, <2>9 DEF ClientInv
<1> QED
  BY <1>6, <1>7, <1>8, <1>9 DEF LiveInv

LEMMA RecvUdpInv ==
  ASSUME LiveInv, ServerTypeOK, NEW PC, wpc \in [Slot -> PC], NEW w \in Slot, RecvUdp(w)
  PROVE  LiveInv'
<1>1. /\ wpc[w] = "recv" /\ dgrams[w] # <<>>
      /\ dgrams' = [dgrams EXCEPT ![w] = Tail(@)]
      /\ UNCHANGED <<sock, backlog, conn, toSrv, toCli, clientVars, flag>>
  BY DEF RecvUdp
<1>2. PICK q : q = dgrams[w]
  OBVIOUS
<1>3. PICK c \in Client, m \in Message : c = q[1].from /\ m = q[1].msg
  <2> DEFINE D == [from : Client, msg : Message]
  <2>1. dgrams[w] \in Seq(D)
    BY DEF ServerTypeOK, SocketTypeOK
  <2> HIDE DEF D
  <2>2. q[1] \in D
    BY <1>1, <1>2, <2>1, QueueHead
  <2> QED
    BY <2>2 DEF D
<1>4. /\ Len(q) \in Nat /\ Len(q) > 0 /\ Head(q) = q[1]
      /\ \A i \in 1 .. Len(Tail(q)) :
           i + 1 \in 1 .. Len(q) /\ i + 1 # 1 /\ Tail(q)[i] = q[i + 1]
  <2> DEFINE D == [from : Client, msg : Message]
  <2>1. dgrams[w] \in Seq(D)
    BY DEF ServerTypeOK, SocketTypeOK
  <2> HIDE DEF D
  <2> QED
    BY <1>1, <1>2, <2>1, QueueHead
<1>5. /\ dgrams'[w] = Tail(q)
      /\ \A v \in Slot : v # w => dgrams'[v] = dgrams[v]
  BY <1>1, <1>2 DEF ServerTypeOK, SocketTypeOK
<1>6. ThreadInv(w) /\ sock[w].proto = "udp" /\ sock[w] # Closed /\ wbuf[w].from = None
  BY <1>1 DEF LiveInv, ThreadInv, Closed
<1>7. HasDatagram(c, w, 1) /\ Reached(c, w)
  BY <1>2, <1>3, <1>4 DEF HasDatagram, Reached
<1>8. c \in UdpClient /\ ~Before(c) /\ c # None
  BY <1>6, <1>7, ClientAssumption DEF LiveInv, ClientInv, PlaceInv, Proto, Client
<1>9. \A d \in Client, v \in Slot : OldDatagrams(d, v)
  <2> SUFFICES ASSUME NEW d \in Client, NEW v \in Slot PROVE OldDatagrams(d, v)
    OBVIOUS
  <2>1. CASE v = w
    <3>1. \A i \in 1 .. Len(dgrams'[v]) : HasDatagram(d, v, i)' =>
            HasDatagram(d, v, i + 1) /\ dgrams'[v][i] = dgrams[v][i + 1]
      BY <1>2, <1>4, <1>5, <2>1 DEF HasDatagram
    <3> QED
      BY <3>1 DEF OldDatagrams
  <2>2. CASE v # w
    <3>1. \A i \in 1 .. Len(dgrams'[v]) : HasDatagram(d, v, i)' =>
            HasDatagram(d, v, i + 0) /\ dgrams'[v][i] = dgrams[v][i + 0]
      BY <1>5, <2>2 DEF HasDatagram
    <3> QED
      BY <3>1 DEF OldDatagrams
  <2> QED
    BY <2>1, <2>2
<1>10. PortInv'
  BY <1>1 DEF LiveInv, PortInv
<1>11. CASE ~SameClient(w, c)
  <2>1. /\ UNCHANGED <<wpeer, wbuf>>
        /\ wpc'[w] = "session" /\ \A v \in Slot : v # w => wpc'[v] = wpc[v]
    BY <1>2, <1>3, <1>4, <1>11 DEF RecvUdp, Goto
  <2>2. ASSUME NEW v \in Slot PROVE ThreadInv(v)'
    <3>1. CASE v = w
      BY <1>1, <1>2, <1>5, <1>6, <2>1, <3>1 DEF ThreadInv, OpenPc, InDialogue
    <3>2. CASE v # w
      BY <1>1, <1>5, <2>1, <3>2 DEF LiveInv, ThreadInv
    <3> QED
      BY <3>1, <3>2
  <2>3. ASSUME NEW d \in Client PROVE ClientInv(d)'
    <3>1. SameClientState(d)
      BY <1>1 DEF clientVars, SameClientState
    <3>2. StaysServed(d) /\ StaysConnected(d)
      BY <1>1, <2>1 DEF StaysServed, StaysConnected, InDialogue
    <3>3. \A v \in Slot : NothingNew(d, v)
      BY <1>1, <1>9, <2>1 DEF NothingNew, Reached
    <3> QED
      BY <3>1, <3>2, <3>3, UntouchedInv DEF LiveInv, Untouched
  <2> QED
    BY <1>10, <2>2, <2>3 DEF LiveInv
<1>12. CASE SameClient(w, c)
  <2>1. /\ wpeer' = [wpeer EXCEPT ![w] = c]
        /\ wbuf' = [wbuf EXCEPT ![w] = [from |-> c, msg |-> Reply(m)]]
        /\ Goto(w, "send")
    BY <1>2, <1>3, <1>4, <1>12 DEF RecvUdp
  <2>2. /\ wpeer'[w] = c /\ wbuf'[w].from = c /\ wbuf'[w].msg = Reply(m) /\ wpc'[w] = "send"
        /\ \A v \in Slot : v # w => /\ wpeer'[v] = wpeer[v] /\ wbuf'[v] = wbuf[v]
                                    /\ wpc'[v] = wpc[v]
    BY <2>1 DEF Goto, ServerTypeOK, ThreadTypeOK
  <2>3. ASSUME NEW v \in Slot PROVE ThreadInv(v)'
    <3>1. CASE v = w
      BY <1>1, <1>5, <1>6, <1>8, <2>2, <3>1 DEF ThreadInv, OpenPc, InDialogue
    <3>2. CASE v # w
      BY <1>1, <1>5, <2>2, <3>2 DEF LiveInv, ThreadInv
    <3> QED
      BY <3>1, <3>2
  <2>4. ASSUME NEW d \in Client, d # c PROVE ClientInv(d)'
    <3>1. SameClientState(d)
      BY <1>1 DEF clientVars, SameClientState
    <3>2. StaysServed(d)
      <4>1. wpeer[w] # d
        BY <1>12, <2>4, ClientAssumption DEF SameClient, Client
      <4> QED
        BY <1>1, <2>2, <4>1 DEF StaysServed
    <3>3. StaysConnected(d)
      BY <1>1, <2>2, <2>4 DEF StaysConnected
    <3>4. ASSUME NEW v \in Slot PROVE NothingNew(d, v)
      <4>1. /\ \A i \in 1 .. Len(backlog'[v]) : backlog'[v][i] = d => Reached(d, v)
            /\ wpeer'[v] = d => Reached(d, v)
        BY <1>1, <2>2, <2>4 DEF Reached
      <4>2. wbuf'[v].from = d => wbuf'[v] = wbuf[v]
        BY <2>2, <2>4
      <4> QED
        BY <1>1, <1>9, <4>1, <4>2 DEF NothingNew
    <3> QED
      BY <3>1, <3>2, <3>3, <3>4, UntouchedInv DEF LiveInv, Untouched
  <2>5. ClientInv(c)'
    <3>1. ClientInv(c)
      BY DEF LiveInv
    <3>2. /\ cpc'[c] = cpc[c] /\ cbuf'[c] = cbuf[c] /\ cport'[c] = cport[c]
          /\ asked'[c] = asked[c] /\ toCli'[c] = toCli[c] /\ toSrv'[c] = toSrv[c]
      BY <1>1 DEF clientVars
    <3>3. toSrv[c] = <<>>
      BY <1>8, <3>1 DEF ClientInv, TurnInv
    <3>4. PlaceInv(c)'
      <4>1. ASSUME NEW v \in Slot, Reached(c, v)' PROVE Reached(c, v)
        <5>1. CASE v = w
          BY <1>7, <5>1
        <5>2. CASE v # w
          BY <1>1, <1>5, <2>2, <4>1, <5>2 DEF Reached, HasDatagram
        <5> QED
          BY <5>1, <5>2
      <4> QED
        BY <1>1, <3>1, <3>2, <4>1, PlaceFrame DEF ClientInv
    <3>5. ASSUME AtSession(c)
          PROVE  /\ ~Taken(c) /\ ~Told(c) /\ cpc[c] \notin {"chat", "ask"} /\ Len(toCli[c]) <= 1
                 /\ \A v \in Slot : \A i : ~HasDatagram(c, v, i)'
      <4>1. Asks(c)
        BY <1>4, <1>2, <1>7 DEF Asks, HasDatagram
      <4>2. /\ ~Taken(c) /\ ~Told(c) /\ cpc[c] \notin {"chat", "ask"} /\ Len(toCli[c]) <= 1
        BY <3>1, <3>5, <4>1 DEF ClientInv, TurnInv
      <4>3. ASSUME NEW v \in Slot, NEW i, HasDatagram(c, v, i)' PROVE FALSE
        <5>1. CASE v = w
          <6>1. i \in 1 .. Len(Tail(q)) /\ HasDatagram(c, w, i + 1) /\ i + 1 # 1
            BY <1>2, <1>4, <1>5, <4>3, <5>1 DEF HasDatagram
          <6>2. i + 1 \in 1 .. Len(dgrams[w]) /\ 1 \in 1 .. Len(dgrams[w])
            BY <1>7, <6>1 DEF HasDatagram
          <6>3. i + 1 = 1
            BY <1>7, <3>1, <3>5, <6>1, <6>2 DEF ClientInv, TurnInv
          <6> QED
            BY <6>1, <6>3
        <5>2. CASE v # w
          <6>1. Reached(c, v)
            BY <1>5, <4>3, <5>2 DEF Reached, HasDatagram
          <6> QED
            BY <1>7, <3>5, <5>2, <6>1, OnePlace
        <5> QED
          BY <5>1, <5>2
      <4> QED
        BY <4>2, <4>3
    <3>6. TurnInv(c)'
      <4>1. AtSession(c)' => AtSession(c) /\ ~Asks(c)' /\ ~Told(c)'
        BY <3>2, <3>3, <3>5 DEF AtSession, Asks, Told
      <4>2. ~Before(c)' /\ cpc'[c] # "redirected"
        BY <1>8, <3>2 DEF Before
      <4>3. AtSession(c)' => cpc'[c] \notin {"chat", "ask"} /\ Len(toSrv'[c]) <= 1 /\ Len(toCli'[c]) <= 1
        BY <3>2, <3>3, <3>5, <4>1
      <4> QED
        BY <3>2, <3>3, <3>5, <4>1, <4>2, <4>3 DEF TurnInv
    <3>7. ContentInv(c)'
      <4>1. CASE cpc[c] = "reply"
        <5>1. AtSession(c)
          BY <4>1 DEF AtSession
        <5>2. IsAnswer(c, Reply(m))
          <6>1. IsRequest(c, dgrams[w][1].msg)
            BY <1>2, <1>4, <1>7, <3>1, <4>1 DEF ClientInv, ContentInv
          <6> QED
            BY <1>2, <1>3, <6>1, ReplyAnswers
        <5>3. \A v \in Slot : wbuf'[v].from = c => v = w
          BY <2>2, <3>5, <5>1 DEF Taken
        <5>4. \A v \in Slot : wbuf'[v].from = c => IsAnswer(c, wbuf[v].msg)'
          BY <2>2, <3>2, <5>2, <5>3 DEF IsAnswer
        <5>5. toSrv'[c] = <<>> /\ toCli'[c] = <<>>
          BY <3>2, <3>3, <3>5, <5>1 DEF Told
        <5>6. GoesOn(cbuf[c])
          BY <3>1, <4>1 DEF ClientInv, ContentInv, Talking
        <5> QED
          BY <3>2, <3>5, <4>1, <5>1, <5>4, <5>5, <5>6 DEF ContentInv, Talking
      <4>2. CASE cpc[c] # "reply"
        BY <3>1, <3>2, <4>2 DEF ClientInv, ContentInv, Talking
      <4> QED
        BY <4>1, <4>2
    <3>8. ConnInv(c)' /\ ServedInv(c)'
      BY <1>8, <2>2, ClientAssumption DEF ConnInv, ServedInv, InDialogue
    <3> QED
      BY <3>4, <3>6, <3>7, <3>8 DEF ClientInv
  <2> QED
    BY <1>10, <2>3, <2>4, <2>5 DEF LiveInv
<1> QED
  BY <1>11, <1>12

LEMMA SendInv ==
  ASSUME LiveInv, ServerTypeOK, ClientTypeOK, NEW PC, wpc \in [Slot -> PC],
         NEW w \in Slot, Send(w)
  PROVE  LiveInv'
<1>1. /\ wpc[w] = "send"
      /\ UNCHANGED <<sock, backlog, dgrams, conn, toSrv, clientVars, wpeer, flag>>
  BY DEF Send
<1>2. ThreadInv(w)
  BY DEF LiveInv
<1>3. PICK c \in Client, m \in Message :
        /\ c = wbuf[w].from /\ m = wbuf[w].msg /\ wpeer[w] = c /\ c # None /\ Reached(c, w)
  <2>1. wpeer[w] # None /\ wbuf[w].from = wpeer[w]
    BY <1>1, <1>2 DEF ThreadInv
  <2> QED
    BY <2>1 DEF ServerTypeOK, ThreadTypeOK, Reached
<1>4. SendClient(c, m) /\ wbuf' = [wbuf EXCEPT ![w] = NoRequest]
  BY <1>3 DEF Send
<1>5. /\ wpc'[w] = IF m.sign = QUIT_ACK THEN "close" ELSE "session"
      /\ wbuf'[w].from = None
      /\ \A v \in Slot : v # w => wbuf'[v] = wbuf[v] /\ wpc'[v] = wpc[v]
      /\ \A d \in Client : d # c => toCli'[d] = toCli[d]
  BY <1>3, <1>4 DEF Send, SendClient, Goto, NoRequest, ServerTypeOK, ThreadTypeOK, SocketTypeOK
<1>6. toCli'[c] = IF AtSession(c) \/ (c \in TcpClient /\ cpc[c] = "done")
                  THEN Append(toCli[c], m) ELSE toCli[c]
  BY <1>4 DEF SendClient, ServerTypeOK, SocketTypeOK
<1>7. PortInv'
  BY <1>1 DEF LiveInv, PortInv
<1>8. ASSUME NEW v \in Slot PROVE ThreadInv(v)'
  <2>1. CASE v = w
    BY <1>1, <1>2, <1>3, <1>5, <2>1 DEF ThreadInv, OpenPc, InDialogue
  <2>2. CASE v # w
    BY <1>1, <1>5, <2>2 DEF LiveInv, ThreadInv
  <2> QED
    BY <2>1, <2>2
<1>9. ASSUME NEW d \in Client, NEW v \in Slot PROVE NothingNew(d, v)
  <2>1. OldDatagrams(d, v)
    <3>1. \A i \in 1 .. Len(dgrams'[v]) :
            HasDatagram(d, v, i)' => HasDatagram(d, v, i + 0) /\ dgrams'[v][i] = dgrams[v][i + 0]
      BY <1>1 DEF HasDatagram
    <3> QED
      BY <3>1 DEF OldDatagrams
  <2>2. /\ \A i \in 1 .. Len(backlog'[v]) : backlog'[v][i] = d => Reached(d, v)
        /\ wpeer'[v] = d => Reached(d, v)
    BY <1>1 DEF Reached
  <2>3. wbuf'[v].from = d => wbuf'[v] = wbuf[v]
    BY <1>5, ClientAssumption DEF Client
  <2> QED
    BY <1>1, <2>1, <2>2, <2>3 DEF NothingNew
<1>10. ASSUME NEW d \in Client, d # c PROVE ClientInv(d)'
  <2>1. SameClientState(d)
    BY <1>1, <1>5, <1>10 DEF clientVars, SameClientState
  <2>2. StaysServed(d) /\ StaysConnected(d)
    BY <1>1, <1>3, <1>5, <1>10 DEF StaysServed, StaysConnected
  <2> QED
    BY <1>9, <2>1, <2>2, UntouchedInv DEF LiveInv, Untouched
<1>11. ClientInv(c)'
  <2>1. ClientInv(c)
    BY DEF LiveInv
  <2>2. /\ cpc'[c] = cpc[c] /\ cbuf'[c] = cbuf[c] /\ cport'[c] = cport[c]
        /\ asked'[c] = asked[c] /\ toSrv'[c] = toSrv[c]
    BY <1>1 DEF clientVars
  <2>3. ~Before(c)
    BY <1>3, <2>1 DEF ClientInv, PlaceInv
  <2>4. CASE ~AtSession(c)
    <3>1. SameClientState(c)
      BY <1>6, <2>2, <2>4 DEF SameClientState, ServerTypeOK, SocketTypeOK
    <3>2. StaysServed(c) /\ StaysConnected(c)
      BY <1>1, <2>4 DEF StaysServed, StaysConnected
    <3> QED
      BY <1>9, <2>1, <3>1, <3>2, UntouchedInv DEF Untouched
  <2>5. CASE AtSession(c)
    <3>1. Taken(c)
      BY <1>3 DEF Taken
    <3>2. ~Asks(c) /\ ~Told(c) /\ cpc[c] \notin {"chat", "ask"} /\ Len(toSrv[c]) <= 1
      BY <2>1, <2>5, <3>1 DEF ClientInv, TurnInv
    <3>3. Len(toCli'[c]) = 1 /\ toCli'[c][1] = m /\ toCli'[c] # <<>>
      BY <1>6, <2>5, <3>2 DEF Told
    <3>4. ASSUME NEW v \in Slot PROVE wbuf'[v].from # c
      <4>1. CASE v = w
        BY <1>3, <1>5, <4>1
      <4>2. CASE v # w
        <5> SUFFICES ASSUME wbuf[v].from = c PROVE FALSE
          BY <1>5, <4>2
        <5>1. Reached(c, v)
          BY <1>3 DEF LiveInv, ThreadInv, Reached
        <5> QED
          BY <1>3, <2>5, <4>2, <5>1, OnePlace
      <4> QED
        BY <4>1, <4>2
    <3>5. PlaceInv(c)'
      <4>1. \A v \in Slot : Reached(c, v)' => Reached(c, v) /\ sock'[v] = sock[v]
        BY <1>1 DEF Reached, HasDatagram
      <4> QED
        BY <2>1, <2>2, <4>1, PlaceFrame DEF ClientInv
    <3>6. \A v \in Slot : \A i : ~HasDatagram(c, v, i)'
      BY <1>1, <3>2 DEF Asks, HasDatagram
    <3>7. toSrv'[c] = <<>>
      BY <2>2, <3>2 DEF Asks
    <3>8. TurnInv(c)'
      <4>1. ~Asks(c)' /\ ~Taken(c)'
        BY <3>4, <3>6, <3>7 DEF Asks, Taken
      <4>2. ~Before(c)' /\ cpc'[c] \notin {"redirected", "chat", "ask"}
        BY <2>2, <2>3, <3>2 DEF Before
      <4> QED
        BY <3>3, <3>6, <3>7, <4>1, <4>2 DEF TurnInv
    <3>9. cpc[c] = "reply" => IsAnswer(c, m)
      BY <1>3, <2>1 DEF ClientInv, ContentInv
    <3>10. ContentInv(c)'
      <4>1. CASE cpc[c] = "reply"
        <5>1. \A i \in 1 .. Len(toCli'[c]) : IsAnswer(c, toCli[c][i])'
          BY <2>2, <3>3, <3>9, <4>1 DEF IsAnswer
        <5>2. GoesOn(cbuf[c])
          BY <2>1, <4>1 DEF ClientInv, ContentInv, Talking
        <5> QED
          BY <2>2, <3>4, <3>6, <3>7, <4>1, <5>1, <5>2 DEF ContentInv, Talking
      <4>2. CASE cpc[c] # "reply"
        BY <2>1, <2>2, <4>2 DEF ClientInv, ContentInv, Talking
      <4> QED
        BY <4>1, <4>2
    <3>11. ConnInv(c)'
      BY <1>1, <1>3, <2>1 DEF ClientInv, ConnInv
    <3>12. ServedInv(c)'
      <4>1. CASE m.sign # QUIT_ACK
        BY <1>1, <1>3, <1>5, <4>1 DEF ServedInv, InDialogue
      <4>2. CASE m.sign = QUIT_ACK
        <5>1. cpc[c] # "reply"
          BY <3>9, <4>2 DEF IsAnswer, GoesOn
        <5> QED
          BY <2>2, <3>2, <3>3, <4>2, <5>1 DEF ServedInv, Talking
      <4> QED
        BY <4>1, <4>2
    <3> QED
      BY <3>5, <3>8, <3>10, <3>11, <3>12 DEF ClientInv
  <2> QED
    BY <2>4, <2>5
<1> QED
  BY <1>7, <1>8, <1>10, <1>11 DEF LiveInv

-----------------------------------------------------------------------------
(* The steps of the clients. *)

\* Client c does something, and no thread and no other client does.
OnlyClient(c) == OnlyItself(c, Slot) /\ UNCHANGED <<wpc, wpeer, wbuf, flag>>

\* The only request of a client that had none on its way.
LEMMA DeliverOnly ==
  ASSUME ServerTypeOK, server = "up", NEW c \in Client, NEW m \in Message, NEW p, Deliver(c, m, p),
         ~Asks(c)
  PROVE  /\ toSrv'[c] = IF c \in TcpClient THEN <<m>> ELSE <<>>
         /\ \A w \in Slot : \A i : HasDatagram(c, w, i)' =>
              /\ c \notin TcpClient /\ sock[w] = Bound("udp", p)
              /\ i = Len(dgrams[w]) + 1 /\ dgrams'[w][i].msg = m
<1>1. toSrv[c] = <<>> /\ \A w \in Slot : \A i \in 1 .. Len(dgrams[w]) : dgrams[w][i].from # c
  BY DEF Asks, HasDatagram
<1>2. SocketTypeOK(Slot)
  BY DEF ServerTypeOK
<1> QED
  BY <1>1, <1>2, DeliverFirst DEF HasDatagram

\* What a client does changes nothing for the threads and the other clients.
LEMMA OthersInv ==
  ASSUME LiveInv, ServerTypeOK, NEW c \in Client, OnlyClient(c)
  PROVE  /\ PortInv' /\ \A w \in Slot : ThreadInv(w)'
         /\ \A d \in Client \ {c} : ClientInv(d)'
<1>1. PortInv'
  BY DEF LiveInv, PortInv, OnlyClient, OnlyItself
<1>2. ASSUME NEW w \in Slot PROVE ThreadInv(w)'
  <2>1. ThreadInv(w) /\ MayReach(c, w) /\ UNCHANGED <<sock, wpc, wpeer, wbuf>>
    BY DEF LiveInv, OnlyClient, OnlyItself
  <2> QED
    BY <2>1 DEF MayReach, ThreadInv, OpenPc, InDialogue
<1>3. ASSUME NEW d \in Client \ {c} PROVE ClientInv(d)'
  <2>1. SameClientState(d) /\ StaysServed(d) /\ StaysConnected(d)
    BY DEF OnlyClient, OnlyItself, SameClientState, StaysServed, StaysConnected
  <2>2. ASSUME NEW w \in Slot PROVE NothingNew(d, w)
    <3>1. MayReach(c, w) /\ UNCHANGED <<sock, wpeer, wbuf>>
      BY DEF OnlyClient, OnlyItself
    <3>2. OldDatagrams(d, w)
      <4> DEFINE D == [from : Client, msg : Message]
      <4>1. dgrams[w] \in Seq(D)
        BY DEF ServerTypeOK, SocketTypeOK
      <4> HIDE DEF D
      <4>2. ASSUME NEW i \in 1 .. Len(dgrams'[w]), HasDatagram(d, w, i)'
            PROVE  HasDatagram(d, w, i + 0) /\ dgrams'[w][i] = dgrams[w][i + 0]
        <5>1. CASE dgrams'[w] = dgrams[w]
          BY <4>2, <5>1 DEF HasDatagram
        <5>2. ASSUME NEW m, dgrams'[w] = Append(dgrams[w], [from |-> c, msg |-> m])
              PROVE  HasDatagram(d, w, i + 0) /\ dgrams'[w][i] = dgrams[w][i + 0]
          <6> DEFINE e == [from |-> c, msg |-> m]
          <6>1. e.from # d
            OBVIOUS
          <6> HIDE DEF e
          <6>2. /\ Len(dgrams'[w]) = Len(dgrams[w]) + 1 /\ Len(dgrams[w]) \in Nat
                /\ dgrams'[w][Len(dgrams[w]) + 1] = e
                /\ \A j \in 1 .. Len(dgrams[w]) : dgrams'[w][j] = dgrams[w][j]
            BY <4>1, <5>2, AppendElements DEF e
          <6>3. dgrams'[w][i].from = d
            BY <4>2 DEF HasDatagram
          <6>4. i # Len(dgrams[w]) + 1
            BY <6>1, <6>2, <6>3
          <6>5. i \in 1 .. Len(dgrams[w]) /\ i + 0 = i
            BY <6>2, <6>4
          <6> QED
            BY <6>2, <6>3, <6>5 DEF HasDatagram
        <5> QED
          BY <3>1, <5>1, <5>2 DEF MayReach
      <4> QED
        BY <4>2 DEF OldDatagrams
    <3>3. \A i \in 1 .. Len(backlog'[w]) : backlog'[w][i] = d => Reached(d, w)
      <4>1. backlog[w] \in Seq(Client)
        BY DEF ServerTypeOK, SocketTypeOK
      <4>2. CASE backlog'[w] = backlog[w]
        BY <4>2 DEF Reached
      <4>3. CASE backlog'[w] = Append(backlog[w], c)
        <5>1. /\ Len(backlog'[w]) = Len(backlog[w]) + 1 /\ Len(backlog[w]) \in Nat
              /\ backlog'[w][Len(backlog[w]) + 1] = c
              /\ \A j \in 1 .. Len(backlog[w]) : backlog'[w][j] = backlog[w][j]
          BY <4>1, <4>3, AppendElements
        <5>2. \A i \in 1 .. Len(backlog'[w]) : backlog'[w][i] = d =>
                i \in 1 .. Len(backlog[w]) /\ backlog[w][i] = d
          BY <5>1
        <5> QED
          BY <5>2 DEF Reached
      <4> QED
        BY <3>1, <4>2, <4>3 DEF MayReach
    <3>4. wpeer'[w] = d => Reached(d, w)
      BY <3>1 DEF Reached
    <3> QED
      BY <3>1, <3>2, <3>3, <3>4 DEF NothingNew
  <2> QED
    BY <2>1, <2>2, UntouchedInv DEF LiveInv, Untouched
<1> QED
  BY <1>1, <1>2, <1>3

\* What has become of a client when its process has ended.
LEMMA EndedInv ==
  ASSUME LiveInv, NEW c \in Client, cpc'[c] = "done", UNCHANGED <<sock, conn, wpeer>>,
         c \in UdpClient => toSrv'[c] = toSrv[c],
         \A w \in Slot : Reached(c, w)' => Reached(c, w) \/ sock[w].proto = Proto(c)
  PROVE  ClientInv(c)'
<1>1. ClientInv(c)
  BY DEF LiveInv
<1>2. PlaceInv(c)'
  BY <1>1 DEF ClientInv, PlaceInv, Before, AtSession
<1>3. TurnInv(c)'
  BY <1>1 DEF ClientInv, TurnInv, Before, AtSession
<1>4. ContentInv(c)' /\ ServedInv(c)'
  BY DEF ContentInv, ServedInv, Talking
<1>5. ConnInv(c)'
  BY <1>1 DEF ClientInv, ConnInv, Talking, AtSession
<1> QED
  BY <1>2, <1>3, <1>4, <1>5 DEF ClientInv

\* A client that sends nothing has come nowhere else.
LEMMA SendsNothing ==
  ASSUME NEW c \in Client, UNCHANGED <<sock, backlog, dgrams, conn, toSrv, wpc, wpeer, wbuf, flag>>
  PROVE  /\ \A w \in Slot : (Reached(c, w)' <=> Reached(c, w)) /\ sock'[w] = sock[w]
         /\ \A w \in Slot : \A i : HasDatagram(c, w, i)' <=> HasDatagram(c, w, i)
         /\ Asks(c)' <=> Asks(c)
         /\ Taken(c)' <=> Taken(c)
<1>1. \A w \in Slot : \A i : HasDatagram(c, w, i)' <=> HasDatagram(c, w, i)
  BY DEF HasDatagram
<1>2. \A w \in Slot : (Reached(c, w)' <=> Reached(c, w)) /\ sock'[w] = sock[w]
  BY DEF Reached, HasDatagram
<1>3. (Asks(c)' <=> Asks(c)) /\ (Taken(c)' <=> Taken(c))
  BY DEF Asks, Taken, HasDatagram
<1> QED
  BY <1>1, <1>2, <1>3

\* The client has not come to a session yet.
LEMMA BeforeInv ==
  ASSUME LiveInv, NEW c \in Client, Before(c), cpc'[c] \in {"await", "redirected"},
         cpc'[c] = "redirected" => toCli'[c] = <<>>,
         UNCHANGED <<sock, backlog, dgrams, conn, toSrv, wpc, wpeer, wbuf, flag>>
  PROVE  ClientInv(c)'
<1>1. ClientInv(c)
  BY DEF LiveInv
<1>2. \A w \in Slot : ~Reached(c, w)'
  BY <1>1, SendsNothing DEF ClientInv, PlaceInv
<1>3. PlaceInv(c)'
  BY <1>2 DEF PlaceInv
<1>4. TurnInv(c)'
  <2>1. toSrv'[c] = <<>>
    BY <1>1 DEF ClientInv, TurnInv
  <2> QED
    BY <2>1 DEF TurnInv, AtSession, Told
<1>5. ContentInv(c)' /\ ServedInv(c)'
  BY DEF ContentInv, ServedInv, Talking
<1>6. ConnInv(c)'
  BY <1>2 DEF ConnInv, Reached, Talking, AtSession
<1> QED
  BY <1>3, <1>4, <1>5, <1>6 DEF ClientInv

\* The client hears from its thread, and its user has the turn.
LEMMA HearsInv ==
  ASSUME LiveInv, ServerTypeOK, NEW c \in Client,
         \/ cpc[c] = "probing" /\ toCli[c] # <<>> /\ Head(toCli[c]).sign = PROBE_ACK
              /\ cpc'[c] = "chat" /\ cbuf'[c].sign = DATA
         \/ cpc[c] = "reply" /\ toCli[c] # <<>> /\ cpc'[c] = "ask" /\ cbuf'[c] = Head(toCli[c]),
         toCli'[c] = Tail(toCli[c]), cport'[c] = cport[c], asked'[c] = asked[c],
         UNCHANGED <<sock, backlog, dgrams, conn, toSrv, wpc, wpeer, wbuf, flag>>
  PROVE  ClientInv(c)'
<1>1. ClientInv(c) /\ AtSession(c) /\ Told(c) /\ AtSession(c)' /\ Talking(c)'
  BY DEF LiveInv, AtSession, Told, Talking
<1>2. toCli[c] \in Seq(Message)
  BY DEF ServerTypeOK, SocketTypeOK
<1>3. /\ ~Asks(c) /\ ~Taken(c) /\ Len(toCli[c]) <= 1
      /\ \A w \in Slot : \A i : ~HasDatagram(c, w, i)
  BY <1>1 DEF ClientInv, TurnInv, Asks, HasDatagram
<1>4. toCli'[c] = <<>> /\ Head(toCli[c]) = toCli[c][1] /\ 1 \in 1 .. Len(toCli[c])
  BY <1>1, <1>2, <1>3, LastOne, QueueHead DEF Told
<1>5. PlaceInv(c)'
  BY <1>1, SendsNothing DEF ClientInv, PlaceInv, Before, AtSession
<1>6. TurnInv(c)'
  <2>1. ~Asks(c)' /\ ~Taken(c)' /\ ~Told(c)'
    BY <1>3, <1>4, SendsNothing DEF Told
  <2>2. toSrv'[c] = <<>> /\ \A w \in Slot : \A i : ~HasDatagram(c, w, i)'
    BY <1>3, SendsNothing DEF Asks
  <2>3. ~Before(c)' /\ cpc'[c] # "redirected"
    BY DEF Before
  <2>4. Len(toSrv[c])' <= 1 /\ Len(toCli[c])' <= 1
    <3>1. Len(<<>>) = 0
      OBVIOUS
    <3>2. toSrv[c]' = <<>> /\ toCli[c]' = <<>>
      BY <1>4, <2>2
    <3>3. Len(<<>>) <= 1
      BY <3>1
    <3> QED
      BY <3>2, <3>3, Zenon
  <2> QED
    BY <2>1, <2>2, <2>3, <2>4 DEF TurnInv
<1>7. ContentInv(c)'
  <2>1. CASE cpc[c] = "probing"
    BY <2>1 DEF ContentInv, GoesOn, DATA, QUIT, QUIT_ACK
  <2>2. CASE cpc[c] = "reply"
    <3>1. IsAnswer(c, Head(toCli[c]))
      BY <1>1, <1>4, <2>2 DEF ClientInv, ContentInv
    <3> QED
      BY <2>2, <3>1 DEF ContentInv, IsAnswer, GoesOn
  <2> QED
    BY <2>1, <2>2
<1>8. ConnInv(c)'
  BY <1>1 DEF ClientInv, ConnInv
<1>9. ServedInv(c)'
  <2>1. Talking(c) \/ (cpc[c] = "probing" /\ toCli[c][1].sign # QUIT_ACK)
    BY <1>4 DEF Talking, PROBE_ACK, QUIT_ACK
  <2> QED
    BY <1>1, <2>1 DEF ClientInv, ServedInv
<1> QED
  BY <1>5, <1>6, <1>7, <1>8, <1>9 DEF ClientInv

\* The client sends a request and waits.
LEMMA AsksInv ==
  ASSUME LiveInv, ServerTypeOK, server = "up", NEW c \in Client, NEW m \in Message, NEW p,
         Deliver(c, m, p), ~Asks(c), ~Taken(c), toCli'[c] = <<>>, cport'[c] = p,
         cpc'[c] \in {"probing", "reply"},
         cpc'[c] = "reply" =>
           Talking(c) /\ GoesOn(m) /\ m.message = asked'[c] /\ GoesOn(cbuf[c])',
         UNCHANGED <<sock, conn, wpc, wpeer, wbuf, flag>>,
         \A w \in Slot : \/ wpeer[w] = c
                         \/ \E i \in 1 .. Len(backlog'[w]) : backlog'[w][i] = c
                         => sock[w].proto = Proto(c) /\ sock[w].port = p
  PROVE  ClientInv(c)'
<1>1. ClientInv(c) /\ AtSession(c)' /\ ~Before(c)' /\ ~Told(c)'
  BY DEF LiveInv, AtSession, Before, Told
<1>2. /\ toSrv'[c] = IF c \in TcpClient THEN <<m>> ELSE <<>>
      /\ \A w \in Slot : \A i : HasDatagram(c, w, i)' =>
           /\ c \notin TcpClient /\ sock[w] = Bound("udp", p)
           /\ i = Len(dgrams[w]) + 1 /\ dgrams'[w][i].msg = m
  BY DeliverOnly
<1>3. PlaceInv(c)'
  <2> SUFFICES ASSUME NEW w \in Slot, Reached(c, w)'
               PROVE  sock[w].proto = Proto(c) /\ sock[w].port = p
    BY <1>1 DEF PlaceInv
  <2>1. CASE wpeer[w] = c \/ \E i \in 1 .. Len(backlog'[w]) : backlog'[w][i] = c
    BY <2>1
  <2>2. CASE \E i \in 1 .. Len(dgrams'[w]) : HasDatagram(c, w, i)'
    BY <1>2, <2>2 DEF Bound, Proto
  <2> QED
    BY <2>1, <2>2 DEF Reached
<1>4. TurnInv(c)'
  <2>1. ~Taken(c)'
    BY DEF Taken
  <2>2. c \in UdpClient => toSrv'[c] = <<>>
    BY <1>2, ClientAssumption
  <2>3. Len(toSrv'[c]) <= 1 /\ Len(toCli'[c]) <= 1
    <3>1. Len(<<m>>) = 1
      OBVIOUS
    <3> QED
      BY <1>2, <3>1
  <2> QED
    BY <1>1, <1>2, <2>1, <2>2, <2>3 DEF TurnInv
<1>5. ContentInv(c)'
  <2>1. CASE cpc'[c] = "reply"
    <3>1. IsRequest(c, m)'
      BY <2>1 DEF IsRequest
    <3>2. \A i \in 1 .. Len(toSrv'[c]) : IsRequest(c, toSrv[c][i])'
      <4>1. \A i \in 1 .. Len(toSrv'[c]) : toSrv'[c][i] = m
        BY <1>2
      <4> QED
        BY <3>1, <4>1 DEF IsRequest
    <3>3. \A w \in Slot : \A i \in 1 .. Len(dgrams'[w]) :
            HasDatagram(c, w, i)' => IsRequest(c, dgrams[w][i].msg)'
      BY <1>2, <3>1 DEF IsRequest
    <3>4. \A w \in Slot : wbuf'[w].from # c
      BY DEF Taken
    <3> QED
      BY <2>1, <3>2, <3>3, <3>4 DEF ContentInv, Talking
  <2>2. CASE cpc'[c] # "reply"
    BY <2>2 DEF ContentInv, Talking
  <2> QED
    BY <2>1, <2>2
<1>6. ConnInv(c)'
  BY <1>1 DEF ClientInv, ConnInv, Talking
<1>7. ServedInv(c)'
  BY <1>1 DEF ClientInv, ServedInv, Talking
<1> QED
  BY <1>3, <1>4, <1>5, <1>6, <1>7 DEF ClientInv

\* A step of a client keeps its own part of the invariant.
LEMMA OwnInv ==
  ASSUME LiveInv, ServerTypeOK, ClientTypeOK, server = "up", NEW c \in Client,
         ClientStep(c) \/ UserStep(c), UNCHANGED <<wpc, wpeer, wbuf, flag>>
  PROVE  ClientInv(c)'
<1>0. /\ DOMAIN cpc = Client /\ DOMAIN cbuf = Client /\ DOMAIN cport = Client
      /\ DOMAIN asked = Client /\ DOMAIN toSrv = Client /\ DOMAIN toCli = Client
  BY DEF ClientTypeOK, ServerTypeOK, SocketTypeOK
<1>1. ClientInv(c) /\ OnlyClient(c)
  BY ClientAlone DEF LiveInv, OnlyClient, ServerTypeOK
<1>2. UNCHANGED <<sock, conn, wpc, wpeer, wbuf, flag>>
  BY <1>1 DEF OnlyClient, OnlyItself
<1>3. ASSUME Ends(c), UNCHANGED <<backlog, dgrams, toSrv>> PROVE ClientInv(c)'
  <2>1. cpc'[c] = "done"
    BY <1>0, <1>3 DEF Ends
  <2> QED
    BY <1>2, <1>3, <2>1, SendsNothing, EndedInv
<1>4. ASSUME NEW m, Follow(c, m), cpc[c] = "await", UNCHANGED <<backlog, dgrams, toSrv>>
      PROVE  ClientInv(c)'
  <2>1. CASE m.sign = LIMIT
    BY <1>3, <1>4, <2>1 DEF Follow
  <2>2. CASE m.sign # LIMIT
    <3>1. cpc'[c] = "redirected" /\ toCli'[c] = <<>>
      BY <1>0, <1>4, <2>2 DEF Follow
    <3> QED
      BY <1>2, <1>4, <3>1, BeforeInv DEF Before
  <2> QED
    BY <2>1, <2>2
<1>5. CASE RecvRedirect(c) \/ RecvRedirectFails(c)
  <2>1. (\E m : Follow(c, m)) /\ cpc[c] = "await" /\ UNCHANGED <<backlog, dgrams, toSrv>>
    BY <1>5 DEF RecvRedirect, RecvRedirectFails
  <2> QED
    BY <1>4, <2>1
<1>6. CASE StartTcp(c) \/ StartUdp(c)
  <2>1. /\ cpc[c] = "start" /\ cpc'[c] = "await"
        /\ UNCHANGED <<backlog, dgrams, toSrv>>
    BY <1>0, <1>6 DEF StartTcp, StartUdp
  <2> QED
    BY <1>2, <2>1, BeforeInv DEF Before
<1>7. ASSUME cpc[c] = "redirected"
      PROVE  /\ ~Asks(c) /\ ~Taken(c) /\ ~Told(c)
             /\ \A w \in Slot : ~Reached(c, w)
  <2>1. Before(c)
    BY <1>7 DEF Before
  <2>2. \A w \in Slot : ~Reached(c, w)
    BY <1>1, <2>1 DEF ClientInv, PlaceInv
  <2>3. ~Asks(c)
    BY <1>1, <2>1, <2>2 DEF ClientInv, TurnInv, Asks, Reached
  <2>4. ~Taken(c)
    BY <2>2, ClientAssumption DEF LiveInv, ThreadInv, Taken, Reached, Client
  <2> QED
    BY <1>1, <1>7, <2>2, <2>3, <2>4 DEF ClientInv, TurnInv
<1>8. CASE ConnectSessionTcp(c)
  <2>1. PICK m \in Message, p \in Int : m = FirstProbe(cbuf[c]) /\ p = cbuf[c].message
    BY FirstProbeType DEF ClientTypeOK, Message
  <2>2. /\ Deliver(c, m, p) /\ cport'[c] = p /\ cpc'[c] = "probing"
        /\ toCli' = toCli /\ c \in TcpClient /\ cpc[c] = "redirected"
    BY <1>0, <1>8, <2>1 DEF ConnectSessionTcp, SendSession
  <2>3. PICK x \in Slot : /\ sock[x] = Bound("tcp", p)
                          /\ backlog' = [backlog EXCEPT ![x] = Append(@, c)]
    BY <1>8, <2>1 DEF ConnectSessionTcp, SocketsAt, ServerTypeOK, SocketTypeOK
  <2>4. \A w \in Slot : backlog'[w] = IF w = x THEN Append(backlog[w], c) ELSE backlog[w]
    BY <2>3 DEF ServerTypeOK, SocketTypeOK
  <2>5. ASSUME NEW w \in Slot,
               wpeer[w] = c \/ \E i \in 1 .. Len(backlog'[w]) : backlog'[w][i] = c
        PROVE  sock[w].proto = Proto(c) /\ sock[w].port = p
    <3>1. w = x
      BY <1>7, <2>2, <2>4, <2>5 DEF Reached
    <3> QED
      BY <2>2, <2>3, <3>1 DEF Bound, Proto
  <2>6. toCli'[c] = <<>> /\ ~Asks(c) /\ ~Taken(c)
    BY <1>7, <2>2 DEF Told
  <2> QED
    BY <1>2, <2>2, <2>5, <2>6, AsksInv
<1>9. CASE ConnectSessionUdp(c)
  <2>1. PICK m \in Message, p \in Int : m = FirstProbe(cbuf[c]) /\ p = cbuf[c].message
    BY FirstProbeType DEF ClientTypeOK, Message
  <2>2. /\ Deliver(c, m, p) /\ cport'[c] = p /\ cpc'[c] = "probing"
        /\ UNCHANGED <<toCli, backlog>> /\ cpc[c] = "redirected"
    BY <1>0, <1>9, <2>1 DEF ConnectSessionUdp, SendSession
  <2>3. ASSUME NEW w \in Slot,
               wpeer[w] = c \/ \E i \in 1 .. Len(backlog'[w]) : backlog'[w][i] = c
        PROVE  FALSE
    BY <1>7, <2>2, <2>3 DEF Reached
  <2>4. toCli'[c] = <<>> /\ ~Asks(c) /\ ~Taken(c)
    BY <1>7, <2>2 DEF Told
  <2> QED
    BY <1>2, <2>2, <2>3, <2>4, AsksInv
<1>10. ASSUME AtSession(c), UNCHANGED backlog,
              NEW w \in Slot,
              wpeer[w] = c \/ \E i \in 1 .. Len(backlog'[w]) : backlog'[w][i] = c
       PROVE  sock[w].proto = Proto(c) /\ sock[w].port = cport[c]
  BY <1>1, <1>10 DEF ClientInv, PlaceInv, Reached
<1>11. CASE RecvOtherAck(c)
  <2>1. toCli[c] \in Seq(Message) /\ toCli[c] # <<>>
    BY <1>11 DEF RecvOtherAck, ServerTypeOK, SocketTypeOK
  <2>2. PICK m \in Message, p \in Int : m = FirstProbe(Head(toCli[c])) /\ p = cport[c]
    BY <2>1, QueueHead, FirstProbeType DEF ClientTypeOK
  <2>3. /\ Deliver(c, m, p) /\ cport'[c] = p /\ cpc'[c] = "probing" /\ cpc[c] = "probing"
        /\ UNCHANGED backlog
        /\ toCli'[c] = Tail(toCli[c])
    BY <1>0, <1>11, <2>2 DEF RecvOtherAck, SendSession
  <2>4. AtSession(c) /\ Told(c)
    BY <2>1, <2>3 DEF AtSession, Told
  <2>5. toCli'[c] = <<>> /\ ~Asks(c) /\ ~Taken(c)
    BY <1>1, <2>1, <2>3, <2>4, LastOne DEF ClientInv, TurnInv
  <2> QED
    BY <1>2, <1>10, <2>2, <2>3, <2>4, <2>5, AsksInv
<1>12. CASE Ask(c)
  <2>1. cpc[c] = "chat" /\ GoesOn(cbuf[c]) /\ Talking(c) /\ AtSession(c)
    BY <1>1, <1>12 DEF Ask, ClientInv, ContentInv, Talking, AtSession
  <2>2. PICK n \in Data :
          /\ asked' = [asked EXCEPT ![c] = n]
          /\ cbuf' = [cbuf EXCEPT ![c] = Msg(@.sign, n)]
          /\ Deliver(c, Msg(cbuf[c].sign, n), cport[c])
    BY <1>12 DEF Ask, SendSession
  <2>3. PICK m \in Message, p \in Int : m = Msg(cbuf[c].sign, n) /\ p = cport[c]
    BY DataAssumption DEF ClientTypeOK, Msg, Message
  <2>4. /\ Deliver(c, m, p) /\ cport'[c] = p /\ cpc'[c] = "reply"
        /\ asked'[c] = n /\ cbuf'[c] = m /\ UNCHANGED <<toCli, backlog>>
    BY <1>0, <1>12, <2>2, <2>3 DEF Ask
  <2>5. m.message = n /\ m.sign = cbuf[c].sign
    BY <2>3 DEF Msg
  <2>6. GoesOn(m) /\ GoesOn(cbuf[c])'
    BY <2>1, <2>4, <2>5 DEF GoesOn
  <2>7. toCli'[c] = <<>> /\ ~Asks(c) /\ ~Taken(c)
    BY <1>1, <2>1, <2>4 DEF ClientInv, TurnInv, Told
  <2> QED
    BY <1>2, <1>10, <2>1, <2>3, <2>4, <2>5, <2>6, <2>7, AsksInv
<1>13. CASE Quit(c)
  <2>0. Msg(QUIT, cbuf[c].message) \in Message
    <3>1. cbuf[c].message \in Int
      BY DEF ClientTypeOK, Message
    <3> QED
      BY <3>1 DEF Msg, Message, QUIT
  <2>1. PICK m \in Message : m = Msg(QUIT, cbuf[c].message)
    BY <2>0
  <2>2. Deliver(c, m, cport[c]) /\ UNCHANGED backlog /\ cpc'[c] = "done"
    BY <1>0, <1>13, <2>1 DEF Quit, Ends
  <2>3. c \in UdpClient => toSrv'[c] = toSrv[c]
    BY <2>2, ClientAssumption DEF Deliver
  <2>4. ASSUME NEW w \in Slot, Reached(c, w)' PROVE Reached(c, w) \/ sock[w].proto = Proto(c)
    <3>1. dgrams'[w] = IF c \notin TcpClient /\ sock[w] = Bound("udp", cport[c])
                       THEN Append(dgrams[w], [from |-> c, msg |-> m]) ELSE dgrams[w]
      BY <2>2, DeliverEffect DEF ServerTypeOK
    <3>2. CASE c \notin TcpClient /\ sock[w] = Bound("udp", cport[c])
      BY <3>2 DEF Bound, Proto
    <3>3. CASE dgrams'[w] = dgrams[w]
      BY <1>2, <2>2, <2>4, <3>3 DEF Reached, HasDatagram
    <3> QED
      BY <3>1, <3>2, <3>3
  <2> QED
    BY <1>2, <2>2, <2>3, <2>4, EndedInv
<1>14. CASE \/ ConnectSessionRefused(c) \/ ProbeGivesUp(c) \/ AnswerFails(c)
            \/ AskBroken(c) \/ Kill(c)
  <2>1. Ends(c) /\ UNCHANGED <<backlog, dgrams, toSrv>>
    BY <1>14 DEF ConnectSessionRefused, ProbeGivesUp, AnswerFails, AskBroken, Kill
  <2> QED
    BY <1>3, <2>1
<1>15. CASE RecvProbeAck(c)
  <2>1. /\ cpc[c] = "probing" /\ toCli[c] # <<>> /\ Head(toCli[c]).sign = PROBE_ACK
        /\ cpc'[c] = "chat" /\ cbuf'[c].sign = DATA /\ toCli'[c] = Tail(toCli[c])
        /\ UNCHANGED <<backlog, dgrams, toSrv, cport, asked>>
    BY <1>0, <1>15 DEF RecvProbeAck, Msg
  <2> QED
    BY <1>2, <2>1, HearsInv
<1>16. CASE RecvAnswer(c)
  <2>1. /\ cpc[c] = "reply" /\ toCli[c] # <<>> /\ cpc'[c] = "ask"
        /\ cbuf'[c] = Head(toCli[c]) /\ toCli'[c] = Tail(toCli[c])
        /\ UNCHANGED <<backlog, dgrams, toSrv, cport, asked>>
    BY <1>0, <1>16 DEF RecvAnswer
  <2> QED
    BY <1>2, <2>1, HearsInv
<1>17. CASE RecvEofAsAnswer(c)
  <2>1. c \in TcpClient /\ ~SessionUp(c) /\ Talking(c)
    BY <1>17 DEF RecvEofAsAnswer, AtEof, Talking
  <2>2. \E p \in Slot : <<c, p>> \in conn
    BY <1>1, <2>1 DEF ClientInv, ConnInv
  <2> QED
    BY <2>1, <2>2 DEF SessionUp
<1>18. CASE ProbeTimesOut(c)
  <2>1. UNCHANGED <<netVars, cpc, cbuf, cport, asked>>
    BY <1>18 DEF ProbeTimesOut
  <2>2. SameClientState(c) /\ StaysServed(c) /\ StaysConnected(c)
    BY <1>2, <2>1 DEF SameClientState, StaysServed, StaysConnected, netVars
  <2>3. \A w \in Slot : NothingNew(c, w)
    BY <1>2, <2>1, QuietThread DEF netVars
  <2> QED
    BY <1>1, <2>2, <2>3, UntouchedInv DEF Untouched
<1>19. CASE Again(c)
  <2>1. /\ UNCHANGED <<backlog, dgrams, toSrv, toCli, cbuf, cport, asked>>
        /\ cpc[c] = "ask" /\ cpc'[c] = "chat"
    BY <1>0, <1>19 DEF Again, netVars
  <2>2. PlaceInv(c)'
    BY <1>1, <1>2, <2>1, SendsNothing DEF ClientInv, PlaceInv, Before, AtSession
  <2>3. TurnInv(c)'
    BY <1>1, <1>2, <2>1, SendsNothing DEF ClientInv, TurnInv, Before, AtSession, Told
  <2>4. ContentInv(c)' /\ ConnInv(c)' /\ ServedInv(c)'
    BY <1>1, <1>2, <2>1
       DEF ClientInv, ContentInv, ConnInv, ServedInv, Talking, AtSession, Told, GoesOn
  <2> QED
    BY <2>2, <2>3, <2>4 DEF ClientInv
<1> QED
  BY <1>5, <1>6, <1>8, <1>9, <1>11, <1>12, <1>13, <1>14, <1>15, <1>16, <1>17, <1>18, <1>19
     DEF ClientStep, UserStep

LEMMA ClientsInv ==
  ASSUME LiveInv, ServerTypeOK, ClientTypeOK, server = "up", NEW c \in Client,
         ClientStep(c) \/ UserStep(c), UNCHANGED <<wpc, wpeer, wbuf, flag>>
  PROVE  LiveInv'
<1>1. OnlyClient(c)
  BY ClientAlone DEF OnlyClient, ServerTypeOK
<1>2. ClientInv(c)'
  BY OwnInv
<1>3. PortInv' /\ (\A w \in Slot : ThreadInv(w)') /\ \A d \in Client \ {c} : ClientInv(d)'
  BY <1>1, OthersInv
<1> QED
  BY <1>2, <1>3 DEF LiveInv

-----------------------------------------------------------------------------
(* What the servers' dialogue properties need of SessionInv. *)

\* The thread of a client in dialogue is bound to the port the client talks to.
LEMMA DialogueServed ==
  ASSUME LiveInv, SocketTypeOK(Slot), flag = 1, NEW c \in Client, Talking(c)
  PROVE  \E w \in Slot : /\ wpeer[w] = c /\ wpc[w] \in InDialogue
                         /\ sock[w] = Bound(Proto(c), cport[c])
<1>1. PICK w \in Slot : wpeer[w] = c /\ wpc[w] \in InDialogue
  BY DEF LiveInv, ClientInv, ServedInv
<1>2. AtSession(c)
  BY DEF Talking, AtSession
<1>3. sock[w].proto = Proto(c) /\ sock[w].port = cport[c]
  BY <1>1, <1>2 DEF LiveInv, ClientInv, PlaceInv, Reached
<1>4. sock[w] # Closed
  BY <1>1 DEF LiveInv, ThreadInv, InDialogue, OpenPc
<1>5. sock[w] = Bound(Proto(c), cport[c])
  BY <1>3, <1>4 DEF SocketTypeOK, SocketState, Bound
<1> QED
  BY <1>1, <1>5
=============================================================================
