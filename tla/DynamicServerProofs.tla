--------------------------- MODULE DynamicServerProofs ---------------------------
(***************************************************************************)
(* Theorems about DynamicServer, for every number of clients, entries,     *)
(* descriptors and interrupts.                                             *)
(***************************************************************************)
EXTENDS DynamicServerProps, CubeClientProofs

-----------------------------------------------------------------------------
(* Type correctness. *)

\* What a file is: neither no file nor a reserved number, and some client's.
LEMMA FileFacts ==
  /\ Free \notin File /\ Reserved \notin File /\ Free # Reserved
  /\ \A f \in File : f[2] \in Client /\ f[1] \in {"serv", "main", "conn"}
  /\ \A f \in File : f = <<f[1], f[2]>>
  /\ \A c \in Client : Serv(c) \in File /\ MainConn(c) \in File /\ Conn(c) \in File
  BY DEF File, Free, Reserved, Serv, MainConn, Conn

\* One kind of file per constructor, one file per client.
LEMMA FileNames ==
  \A c, d : /\ Serv(c) # MainConn(d) /\ Serv(c) # Conn(d) /\ MainConn(c) # Conn(d)
            /\ Serv(c) = Serv(d) => c = d
            /\ MainConn(c) = MainConn(d) => c = d
            /\ Conn(c) = Conn(d) => c = d
            /\ Serv(c)[1] = "serv" /\ Serv(c)[2] = c
            /\ MainConn(c)[1] = "main" /\ MainConn(c)[2] = c
            /\ Conn(c)[1] = "conn" /\ Conn(c)[2] = c
            /\ Serv(c) \notin {Free, Reserved} /\ Conn(c) \notin {Free, Reserved}
            /\ MainConn(c) \notin {Free, Reserved}
  BY DEF Serv, MainConn, Conn, Free, Reserved

LEMMA FdFacts == 0 \in 0 .. FdLimit /\ Fd \subseteq 0 .. FdLimit /\ 0 \notin Fd
  BY LimitAssumption DEF Fd

LEMMA InitType == Init => TypeOK
<1> SUFFICES ASSUME Init PROVE TypeOK
  OBVIOUS
<1> USE SlotFacts, FdFacts, MaxInterruptsAssumption, LengthAssumption
<1>1. ZeroMsg \in Message
  BY DEF ZeroMsg, Msg, Message, DATA
<1>2. NoRequest \in Request
  BY <1>1 DEF NoRequest, Request
<1>3. ClientTypeOK
  BY <1>1 DEF Init, ClientInit, ClientTypeOK, ClientPc
<1>4. sock \in [Client -> SocketState]
  BY DEF Init, SocketState
<1>5. NetTypeOK /\ MainTypeOK /\ PoolTypeOK
  BY <1>4 DEF Init, NetTypeOK, SocketTypeOK, MainTypeOK, PoolTypeOK
<1>6. WorkerTypeOK /\ FdTypeOK
  BY <1>2 DEF Init, WorkerTypeOK, WorkerPc, FdTypeOK
<1> QED
  BY <1>3, <1>5, <1>6 DEF TypeOK

\* Steps that leave a group of variables alone keep its type.
LEMMA NetKept == NetTypeOK /\ UNCHANGED netVars => NetTypeOK'
  BY SocketKept DEF NetTypeOK

LEMMA MainKept == MainTypeOK /\ UNCHANGED <<flag, interrupts, mainVars>> => MainTypeOK'
  BY DEF MainTypeOK, mainVars

LEMMA PoolKept == PoolTypeOK /\ UNCHANGED poolVars => PoolTypeOK'
  BY DEF PoolTypeOK, poolVars

LEMMA WorkerKept == WorkerTypeOK /\ UNCHANGED workerVars => WorkerTypeOK'
  BY DEF WorkerTypeOK, workerVars

LEMMA FdKept == FdTypeOK /\ UNCHANGED fdVars => FdTypeOK'
  BY DEF FdTypeOK, fdVars

\* error_func changes nothing but the state of the process.
LEMMA FailType == TypeOK /\ Fail => TypeOK'
<1> SUFFICES ASSUME TypeOK, Fail PROVE TypeOK'
  OBVIOUS
<1>1. NetTypeOK'
  BY DEF Fail, TypeOK, NetTypeOK, SocketTypeOK
<1> QED
  BY <1>1, ClientKept, MainKept, PoolKept, WorkerKept, FdKept DEF Fail, TypeOK

\* What a file's end and a call's end leave of the sockets and connections.
LEMMA DestroysType ==
  ASSUME NetTypeOK, NEW f, Destroys(f)
  PROVE  /\ sock' \in [Client -> SocketState]
         /\ accepted' \subseteq Client /\ conn' \subseteq Client \X Slot
  BY DEF Destroys, NetTypeOK, SocketTypeOK, SocketState

LEMMA CallReturnsType ==
  ASSUME NetTypeOK, WorkerTypeOK, NEW w \in Client, CallReturns(w)
  PROVE  /\ sock' \in [Client -> SocketState]
         /\ accepted' \subseteq Client /\ conn' \subseteq Client \X Slot
         /\ wfile' \in [Client -> File \cup {Free}]
         /\ \A v \in Client : v # w => wfile'[v] = wfile[v]
<1>1. wfile' = [wfile EXCEPT ![w] = Free]
  BY DEF CallReturns
<1>2. /\ wfile' \in [Client -> File \cup {Free}]
      /\ \A v \in Client : v # w => wfile'[v] = wfile[v]
  BY <1>1 DEF WorkerTypeOK
<1>3. CASE LastUse(w)
  BY <1>2, <1>3, DestroysType DEF CallReturns
<1>4. CASE ~LastUse(w)
  BY <1>2, <1>4 DEF CallReturns, NetTypeOK, SocketTypeOK
<1> QED
  BY <1>3, <1>4

\* A written message is received whole or not at all.
LEMMA WriteType ==
  ASSUME NetTypeOK, NEW f, NEW m \in Message, Write(f, m)
  PROVE  toCli' \in [Client -> Seq(Message)]
<1>1. toCli' = toCli \/ toCli' = [toCli EXCEPT ![f[2]] = Append(@, m)]
  BY DEF Write, SendMain, SendClient
<1> QED
  BY <1>1, SendType DEF NetTypeOK, SocketTypeOK

LEMMA AnswerType ==
  ASSUME TypeOK, NEW m \in Message, Answer(m)
  PROVE  NetTypeOK' /\ MainTypeOK' /\ FdTypeOK'
<1> USE DEF TypeOK
<1>1. toCli' \in [Client -> Seq(Message)]
  BY WriteType DEF Answer
<1>2. NetTypeOK'
  BY <1>1 DEF Answer, NetTypeOK, SocketTypeOK
<1>3. MainTypeOK'
  BY FdFacts DEF Answer, NextBranch, MainTypeOK
<1>4. FdTypeOK'
  BY DEF Answer, FdTypeOK
<1> QED
  BY <1>2, <1>3, <1>4

LEMMA MainType == TypeOK /\ MainInv /\ MainStep => TypeOK'
<1> SUFFICES ASSUME TypeOK, MainInv, MainStep PROVE TypeOK'
  OBVIOUS
<1> USE DEF TypeOK
<1>1. CASE MainLoop
  <2>1. MainTypeOK'
    BY <1>1 DEF MainLoop, MainTypeOK
  <2> QED
    BY <1>1, <2>1, NetKept, ClientKept, PoolKept, WorkerKept, FdKept DEF MainLoop
<1>2. CASE Select
  <2>1. MainTypeOK'
    BY <1>2 DEF Select, MainTypeOK
  <2> QED
    BY <1>2, <2>1, NetKept, ClientKept, PoolKept, WorkerKept, FdKept DEF Select
<1>3. CASE Check
  <2>1. MainTypeOK'
    BY <1>3 DEF Check, MainTypeOK
  <2> QED
    BY <1>3, <2>1, NetKept, ClientKept, PoolKept, WorkerKept, FdKept DEF Check
<1>4. CASE Take
  <2> DEFINE c == Head(mainq[Now])
  <2>1. Now \in {"tcp", "udp"} /\ mainq[Now] \in Seq(Client) /\ mainq[Now] # <<>>
    BY <1>4 DEF Take, Now, NetTypeOK, SocketTypeOK
  <2>2. c \in Client /\ Tail(mainq[Now]) \in Seq(Client)
    BY <2>1, QueueHead
  <2>3. /\ mainq' = [mainq EXCEPT ![Now] = Tail(@)] /\ cur' = c
        /\ accepted' \in {accepted, accepted \cup {c}}
    BY <1>4 DEF Take
  <2>4. main_fd' \in 0 .. FdLimit /\ FdTypeOK'
    <3>1. CASE Now = "tcp"
      <4>1. PICK n \in Fd : fds' = [fds EXCEPT ![n] = MainConn(c)] /\ main_fd' = n
        BY <1>4, <3>1 DEF Take
      <4> HIDE DEF c
      <4>2. MainConn(c) \in File
        BY <2>2, FileFacts
      <4> QED
        BY <1>4, <4>1, <4>2, FdFacts DEF Take, FdTypeOK
    <3>2. CASE Now # "tcp"
      BY <1>4, <3>2 DEF Take, FdTypeOK, MainTypeOK
    <3> QED
      BY <3>1, <3>2
  <2> HIDE DEF c
  <2>5. NetTypeOK'
    BY <1>4, <2>1, <2>2, <2>3 DEF Take, NetTypeOK, SocketTypeOK
  <2>6. MainTypeOK'
    BY <1>4, <2>2, <2>3, <2>4 DEF Take, MainTypeOK
  <2>7. PoolTypeOK'
    BY <1>4 DEF Take, PoolTypeOK
  <2> QED
    BY <1>4, <2>4, <2>5, <2>6, <2>7, ClientKept, WorkerKept DEF Take
<1>5. CASE TakeFails
  BY <1>5, FailType DEF TakeFails
<1>6. CASE Admit
  <2>1. cur \in Client /\ Now \in {"tcp", "udp"}
    BY <1>6 DEF Admit, Now, MainInv, Serves
  <2>2. PICK n \in Fd, s \in Slot :
          /\ fds' = [fds EXCEPT ![n] = Serv(cur)]
          /\ sock' = [sock EXCEPT ![cur] = Bound(Now, s)]
          /\ status' = [status EXCEPT ![s] = 1]
          /\ ph' = [ph EXCEPT ![s] = cur]
          /\ fd_serv' = [fd_serv EXCEPT ![s] = n]
          /\ thread_input' = [thread_input EXCEPT ![s] = cur]
          /\ cout_thread' = IF s > cout_thread THEN s ELSE cout_thread
          /\ wpc' = [wpc EXCEPT ![cur] = IF Now = "tcp" THEN "start" ELSE "loop"]
          /\ wslot' = [wslot EXCEPT ![cur] = s]
    BY <1>6 DEF Admit
  <2>3. Bound(Now, s) \in SocketState /\ Serv(cur) \in File
    BY <2>1, FileFacts DEF Bound, SocketState
  <2>4. NetTypeOK'
    BY <1>6, <2>1, <2>2, <2>3 DEF Admit, NetTypeOK, SocketTypeOK
  <2>5. MainTypeOK'
    BY <1>6 DEF Admit, MainTypeOK
  <2>6. PoolTypeOK'
    BY <1>6, <2>1, <2>2, FdFacts DEF Admit, PoolTypeOK
  <2>7. WorkerTypeOK'
    BY <1>6, <2>1, <2>2 DEF Admit, WorkerTypeOK, WorkerPc
  <2>8. FdTypeOK'
    BY <1>6, <2>2, <2>3, FdFacts DEF Admit, FdTypeOK
  <2> QED
    BY <1>6, <2>4, <2>5, <2>6, <2>7, <2>8, ClientKept DEF Admit
<1>7. CASE AdmitFails
  BY <1>7, FailType DEF AdmitFails
<1>8. CASE SendRedirect
  <2>1. wslot[cur] \in Slot
    BY <1>8 DEF SendRedirect, MainInv, Serves, WorkerTypeOK
  <2>2. Msg(REDIRECT, wslot[cur]) \in Message
    <3>1. wslot[cur] \in Int
      BY <2>1, LengthAssumption DEF Slot
    <3> QED
      BY <3>1 DEF Msg, Message, REDIRECT
  <2>3. Answer(Msg(REDIRECT, wslot[cur])) /\ flag_client' = flag_client - 1
    BY <1>8 DEF SendRedirect
  <2>4. NetTypeOK' /\ MainTypeOK' /\ FdTypeOK'
    BY <2>2, <2>3, AnswerType
  <2>5. flag_client' \in Int
    BY <2>3 DEF PoolTypeOK
  <2>6. PoolTypeOK'
    BY <2>3, <2>5 DEF Answer, PoolTypeOK
  <2> QED
    BY <2>3, <2>4, <2>6, ClientKept, WorkerKept DEF Answer
<1>9. CASE Refuse
  <2>1. NoRoom \in Message
    BY DEF NoRoom, Msg, Message, LIMIT
  <2>2. NetTypeOK' /\ MainTypeOK' /\ FdTypeOK'
    BY <1>9, <2>1, AnswerType DEF Refuse
  <2>3. PoolTypeOK'
    BY <1>9 DEF Refuse, Answer, PoolTypeOK
  <2> QED
    BY <1>9, <2>2, <2>3, ClientKept, WorkerKept DEF Refuse, Answer
<1>10. CASE ReplyFails
  BY <1>10, FailType DEF ReplyFails
<1>11. CASE Join
  <2>1. MainTypeOK'
    BY <1>11, LengthAssumption DEF Join, MainTypeOK, PoolTypeOK, Slot
  <2> QED
    BY <1>11, <2>1, NetKept, ClientKept, PoolKept, WorkerKept, FdKept DEF Join
<1>12. CASE Return
  <2>1. NetTypeOK'
    BY <1>12 DEF Return, NetTypeOK, SocketTypeOK
  <2> QED
    BY <1>12, <2>1, ClientKept, MainKept, PoolKept, WorkerKept, FdKept DEF Return
<1> QED
  BY <1>1, <1>2, <1>3, <1>4, <1>5, <1>6, <1>7, <1>8, <1>9, <1>10, <1>11, <1>12 DEF MainStep

\* What the numbers a thread uses open.
LEMMA ThreadFiles ==
  ASSUME TypeOK, NEW w \in Client
  PROVE  /\ ServFile(w) \in File \cup {Free, Reserved}
         /\ SessionFile(w) \in File \cup {Free, Reserved}
         /\ Readable(SessionFile(w)) => SessionFile(w) \in File
         /\ Serving(w) \in Client \cup {None}
<1>1. fd_serv[wslot[w]] \in 0 .. FdLimit /\ wfd[w] \in 0 .. FdLimit
  BY DEF TypeOK, PoolTypeOK, WorkerTypeOK
<1>2. ServFile(w) \in File \cup {Free, Reserved} /\ SessionFile(w) \in File \cup {Free, Reserved}
  BY <1>1 DEF ServFile, SessionFile, TypeOK, FdTypeOK
<1>3. ~Readable(Free) /\ ~Readable(Reserved)
  BY DEF Readable, Free, Reserved
<1>4. Serving(w) \in Client \cup {None}
  BY DEF Serving, TypeOK, PoolTypeOK, WorkerTypeOK
<1> QED
  BY <1>2, <1>3, <1>4

LEMMA WorkerType ==
  ASSUME TypeOK, PeerInv, NEW w \in Client, WorkerStep(w)
  PROVE  TypeOK'
<1> USE DEF TypeOK
<1>0. \A v \in Client : wpc[v] \in {"accept", "recv"} => wfile[v] \in File
  BY DEF WorkerTypeOK
<1>1. CASE CallAccept(w)
  <2>1. PICK x \in TcpClient, n \in Fd :
          /\ fds' = [fds EXCEPT ![n] = Reserved]
          /\ wfd' = [wfd EXCEPT ![w] = n]
          /\ wfile' = [wfile EXCEPT ![w] = Serv(x)]
    BY <1>1 DEF CallAccept
  <2>2. Serv(x) \in File
    BY FileFacts DEF Client
  <2>3. WorkerTypeOK'
    BY <1>1, <2>1, <2>2, FdFacts DEF CallAccept, Goto, WorkerTypeOK, WorkerPc
  <2>4. FdTypeOK'
    <3>1. crossed' \in BOOLEAN
      BY <1>1 DEF CallAccept, FdTypeOK
    <3> QED
      BY <2>1, <3>1, FdFacts DEF FdTypeOK
  <2> QED
    BY <1>1, <2>3, <2>4, NetKept, ClientKept, MainKept, PoolKept DEF CallAccept
<1>2. CASE AcceptFails(w)
  BY <1>2, FailType DEF AcceptFails
<1>3. CASE Accept(w)
  <2> DEFINE x == wfile[w][2]
  <2>1. x \in Client
    BY <1>0, <1>3, FileFacts DEF Accept
  <2>2. Head(backlog[x]) \in Client /\ Tail(backlog[x]) \in Seq(Client)
    BY <1>3, <2>1, QueueHead DEF Accept, NetTypeOK, SocketTypeOK
  <2>3. sock[x].port \in Slot
    BY <2>1, SlotFacts DEF NetTypeOK, SocketTypeOK, SocketState, Closed
  <2>4. /\ conn' = conn \cup {<<Head(backlog[x]), sock[x].port>>}
        /\ backlog' = [backlog EXCEPT ![x] = Tail(@)]
        /\ sock' \in {sock, [sock EXCEPT ![x] = Closed]}
        /\ wpeer' = [wpeer EXCEPT ![w] = Head(backlog[x])]
        /\ fds' = [fds EXCEPT ![wfd[w]] = Conn(Head(backlog[x]))]
    BY <1>3 DEF Accept
  <2> HIDE DEF x
  <2>5. sock' \in [Client -> SocketState]
    BY <2>4 DEF NetTypeOK, SocketTypeOK, SocketState
  <2>6. conn' \subseteq Client \X Slot /\ backlog' \in [Client -> Seq(Client)]
    BY <2>1, <2>2, <2>3, <2>4 DEF NetTypeOK, SocketTypeOK
  <2>7. NetTypeOK'
    BY <1>3, <2>5, <2>6 DEF Accept, NetTypeOK, SocketTypeOK
  <2>8. WorkerTypeOK'
    BY <1>3, <2>2, <2>4 DEF Accept, Goto, WorkerTypeOK, WorkerPc
  <2>9. FdTypeOK'
    <3>1. Conn(Head(backlog[x])) \in File /\ wfd[w] \in 0 .. FdLimit
      BY <2>2, FileFacts DEF WorkerTypeOK
    <3> QED
      BY <1>3, <2>4, <3>1 DEF Accept, FdTypeOK
  <2> QED
    BY <1>3, <2>7, <2>8, <2>9, ClientKept, MainKept, PoolKept DEF Accept
<1>4. CASE CallRecv(w)
  <2>1. WorkerTypeOK'
    <3>1. CASE flag = 1 /\ Readable(SessionFile(w))
      <4>1. SessionFile(w) \in File
        BY <3>1, ThreadFiles
      <4> QED
        BY <1>4, <3>1, <4>1 DEF CallRecv, Goto, WorkerTypeOK, WorkerPc
    <3>2. CASE ~(flag = 1 /\ Readable(SessionFile(w)))
      BY <1>4, <3>2 DEF CallRecv, Goto, WorkerTypeOK, WorkerPc
    <3> QED
      BY <3>1, <3>2
  <2>2. FdTypeOK'
    BY <1>4 DEF CallRecv, FdTypeOK
  <2> QED
    BY <1>4, <2>1, <2>2, NetKept, ClientKept, MainKept, PoolKept DEF CallRecv
<1>5. CASE RecvStream(w)
  <2> DEFINE c == wfile[w][2]
  <2>1. c \in Client
    BY <1>0, <1>5, FileFacts DEF RecvStream
  <2>2. Head(toSrv[c]) \in Message /\ Tail(toSrv[c]) \in Seq(Message)
    BY <1>5, <2>1, QueueHead DEF RecvStream, NetTypeOK, SocketTypeOK
  <2>3. PICK d \in Client \cup {None} :
          wbuf' = [wbuf EXCEPT ![w] = [from |-> d, msg |-> Reply(Head(toSrv[c]))]]
    BY <1>5, <2>1 DEF RecvStream
  <2>4. [from |-> d, msg |-> Reply(Head(toSrv[c]))] \in Request
    BY <2>2, ReplyType DEF Request
  <2>5. toSrv' = [toSrv EXCEPT ![c] = Tail(@)]
    BY <1>5 DEF RecvStream
  <2> HIDE DEF c
  <2>6. NetTypeOK'
    BY <1>5, <2>1, <2>2, <2>5, CallReturnsType DEF RecvStream, NetTypeOK, SocketTypeOK
  <2>7. WorkerTypeOK'
    BY <1>5, <2>3, <2>4, CallReturnsType DEF RecvStream, Goto, WorkerTypeOK, WorkerPc
  <2> QED
    BY <1>5, <2>6, <2>7, ClientKept, MainKept, PoolKept, FdKept DEF RecvStream, fdVars
<1>6. CASE RecvEnd(w)
  <2>1. NetTypeOK'
    BY <1>6, CallReturnsType DEF RecvEnd, NetTypeOK, SocketTypeOK
  <2>2. WorkerTypeOK'
    BY <1>6, CallReturnsType DEF RecvEnd, Goto, WorkerTypeOK, WorkerPc
  <2> QED
    BY <1>6, <2>1, <2>2, ClientKept, MainKept, PoolKept, FdKept DEF RecvEnd, fdVars
<1>7. CASE RecvNothing(w)
  <2>1. PICK m \in Message : wbuf' = [wbuf EXCEPT ![w] = [from |-> None, msg |-> Reply(m)]]
    <3>1. wbuf[w].msg \in Message /\ Garbage \subseteq Message
      BY DataAssumption DEF WorkerTypeOK, Request
    <3> QED
      BY <1>7, <3>1 DEF RecvNothing
  <2>2. [from |-> None, msg |-> Reply(m)] \in Request
    BY ReplyType DEF Request
  <2>3. NetTypeOK'
    BY <1>7, CallReturnsType DEF RecvNothing, NetTypeOK, SocketTypeOK
  <2>4. WorkerTypeOK'
    BY <1>7, <2>1, <2>2, CallReturnsType DEF RecvNothing, Goto, WorkerTypeOK, WorkerPc
  <2> QED
    BY <1>7, <2>3, <2>4, ClientKept, MainKept, PoolKept, FdKept DEF RecvNothing, fdVars
<1>8. CASE RecvUdp(w)
  <2> DEFINE x == wfile[w][2]
             d == Head(dgrams[x])
  <2>1. x \in Client
    BY <1>0, <1>8, FileFacts DEF RecvUdp
  <2>2. /\ d \in [from : Client, msg : Message]
        /\ Tail(dgrams[x]) \in Seq([from : Client, msg : Message])
    BY <1>8, <2>1, QueueHead DEF RecvUdp, NetTypeOK, SocketTypeOK
  <2>3. [from |-> d.from, msg |-> Reply(d.msg)] \in Request
    BY <2>2, ReplyType DEF Request
  <2>4. Serving(w) \in Client \cup {None}
    BY ThreadFiles
  <2>5. dgrams' = [dgrams EXCEPT ![x] = Tail(@)]
    BY <1>8 DEF RecvUdp
  <2>6. NetTypeOK'
    <3> HIDE DEF x, d
    <3>1. dgrams' \in [Client -> Seq([from : Client, msg : Message])]
      BY <2>1, <2>2, <2>5 DEF NetTypeOK, SocketTypeOK
    <3> QED
      BY <1>8, <3>1, CallReturnsType DEF RecvUdp, NetTypeOK, SocketTypeOK
  <2>7. /\ wpeer' \in [Client -> Client \cup {None}]
        /\ wbuf' \in [Client -> Request]
    <3>1. \/ /\ wpeer' = [wpeer EXCEPT ![w] = IF w \in TcpClient THEN @ ELSE Serving(w)]
             /\ wbuf' = [wbuf EXCEPT ![w] = [from |-> d.from, msg |-> Reply(d.msg)]]
          \/ UNCHANGED <<wpeer, wbuf>>
      BY <1>8 DEF RecvUdp
    <3> HIDE DEF d
    <3> QED
      BY <2>3, <2>4, <3>1 DEF WorkerTypeOK
  <2>8. PICK pc \in {"send", "loop"} : wpc' = [wpc EXCEPT ![w] = pc]
    BY <1>8 DEF RecvUdp, Goto
  <2>9. WorkerTypeOK'
    BY <1>8, <2>7, <2>8, CallReturnsType DEF RecvUdp, WorkerTypeOK, WorkerPc
  <2> QED
    BY <1>8, <2>6, <2>9, ClientKept, MainKept, PoolKept, FdKept DEF RecvUdp, fdVars
<1>9. CASE Send(w)
  <2>1. wbuf[w].msg \in Message /\ [wbuf EXCEPT ![w].from = None] \in [Client -> Request]
    BY DEF WorkerTypeOK, Request
  <2>2. \/ Write(SessionFile(w), wbuf[w].msg)
        \/ SendClient(wbuf[w].from, wbuf[w].msg)
        \/ UNCHANGED toCli
    BY <1>9 DEF Send, SendDatagram
  <2>3. SendClient(wbuf[w].from, wbuf[w].msg) => toCli' \in [Client -> Seq(Message)]
    BY <2>1, SendType DEF SendClient, NetTypeOK, SocketTypeOK
  <2>4. toCli' \in [Client -> Seq(Message)]
    BY <2>1, <2>2, <2>3, WriteType DEF NetTypeOK, SocketTypeOK
  <2>5. NetTypeOK'
    BY <1>9, <2>4 DEF Send, NetTypeOK, SocketTypeOK
  <2>6. PICK pc \in {"loop", "release"} : wpc' = [wpc EXCEPT ![w] = pc]
    BY <1>9 DEF Send, Goto
  <2>7. WorkerTypeOK'
    BY <1>9, <2>1, <2>6 DEF Send, WorkerTypeOK, WorkerPc
  <2>8. FdTypeOK'
    BY <1>9 DEF Send, FdTypeOK
  <2> QED
    BY <1>9, <2>5, <2>7, <2>8, ClientKept, MainKept, PoolKept DEF Send
<1>10. CASE SendKills(w)
  BY <1>10, FailType DEF SendKills
<1>11. CASE SendFails(w)
  <2>1. [wbuf EXCEPT ![w].from = None] \in [Client -> Request]
    BY DEF WorkerTypeOK, Request
  <2>2. WorkerTypeOK'
    BY <1>11, <2>1 DEF SendFails, Goto, WorkerTypeOK, WorkerPc
  <2>3. FdTypeOK'
    BY <1>11 DEF SendFails, FdTypeOK
  <2> QED
    BY <1>11, <2>2, <2>3, NetKept, ClientKept, MainKept, PoolKept DEF SendFails
<1>12. CASE Release(w)
  <2>1. flag_client' \in Int
    BY <1>12 DEF Release, PoolTypeOK
  <2>2. status' \in [Slot -> {0, 1}]
    BY <1>12 DEF Release, PoolTypeOK, WorkerTypeOK
  <2>3. PoolTypeOK'
    BY <1>12, <2>1, <2>2 DEF Release, PoolTypeOK
  <2>4. WorkerTypeOK'
    BY <1>12 DEF Release, Goto, WorkerTypeOK, WorkerPc
  <2> QED
    BY <1>12, <2>3, <2>4, NetKept, ClientKept, MainKept, FdKept DEF Release
<1>13. CASE Close(w)
  <2>1. /\ sock' \in [Client -> SocketState]
        /\ accepted' \subseteq Client /\ conn' \subseteq Client \X Slot
    <3>1. Destroys(ServFile(w)) \/ UNCHANGED <<sock, accepted, conn>>
      BY <1>13 DEF Close
    <3> QED
      BY <3>1, DestroysType DEF NetTypeOK, SocketTypeOK
  <2>2. NetTypeOK'
    BY <1>13, <2>1 DEF Close, NetTypeOK, SocketTypeOK
  <2>3. WorkerTypeOK'
    BY <1>13, FdFacts DEF Close, Goto, WorkerTypeOK, WorkerPc
  <2>4. FdTypeOK'
    <3>1. crossed' \in BOOLEAN /\ fds' \in {fds, [fds EXCEPT ![fd_serv[wslot[w]]] = Free]}
      BY <1>13 DEF Close, FdTypeOK
    <3> QED
      BY <3>1 DEF FdTypeOK
  <2> QED
    BY <1>13, <2>2, <2>3, <2>4, ClientKept, MainKept, PoolKept DEF Close
<1> QED
  BY <1>1, <1>2, <1>3, <1>4, <1>5, <1>6, <1>7, <1>8, <1>9, <1>10, <1>11, <1>12, <1>13
     DEF WorkerStep

LEMMA InterruptType == TypeOK /\ Interrupt => TypeOK'
<1> SUFFICES ASSUME TypeOK, Interrupt PROVE TypeOK'
  OBVIOUS
<1> USE DEF TypeOK
<1>1. ASSUME Signal PROVE flag' \in {0, 1} /\ interrupts' \in 0 .. MaxInterrupts
  BY <1>1, MaxInterruptsAssumption DEF Signal, MainTypeOK
<1>2. CASE InterruptMain
  <2>1. MainTypeOK'
    BY <1>1, <1>2 DEF InterruptMain, MainTypeOK
  <2> QED
    BY <1>2, <2>1, NetKept, ClientKept, PoolKept, WorkerKept, FdKept DEF InterruptMain
<1>3. CASE InterruptRunning
  <2>1. MainTypeOK'
    BY <1>1, <1>3 DEF InterruptRunning, MainTypeOK, mainVars
  <2> QED
    BY <1>3, <2>1, NetKept, ClientKept, PoolKept, WorkerKept, FdKept DEF InterruptRunning
<1>4. ASSUME NEW w \in Client, InterruptRecv(w) PROVE TypeOK'
  <2>1. MainTypeOK'
    BY <1>1, <1>4 DEF InterruptRecv, MainTypeOK, mainVars
  <2>2. NetTypeOK'
    BY <1>4, CallReturnsType DEF InterruptRecv, NetTypeOK, SocketTypeOK
  <2>3. WorkerTypeOK'
    BY <1>4, CallReturnsType DEF InterruptRecv, Goto, WorkerTypeOK, WorkerPc
  <2> QED
    BY <1>4, <2>1, <2>2, <2>3, ClientKept, PoolKept, FdKept DEF InterruptRecv, fdVars
<1>5. ASSUME NEW w \in Client, InterruptAccept(w) PROVE TypeOK'
  <2>1. MainTypeOK'
    BY <1>1, <1>5 DEF InterruptAccept, MainTypeOK, mainVars
  <2>2. NetTypeOK'
    BY <1>5 DEF InterruptAccept, NetTypeOK, SocketTypeOK
  <2> QED
    BY <1>5, <2>1, <2>2, ClientKept, PoolKept, WorkerKept, FdKept DEF InterruptAccept
<1> QED
  BY <1>2, <1>3, <1>4, <1>5 DEF Interrupt

\* A client whose first connection was closed under it goes on.
LEMMA RedirectLostType ==
  ASSUME NetTypeOK, ClientTypeOK, NEW c \in Client, RedirectLost(c)
  PROVE  NetTypeOK' /\ ClientTypeOK'
<1>1. PICK g \in Garbage : Follow(c, g)
  BY DEF RedirectLost
<1>2. g \in Message
  BY DataAssumption
<1>3. ClientTypeOK' /\ toCli' \in [Client -> Seq(Message)]
  BY <1>1, <1>2, FollowType DEF NetTypeOK, SocketTypeOK
<1> QED
  BY <1>3 DEF RedirectLost, NetTypeOK, SocketTypeOK
-----------------------------------------------------------------------------
(* The other parts of the inductive invariant: what leaves them alone. *)

LEMMA QueueFrame ==
  ASSUME QueueInv, UNCHANGED <<cpc, mainq>>,
         \A c \in Client : wpc[c] = "none" => wpc'[c] = "none",
         mainq \in [{"tcp", "udp"} -> Seq(Client)]
  PROVE  QueueInv'
<1>1. \A p \in {"tcp", "udp"} : \A i \in 1 .. Len(mainq[p]) : mainq[p][i] \in Client
  OBVIOUS
<1> QED
  BY <1>1 DEF QueueInv, Proto

LEMMA MainFrame ==
  ASSUME MainInv, UNCHANGED <<locked, mpc, cur, flag_client, ready, cpc, mainq>>,
         \A c \in Client : wpc[c] = "none" => wpc'[c] = "none"
  PROVE  MainInv'
  BY DEF MainInv, Now, Serves, Proto

LEMMA HeldFrame ==
  ASSUME HeldInv, UNCHANGED <<status, ph, wslot>>,
         \A w \in Client : wpc'[w] \in Holding <=> wpc[w] \in Holding
  PROVE  HeldInv'
  BY DEF HeldInv

LEMMA CreatedFrame ==
  CreatedInv /\ UNCHANGED <<status, cout_thread, thread_input>> => CreatedInv'
  BY DEF CreatedInv

LEMMA AccountingFrame ==
  SlotAccounting /\ UNCHANGED <<flag_client, status, mpc>> => SlotAccounting'
  BY DEF SlotAccounting, BusySlots

LEMMA PeerFrame ==
  PeerInv /\ UNCHANGED <<wpc, wslot, ph, wpeer>> => PeerInv'
  BY DEF PeerInv, Serving

\* The set of busy entries is finite and no larger than the table.
LEMMA BusyFinite ==
  /\ IsFiniteSet(BusySlots) /\ Cardinality(BusySlots) \in Nat
  /\ Cardinality(BusySlots) <= LENGTH_CLIENT
  /\ Cardinality(BusySlots) = LENGTH_CLIENT => BusySlots = Slot
<1>1. IsFiniteSet(Slot) /\ Cardinality(Slot) = LENGTH_CLIENT
  BY FS_Interval, LengthAssumption DEF Slot
<1>2. BusySlots \in SUBSET Slot
  BY DEF BusySlots
<1> QED
  BY <1>1, <1>2, FS_Subset, FS_CardinalityType

LEMMA InitInv == Init => TableInv
<1> SUFFICES ASSUME Init PROVE TableInv
  OBVIOUS
<1>1. QueueInv /\ MainInv
  BY DEF Init, ClientInit, QueueInv, MainInv, Serves
<1>2. HeldInv /\ PeerInv
  <2>1. HeldInv
    BY DEF Init, HeldInv, Holding
  <2>2. \A w \in Client : wpc[w] = "none"
    BY DEF Init
  <2>3. PeerInv
    BY <2>2 DEF PeerInv, Client
  <2> QED
    BY <2>1, <2>3
<1>3. CreatedInv
  BY SlotFacts DEF Init, CreatedInv, Slot
<1>4. SlotAccounting
  <2>1. BusySlots = {}
    BY DEF Init, BusySlots
  <2> QED
    BY <2>1, FS_EmptySet, LengthAssumption DEF Init, SlotAccounting
<1> QED
  BY <1>1, <1>2, <1>3, <1>4, InitType DEF TableInv

\* The end of the process changes none of the variables the invariant reads.
LEMMA FailInv == TableInv /\ Fail => TableInv'
<1> SUFFICES ASSUME TableInv, Fail PROVE TableInv'
  OBVIOUS
<1>1. UNCHANGED <<cpc, mainq, locked, mpc, cur, flag_client, ready, status, ph, wslot,
                  wpc, cout_thread, thread_input, wpeer>>
  BY DEF Fail, clientVars, mainVars, poolVars, workerVars
<1>2. QueueInv'
  BY <1>1, QueueFrame DEF TableInv, TypeOK, NetTypeOK, SocketTypeOK
<1>3. HeldInv'
  BY <1>1, HeldFrame DEF TableInv
<1>4. MainInv'
  BY <1>1, MainFrame DEF TableInv
<1> QED
  BY <1>1, <1>2, <1>3, <1>4, FailType, CreatedFrame, AccountingFrame, PeerFrame DEF TableInv

-----------------------------------------------------------------------------
(* ... and what each action does to them: the clients, *)

\* A client never goes back to "start", and enters a queue of main() once.
LEMMA ClientEffect ==
  ASSUME TypeOK, NEW c \in Client, ClientStep(c) \/ RedirectLost(c) \/ UserStep(c)
  PROVE  /\ cpc' = cpc \/ \E pc \in ClientPc \ {"start"} : cpc' = [cpc EXCEPT ![c] = pc]
         /\ \/ mainq' = mainq
            \/ /\ cpc[c] = "start" /\ cpc' = [cpc EXCEPT ![c] = "await"]
               /\ mainq' = [mainq EXCEPT ![Proto(c)] = Append(@, c)]
<1>1. ASSUME Ends(c) PROVE \E pc \in ClientPc \ {"start"} : cpc' = [cpc EXCEPT ![c] = pc]
  BY <1>1 DEF Ends, ClientPc
<1>2. ASSUME NEW m, Follow(c, m)
      PROVE  \E pc \in ClientPc \ {"start"} : cpc' = [cpc EXCEPT ![c] = pc]
  BY <1>1, <1>2 DEF Follow, ClientPc
<1>3. CASE UserStep(c)
  <2>1. ASSUME StartTcp(c) \/ StartUdp(c)
        PROVE  /\ cpc[c] = "start" /\ cpc' = [cpc EXCEPT ![c] = "await"]
               /\ mainq' = [mainq EXCEPT ![Proto(c)] = Append(@, c)]
    BY <2>1, ClientAssumption DEF StartTcp, StartUdp, Proto
  <2>2. CASE Ask(c) \/ Again(c)
    BY <2>2 DEF Ask, Again, netVars, ClientPc
  <2>3. CASE Quit(c) \/ Kill(c) \/ AskBroken(c)
    BY <1>1, <2>3 DEF Quit, Kill, AskBroken
  <2> QED
    BY <1>3, <2>1, <2>2, <2>3 DEF UserStep, ClientPc
<1>4. CASE ClientStep(c)
  <2>1. CASE RecvRedirect(c) \/ RecvRedirectFails(c)
    BY <1>2, <2>1 DEF RecvRedirect, RecvRedirectFails
  <2>2. CASE ConnectSessionTcp(c) \/ ConnectSessionUdp(c)
    BY <2>2 DEF ConnectSessionTcp, ConnectSessionUdp, ClientPc
  <2>3. CASE ConnectSessionRefused(c) \/ ProbeGivesUp(c) \/ AnswerFails(c)
    BY <1>1, <2>3 DEF ConnectSessionRefused, ProbeGivesUp, AnswerFails
  <2>4. CASE RecvProbeAck(c) \/ RecvAnswer(c) \/ RecvEofAsAnswer(c)
    BY <2>4 DEF RecvProbeAck, RecvAnswer, RecvEofAsAnswer, netVars, ClientPc
  <2>5. CASE RecvOtherAck(c) \/ ProbeTimesOut(c)
    BY <2>5 DEF RecvOtherAck, ProbeTimesOut, netVars
  <2> QED
    BY <1>4, <2>1, <2>2, <2>3, <2>4, <2>5 DEF ClientStep
<1>5. CASE RedirectLost(c)
  BY <1>2, <1>5 DEF RedirectLost
<1> QED
  BY <1>3, <1>4, <1>5

LEMMA ClientInv ==
  ASSUME TableInv, NEW c \in Client,
         ClientStep(c) \/ RedirectLost(c) \/ UserStep(c), ClientKeeps
  PROVE  TableInv'
<1> USE DEF TableInv
<1>1. TypeOK'
  <2>1. NetTypeOK' /\ ClientTypeOK'
    BY ClientStepType, UserStepType, RedirectLostType DEF TypeOK, NetTypeOK
  <2> QED
    BY <2>1, MainKept, PoolKept, WorkerKept, FdKept DEF ClientKeeps, TypeOK
<1>2. UNCHANGED <<locked, mpc, cur, flag_client, ready, status, ph, wslot,
                  wpc, cout_thread, thread_input, wpeer>>
  BY DEF ClientKeeps, mainVars, poolVars, workerVars
<1>3. /\ cpc' = cpc \/ \E pc \in ClientPc \ {"start"} : cpc' = [cpc EXCEPT ![c] = pc]
      /\ \/ mainq' = mainq
         \/ /\ cpc[c] = "start" /\ cpc' = [cpc EXCEPT ![c] = "await"]
            /\ mainq' = [mainq EXCEPT ![Proto(c)] = Append(@, c)]
  BY ClientEffect
<1>4. /\ cpc \in [Client -> ClientPc]
      /\ mainq \in [{"tcp", "udp"} -> Seq(Client)] /\ Proto(c) \in {"tcp", "udp"}
  BY DEF TypeOK, NetTypeOK, SocketTypeOK, ClientTypeOK, Proto
<1>5. \A d \in Client : cpc'[d] = "start" => cpc[d] = "start"
  BY <1>3, <1>4
<1>6. \A p \in {"tcp", "udp"} : \A i \in 1 .. Len(mainq[p]) : mainq[p][i] \in Client
  BY <1>4
<1>7. QueueInv'
  <2>1. CASE mainq' = mainq
    BY <1>2, <1>5, <1>6, <2>1 DEF QueueInv, Proto
  <2>2. CASE /\ cpc[c] = "start" /\ cpc' = [cpc EXCEPT ![c] = "await"]
             /\ mainq' = [mainq EXCEPT ![Proto(c)] = Append(@, c)]
    <3>1. wpc[c] = "none"
      BY <2>2 DEF QueueInv
    <3>2. \A p \in {"tcp", "udp"} : \A i \in 1 .. Len(mainq[p]) : mainq[p][i] # c
      BY <2>2 DEF QueueInv
    <3>3. \A p \in {"tcp", "udp"} :
            IF p = Proto(c)
            THEN /\ Len(mainq'[p]) = Len(mainq[p]) + 1 /\ Len(mainq[p]) \in Nat
                 /\ mainq'[p][Len(mainq[p]) + 1] = c
                 /\ \A i \in 1 .. Len(mainq[p]) : mainq'[p][i] = mainq[p][i]
            ELSE mainq'[p] = mainq[p]
      BY <1>4, <2>2
    <3>4. cpc'[c] = "await" /\ \A d \in Client : d # c => cpc'[d] = cpc[d]
      BY <1>4, <2>2
    <3>5. \A d \in Client : cpc'[d] = "start" => wpc'[d] = "none"
      BY <1>2, <1>5 DEF QueueInv
    <3>6. ASSUME NEW p \in {"tcp", "udp"}, NEW i \in 1 .. Len(mainq'[p])
          PROVE  /\ Proto(mainq'[p][i]) = p
                 /\ cpc'[mainq'[p][i]] # "start"
                 /\ wpc'[mainq'[p][i]] = "none"
                 /\ \A j \in 1 .. Len(mainq'[p]) : mainq'[p][i] = mainq'[p][j] => i = j
      <4>1. CASE p # Proto(c)
        BY <1>2, <1>6, <3>2, <3>3, <3>4, <4>1 DEF QueueInv
      <4>2. CASE p = Proto(c) /\ i = Len(mainq[p]) + 1
        BY <1>2, <3>1, <3>2, <3>3, <3>4, <4>2
      <4>3. CASE p = Proto(c) /\ i # Len(mainq[p]) + 1
        <5>1. i \in 1 .. Len(mainq[p]) /\ mainq'[p][i] = mainq[p][i]
          BY <3>3, <4>3
        <5>2. /\ mainq[p][i] \in Client /\ mainq[p][i] # c
              /\ Proto(mainq[p][i]) = p
              /\ cpc[mainq[p][i]] # "start"
              /\ wpc[mainq[p][i]] = "none"
              /\ \A j \in 1 .. Len(mainq[p]) : mainq[p][i] = mainq[p][j] => i = j
          BY <1>6, <3>2, <5>1 DEF QueueInv
        <5>3. ASSUME NEW j \in 1 .. Len(mainq'[p]), mainq'[p][i] = mainq'[p][j]
              PROVE  i = j
          <6>1. j # Len(mainq[p]) + 1
            BY <3>3, <4>3, <5>1, <5>2, <5>3
          <6>2. j \in 1 .. Len(mainq[p]) /\ mainq'[p][j] = mainq[p][j]
            BY <3>3, <4>3, <5>3, <6>1
          <6> QED
            BY <5>1, <5>2, <5>3, <6>2
        <5> QED
          BY <1>2, <3>4, <5>1, <5>2, <5>3
      <4> QED
        BY <4>1, <4>2, <4>3
    <3> QED
      BY <3>5, <3>6 DEF QueueInv, Proto
  <2> QED
    BY <1>3, <2>1, <2>2
<1>8. MainInv'
  <2>1. Now' = Now
    BY <1>2 DEF Now
  <2>2. \A p \in {"tcp", "udp"} : mainq[p] # <<>> => mainq'[p] # <<>>
    BY <1>3, <1>4
  <2>3. ready \subseteq {"tcp", "udp"}
    BY DEF TypeOK, MainTypeOK
  <2>4. ASSUME mpc = "bind"
        PROVE  /\ wpc'[cur] = "none" /\ cpc'[cur] # "start"
               /\ \A p \in {"tcp", "udp"} : \A i \in 1 .. Len(mainq'[p]) : mainq'[p][i] # cur
    <3>1. /\ wpc[cur] = "none" /\ cpc[cur] # "start" /\ cur \in Client
          /\ \A p \in {"tcp", "udp"} : \A i \in 1 .. Len(mainq[p]) : mainq[p][i] # cur
      BY <2>4 DEF MainInv, Serves
    <3>2. CASE mainq' = mainq
      BY <1>2, <1>5, <3>1, <3>2
    <3>3. CASE /\ cpc[c] = "start"
               /\ mainq' = [mainq EXCEPT ![Proto(c)] = Append(@, c)]
      <4>1. c # cur
        BY <3>1, <3>3
      <4>2. ASSUME NEW p \in {"tcp", "udp"}, NEW i \in 1 .. Len(mainq'[p])
            PROVE  mainq'[p][i] # cur
        <5>1. mainq[p] \in Seq(Client)
          BY <1>4
        <5>2. CASE p = Proto(c)
          <6>1. mainq'[p] = Append(mainq[p], c)
            BY <1>4, <3>3, <5>2
          <6> QED
            BY <3>1, <4>1, <5>1, <6>1
        <5>3. CASE p # Proto(c)
          BY <1>4, <3>1, <3>3, <5>3
        <5> QED
          BY <5>2, <5>3
      <4> QED
        BY <1>2, <1>5, <3>1, <4>2
    <3> QED
      BY <1>3, <3>2, <3>3
  <2>5. /\ locked' <=> mpc' \in Serves
        /\ mpc' \in Serves => cur' \in Client /\ Proto(cur') = Now'
        /\ mpc' \in {"admit", "bind"} => flag_client' > 0
        /\ mpc' \in {"check", "admit", "refuse"} \cup Serves => ready' # {}
    BY <1>2, <2>1 DEF MainInv
  <2>6. \A p \in ready' :
          \/ mpc' \in {"check", "admit", "refuse"}
          \/ mpc' \in Serves /\ p # Now'
          => mainq'[p] # <<>>
    BY <1>2, <2>1, <2>2, <2>3 DEF MainInv
  <2> QED
    BY <1>2, <2>4, <2>5, <2>6 DEF MainInv, Serves, Proto
<1>9. HeldInv'
  BY <1>2, HeldFrame
<1> QED
  BY <1>1, <1>2, <1>7, <1>8, <1>9, CreatedFrame, AccountingFrame, PeerFrame

-----------------------------------------------------------------------------
(* ... the threads, *)

\* Every step of a thread but Release keeps the entry it holds.
LEMMA HoldingKept ==
  ASSUME TableInv, NEW w \in Client, NEW pc \in WorkerPc \ {"none"},
         wpc' = [wpc EXCEPT ![w] = pc], wpc[w] # "none",
         wpc[w] \in Holding <=> pc \in Holding,
         UNCHANGED <<cpc, mainq, locked, mpc, cur, flag_client, ready, status, ph, wslot,
                     cout_thread, thread_input>>
  PROVE  QueueInv' /\ MainInv' /\ HeldInv' /\ CreatedInv' /\ SlotAccounting'
<1> USE DEF TableInv
<1>1. wpc \in [Client -> WorkerPc]
  BY DEF TypeOK, WorkerTypeOK
<1>2. \A d \in Client : wpc[d] = "none" => wpc'[d] = "none"
  BY <1>1
<1>3. QueueInv'
  BY <1>2, QueueFrame DEF TypeOK, NetTypeOK, SocketTypeOK
<1>4. \A d \in Client : wpc'[d] \in Holding <=> wpc[d] \in Holding
  BY <1>1
<1>5. HeldInv'
  BY <1>4, HeldFrame
<1>6. MainInv'
  BY <1>2, MainFrame
<1> QED
  BY <1>3, <1>5, <1>6, CreatedFrame, AccountingFrame

LEMMA WorkerInv ==
  ASSUME TableInv, NEW w \in Client, WorkerStep(w)
  PROVE  TableInv'
<1> USE DEF TableInv
<1>1. TypeOK'
  BY WorkerType
<1>2. /\ wpc \in [Client -> WorkerPc] /\ wslot \in [Client -> Slot]
      /\ status \in [Slot -> {0, 1}]
  BY DEF TypeOK, WorkerTypeOK, PoolTypeOK
<1>3. TcpClient \subseteq Client
  BY DEF Client
<1>4. ASSUME NEW pc \in WorkerPc \ {"none"}, wpc[w] # "none",
             wpc' = [wpc EXCEPT ![w] = pc],
             UNCHANGED <<ph, wslot, wpeer>>,
             w \in TcpClient /\ pc \in {"loop", "recv", "send"}
               => wpc[w] \in {"loop", "recv", "send"}
      PROVE  PeerInv'
  BY <1>2, <1>3, <1>4 DEF PeerInv, Serving
<1>5. CASE CallAccept(w)
  <2>1. QueueInv' /\ MainInv' /\ HeldInv' /\ CreatedInv' /\ SlotAccounting'
    BY <1>5, HoldingKept
       DEF CallAccept, Goto, netVars, clientVars, mainVars, poolVars, WorkerPc, Holding
  <2>2. PeerInv'
    BY <1>4, <1>5 DEF CallAccept, Goto, poolVars, WorkerPc
  <2> QED
    BY <1>1, <2>1, <2>2
<1>6. CASE AcceptFails(w) \/ SendKills(w)
  BY <1>6, FailInv DEF AcceptFails, SendKills
<1>7. CASE Accept(w)
  <2>1. QueueInv' /\ MainInv' /\ HeldInv' /\ CreatedInv' /\ SlotAccounting'
    BY <1>7, HoldingKept
       DEF Accept, Goto, clientVars, mainVars, poolVars, WorkerPc, Holding
  <2>2. PICK x \in Client : backlog[x] # <<>> /\ wpeer' = [wpeer EXCEPT ![w] = Head(backlog[x])]
    <3>1. wfile[w][2] \in Client
      BY <1>7, FileFacts DEF Accept, TypeOK, WorkerTypeOK
    <3> QED
      BY <1>7, <3>1 DEF Accept
  <2>3. Head(backlog[x]) \in Client
    BY <2>2, QueueHead DEF TypeOK, NetTypeOK, SocketTypeOK
  <2>4. PeerInv'
    BY <1>2, <1>3, <1>7, <2>2, <2>3
       DEF Accept, Goto, poolVars, PeerInv, Serving, TypeOK, WorkerTypeOK
  <2> QED
    BY <1>1, <2>1, <2>4
<1>8. CASE CallRecv(w)
  <2>1. PICK pc \in {"recv", "release"} : wpc' = [wpc EXCEPT ![w] = pc]
    BY <1>8 DEF CallRecv, Goto
  <2>2. QueueInv' /\ MainInv' /\ HeldInv' /\ CreatedInv' /\ SlotAccounting'
    BY <1>8, <2>1, HoldingKept
       DEF CallRecv, netVars, clientVars, mainVars, poolVars, WorkerPc, Holding
  <2>3. PeerInv'
    BY <1>4, <1>8, <2>1 DEF CallRecv, poolVars, WorkerPc
  <2> QED
    BY <1>1, <2>2, <2>3
<1>9. CASE RecvStream(w) \/ RecvNothing(w) \/ RecvEnd(w)
  <2>1. PICK pc \in {"send", "release"} : wpc' = [wpc EXCEPT ![w] = pc]
    BY <1>9 DEF RecvStream, RecvNothing, RecvEnd, Goto
  <2>2. /\ wpc[w] = "recv"
        /\ UNCHANGED <<cpc, mainq, locked, mpc, cur, flag_client, ready, status, ph, wslot,
                       cout_thread, thread_input, wpeer>>
    BY <1>9 DEF RecvStream, RecvNothing, RecvEnd, clientVars, mainVars, poolVars
  <2>3. QueueInv' /\ MainInv' /\ HeldInv' /\ CreatedInv' /\ SlotAccounting'
    BY <2>1, <2>2, HoldingKept DEF WorkerPc, Holding
  <2>4. PeerInv'
    BY <1>4, <2>1, <2>2 DEF WorkerPc
  <2> QED
    BY <1>1, <2>3, <2>4
<1>10. CASE SendFails(w)
  <2>1. QueueInv' /\ MainInv' /\ HeldInv' /\ CreatedInv' /\ SlotAccounting'
    BY <1>10, HoldingKept
       DEF SendFails, Goto, netVars, clientVars, mainVars, poolVars, WorkerPc, Holding
  <2>2. PeerInv'
    BY <1>4, <1>10 DEF SendFails, Goto, poolVars, WorkerPc
  <2> QED
    BY <1>1, <2>1, <2>2
<1>11. CASE RecvUdp(w)
  <2>1. PICK pc \in {"send", "loop"} : wpc' = [wpc EXCEPT ![w] = pc]
    BY <1>11 DEF RecvUdp, Goto
  <2>2. QueueInv' /\ MainInv' /\ HeldInv' /\ CreatedInv' /\ SlotAccounting'
    BY <1>11, <2>1, HoldingKept
       DEF RecvUdp, clientVars, mainVars, poolVars, WorkerPc, Holding
  <2>3. wpc[w] = "recv" /\ UNCHANGED <<ph, wslot>>
    BY <1>11 DEF RecvUdp, poolVars
  <2>4. \A d \in TcpClient : wpeer'[d] = wpeer[d]
    <3>1. wpeer' = wpeer \/ wpeer' = [wpeer EXCEPT ![w] = IF w \in TcpClient THEN @ ELSE Serving(w)]
      BY <1>11 DEF RecvUdp
    <3> QED
      BY <1>3, <3>1 DEF TypeOK, WorkerTypeOK
  <2>5. PeerInv'
    BY <1>2, <1>3, <2>1, <2>3, <2>4 DEF PeerInv, Serving
  <2> QED
    BY <1>1, <2>2, <2>5
<1>12. CASE Send(w)
  <2>1. PICK pc \in {"loop", "release"} : wpc' = [wpc EXCEPT ![w] = pc]
    BY <1>12 DEF Send, Goto
  <2>2. QueueInv' /\ MainInv' /\ HeldInv' /\ CreatedInv' /\ SlotAccounting'
    BY <1>12, <2>1, HoldingKept DEF Send, clientVars, mainVars, poolVars, WorkerPc, Holding
  <2>3. PeerInv'
    BY <1>4, <1>12, <2>1 DEF Send, poolVars, WorkerPc
  <2> QED
    BY <1>1, <2>2, <2>3
<1>13. CASE Release(w)
  <2> DEFINE s == wslot[w]
  <2>1. /\ wpc[w] = "release" /\ wpc' = [wpc EXCEPT ![w] = "close"]
        /\ flag_client' = flag_client + 1 /\ status' = [status EXCEPT ![s] = 0]
        /\ ~locked
        /\ UNCHANGED <<cpc, mainq, locked, mpc, cur, ready, ph, wslot, wpeer,
                       cout_thread, thread_input>>
    BY <1>13 DEF Release, Goto, netVars, clientVars, mainVars
  <2>2. s \in Slot /\ status[s] = 1 /\ ph[s] = w
    BY <1>2, <2>1 DEF HeldInv, Holding
  <2>3. flag_client \in Int
    BY DEF TypeOK, PoolTypeOK
  <2> HIDE DEF s
  <2>4. \A d \in Client : wpc[d] = "none" => wpc'[d] = "none"
    BY <1>2, <2>1
  <2>5. QueueInv'
    BY <2>1, <2>4, QueueFrame DEF TypeOK, NetTypeOK, SocketTypeOK
  <2>6. MainInv'
    <3>1. mpc \notin Serves
      BY <2>1 DEF MainInv
    <3>2. mpc = "admit" => flag_client' > 0
      BY <2>1, <2>3 DEF MainInv
    <3> QED
      BY <2>1, <3>1, <3>2 DEF MainInv, Now, Serves
  <2>7. HeldInv'
    <3>1. ASSUME NEW d \in Client, wpc'[d] \in Holding
          PROVE  status'[wslot'[d]] = 1 /\ ph'[wslot'[d]] = d
      <4>1. d # w /\ wpc[d] \in Holding
        BY <1>2, <2>1, <3>1 DEF Holding
      <4>2. wslot[d] \in Slot /\ status[wslot[d]] = 1 /\ ph[wslot[d]] = d
        BY <1>2, <4>1 DEF HeldInv
      <4>3. wslot[d] # s
        BY <2>2, <4>1, <4>2
      <4> QED
        BY <1>2, <2>1, <4>2, <4>3
    <3>2. ASSUME NEW t \in Slot, status'[t] = 1
          PROVE  ph'[t] \in Client /\ wpc'[ph'[t]] \in Holding /\ wslot'[ph'[t]] = t
      <4>1. t # s /\ status[t] = 1
        BY <1>2, <2>1, <2>2, <3>2
      <4>2. ph[t] \in Client /\ wpc[ph[t]] \in Holding /\ wslot[ph[t]] = t
        BY <4>1 DEF HeldInv
      <4>3. ph[t] # w
        BY <4>1, <4>2 DEF s
      <4> QED
        BY <1>2, <2>1, <4>2, <4>3
    <3> QED
      BY <3>1, <3>2 DEF HeldInv
  <2>8. CreatedInv'
    BY <1>2, <2>1, <2>2 DEF CreatedInv
  <2>9. SlotAccounting'
    <3>1. BusySlots' = BusySlots \ {s} /\ s \in BusySlots
      BY <1>2, <2>1, <2>2 DEF BusySlots
    <3>2. Cardinality(BusySlots') = Cardinality(BusySlots) - 1
      BY <3>1, BusyFinite, FS_RemoveElement
    <3>3. mpc # "reply" /\ mpc' # "reply"
      BY <2>1 DEF MainInv, Serves
    <3>4. flag_client = LENGTH_CLIENT - Cardinality(BusySlots)
      BY <3>3, BusyFinite, LengthAssumption DEF SlotAccounting
    <3>5. flag_client' = LENGTH_CLIENT - Cardinality(BusySlots')
      BY <2>1, <3>2, <3>4, BusyFinite, LengthAssumption
    <3> QED
      BY <3>2, <3>3, <3>5, BusyFinite, LengthAssumption DEF SlotAccounting
  <2>10. PeerInv'
    BY <1>2, <1>3, <2>1 DEF PeerInv, Serving
  <2> QED
    BY <1>1, <2>5, <2>6, <2>7, <2>8, <2>9, <2>10
<1>14. CASE Close(w)
  <2>1. QueueInv' /\ MainInv' /\ HeldInv' /\ CreatedInv' /\ SlotAccounting'
    BY <1>14, HoldingKept
       DEF Close, Goto, clientVars, mainVars, poolVars, WorkerPc, Holding
  <2>2. PeerInv'
    BY <1>2, <1>3, <1>14
       DEF Close, Goto, poolVars, PeerInv, Serving, TypeOK, WorkerTypeOK
  <2> QED
    BY <1>1, <2>1, <2>2
<1> QED
  BY <1>5, <1>6, <1>7, <1>8, <1>9, <1>10, <1>11, <1>12, <1>13, <1>14 DEF WorkerStep

-----------------------------------------------------------------------------
(* ... main(), *)

\* A client leaves the head of its queue, with the mutex taken.
LEMMA TakeInv == TableInv /\ Take => TableInv'
<1> SUFFICES ASSUME TableInv, Take PROVE TableInv'
  OBVIOUS
<1> USE DEF TableInv
<1> DEFINE c == Head(mainq[Now])
<1>1. Now \in {"tcp", "udp"} /\ mainq[Now] \in Seq(Client) /\ mainq[Now] # <<>>
  BY DEF Take, Now, TypeOK, NetTypeOK, SocketTypeOK
<1>2. /\ mainq' = [mainq EXCEPT ![Now] = Tail(@)]
      /\ mpc \in {"admit", "refuse"} /\ mpc' = (IF mpc = "admit" THEN "bind" ELSE "deny")
      /\ cur' = c /\ locked' = TRUE
      /\ UNCHANGED <<cpc, ready, flag_client, status, ph, thread_input, cout_thread,
                     wpc, wslot, wpeer>>
  BY DEF Take, clientVars, workerVars
<1>3. /\ c \in Client /\ c = mainq[Now][1]
      /\ Len(mainq[Now]) \in Nat /\ Len(mainq[Now]) > 0
      /\ Len(Tail(mainq[Now])) = Len(mainq[Now]) - 1
      /\ \A i \in 1 .. Len(Tail(mainq[Now])) :
           /\ i + 1 \in 1 .. Len(mainq[Now]) /\ i + 1 # 1
           /\ Tail(mainq[Now])[i] = mainq[Now][i + 1]
  BY <1>1, QueueHead
<1> HIDE DEF c
<1>4. /\ mainq \in [{"tcp", "udp"} -> Seq(Client)] /\ ready \subseteq {"tcp", "udp"}
  BY DEF TypeOK, NetTypeOK, SocketTypeOK, MainTypeOK
<1>5. \A p \in {"tcp", "udp"} : p # Now => mainq'[p] = mainq[p]
  BY <1>2, <1>4
<1>6. mainq'[Now] = Tail(mainq[Now])
  BY <1>1, <1>2, <1>4
<1>7. TypeOK'
  BY MainType DEF MainStep
<1>8. QueueInv'
  <2>1. ASSUME NEW p \in {"tcp", "udp"}, NEW i \in 1 .. Len(mainq'[p])
        PROVE  /\ Proto(mainq'[p][i]) = p
               /\ cpc'[mainq'[p][i]] # "start"
               /\ wpc'[mainq'[p][i]] = "none"
               /\ \A j \in 1 .. Len(mainq'[p]) : mainq'[p][i] = mainq'[p][j] => i = j
    <3>1. CASE p # Now
      BY <1>2, <1>5, <3>1 DEF QueueInv
    <3>2. CASE p = Now
      <4>1. i + 1 \in 1 .. Len(mainq[p]) /\ mainq'[p][i] = mainq[p][i + 1]
        BY <1>3, <1>6, <3>2
      <4>2. /\ Proto(mainq[p][i + 1]) = p
            /\ cpc[mainq[p][i + 1]] # "start"
            /\ wpc[mainq[p][i + 1]] = "none"
            /\ \A j \in 1 .. Len(mainq[p]) : mainq[p][i + 1] = mainq[p][j] => i + 1 = j
        BY <4>1 DEF QueueInv
      <4>3. ASSUME NEW j \in 1 .. Len(mainq'[p]), mainq'[p][i] = mainq'[p][j]
            PROVE  i = j
        <5>1. j + 1 \in 1 .. Len(mainq[p]) /\ mainq'[p][j] = mainq[p][j + 1]
          BY <1>3, <1>6, <3>2
        <5>2. i + 1 = j + 1
          BY <4>1, <4>2, <4>3, <5>1
        <5> QED
          BY <1>3, <1>6, <3>2, <5>2
      <4> QED
        BY <1>2, <4>1, <4>2, <4>3
    <3> QED
      BY <3>1, <3>2
  <2> QED
    BY <1>2, <2>1 DEF QueueInv, Proto
<1>9. MainInv'
  <2>1. 1 \in 1 .. Len(mainq[Now])
    BY <1>3
  <2>2. /\ Proto(c) = Now /\ cpc[c] # "start" /\ wpc[c] = "none"
        /\ \A j \in 1 .. Len(mainq[Now]) : mainq[Now][j] = c => j = 1
    BY <1>1, <1>3, <2>1 DEF QueueInv
  <2>3. ASSUME NEW p \in {"tcp", "udp"}, NEW i \in 1 .. Len(mainq'[p])
        PROVE  mainq'[p][i] # c
    <3>1. CASE p # Now
      BY <1>5, <2>2, <3>1 DEF QueueInv
    <3>2. CASE p = Now
      BY <1>3, <1>6, <2>2, <3>2
    <3> QED
      BY <3>1, <3>2
  <2>4. ready' = ready /\ Now' = Now /\ ready # {}
    BY <1>2 DEF MainInv, Now
  <2>5. \A p \in ready : p # Now => mainq'[p] # <<>>
    BY <1>2, <1>4, <1>5 DEF MainInv
  <2>6. mpc' = "bind" => flag_client' > 0
    BY <1>2 DEF MainInv
  <2> QED
    BY <1>2, <1>3, <2>2, <2>3, <2>4, <2>5, <2>6 DEF MainInv, Serves, Proto
<1>10. SlotAccounting'
  BY <1>2 DEF SlotAccounting, BusySlots
<1> QED
  BY <1>2, <1>7, <1>8, <1>9, <1>10, HeldFrame, CreatedFrame, PeerFrame

\* The reservation: the client taken from the queue and the entry found free.
LEMMA AdmitInv == TableInv /\ Admit => TableInv'
<1> SUFFICES ASSUME TableInv, Admit PROVE TableInv'
  OBVIOUS
<1> USE DEF TableInv
<1> DEFINE c == cur
<1>1. Now \in {"tcp", "udp"}
  BY DEF Now
<1>2. PICK s \in Slot :
        /\ FirstFree(s)
        /\ status' = [status EXCEPT ![s] = 1]
        /\ ph' = [ph EXCEPT ![s] = c]
        /\ thread_input' = [thread_input EXCEPT ![s] = c]
        /\ cout_thread' = IF s > cout_thread THEN s ELSE cout_thread
        /\ wpc' = [wpc EXCEPT ![c] = IF Now = "tcp" THEN "start" ELSE "loop"]
        /\ wslot' = [wslot EXCEPT ![c] = s]
  BY DEF Admit
<1>3. /\ mpc = "bind" /\ mpc' = "reply"
      /\ UNCHANGED <<cpc, mainq, flag_client, ready, cur, locked, wpeer>>
  BY DEF Admit, clientVars
<1>4. c \in Client /\ Proto(c) = Now
  BY <1>3 DEF MainInv, Serves
<1>5. /\ cpc[c] # "start" /\ wpc[c] = "none"
      /\ \A p \in {"tcp", "udp"} : \A i \in 1 .. Len(mainq[p]) : mainq[p][i] # c
  BY <1>3 DEF MainInv
<1>6. /\ wpc \in [Client -> WorkerPc] /\ wslot \in [Client -> Slot]
      /\ status \in [Slot -> {0, 1}] /\ ph \in [Slot -> Client \cup {None}]
      /\ thread_input \in [Slot -> Client \cup {None}]
      /\ mainq \in [{"tcp", "udp"} -> Seq(Client)]
      /\ ready \subseteq {"tcp", "udp"}
  BY DEF TypeOK, WorkerTypeOK, PoolTypeOK, NetTypeOK, SocketTypeOK, MainTypeOK
<1> HIDE DEF c
<1>8. status[s] = 0
  BY <1>2 DEF FirstFree
<1>9. wpc'[c] \in {"start", "loop"} /\ \A d \in Client : d # c => wpc'[d] = wpc[d]
  BY <1>2, <1>4, <1>6
<1>10. wslot'[c] = s /\ \A d \in Client : d # c => wslot'[d] = wslot[d]
  BY <1>2, <1>4, <1>6
<1>11. TypeOK'
  BY MainType DEF MainStep
<1>12. QueueInv'
  <2>1. \A d \in Client : cpc'[d] = "start" => wpc'[d] = "none"
    BY <1>3, <1>5, <1>9 DEF QueueInv
  <2>2. ASSUME NEW p \in {"tcp", "udp"}, NEW i \in 1 .. Len(mainq'[p])
        PROVE  wpc'[mainq'[p][i]] = "none"
    <3>1. mainq'[p][i] = mainq[p][i] /\ i \in 1 .. Len(mainq[p]) /\ mainq[p][i] \in Client
      BY <1>3, <1>6
    <3> QED
      BY <1>5, <1>9, <3>1 DEF QueueInv
  <2> QED
    BY <1>3, <2>1, <2>2 DEF QueueInv, Proto
<1>13. MainInv'
  BY <1>3, <1>4 DEF MainInv, Now, Serves, Proto, c
<1>14. HeldInv'
  <2>1. ASSUME NEW d \in Client, wpc'[d] \in Holding
        PROVE  status'[wslot'[d]] = 1 /\ ph'[wslot'[d]] = d
    <3>1. CASE d = c
      BY <1>2, <1>6, <1>10, <3>1
    <3>2. CASE d # c
      <4>1. status[wslot[d]] = 1 /\ ph[wslot[d]] = d /\ wslot[d] \in Slot
        BY <1>6, <1>9, <2>1, <3>2 DEF HeldInv
      <4> QED
        BY <1>2, <1>6, <1>8, <1>10, <3>2, <4>1
    <3> QED
      BY <3>1, <3>2
  <2>2. ASSUME NEW t \in Slot, status'[t] = 1
        PROVE  ph'[t] \in Client /\ wpc'[ph'[t]] \in Holding /\ wslot'[ph'[t]] = t
    <3>1. CASE t = s
      <4>1. ph'[t] = c
        BY <1>2, <1>6, <3>1
      <4> QED
        BY <1>4, <1>9, <1>10, <3>1, <4>1 DEF Holding
    <3>2. CASE t # s
      <4>1. ph'[t] = ph[t] /\ status[t] = 1
        BY <1>2, <1>6, <2>2, <3>2
      <4>2. ph[t] \in Client /\ wpc[ph[t]] \in Holding /\ wslot[ph[t]] = t
        BY <4>1 DEF HeldInv
      <4>3. ph[t] # c
        BY <1>5, <4>2 DEF Holding
      <4> QED
        BY <1>9, <1>10, <4>1, <4>2, <4>3
    <3> QED
      BY <3>1, <3>2
  <2> QED
    BY <2>1, <2>2 DEF HeldInv
<1>15. CreatedInv'
  <2>1. ASSUME NEW t \in Slot, status'[t] = 1 \/ t < cout_thread'
        PROVE  thread_input'[t] # None
    <3>1. CASE t = s
      BY <1>2, <1>4, <1>6, <3>1, ClientAssumption DEF Client
    <3>2. CASE t # s
      <4>1. thread_input'[t] = thread_input[t] /\ status'[t] = status[t]
        BY <1>2, <1>6, <3>2
      <4>2. CASE t < s
        BY <1>2, <4>1, <4>2, <1>6 DEF FirstFree, CreatedInv
      <4>3. CASE ~(t < s)
        <5>1. status[t] = 1 \/ t < cout_thread
          BY <1>2, <2>1, <3>2, <4>1, <4>3, LengthAssumption DEF Slot
        <5> QED
          BY <4>1, <5>1 DEF CreatedInv
      <4> QED
        BY <4>2, <4>3
    <3> QED
      BY <3>1, <3>2
  <2> QED
    BY <2>1 DEF CreatedInv
<1>16. PeerInv'
  <2>1. ASSUME NEW d \in Client, wpc'[d] # "none" PROVE ph'[wslot'[d]] \in Client
    <3>1. CASE d = c
      BY <1>2, <1>4, <1>6, <1>10, <3>1
    <3>2. CASE d # c
      <4>1. ph[wslot[d]] \in Client
        BY <1>9, <2>1, <3>2 DEF PeerInv, Serving
      <4> QED
        BY <1>2, <1>4, <1>6, <1>10, <3>2, <4>1
    <3> QED
      BY <3>1, <3>2
  <2>2. ASSUME NEW d \in TcpClient, wpc'[d] \in {"loop", "recv", "send"}
        PROVE  wpeer'[d] \in Client
    <3>1. d \in Client
      BY DEF Client
    <3>2. CASE d = c
      <4>1. Now = "tcp"
        BY <1>4, <3>2 DEF Proto
      <4> QED
        BY <1>2, <1>4, <1>6, <2>2, <3>2, <4>1
    <3>3. CASE d # c
      BY <1>3, <1>9, <2>2, <3>1, <3>3 DEF PeerInv
    <3> QED
      BY <3>2, <3>3
  <2> QED
    BY <2>1, <2>2 DEF PeerInv, Serving
<1>17. SlotAccounting'
  <2>1. BusySlots' = BusySlots \cup {s} /\ s \notin BusySlots
    BY <1>2, <1>6, <1>8 DEF BusySlots
  <2>2. Cardinality(BusySlots') = Cardinality(BusySlots) + 1
    BY <2>1, BusyFinite, FS_AddElement
  <2>3. flag_client = LENGTH_CLIENT - Cardinality(BusySlots)
    BY <1>3, BusyFinite, LengthAssumption DEF SlotAccounting
  <2> QED
    BY <1>3, <2>2, <2>3, BusyFinite, LengthAssumption DEF SlotAccounting
<1> QED
  BY <1>11, <1>12, <1>13, <1>14, <1>15, <1>16, <1>17

LEMMA MainStepInv == TableInv /\ MainStep => TableInv'
<1> SUFFICES ASSUME TableInv, MainStep PROVE TableInv'
  OBVIOUS
<1> USE DEF TableInv
<1>1. TypeOK'
  BY MainType
<1>2. mainq \in [{"tcp", "udp"} -> Seq(Client)] /\ ready \subseteq {"tcp", "udp"}
  BY DEF TypeOK, NetTypeOK, SocketTypeOK, MainTypeOK
<1>3. \* Steps of main() that leave the queues, the table and the threads alone.
      ASSUME UNCHANGED <<cpc, mainq, status, ph, thread_input, cout_thread, wpc, wslot, wpeer>>
      PROVE  QueueInv' /\ HeldInv' /\ CreatedInv' /\ PeerInv'
  BY <1>2, <1>3, QueueFrame, HeldFrame, CreatedFrame, PeerFrame
<1>4. CASE MainLoop
  <2>1. MainInv' /\ SlotAccounting'
    BY <1>4 DEF MainLoop, MainInv, Now, Serves, SlotAccounting, BusySlots, netVars, poolVars
  <2> QED
    BY <1>1, <1>3, <1>4, <2>1 DEF MainLoop, netVars, clientVars, poolVars, workerVars
<1>5. CASE Select
  <2>1. MainInv' /\ SlotAccounting'
    BY <1>5 DEF Select, MainInv, Now, Serves, SlotAccounting, BusySlots, netVars, poolVars
  <2> QED
    BY <1>1, <1>3, <1>5, <2>1 DEF Select, netVars, clientVars, poolVars, workerVars
<1>6. CASE Check
  <2>1. MainInv' /\ SlotAccounting'
    BY <1>6 DEF Check, MainInv, Now, Serves, SlotAccounting, BusySlots, netVars, poolVars
  <2> QED
    BY <1>1, <1>3, <1>6, <2>1 DEF Check, netVars, clientVars, poolVars, workerVars
<1>7. CASE Take \/ Admit
  BY <1>7, TakeInv, AdmitInv
<1>8. CASE TakeFails \/ AdmitFails \/ ReplyFails
  BY <1>8, FailInv DEF TakeFails, AdmitFails, ReplyFails
<1>9. \* The answer: main() goes on.
      ASSUME NEW m, Answer(m)
      PROVE  /\ locked' = FALSE
             /\ ready' = ready \ {Now} /\ mpc' = (IF ready' = {} THEN "loop" ELSE "check")
             /\ UNCHANGED <<cpc, mainq, status, ph, thread_input, cout_thread, wpc, wslot, wpeer>>
  BY <1>9 DEF Answer, NextBranch, clientVars, workerVars
<1>10. ASSUME mpc \in {"reply", "deny"}, NEW m, Answer(m) PROVE MainInv'
  <2>1. \A p \in ready' : mainq'[p] # <<>>
    BY <1>9, <1>10 DEF MainInv, Serves
  <2> QED
    BY <1>9, <1>10, <2>1 DEF MainInv, Serves
<1>11. CASE SendRedirect
  <2>1. mpc = "reply" /\ Answer(Msg(REDIRECT, wslot[cur])) /\ flag_client' = flag_client - 1
    BY <1>11 DEF SendRedirect
  <2>2. SlotAccounting'
    <3>1. mpc' # "reply" /\ BusySlots' = BusySlots
      BY <1>9, <2>1 DEF BusySlots
    <3>2. flag_client = LENGTH_CLIENT - Cardinality(BusySlots) + 1
      BY <2>1 DEF SlotAccounting
    <3> QED
      BY <2>1, <3>1, <3>2, BusyFinite, LengthAssumption DEF SlotAccounting
  <2> QED
    BY <1>1, <1>3, <1>9, <1>10, <2>1, <2>2
<1>14. CASE Refuse
  <2>1. mpc = "deny" /\ Answer(NoRoom) /\ flag_client' = flag_client
    BY <1>14 DEF Refuse
  <2>2. SlotAccounting'
    BY <1>9, <2>1 DEF SlotAccounting, BusySlots
  <2> QED
    BY <1>1, <1>3, <1>9, <1>10, <2>1, <2>2
<1>12. CASE Join
  <2>1. MainInv' /\ SlotAccounting'
    BY <1>12 DEF Join, MainInv, Now, Serves, SlotAccounting, BusySlots, netVars, poolVars
  <2> QED
    BY <1>1, <1>3, <1>12, <2>1 DEF Join, netVars, clientVars, poolVars, workerVars
<1>13. CASE Return
  <2>1. MainInv' /\ SlotAccounting'
    BY <1>13 DEF Return, MainInv, Now, Serves, SlotAccounting, BusySlots, mainVars, poolVars
  <2> QED
    BY <1>1, <1>3, <1>13, <2>1 DEF Return, clientVars, poolVars, workerVars
<1> QED
  BY <1>4, <1>5, <1>6, <1>7, <1>8, <1>11, <1>12, <1>13, <1>14 DEF MainStep

-----------------------------------------------------------------------------
(* ... and Ctrl+C. *)

LEMMA InterruptInv == TableInv /\ Interrupt => TableInv'
<1> SUFFICES ASSUME TableInv, Interrupt PROVE TableInv'
  OBVIOUS
<1> USE DEF TableInv
<1>1. TypeOK'
  BY InterruptType
<1>2. mainq \in [{"tcp", "udp"} -> Seq(Client)]
  BY DEF TypeOK, NetTypeOK, SocketTypeOK
<1>3. ASSUME UNCHANGED <<cpc, mainq, status, ph, thread_input, cout_thread, wpc, wslot, wpeer>>
      PROVE  QueueInv' /\ HeldInv' /\ CreatedInv' /\ PeerInv'
  BY <1>2, <1>3, QueueFrame, HeldFrame, CreatedFrame, PeerFrame
<1>4. CASE InterruptMain
  <2>1. MainInv' /\ SlotAccounting'
    BY <1>4 DEF InterruptMain, MainInv, Now, Serves, Proto, SlotAccounting, BusySlots,
                netVars, poolVars, clientVars, workerVars
  <2> QED
    BY <1>1, <1>3, <1>4, <2>1 DEF InterruptMain, netVars, clientVars, poolVars, workerVars
<1>5. CASE InterruptRunning
  <2>1. MainInv' /\ SlotAccounting'
    BY <1>5
       DEF InterruptRunning, MainInv, Now, Serves, Proto, SlotAccounting, BusySlots,
           netVars, mainVars, poolVars, clientVars, workerVars
  <2> QED
    BY <1>1, <1>3, <1>5, <2>1 DEF InterruptRunning, netVars, clientVars, poolVars, workerVars
<1>6. ASSUME NEW w \in Client, InterruptRecv(w) PROVE TableInv'
  <2>1. QueueInv' /\ MainInv' /\ HeldInv' /\ CreatedInv' /\ SlotAccounting'
    BY <1>6, HoldingKept
       DEF InterruptRecv, Goto, clientVars, mainVars, poolVars, WorkerPc, Holding
  <2>2. TcpClient \subseteq Client /\ wpc \in [Client -> WorkerPc]
    BY DEF Client, TypeOK, WorkerTypeOK
  <2>3. PeerInv'
    BY <1>6, <2>2 DEF InterruptRecv, Goto, poolVars, PeerInv, Serving
  <2> QED
    BY <1>1, <2>1, <2>3
<1>7. ASSUME NEW w \in Client, InterruptAccept(w) PROVE TableInv'
  <2>1. MainInv' /\ SlotAccounting'
    BY <1>7
       DEF InterruptAccept, MainInv, Now, Serves, Proto, SlotAccounting, BusySlots,
           mainVars, poolVars, clientVars, workerVars
  <2> QED
    BY <1>1, <1>3, <1>7, <2>1 DEF InterruptAccept, clientVars, poolVars, workerVars
<1> QED
  BY <1>4, <1>5, <1>6, <1>7 DEF Interrupt


LEMMA TableNext == TableInv /\ [Next]_vars => TableInv'
<1> SUFFICES ASSUME TableInv, [Next]_vars PROVE TableInv'
  OBVIOUS
<1>1. CASE MainStep
  BY <1>1, MainStepInv
<1>2. ASSUME NEW w \in Client, WorkerStep(w) PROVE TableInv'
  BY <1>2, WorkerInv
<1>3. CASE Interrupt
  BY <1>3, InterruptInv
<1>4. ASSUME NEW c \in Client, ClientStep(c) \/ RedirectLost(c) \/ UserStep(c), ClientKeeps
      PROVE  TableInv'
  BY <1>4, ClientInv
<1>5. CASE UNCHANGED vars
  <2>1. TypeOK'
    BY <1>5, NetKept, ClientKept, MainKept, PoolKept, WorkerKept, FdKept
       DEF TableInv, TypeOK, vars
  <2>2. UNCHANGED <<cpc, mainq, locked, mpc, cur, flag_client, ready, status, ph, wslot,
                    wpc, cout_thread, thread_input, wpeer>>
    BY <1>5 DEF vars, netVars, clientVars, mainVars, poolVars, workerVars
  <2>3. QueueInv'
    BY <2>2, QueueFrame DEF TableInv, TypeOK, NetTypeOK, SocketTypeOK
  <2>4. HeldInv'
    BY <2>2, HeldFrame DEF TableInv
  <2>5. MainInv'
    BY <2>2, MainFrame DEF TableInv
  <2> QED
    BY <2>1, <2>2, <2>3, <2>4, <2>5, CreatedFrame, AccountingFrame, PeerFrame DEF TableInv
<1> QED
  BY <1>1, <1>2, <1>3, <1>4, <1>5 DEF Next, ClientMoves

-----------------------------------------------------------------------------
(* The descriptors, as long as none is crossed. *)

\* A thread that others leave alone keeps what its numbers open.
LEMMA FdFrame ==
  ASSUME TableInv, TableInv', FdInv, NEW v \in Client,
         wpc'[v] = wpc[v], wfile'[v] = wfile[v], wfd'[v] = wfd[v], wpeer'[v] = wpeer[v],
         wbuf'[v] = wbuf[v],
         fds[wfd[v]] = Reserved \/ fds[wfd[v]][1] = "conn" =>
           fds'[wfd[v]] = fds[wfd[v]] \/ \E u \in Client \ {v} : wpc[u] = "accept" /\ wfd[v] = wfd[u],
         \A u \in Client : wpc'[u] = "accept" =>
           \/ wpc[u] = "accept" /\ wfd'[u] = wfd[u]
           \/ fds[wfd'[u]] = Free
  PROVE  AcceptInv(v)' /\ OwnInv(v)'
<1>1. AcceptInv(v) /\ OwnInv(v)
  BY DEF FdInv
<1>2. Free # Reserved /\ Reserved[1] # "conn"
  BY DEF Free, Reserved
<1>3. ASSUME wpc[v] = "accept" PROVE AcceptInv(v)'
  <2>1. wfile[v] = Serv(v) /\ fds[wfd[v]] = Reserved
    BY <1>1, <1>3 DEF AcceptInv
  <2>2. \A u \in Client : wpc[u] = "accept" /\ wfd[u] = wfd[v] => u = v
    BY <1>1, <1>3 DEF AcceptInv
  <2>3. fds'[wfd[v]] = Reserved
    BY <2>1, <2>2
  <2> QED
    BY <1>2, <2>1, <2>2, <2>3 DEF AcceptInv
<1>4. ASSUME v \in TcpClient, wpc[v] \in {"loop", "recv", "send"}
      PROVE  fds'[wfd[v]] = Conn(wpeer[v])
  <2>1. fds[wfd[v]] = Conn(wpeer[v])
    BY <1>1, <1>4 DEF OwnInv
  <2>2. \A u \in Client : wpc[u] = "accept" => fds[wfd[u]] = Reserved
    BY DEF FdInv, AcceptInv
  <2> QED
    BY <1>2, <2>1, <2>2 DEF Conn
<1>5. ASSUME wpc[v] = "recv" PROVE Meant(v)' = Meant(v)
  <2>1. Serving(v) = v /\ Serving(v)' = v
    BY <1>5 DEF TableInv, HeldInv, Holding, Serving
  <2> QED
    BY <2>1 DEF Meant
<1>6. OwnInv(v)'
  BY <1>1, <1>4, <1>5 DEF OwnInv
<1> QED
  BY <1>3, <1>6 DEF AcceptInv

\* No thread makes a step and every number that is in use stays what it is.
LEMMA FdSame ==
  ASSUME TableInv, TableInv', FdInv, UNCHANGED workerVars \/ UNCHANGED <<wpc, wpeer, wbuf, wfd, wfile>>,
         \A n \in 0 .. FdLimit : fds'[n] = fds[n] \/ (n # 0 /\ fds[n] = Free)
  PROVE  fds'[0] = Free /\ \A v \in Client : AcceptInv(v)' /\ OwnInv(v)'
<1>1. UNCHANGED <<wpc, wpeer, wbuf, wfd, wfile>>
  BY DEF workerVars
<1>2. \A v \in Client : wfd[v] \in 0 .. FdLimit
  BY DEF TableInv, TypeOK, WorkerTypeOK
<1>3. Free # Reserved /\ Free[1] # "conn" /\ 0 \in 0 .. FdLimit
  BY FdFacts DEF Free, Reserved
<1>4. \A v \in Client : AcceptInv(v)' /\ OwnInv(v)'
  BY <1>1, <1>2, <1>3, FdFrame
<1> QED
  BY <1>3, <1>4 DEF FdInv

LEMMA AwaitKept ==
  ASSUME FdInv, UNCHANGED <<cpc, mainq, accepted>>
  PROVE  \A c \in Client : AwaitInv(c)'
  BY DEF FdInv, AwaitInv

\* The client at the head of a queue of main() is taken from it.
LEMMA TakeAwait ==
  ASSUME TypeOK, FdInv, Take
  PROVE  \A c \in Client : AwaitInv(c)'
<1> SUFFICES ASSUME NEW c \in Client, c \in TcpClient, cpc[c] = "await",
                    c \notin accepted'
             PROVE  \E i \in 1 .. Len(mainq'["tcp"]) : mainq'["tcp"][i] = c
  BY DEF AwaitInv, Take, clientVars
<1>1. /\ mainq \in [{"tcp", "udp"} -> Seq(Client)] /\ Now \in {"tcp", "udp"} /\ mainq[Now] # <<>>
      /\ mainq' = [mainq EXCEPT ![Now] = Tail(@)]
      /\ IF Now = "tcp" THEN accepted' = accepted \cup {Head(mainq[Now])} ELSE accepted' = accepted
  BY DEF Take, Now, TypeOK, NetTypeOK, SocketTypeOK
<1>2. PICK i \in 1 .. Len(mainq["tcp"]) : mainq["tcp"][i] = c
  BY <1>1 DEF FdInv, AwaitInv
<1>3. CASE Now = "udp"
  BY <1>1, <1>2, <1>3
<1>4. CASE Now = "tcp"
  <2>1. /\ mainq["tcp"] \in Seq(Client) /\ mainq["tcp"] # <<>>
        /\ mainq'["tcp"] = Tail(mainq["tcp"])
    BY <1>1, <1>4
  <2>2. i # 1
    BY <1>1, <1>2, <1>4, <2>1, QueueHead
  <2>3. i - 1 \in 1 .. Len(Tail(mainq["tcp"])) /\ Tail(mainq["tcp"])[i - 1] = mainq["tcp"][i]
    BY <2>1, <2>2
  <2> QED
    BY <1>2, <2>1, <2>3
<1> QED
  BY <1>1, <1>3, <1>4

LEMMA MainFd ==
  ASSUME TableInv, TableInv', FdInv, MainStep, server' = "up", ~crossed'
  PROVE  FdInv'
<1>1. CASE MainLoop \/ Select \/ Check \/ Join
  <2>1. UNCHANGED <<netVars, clientVars, workerVars, fdVars>>
    BY <1>1 DEF MainLoop, Select, Check, Join
  <2> QED
    BY <2>1, FdSame, AwaitKept DEF FdInv, netVars, clientVars, fdVars
<1>2. CASE TakeFails \/ AdmitFails \/ ReplyFails \/ Return
  BY <1>2 DEF TakeFails, AdmitFails, ReplyFails, Fail, Return
<1>3. CASE SendRedirect \/ Refuse
  <2>1. PICK m : Answer(m)
    BY <1>3 DEF SendRedirect, Refuse
  <2>2. UNCHANGED <<cpc, mainq, accepted, workerVars, fds>>
    BY <2>1 DEF Answer, clientVars
  <2> QED
    BY <2>2, FdSame, AwaitKept DEF FdInv
<1>4. CASE Take
  <2>1. UNCHANGED workerVars
    BY <1>4 DEF Take
  <2>2. fds' = fds \/ \E n \in Fd : Lowest(n) /\ fds' = [fds EXCEPT ![n] = MainConn(cur')]
    BY <1>4 DEF Take
  <2>3. \A n \in 0 .. FdLimit : fds'[n] = fds[n] \/ (n # 0 /\ fds[n] = Free)
    BY <2>2, FdFacts DEF Lowest, TableInv, TypeOK, FdTypeOK
  <2> QED
    BY <1>4, <2>1, <2>3, FdSame, TakeAwait DEF FdInv, TableInv
<1>5. CASE Admit
  <2>1. PICK c \in Client : c = cur /\ Proto(c) = Now /\ wpc[c] = "none"
    BY <1>5 DEF Admit, TableInv, MainInv, Serves
  <2>2. /\ UNCHANGED <<cpc, mainq, accepted, wpeer, wbuf, wfd, wfile>>
        /\ wpc' = [wpc EXCEPT ![c] = IF Now = "tcp" THEN "start" ELSE "loop"]
        /\ \E n \in Fd : Lowest(n) /\ fds' = [fds EXCEPT ![n] = Serv(c)]
    BY <1>5, <2>1 DEF Admit, clientVars
  <2>3. /\ wpc \in [Client -> WorkerPc] /\ \A v \in Client : wfd[v] \in 0 .. FdLimit
        /\ fds \in [0 .. FdLimit -> File \cup {Free, Reserved}]
    BY DEF TableInv, TypeOK, WorkerTypeOK, FdTypeOK
  <2>4. \A n \in 0 .. FdLimit : fds'[n] = fds[n] \/ (n # 0 /\ fds[n] = Free)
    BY <2>2, <2>3, FdFacts DEF Lowest
  <2>5. Free # Reserved /\ Free[1] # "conn"
    BY DEF Free, Reserved
  <2>6. ASSUME NEW v \in Client \ {c} PROVE AcceptInv(v)' /\ OwnInv(v)'
    BY <2>1, <2>2, <2>3, <2>4, <2>5, FdFrame
  <2>7. AcceptInv(c)' /\ OwnInv(c)'
    <3>1. wpc'[c] \in {"start", "loop"} /\ (c \in TcpClient => wpc'[c] = "start")
      BY <2>1, <2>2, <2>3 DEF Proto
    <3> QED
      BY <3>1 DEF AcceptInv, OwnInv
  <2>8. fds'[0] = Free
    BY <2>4, FdFacts DEF FdInv
  <2> QED
    BY <2>2, <2>6, <2>7, <2>8, AwaitKept DEF FdInv
<1> QED
  BY <1>1, <1>2, <1>3, <1>4, <1>5 DEF MainStep

\* What a thread's call works on, and its own serving socket.
LEMMA OwnFiles ==
  ASSUME TableInv, FdInv, NEW w \in Client
  PROVE  /\ wpc[w] \in Holding => Serving(w) = w
         /\ wpc[w] = "accept" => wfile[w] = Serv(w) /\ fds[wfd[w]] = Reserved /\ wfd[w] \in Fd
         /\ wpc[w] = "recv" /\ w \in TcpClient =>
              /\ wfile[w] = Conn(wpeer[w]) /\ fds[wfd[w]] = Conn(wpeer[w]) /\ wfd[w] \in Fd
              /\ wpeer[w] \in Client
         /\ wpc[w] = "recv" /\ w \notin TcpClient => wfile[w] = Serv(w)
<1>1. wpc[w] \in Holding => Serving(w) = w
  BY DEF TableInv, HeldInv, Serving
<1>2. /\ wfd[w] \in 0 .. FdLimit /\ (wfd[w] # 0 => wfd[w] \in Fd)
      /\ fds[0] = Free /\ AcceptInv(w) /\ OwnInv(w)
  BY LimitAssumption DEF TableInv, TypeOK, WorkerTypeOK, FdInv, Fd
<1>3. wpc[w] = "accept" => wfile[w] = Serv(w) /\ fds[wfd[w]] = Reserved /\ wfd[w] \in Fd
  BY <1>2, FileFacts DEF AcceptInv
<1>4. ASSUME wpc[w] = "recv", w \in TcpClient
      PROVE  /\ wfile[w] = Conn(wpeer[w]) /\ fds[wfd[w]] = Conn(wpeer[w]) /\ wfd[w] \in Fd
             /\ wpeer[w] \in Client
  <2>1. wfile[w] = Conn(wpeer[w]) /\ fds[wfd[w]] = Conn(wpeer[w])
    BY <1>2, <1>4 DEF OwnInv, Meant
  <2> QED
    BY <1>2, <1>4, <2>1, FileNames DEF TableInv, PeerInv
<1>5. ASSUME wpc[w] = "recv", w \notin TcpClient PROVE wfile[w] = Serv(w)
  BY <1>1, <1>2, <1>5 DEF OwnInv, Meant, Holding
<1> QED
  BY <1>1, <1>3, <1>4, <1>5

\* A recv that returns leaves the connections, and closes at most the
\* serving socket of its thread.
LEMMA CallEnds ==
  ASSUME TableInv, FdInv, NEW w \in Client, wpc[w] = "recv", CallReturns(w)
  PROVE  /\ UNCHANGED <<accepted, conn>>
         /\ wfile' = [wfile EXCEPT ![w] = Free]
         /\ \A v \in Client : sock'[v] = sock[v] \/ sock'[v] = Closed
<1>1. sock \in [Client -> SocketState] /\ wfile' = [wfile EXCEPT ![w] = Free]
  BY DEF CallReturns, TableInv, TypeOK, NetTypeOK, SocketTypeOK
<1>2. CASE w \in TcpClient
  <2>1. ~LastUse(w)
    BY <1>2, OwnFiles DEF LastUse
  <2> QED
    BY <1>1, <2>1 DEF CallReturns
<1>3. CASE w \notin TcpClient
  <2>1. wfile[w] = Serv(w)
    BY <1>3, OwnFiles
  <2>2. CASE LastUse(w)
    <3>1. Destroys(Serv(w))
      BY <2>1, <2>2 DEF CallReturns
    <3>2. UNCHANGED <<accepted, conn>>
      BY <3>1, FileNames DEF Destroys
    <3> QED
      BY <1>1, <3>1, <3>2 DEF Destroys
  <2>3. CASE ~LastUse(w)
    BY <1>1, <2>3 DEF CallReturns
  <2> QED
    BY <2>2, <2>3
<1> QED
  BY <1>2, <1>3

\* A close that is not crossed closes at most a serving socket.
LEMMA CloseEnds ==
  ASSUME TableInv, NEW w \in Client, Close(w), ~crossed'
  PROVE  /\ UNCHANGED <<accepted, conn>>
         /\ \A v \in Client : sock'[v] = sock[v] \/ sock'[v] = Closed
         /\ \A n \in 0 .. FdLimit : fds'[n] = fds[n] \/ (fds'[n] = Free /\ fds[n] = Serv(Serving(w)))
<1> DEFINE f == ServFile(w)
<1>1. /\ fds' = IF f \in File THEN [fds EXCEPT ![fd_serv[wslot[w]]] = Free] ELSE fds
      /\ (Destroys(f) /\ f \in File) \/ UNCHANGED <<sock, accepted, conn>>
      /\ f \in {Free, Reserved, Serv(Serving(w))}
  BY DEF Close, Crosses
<1>2. /\ sock \in [Client -> SocketState] /\ fds \in [0 .. FdLimit -> File \cup {Free, Reserved}]
      /\ fd_serv[wslot[w]] \in 0 .. FdLimit /\ f = fds[fd_serv[wslot[w]]]
  BY DEF TableInv, TypeOK, NetTypeOK, SocketTypeOK, FdTypeOK, PoolTypeOK, WorkerTypeOK, ServFile
<1> HIDE DEF f
<1>3. f \in File => f = Serv(Serving(w))
  BY <1>1, FileFacts
<1>4. UNCHANGED <<accepted, conn>> /\ \A v \in Client : sock'[v] = sock[v] \/ sock'[v] = Closed
  <2>1. CASE Destroys(f) /\ f \in File
    <3>1. Destroys(Serv(Serving(w)))
      BY <1>3, <2>1
    <3>2. UNCHANGED <<accepted, conn>>
      BY <3>1, FileNames DEF Destroys
    <3> QED
      BY <3>1, <3>2 DEF Destroys
  <2>2. CASE UNCHANGED <<sock, accepted, conn>>
    BY <2>2
  <2> QED
    BY <1>1, <2>1, <2>2
<1>5. \A n \in 0 .. FdLimit : fds'[n] = fds[n] \/ (fds'[n] = Free /\ fds[n] = Serv(Serving(w)))
  BY <1>1, <1>2, <1>3
<1> QED
  BY <1>4, <1>5

\* A thread moves and no descriptor changes.
LEMMA FdMoves ==
  ASSUME TableInv, TableInv', FdInv, NEW w \in Client, NEW pc \in WorkerPc \ {"accept"},
         wpc' = [wpc EXCEPT ![w] = pc], UNCHANGED <<fds, wfd>>,
         \A v \in Client \ {w} : /\ wfile'[v] = wfile[v] /\ wpeer'[v] = wpeer[v]
                                 /\ wbuf'[v] = wbuf[v],
         UNCHANGED <<cpc, mainq, accepted>>, OwnInv(w)'
  PROVE  FdInv'
<1>1. wpc \in [Client -> WorkerPc]
  BY DEF TableInv, TypeOK, WorkerTypeOK
<1>2. \A v \in Client \ {w} : AcceptInv(v)' /\ OwnInv(v)'
  BY <1>1, FdFrame
<1>3. AcceptInv(w)'
  BY <1>1 DEF AcceptInv
<1> QED
  BY <1>2, <1>3, AwaitKept DEF FdInv

LEMMA WorkerFd ==
  ASSUME TableInv, TableInv', FdInv, NEW w \in Client, WorkerStep(w), server' = "up", ~crossed'
  PROVE  FdInv'
<1>1. /\ wpc \in [Client -> WorkerPc] /\ wfile \in [Client -> File \cup {Free}]
      /\ wpeer \in [Client -> Client \cup {None}] /\ wbuf \in [Client -> Request]
      /\ wfd \in [Client -> 0 .. FdLimit]
      /\ fds \in [0 .. FdLimit -> File \cup {Free, Reserved}]
  BY DEF TableInv, TypeOK, WorkerTypeOK, FdTypeOK
<1>2. AcceptInv(w) /\ OwnInv(w) /\ fds[0] = Free
  BY DEF FdInv
<1>3. Free # Reserved /\ Free[1] # "conn" /\ \A c : Serv(c) # Reserved /\ Serv(c)[1] # "conn"
  BY DEF Free, Reserved, Serv
<1>4. CASE CallAccept(w)
  <2>1. PICK x \in TcpClient, n \in Fd :
          /\ ServFile(w) = Serv(x) /\ Lowest(n)
          /\ fds' = [fds EXCEPT ![n] = Reserved]
          /\ wfd' = [wfd EXCEPT ![w] = n]
          /\ wfile' = [wfile EXCEPT ![w] = Serv(x)]
          /\ crossed' = (crossed \/ Crosses(Serv(x), Serv(Serving(w))))
    BY <1>4 DEF CallAccept
  <2>2. /\ wpc[w] = "start" /\ wpc' = [wpc EXCEPT ![w] = "accept"]
        /\ UNCHANGED <<cpc, mainq, accepted, wpeer, wbuf>>
    BY <1>4 DEF CallAccept, Goto, netVars, clientVars
  <2>3. Serv(x) = Serv(w)
    <3>1. Serving(w) = w
      BY <2>2, OwnFiles DEF Holding
    <3> QED
      BY <2>1, <3>1, FileNames DEF Crosses
  <2>4. fds[n] = Free /\ n \in 0 .. FdLimit /\ n # 0 /\ 0 \in 0 .. FdLimit
    BY <2>1, FdFacts DEF Lowest
  <2>5. \A v \in Client \ {w} : AcceptInv(v)' /\ OwnInv(v)'
    <3>1. \A v \in Client \ {w} : /\ wpc'[v] = wpc[v] /\ wfile'[v] = wfile[v] /\ wfd'[v] = wfd[v]
                                  /\ wpeer'[v] = wpeer[v] /\ wbuf'[v] = wbuf[v]
      BY <1>1, <2>1, <2>2
    <3>2. \A k \in 0 .. FdLimit : fds[k] = Reserved \/ fds[k][1] = "conn" => fds'[k] = fds[k]
      BY <1>1, <1>3, <2>1, <2>4
    <3>3. \A u \in Client : wpc'[u] = "accept" =>
            (wpc[u] = "accept" /\ wfd'[u] = wfd[u]) \/ fds[wfd'[u]] = Free
      BY <1>1, <2>1, <2>2, <2>4
    <3> QED
      BY <1>1, <3>1, <3>2, <3>3, FdFrame
  <2>6. AcceptInv(w)'
    <3>1. ASSUME NEW v \in Client, wpc'[v] = "accept", wfd'[v] = wfd'[w] PROVE v = w
      <4>1. CASE v # w
        <5>1. wpc[v] = "accept" /\ wfd[v] = n
          BY <1>1, <2>1, <2>2, <3>1, <4>1
        <5>2. fds[wfd[v]] = Reserved
          BY <5>1 DEF FdInv, AcceptInv
        <5> QED
          BY <1>3, <2>4, <5>1, <5>2
      <4> QED
        BY <4>1
    <3>2. wfile'[w] = Serv(w) /\ wfd'[w] = n /\ fds'[n] = Reserved
      BY <1>1, <2>1, <2>3, <2>4
    <3> QED
      BY <3>1, <3>2 DEF AcceptInv
  <2>7. OwnInv(w)'
    BY <1>1, <2>2 DEF OwnInv
  <2>8. fds'[0] = Free
    BY <1>1, <1>2, <2>1, <2>4
  <2> QED
    BY <2>2, <2>5, <2>6, <2>7, <2>8, AwaitKept DEF FdInv
<1>5. CASE AcceptFails(w) \/ SendKills(w)
  BY <1>5 DEF AcceptFails, SendKills, Fail
<1>6. CASE Accept(w)
  <2>0. wpc[w] = "accept" /\ wfile[w] = Serv(w)
    BY <1>6, OwnFiles DEF Accept
  <2>1. PICK c : /\ fds' = [fds EXCEPT ![wfd[w]] = Conn(c)]
                 /\ wpeer' = [wpeer EXCEPT ![w] = c]
    BY <1>6 DEF Accept
  <2>2. /\ wpc[w] = "accept" /\ wpc' = [wpc EXCEPT ![w] = "loop"]
        /\ wfile' = [wfile EXCEPT ![w] = Free]
        /\ UNCHANGED <<cpc, mainq, accepted, wbuf, wfd>>
    BY <1>6 DEF Accept, Goto, clientVars
  <2>3. fds[wfd[w]] = Reserved /\ wfd[w] \in Fd /\ wfd[w] \in 0 .. FdLimit
    BY <1>1, <2>0, OwnFiles
  <2>4. \A v \in Client \ {w} : AcceptInv(v)' /\ OwnInv(v)'
    <3>1. \A v \in Client \ {w} : /\ wpc'[v] = wpc[v] /\ wfile'[v] = wfile[v] /\ wfd'[v] = wfd[v]
                                  /\ wpeer'[v] = wpeer[v] /\ wbuf'[v] = wbuf[v]
      BY <1>1, <2>1, <2>2
    <3>2. \A k \in 0 .. FdLimit : fds'[k] = fds[k] \/ k = wfd[w]
      BY <1>1, <2>1
    <3>3. \A u \in Client : wpc'[u] = "accept" => wpc[u] = "accept" /\ wfd'[u] = wfd[u]
      BY <1>1, <2>2
    <3> QED
      BY <1>1, <2>2, <3>1, <3>2, <3>3, FdFrame
  <2>5. OwnInv(w)'
    <3>1. fds'[wfd'[w]] = Conn(wpeer'[w]) /\ wpc'[w] = "loop"
      BY <1>1, <2>1, <2>2, <2>3
    <3> QED
      BY <3>1 DEF OwnInv
  <2>6. AcceptInv(w)'
    BY <1>1, <2>2 DEF AcceptInv
  <2>7. fds'[0] = Free
    BY <1>1, <1>2, <2>1, <2>3, FdFacts
  <2> QED
    BY <2>2, <2>4, <2>5, <2>6, <2>7, AwaitKept DEF FdInv
<1>7. CASE CallRecv(w)
  <2>1. /\ wpc[w] = "loop" /\ UNCHANGED <<cpc, mainq, accepted, wpeer, wbuf, wfd, fds>>
        /\ \/ /\ wpc' = [wpc EXCEPT ![w] = "recv"] /\ wfile' = [wfile EXCEPT ![w] = SessionFile(w)]
              /\ SessionFile(w) = Meant(w)
           \/ wpc' = [wpc EXCEPT ![w] = "release"] /\ wfile' = wfile
    <3>1. flag = 1 /\ Readable(SessionFile(w)) => SessionFile(w) = Meant(w)
      BY <1>7, ThreadFiles, FileFacts DEF CallRecv, Crosses, TableInv
    <3> QED
      BY <1>7, <3>1 DEF CallRecv, Goto, netVars, clientVars
  <2>2. OwnInv(w)'
    <3>1. CASE wpc' = [wpc EXCEPT ![w] = "recv"] /\ wfile' = [wfile EXCEPT ![w] = Meant(w)]
      <4>1. wpc'[w] = "recv" /\ wfile'[w] = Meant(w) /\ UNCHANGED <<ph, wslot>>
        BY <1>1, <1>7, <3>1 DEF CallRecv, poolVars
      <4>2. Meant(w)' = Meant(w)
        BY <2>1, <4>1 DEF Meant, Serving
      <4>3. w \in TcpClient => fds[wfd[w]] = Conn(wpeer[w])
        BY <1>2, <2>1 DEF OwnInv
      <4> QED
        BY <2>1, <4>1, <4>2, <4>3 DEF OwnInv
    <3>2. CASE wpc' = [wpc EXCEPT ![w] = "release"]
      BY <1>1, <3>2 DEF OwnInv
    <3> QED
      BY <2>1, <3>1, <3>2
  <2>3. PICK pc \in WorkerPc \ {"accept"} : wpc' = [wpc EXCEPT ![w] = pc]
    BY <2>1 DEF WorkerPc
  <2>4. \A v \in Client \ {w} : wfile'[v] = wfile[v]
    BY <1>1, <2>1
  <2> QED
    BY <2>1, <2>2, <2>3, <2>4, FdMoves
<1>8. CASE RecvStream(w)
  <2> DEFINE c == wfile[w][2]
  <2>1. w \in TcpClient /\ wfile[w] = Conn(wpeer[w]) /\ fds[wfd[w]] = Conn(wpeer[w])
    <3>1. wpc[w] = "recv" /\ wfile[w][1] = "conn"
      BY <1>8 DEF RecvStream
    <3> QED
      BY <3>1, OwnFiles, FileNames
  <2>2. /\ wpc[w] = "recv" /\ CallReturns(w) /\ wpc' = [wpc EXCEPT ![w] = "send"]
        /\ UNCHANGED <<cpc, mainq, wpeer, wfd, fds>>
    BY <1>8 DEF RecvStream, Goto, clientVars
  <2>3. \E m : wbuf' = [wbuf EXCEPT ![w] = [from |-> wpeer[w], msg |-> m]]
    BY <1>8, <2>1, FileNames DEF RecvStream
  <2>4. OwnInv(w)'
    <3>1. wbuf'[w].from = wpeer[w] /\ wpc'[w] = "send"
      BY <1>1, <2>2, <2>3
    <3> QED
      BY <2>1, <2>2, <3>1 DEF OwnInv
  <2>5. /\ accepted' = accepted
        /\ \A v \in Client \ {w} : wfile'[v] = wfile[v] /\ wbuf'[v] = wbuf[v]
    BY <1>1, <2>2, <2>3, CallEnds
  <2> QED
    BY <2>2, <2>4, <2>5, FdMoves DEF WorkerPc
<1>9. CASE RecvEnd(w)
  <2>2. /\ wpc[w] = "recv" /\ CallReturns(w) /\ wpc' = [wpc EXCEPT ![w] = "release"]
        /\ UNCHANGED <<cpc, mainq, wpeer, wbuf, wfd, fds>>
    BY <1>9 DEF RecvEnd, Goto, clientVars
  <2>4. OwnInv(w)'
    BY <1>1, <2>2 DEF OwnInv
  <2>5. accepted' = accepted /\ \A v \in Client \ {w} : wfile'[v] = wfile[v]
    BY <1>1, <2>2, CallEnds
  <2> QED
    BY <2>2, <2>4, <2>5, FdMoves DEF WorkerPc
<1>10. CASE RecvNothing(w)
  <2>1. wpc[w] = "recv" /\ w \notin TcpClient /\ AtEnd(wfile[w])
    BY <1>10, ClientAssumption DEF RecvNothing
  <2>2. wfile[w] = Serv(w)
    BY <2>1, OwnFiles
  <2> QED
    BY <2>1, <2>2, FileNames DEF AtEnd
<1>11. CASE RecvUdp(w)
  <2>1. w \notin TcpClient
    <3>1. wpc[w] = "recv" /\ wfile[w][1] = "serv"
      BY <1>11 DEF RecvUdp
    <3> QED
      BY <3>1, OwnFiles, FileNames
  <2>2. /\ wpc[w] = "recv" /\ CallReturns(w)
        /\ UNCHANGED <<cpc, mainq, wfd, fds>>
        /\ wpeer' = wpeer \/ \E d : wpeer' = [wpeer EXCEPT ![w] = d]
        /\ wbuf' = wbuf \/ \E d : wbuf' = [wbuf EXCEPT ![w] = d]
    BY <1>11 DEF RecvUdp, clientVars
  <2>3. PICK pc \in {"send", "loop"} : wpc' = [wpc EXCEPT ![w] = pc]
    BY <1>11 DEF RecvUdp, Goto
  <2>4. OwnInv(w)'
    BY <1>1, <2>1, <2>3 DEF OwnInv
  <2>5. /\ accepted' = accepted
        /\ \A v \in Client \ {w} : wfile'[v] = wfile[v] /\ wbuf'[v] = wbuf[v] /\ wpeer'[v] = wpeer[v]
    BY <1>1, <2>2, CallEnds
  <2> QED
    BY <2>2, <2>3, <2>4, <2>5, FdMoves DEF WorkerPc
<1>12. CASE Send(w) \/ SendFails(w)
  <2>1. /\ wpc[w] = "send" /\ UNCHANGED <<cpc, mainq, accepted, wpeer, wfd, wfile, fds>>
        /\ wbuf' = [wbuf EXCEPT ![w].from = None]
    <3>1. CASE Send(w)
      BY <3>1 DEF Send, clientVars
    <3>2. CASE SendFails(w)
      BY <3>2 DEF SendFails, netVars, clientVars
    <3> QED
      BY <1>12, <3>1, <3>2
  <2>2. PICK pc \in {"loop", "release"} : wpc' = [wpc EXCEPT ![w] = pc]
    BY <1>12 DEF Send, SendFails, Goto
  <2>3. \A v \in Client \ {w} : wbuf'[v] = wbuf[v]
    BY <1>1, <2>1, Zenon
  <2>4. OwnInv(w)'
    <3>1. wpc'[w] \in {"loop", "release"}
      BY <1>1, <2>2
    <3> QED
      BY <1>2, <2>1, <3>1 DEF OwnInv
  <2> QED
    BY <2>1, <2>2, <2>3, <2>4, FdMoves DEF WorkerPc
<1>13. CASE Release(w)
  <2>1. /\ wpc' = [wpc EXCEPT ![w] = "close"]
        /\ UNCHANGED <<cpc, mainq, accepted, wpeer, wbuf, wfd, wfile, fds>>
    BY <1>13 DEF Release, Goto, netVars, clientVars, fdVars
  <2>2. OwnInv(w)'
    BY <1>1, <2>1 DEF OwnInv
  <2> QED
    BY <2>1, <2>2, FdMoves DEF WorkerPc
<1>14. CASE Close(w)
  <2>1. /\ wpc' = [wpc EXCEPT ![w] = "exited"] /\ wpeer' = [wpeer EXCEPT ![w] = None]
        /\ wfd' = [wfd EXCEPT ![w] = 0] /\ UNCHANGED <<cpc, mainq, wbuf, wfile>>
    BY <1>14 DEF Close, Goto, clientVars
  <2>2. /\ accepted' = accepted
        /\ \A n \in 0 .. FdLimit : fds'[n] = fds[n] \/ (fds'[n] = Free /\ fds[n] = Serv(Serving(w)))
    BY <1>14, CloseEnds
  <2>3. \A v \in Client \ {w} : AcceptInv(v)' /\ OwnInv(v)'
    <3>1. \A v \in Client \ {w} : /\ wpc'[v] = wpc[v] /\ wfile'[v] = wfile[v] /\ wfd'[v] = wfd[v]
                                  /\ wpeer'[v] = wpeer[v] /\ wbuf'[v] = wbuf[v]
      BY <1>1, <2>1
    <3>2. \A k \in 0 .. FdLimit : fds[k] = Reserved \/ fds[k][1] = "conn" => fds'[k] = fds[k]
      BY <1>3, <2>2
    <3>3. \A u \in Client : wpc'[u] = "accept" => wpc[u] = "accept" /\ wfd'[u] = wfd[u]
      BY <1>1, <2>1
    <3> QED
      BY <1>1, <3>1, <3>2, <3>3, FdFrame
  <2>4. AcceptInv(w)' /\ OwnInv(w)'
    BY <1>1, <2>1 DEF AcceptInv, OwnInv
  <2>5. fds'[0] = Free
    BY <1>2, <2>2, FdFacts
  <2> QED
    BY <2>1, <2>2, <2>3, <2>4, <2>5, AwaitKept DEF FdInv
<1> QED
  BY <1>4, <1>5, <1>6, <1>7, <1>8, <1>9, <1>10, <1>11, <1>12, <1>13, <1>14 DEF WorkerStep

LEMMA InterruptFd ==
  ASSUME TableInv, TableInv', FdInv, Interrupt, server' = "up"
  PROVE  FdInv'
<1>1. CASE InterruptMain \/ InterruptRunning
  <2>1. UNCHANGED <<netVars, clientVars, workerVars, fdVars>>
    BY <1>1 DEF InterruptMain, InterruptRunning
  <2> QED
    BY <2>1, FdSame, AwaitKept DEF FdInv, netVars, clientVars, fdVars
<1>2. ASSUME NEW w \in Client, InterruptRecv(w) PROVE FdInv'
  <2>1. /\ wpc[w] = "recv" /\ CallReturns(w) /\ wpc' = [wpc EXCEPT ![w] = "release"]
        /\ UNCHANGED <<cpc, mainq, wpeer, wbuf, wfd, fds>>
    BY <1>2 DEF InterruptRecv, Goto, clientVars
  <2>2. wpc \in [Client -> WorkerPc] /\ wfile \in [Client -> File \cup {Free}]
    BY DEF TableInv, TypeOK, WorkerTypeOK
  <2>3. OwnInv(w)'
    BY <2>1, <2>2 DEF OwnInv
  <2>4. accepted' = accepted /\ \A v \in Client \ {w} : wfile'[v] = wfile[v]
    BY <2>1, <2>2, CallEnds
  <2> QED
    BY <2>1, <2>3, <2>4, FdMoves DEF WorkerPc
<1>3. ASSUME NEW w \in Client, InterruptAccept(w) PROVE FdInv'
  BY <1>3 DEF InterruptAccept
<1> QED
  BY <1>1, <1>2, <1>3 DEF Interrupt

\* A TCP client waits for its redirect only once it is in main()'s queue.
LEMMA AwaitsQueued ==
  ASSUME TypeOK, NEW c \in Client, ClientStep(c) \/ UserStep(c), cpc'[c] = "await"
  PROVE  \/ cpc[c] = "await"
         \/ mainq' = [mainq EXCEPT ![Proto(c)] = Append(@, c)]
<1>1. cpc \in [Client -> ClientPc]
  BY DEF TypeOK, ClientTypeOK
<1>2. ASSUME Ends(c) PROVE cpc'[c] # "await"
  BY <1>1, <1>2 DEF Ends
<1>3. ASSUME NEW m, Follow(c, m) PROVE cpc'[c] # "await"
  BY <1>1, <1>2, <1>3 DEF Follow
<1>4. CASE UserStep(c)
  <2>1. CASE StartTcp(c) \/ StartUdp(c)
    BY <2>1, ClientAssumption DEF StartTcp, StartUdp, Proto
  <2>2. CASE Ask(c) \/ Again(c)
    BY <1>1, <2>2 DEF Ask, Again
  <2>3. CASE Quit(c) \/ Kill(c) \/ AskBroken(c)
    BY <1>2, <2>3 DEF Quit, Kill, AskBroken
  <2> QED
    BY <1>4, <2>1, <2>2, <2>3 DEF UserStep
<1>5. CASE ClientStep(c)
  <2>1. CASE RecvRedirect(c) \/ RecvRedirectFails(c)
    BY <2>1 DEF RecvRedirect, RecvRedirectFails
  <2>2. CASE ConnectSessionTcp(c) \/ ConnectSessionUdp(c)
    BY <1>1, <2>2 DEF ConnectSessionTcp, ConnectSessionUdp
  <2>3. CASE ConnectSessionRefused(c) \/ ProbeGivesUp(c) \/ AnswerFails(c)
    BY <1>2, <2>3 DEF ConnectSessionRefused, ProbeGivesUp, AnswerFails
  <2>4. CASE RecvProbeAck(c) \/ RecvAnswer(c) \/ RecvEofAsAnswer(c)
    BY <1>1, <2>4 DEF RecvProbeAck, RecvAnswer, RecvEofAsAnswer
  <2>5. CASE RecvOtherAck(c) \/ ProbeTimesOut(c)
    BY <2>5 DEF RecvOtherAck, ProbeTimesOut
  <2> QED
    BY <1>5, <2>1, <2>2, <2>3, <2>4, <2>5 DEF ClientStep
<1> QED
  BY <1>4, <1>5

LEMMA ClientFd ==
  ASSUME TableInv, TableInv', FdInv, NEW c \in Client,
         ClientStep(c) \/ UserStep(c), ClientKeeps
  PROVE  FdInv'
<1>1. UNCHANGED <<workerVars, fds, accepted>>
  BY ClientFrame DEF ClientKeeps, fdVars, TableInv, TypeOK, NetTypeOK
<1>2. fds'[0] = Free /\ \A v \in Client : AcceptInv(v)' /\ OwnInv(v)'
  BY <1>1, FdSame
<1>3. ASSUME NEW d \in Client PROVE AwaitInv(d)'
  <2> SUFFICES ASSUME d \in TcpClient, cpc'[d] = "await", d \notin accepted
               PROVE  \E i \in 1 .. Len(mainq'["tcp"]) : mainq'["tcp"][i] = d
    BY <1>1 DEF AwaitInv
  <2>1. /\ mainq \in [{"tcp", "udp"} -> Seq(Client)]
        /\ mainq' = mainq \/ mainq' = [mainq EXCEPT ![Proto(c)] = Append(@, c)]
    BY ClientFrame DEF TableInv, TypeOK, NetTypeOK, SocketTypeOK
  <2>2. mainq["tcp"] \in Seq(Client)
    BY <2>1
  <2>3. CASE cpc[d] = "await"
    <3>1. PICK i \in 1 .. Len(mainq["tcp"]) : mainq["tcp"][i] = d
      BY <2>3 DEF FdInv, AwaitInv
    <3>2. i \in 1 .. Len(mainq'["tcp"]) /\ mainq'["tcp"][i] = d
      <4>1. mainq'["tcp"] = mainq["tcp"] \/ mainq'["tcp"] = Append(mainq["tcp"], c)
        BY <2>1
      <4> QED
        BY <2>2, <3>1, <4>1
    <3> QED
      BY <3>2
  <2>4. CASE cpc[d] # "await"
    <3>1. d = c
      BY <2>4, ClientAlone DEF OnlyItself, TableInv, TypeOK, NetTypeOK
    <3>2. mainq' = [mainq EXCEPT !["tcp"] = Append(@, c)]
      BY <2>4, <3>1, AwaitsQueued DEF TableInv, Proto
    <3>3. mainq'["tcp"] = Append(mainq["tcp"], d)
      BY <2>1, <3>1, <3>2
    <3>4. Len(mainq["tcp"]) + 1 \in 1 .. Len(mainq'["tcp"]) /\ mainq'["tcp"][Len(mainq["tcp"]) + 1] = d
      BY <2>2, <3>3
    <3> QED
      BY <3>4
  <2> QED
    BY <2>3, <2>4
<1> QED
  BY <1>2, <1>3 DEF FdInv

-----------------------------------------------------------------------------
(* The sessions: what a step may do to a client's session without touching it. *)

\* The client itself stays where it is; main() may write to it, and a thread
\* to the stream of one that has ended.
SameSelf(c) == /\ cpc'[c] = cpc[c] /\ cbuf'[c] = cbuf[c] /\ asked'[c] = asked[c]
               /\ toSrv'[c] = toSrv[c]
               /\ toCli'[c] = toCli[c] \/ AtMain(c) \/ cpc[c] = "done"

\* What thread w holds of c is old; the datagrams k places further to the front.
NothingNew(c, w) ==
  /\ \E k \in Nat : \A i \in 1 .. Len(dgrams'[w]) :
       HasDatagram(c, w, i)' => HasDatagram(c, w, i + k) /\ dgrams'[w][i] = dgrams[w][i + k]
  /\ wbuf'[w].from = c => wbuf'[w] = wbuf[w]

\* The server has a connection of c if a TCP thread has.
StaysConnected(c) ==
  /\ conn \subseteq conn'
  /\ \A w \in TcpClient : wpeer'[w] = c => wpeer[w] = c \/ \E p \in Slot : <<c, p>> \in conn'

Untouched(c) == SameSelf(c) /\ StaysConnected(c) /\ \A w \in Client : NothingNew(c, w)

LEMMA UntouchedInv ==
  ASSUME NEW c \in Client, DialogueInv(c), Untouched(c)
  PROVE  DialogueInv(c)'
<1> USE DEF DialogueInv
<1>0. /\ cpc'[c] = cpc[c] /\ cbuf'[c] = cbuf[c] /\ asked'[c] = asked[c] /\ toSrv'[c] = toSrv[c]
      /\ toCli'[c] = toCli[c] \/ cpc[c] \in {"await", "done"}
  BY DEF Untouched, SameSelf, AtMain
<1>1. ASSUME NEW w \in Client
      PROVE  \A i \in 1 .. Len(dgrams'[w]) : HasDatagram(c, w, i)' =>
                  \E j \in 1 .. Len(dgrams[w]) :
                    HasDatagram(c, w, j) /\ dgrams'[w][i] = dgrams[w][j]
  <2>1. \A i \in 1 .. Len(dgrams'[w]) : HasDatagram(c, w, i)' =>
          \E j : HasDatagram(c, w, j) /\ dgrams'[w][i] = dgrams[w][j]
    BY DEF Untouched, NothingNew
  <2> QED
    BY <2>1 DEF HasDatagram
<1>2. \A w \in Client : wbuf'[w].from = c => wbuf'[w] = wbuf[w]
  BY DEF Untouched, NothingNew
<1>3. WireInv(c)'
  BY <1>0, <1>1 DEF WireInv
<1>4. TurnInv(c)'
  <2>1. (Asks(c)' => Asks(c)) /\ (Taken(c)' => Taken(c))
    BY <1>0, <1>1, <1>2 DEF Asks, Taken
  <2>2. AtSession(c)' => AtSession(c) /\ toCli'[c] = toCli[c]
    BY <1>0 DEF AtSession
  <2>3. ASSUME AtSession(c), NEW v \in Client, NEW w \in Client,
               NEW i \in 1 .. Len(dgrams'[v]), NEW j \in 1 .. Len(dgrams'[w]),
               HasDatagram(c, v, i)', HasDatagram(c, w, j)'
        PROVE  v = w /\ i = j
    <3>1. v = w
      <4>1. PICK a \in 1 .. Len(dgrams[v]) : HasDatagram(c, v, a)
        BY <1>1, <2>3
      <4>2. PICK b \in 1 .. Len(dgrams[w]) : HasDatagram(c, w, b)
        BY <1>1, <2>3
      <4> QED
        BY <2>3, <4>1, <4>2 DEF TurnInv
    <3>2. PICK k \in Nat : HasDatagram(c, w, i + k) /\ HasDatagram(c, w, j + k)
      BY <2>3, <3>1 DEF Untouched, NothingNew
    <3>3. i + k \in 1 .. Len(dgrams[w]) /\ j + k \in 1 .. Len(dgrams[w])
      BY <3>2 DEF HasDatagram
    <3>4. i + k = j + k
      BY <2>3, <3>2, <3>3 DEF TurnInv
    <3> QED
      BY <3>1, <3>4
  <2>4. ASSUME AtSession(c), NEW v \in Client, NEW w \in Client,
               wbuf'[v].from = c, wbuf'[w].from = c
        PROVE  v = w
    BY <1>2, <2>4 DEF TurnInv
  <2> QED
    BY <1>0, <2>1, <2>2, <2>3, <2>4 DEF TurnInv, Told, Before, AtSession
<1>5. ContentInv(c)'
  <2>1. CASE cpc[c] = "reply"
    BY <1>0, <1>1, <1>2, <2>1 DEF ContentInv
  <2>2. CASE cpc[c] # "reply"
    BY <1>0, <2>2 DEF ContentInv
  <2> QED
    BY <2>1, <2>2
<1>6. ConnInv(c)'
  <2>1. StaysConnected(c)
    BY DEF Untouched
  <2>2. Taken(c)' => Taken(c)
    BY <1>2 DEF Taken
  <2> QED
    BY <1>0, <2>1, <2>2 DEF ConnInv, StaysConnected, AtSession, Talking, Told
<1> QED
  BY <1>3, <1>4, <1>5, <1>6

\* Sockets may be closed, and what is on its way stays there or is dropped.
LEMMA QuietInv ==
  ASSUME \A c \in Client : DialogueInv(c), UNCHANGED <<dgrams, toSrv, cpc, cbuf, asked>>,
         \A w \in Client : wbuf'[w] = wbuf[w] \/ wbuf'[w].from = None,
         \A c \in Client : toCli'[c] = toCli[c] \/ AtMain(c),
         \A c \in Client : StaysConnected(c)
  PROVE  \A c \in Client : DialogueInv(c)'
<1> SUFFICES ASSUME NEW c \in Client PROVE DialogueInv(c)'
  OBVIOUS
<1>1. SameSelf(c)
  BY DEF SameSelf
<1>2. ASSUME NEW w \in Client PROVE NothingNew(c, w)
  <2>1. \A i \in 1 .. Len(dgrams'[w]) :
          HasDatagram(c, w, i)' => HasDatagram(c, w, i + 0) /\ dgrams'[w][i] = dgrams[w][i + 0]
    BY DEF HasDatagram
  <2>2. wbuf'[w].from = c => wbuf'[w] = wbuf[w]
    BY ClientAssumption DEF Client
  <2> QED
    BY <2>1, <2>2 DEF NothingNew
<1> QED
  BY <1>1, <1>2, UntouchedInv DEF Untouched

LEMMA ClosesOnly ==
  ASSUME PortInv, \A w \in Client : sock'[w] = sock[w] \/ sock'[w] = Closed
  PROVE  PortInv'
  BY DEF PortInv

\* A new serving socket is bound to a port no other is bound to.
LEMMA BindsFree ==
  ASSUME PortInv, sock \in [Client -> SocketState], NEW c \in Client, NEW p, NEW s \in Slot,
         ~PortInUse(p, s), sock' = [sock EXCEPT ![c] = Bound(p, s)]
  PROVE  PortInv'
<1>1. \A w \in Client : sock[w] # Bound(p, s)
  BY DEF PortInUse, SocketsAt
<1> QED
  BY <1>1 DEF PortInv

\* What the sessions are while no descriptor is crossed.
Dialogues == PortInv /\ \A c \in Client : DialogueInv(c)

\* main() and its locked sections keep the sessions.
LEMMA MainSession ==
  ASSUME TableInv, Undisturbed, MainStep, server' = "up", ~crossed'
  PROVE  Dialogues'
<1> USE DEF Dialogues, Undisturbed
<1>0. /\ toCli \in [Client -> Seq(Message)] /\ sock \in [Client -> SocketState]
  BY DEF TableInv, TypeOK, NetTypeOK, SocketTypeOK
<1>1. CASE MainLoop \/ Select \/ Check \/ Join
  <2>1. UNCHANGED <<netVars, clientVars, workerVars>>
    BY <1>1 DEF MainLoop, Select, Check, Join
  <2> QED
    BY <2>1, QuietInv, ClosesOnly DEF netVars, clientVars, workerVars, StaysConnected
<1>2. CASE Take
  <2>1. UNCHANGED <<sock, dgrams, conn, toSrv, toCli, clientVars, workerVars>>
    BY <1>2 DEF Take
  <2> QED
    BY <2>1, QuietInv, ClosesOnly DEF clientVars, workerVars, StaysConnected
<1>3. CASE Admit
  <2>1. cur \in Client
    BY <1>3 DEF Admit, TableInv, MainInv, Serves
  <2>2. PICK s \in Slot : ~PortInUse(Now, s) /\ sock' = [sock EXCEPT ![cur] = Bound(Now, s)]
    BY <1>3 DEF Admit
  <2>3. UNCHANGED <<dgrams, toSrv, toCli, clientVars, wbuf, wpeer, conn>>
    BY <1>3 DEF Admit
  <2>4. PortInv'
    BY <1>0, <2>1, <2>2, BindsFree
  <2> QED
    BY <2>3, <2>4, QuietInv DEF clientVars, StaysConnected
<1>4. CASE TakeFails \/ AdmitFails \/ ReplyFails \/ Return
  BY <1>4 DEF TakeFails, AdmitFails, ReplyFails, Fail, Return
<1>5. CASE SendRedirect \/ Refuse
  <2>1. PICK m : Answer(m)
    BY <1>5 DEF SendRedirect, Refuse
  <2>2. /\ AnswerFile = MainConn(cur) /\ Write(AnswerFile, m)
        /\ UNCHANGED <<dgrams, toSrv, clientVars, workerVars, conn, sock>>
    BY <2>1 DEF Answer
  <2>3. SendMain(cur, m)
    BY <2>2, FileNames DEF Write
  <2>4. \A d \in Client : toCli'[d] = toCli[d] \/ AtMain(d)
    BY <1>0, <2>3 DEF SendMain
  <2> QED
    BY <2>2, <2>4, QuietInv, ClosesOnly DEF clientVars, workerVars, StaysConnected
<1> QED
  BY <1>1, <1>2, <1>3, <1>4, <1>5 DEF MainStep

\* A thread's reply carries the cube.
LEMMA ReplyCubes == \A m : Reply(m).message = Pow3(m.message)
  BY DEF Reply, Msg

\* Nothing of c is waiting for a thread.
LEMMA NothingAsked ==
  ASSUME NEW c, ~Asks(c)
  PROVE  toSrv[c] = <<>> /\ \A w \in Client : \A i : ~HasDatagram(c, w, i)
  BY DEF Asks, HasDatagram

\* A TCP thread reads the request of the client it has accepted.
LEMMA RecvStreamSession ==
  ASSUME TableInv, Undisturbed, NEW w \in Client, RecvStream(w)
  PROVE  Dialogues'
<1>own. w \in TcpClient /\ wpeer[w] \in Client /\ wfile[w] = Conn(wpeer[w]) /\ wfile[w][2] = wpeer[w]
  <2>1. wpc[w] = "recv" /\ wfile[w][1] = "conn"
    BY DEF RecvStream
  <2> QED
    BY <2>1, OwnFiles, FileNames DEF Undisturbed
<1>2. PICK c \in Client : c = wpeer[w]
  BY <1>own
<1>0. PICK m : m = Head(toSrv[c])
  OBVIOUS
<1>1. /\ server = "up" /\ wpc[w] = "recv" /\ w \in TcpClient /\ toSrv[c] # <<>>
      /\ wbuf' = [wbuf EXCEPT ![w] = [from |-> c, msg |-> Reply(m)]]
      /\ toSrv' = [toSrv EXCEPT ![c] = Tail(@)]
      /\ UNCHANGED <<dgrams, conn, toCli, clientVars, wpeer>>
      /\ \A v \in Client : sock'[v] = sock[v] \/ sock'[v] = Closed
  BY <1>0, <1>own, <1>2, CallEnds DEF RecvStream, Undisturbed
<1>3. /\ toSrv \in [Client -> Seq(Message)] /\ DOMAIN wbuf = Client
  BY DEF TableInv, TypeOK, NetTypeOK, SocketTypeOK, WorkerTypeOK
<1>4. m = toSrv[c][1] /\ 1 \in 1 .. Len(toSrv[c]) /\ toSrv[c] \in Seq(Message)
  BY <1>0, <1>1, <1>2, <1>3, QueueHead
<1>5. /\ toSrv'[c] = Tail(toSrv[c]) /\ \A d \in Client \ {c} : toSrv'[d] = toSrv[d]
      /\ wbuf'[w] = [from |-> c, msg |-> Reply(m)]
      /\ \A v \in Client \ {w} : wbuf'[v] = wbuf[v]
  BY <1>1, <1>2, <1>3
<1>6. wpeer[w] = c
  BY <1>2
<1>7. \A v \in Client : \A d, i : HasDatagram(d, v, i)' <=> HasDatagram(d, v, i)
  BY <1>1 DEF HasDatagram
<1>8. DialogueInv(c)
  BY <1>2 DEF Undisturbed
<1>9. c \in TcpClient
  BY <1>1, <1>2, <1>8 DEF DialogueInv, WireInv, Client
<1>10. Asks(c) /\ ~Before(c) /\ cpc[c] # "redirected"
  BY <1>1, <1>8 DEF DialogueInv, TurnInv, Asks, Before
<1>11. WireInv(c)'
  BY <1>1, <1>7, <1>8, <1>9, ClientAssumption DEF DialogueInv, WireInv
<1>12. TurnInv(c)'
  <2>1. CASE AtSession(c)
    <3>1. /\ ~Taken(c) /\ ~Told(c) /\ cpc[c] \notin {"chat", "ask"}
          /\ Len(toSrv[c]) <= 1 /\ Len(toCli[c]) <= 1
      BY <1>8, <1>10, <2>1 DEF DialogueInv, TurnInv
    <3>2. toSrv'[c] = <<>>
      BY <1>1, <1>4, <1>5, <3>1, LastOne
    <3>3. \A v \in Client : \A i : ~HasDatagram(c, v, i)
      BY <1>8, <1>9 DEF DialogueInv, WireInv, HasDatagram
    <3>4. ~Asks(c)' /\ ~Told(c)'
      BY <1>1, <1>7, <3>1, <3>2, <3>3 DEF Asks, Told
    <3>5. \A u, v \in Client : wbuf'[u].from = c /\ wbuf'[v].from = c => u = v
      BY <1>5, <3>1 DEF Taken
    <3>6. Len(toSrv[c])' <= 1 /\ Len(toCli[c])' <= 1
      <4>1. Len(<<>>) <= 1
        OBVIOUS
      <4> QED
        BY <1>1, <3>1, <3>2, <4>1
    <3> QED
      BY <1>1, <1>7, <1>10, <3>1, <3>3, <3>4, <3>5, <3>6
         DEF TurnInv, Before, AtSession, clientVars
  <2>2. CASE ~AtSession(c)
    BY <1>1, <1>10, <2>2 DEF TurnInv, Before, AtSession, clientVars
  <2> QED
    BY <2>1, <2>2
<1>13. ContentInv(c)'
  <2>1. CASE cpc[c] = "reply"
    <3>1. /\ ~Taken(c) /\ ~Told(c) /\ Len(toSrv[c]) <= 1
      BY <1>8, <1>10, <2>1 DEF DialogueInv, TurnInv, AtSession
    <3>2. toSrv'[c] = <<>>
      BY <1>1, <1>4, <1>5, <3>1, LastOne
    <3>3. m.message = asked[c]
      BY <1>4, <1>8, <2>1 DEF DialogueInv, ContentInv
    <3>4. \A v \in Client : wbuf'[v].from = c => wbuf'[v].msg.message = Pow3(asked[c])
      BY <1>5, <3>1, <3>3, ReplyCubes DEF Taken
    <3> QED
      BY <1>1, <1>7, <1>8, <2>1, <3>2, <3>4 DEF DialogueInv, ContentInv, clientVars
  <2>2. CASE cpc[c] # "reply"
    BY <1>1, <1>8, <2>2 DEF DialogueInv, ContentInv, clientVars
  <2> QED
    BY <2>1, <2>2
<1>14. ConnInv(c)'
  BY <1>1, <1>6, <1>8, <1>9 DEF DialogueInv, ConnInv
<1>15. ASSUME NEW d \in Client \ {c} PROVE DialogueInv(d)'
  <2>1. SameSelf(d) /\ StaysConnected(d)
    BY <1>1, <1>5 DEF SameSelf, StaysConnected, clientVars
  <2>2. ASSUME NEW v \in Client PROVE NothingNew(d, v)
    <3>1. \A i \in 1 .. Len(dgrams'[v]) :
            HasDatagram(d, v, i)' => HasDatagram(d, v, i + 0) /\ dgrams'[v][i] = dgrams[v][i + 0]
      BY <1>1 DEF HasDatagram
    <3>2. wbuf'[v].from = d => wbuf'[v] = wbuf[v]
      BY <1>5
    <3> QED
      BY <3>1, <3>2 DEF NothingNew
  <2> QED
    BY <2>1, <2>2, UntouchedInv DEF Untouched, Undisturbed
<1>16. DialogueInv(c)'
  BY <1>11, <1>12, <1>13, <1>14 DEF DialogueInv
<1> QED
  BY <1>1, <1>15, <1>16, ClosesOnly DEF Undisturbed, Dialogues

\* A UDP thread reads a datagram, of whatever client.
LEMMA RecvUdpSession ==
  ASSUME TableInv, Undisturbed, NEW w \in Client, RecvUdp(w)
  PROVE  Dialogues'
<1>own. w \notin TcpClient /\ wfile[w] = Serv(w) /\ wfile[w][2] = w
  <2>1. wpc[w] = "recv" /\ wfile[w][1] = "serv"
    BY DEF RecvUdp
  <2> QED
    BY <2>1, OwnFiles, FileNames DEF Undisturbed
<1> DEFINE D == [from : Client, msg : Message]
<1>0. PICK d, c : d = Head(dgrams[w]) /\ c = d.from
  OBVIOUS
<1>1. /\ w \notin TcpClient /\ dgrams[w] # <<>>
      /\ dgrams' = [dgrams EXCEPT ![w] = Tail(@)]
      /\ UNCHANGED <<toSrv, toCli, clientVars>>
  BY <1>own DEF RecvUdp
<1>ends. conn' = conn /\ \A v \in Client : sock'[v] = sock[v] \/ sock'[v] = Closed
  BY CallEnds DEF RecvUdp, Undisturbed
<1>2. \A v \in TcpClient : wpeer'[v] = wpeer[v]
  <2>1. wpeer' = wpeer \/ wpeer' = [wpeer EXCEPT ![w] = Serving(w)]
    BY <1>own DEF RecvUdp
  <2>2. DOMAIN wpeer = Client /\ TcpClient \subseteq Client
    BY DEF TableInv, TypeOK, WorkerTypeOK, Client
  <2> QED
    BY <1>1, <2>1, <2>2
<1>3. dgrams \in [Client -> Seq(D)] /\ DOMAIN wbuf = Client /\ DOMAIN sock = Client
  BY DEF TableInv, TypeOK, NetTypeOK, SocketTypeOK, WorkerTypeOK
<1>4. PortInv'
  BY <1>ends, ClosesOnly DEF Undisturbed
<1>5. \/ wbuf' = wbuf
      \/ wbuf' = [wbuf EXCEPT ![w] = [from |-> c, msg |-> Reply(d.msg)]]
  BY <1>0, <1>own DEF RecvUdp
<1> HIDE DEF D
<1>6. /\ d \in D /\ d = dgrams[w][1] /\ 1 \in 1 .. Len(dgrams[w])
      /\ \A i \in 1 .. Len(dgrams'[w]) :
           /\ i + 1 \in 1 .. Len(dgrams[w]) /\ i + 1 # 1
           /\ dgrams'[w][i] = dgrams[w][i + 1]
      /\ \A v \in Client \ {w} : dgrams'[v] = dgrams[v]
  <2>1. dgrams[w] \in Seq(D) /\ dgrams'[w] = Tail(dgrams[w])
    BY <1>1, <1>3
  <2> QED
    BY <1>0, <1>1, <1>3, <2>1, QueueHead
<1>7. c \in Client
  BY <1>0, <1>6 DEF D
<1>8. \A e : StaysConnected(e)
  BY <1>ends, <1>2 DEF StaysConnected
<1>9. ASSUME NEW e \in Client, NEW v \in Client
      PROVE \E k \in Nat : \A i \in 1 .. Len(dgrams'[v]) :
              HasDatagram(e, v, i)' => HasDatagram(e, v, i + k) /\ dgrams'[v][i] = dgrams[v][i + k]
  <2>1. CASE v = w
    <3>1. \A i \in 1 .. Len(dgrams'[v]) :
            HasDatagram(e, v, i)' => HasDatagram(e, v, i + 1) /\ dgrams'[v][i] = dgrams[v][i + 1]
      BY <1>6, <2>1 DEF HasDatagram
    <3> QED
      BY <3>1
  <2>2. CASE v # w
    <3>1. \A i \in 1 .. Len(dgrams'[v]) :
            HasDatagram(e, v, i)' => HasDatagram(e, v, i + 0) /\ dgrams'[v][i] = dgrams[v][i + 0]
      BY <1>6, <2>2 DEF HasDatagram
    <3> QED
      BY <3>1
  <2> QED
    BY <2>1, <2>2
<1>10. ASSUME NEW e \in Client, \A v \in Client : wbuf'[v].from = e => wbuf'[v] = wbuf[v]
       PROVE  DialogueInv(e)'
  <2>1. SameSelf(e)
    BY <1>1 DEF SameSelf, clientVars
  <2>2. \A v \in Client : NothingNew(e, v)
    BY <1>9, <1>10 DEF NothingNew
  <2> QED
    BY <1>8, <2>1, <2>2, UntouchedInv DEF Untouched, Undisturbed
<1>11. CASE wbuf' = wbuf
  BY <1>4, <1>10, <1>11 DEF Dialogues
<1>12. CASE wbuf' = [wbuf EXCEPT ![w] = [from |-> c, msg |-> Reply(d.msg)]]
  <2>1. /\ wbuf'[w] = [from |-> c, msg |-> Reply(d.msg)]
        /\ \A v \in Client \ {w} : wbuf'[v] = wbuf[v]
    BY <1>3, <1>12
  <2>2. \A e \in Client \ {c} : DialogueInv(e)'
    BY <1>10, <2>1
  <2>3. DialogueInv(c) /\ HasDatagram(c, w, 1)
    BY <1>0, <1>6, <1>7 DEF Undisturbed, HasDatagram
  <2>4. c \notin TcpClient /\ c \in UdpClient /\ toSrv'[c] = <<>>
    BY <1>1, <1>6, <1>7, <2>3 DEF DialogueInv, WireInv, Client
  <2>5. Asks(c) /\ ~Before(c) /\ cpc[c] # "redirected"
    BY <1>6, <2>3 DEF DialogueInv, TurnInv, Asks, Before
  <2>6. WireInv(c)'
    BY <2>4 DEF WireInv
  <2>7. ASSUME AtSession(c)
        PROVE  /\ ~Taken(c) /\ ~Told(c) /\ cpc[c] \notin {"chat", "ask"}
               /\ Len(toSrv[c]) <= 1 /\ Len(toCli[c]) <= 1
               /\ \A v \in Client : \A i : ~HasDatagram(c, v, i)'
    <3>1. /\ ~Taken(c) /\ ~Told(c) /\ cpc[c] \notin {"chat", "ask"}
          /\ Len(toSrv[c]) <= 1 /\ Len(toCli[c]) <= 1
      BY <2>3, <2>5, <2>7 DEF DialogueInv, TurnInv
    <3>2. \A v \in Client : \A i : HasDatagram(c, v, i) => v = w /\ i = 1
      BY <1>6, <2>3, <2>7 DEF DialogueInv, TurnInv, HasDatagram
    <3>3. \A i \in 1 .. Len(dgrams'[w]) : ~HasDatagram(c, w, i)'
      BY <1>6, <3>2 DEF HasDatagram
    <3>4. \A v \in Client : \A i : ~HasDatagram(c, v, i)'
      BY <1>6, <3>2, <3>3 DEF HasDatagram
    <3> QED
      BY <3>1, <3>4
  <2>8. TurnInv(c)'
    <3>1. CASE AtSession(c)
      <4>1. ~Asks(c)' /\ ~Told(c)'
        BY <1>1, <2>4, <2>7, <3>1 DEF Asks, Told
      <4>2. \A u, v \in Client : wbuf'[u].from = c /\ wbuf'[v].from = c => u = v
        BY <2>1, <2>7, <3>1 DEF Taken
      <4> QED
        BY <1>1, <2>5, <2>7, <3>1, <4>1, <4>2 DEF TurnInv, Before, AtSession, clientVars
    <3>2. CASE ~AtSession(c)
      BY <1>1, <2>5, <3>2 DEF TurnInv, Before, AtSession, clientVars
    <3> QED
      BY <3>1, <3>2
  <2>9. ContentInv(c)'
    <3>1. CASE cpc[c] = "reply"
      <4>1. AtSession(c)
        BY <3>1 DEF AtSession
      <4>2. d.msg.message = asked[c]
        BY <1>6, <2>3, <3>1 DEF DialogueInv, ContentInv
      <4>3. \A v \in Client : wbuf'[v].from = c => wbuf'[v].msg.message = Pow3(asked[c])
        BY <2>1, <2>7, <4>1, <4>2, ReplyCubes DEF Taken
      <4> QED
        BY <1>1, <2>3, <2>4, <2>7, <3>1, <4>1, <4>3 DEF DialogueInv, ContentInv, clientVars
    <3>2. CASE cpc[c] # "reply"
      BY <1>1, <2>3, <3>2 DEF DialogueInv, ContentInv, clientVars
    <3> QED
      BY <3>1, <3>2
  <2>10. ConnInv(c)'
    BY <2>4 DEF ConnInv
  <2>11. DialogueInv(c)'
    BY <2>6, <2>8, <2>9, <2>10 DEF DialogueInv
  <2> QED
    BY <1>4, <2>2, <2>11 DEF Dialogues
<1> QED
  BY <1>5, <1>11, <1>12

\* A thread answers the client whose request it has read.
LEMMA SendMeant ==
  ASSUME TableInv, FdInv, NEW w \in Client, Send(w), ~crossed'
  PROVE  SendClient(wbuf[w].from, wbuf[w].msg) \/ UNCHANGED toCli
<1> DEFINE f == SessionFile(w)
<1>1. /\ \/ CanWrite(f) /\ Write(f, wbuf[w].msg)
         \/ CanSendTo(w, f) /\ SendDatagram(f, wbuf[w])
      /\ f \in {Free, Reserved, Meant(w)} /\ wpc[w] = "send"
  BY DEF Send, Crosses
<1> HIDE DEF f
<1>2. CASE CanWrite(f) /\ Write(f, wbuf[w].msg)
  <2>1. f[1] \in {"main", "conn"}
    BY <1>2 DEF CanWrite
  <2>2. f = Meant(w) /\ w \in TcpClient
    BY <1>1, <2>1 DEF Free, Reserved, Meant, Serv
  <2>3. f = Conn(wpeer[w]) /\ wbuf[w].from = wpeer[w]
    BY <1>1, <2>2 DEF FdInv, OwnInv, Meant
  <2> QED
    BY <1>2, <2>3, FileNames DEF Write
<1>3. CASE SendDatagram(f, wbuf[w])
  BY <1>3 DEF SendDatagram
<1> QED
  BY <1>1, <1>2, <1>3

LEMMA SendSessionInv ==
  ASSUME TableInv, Undisturbed, NEW w \in Client, Send(w), ~crossed'
  PROVE  Dialogues'
<1>0. PICK c, m : c = wbuf[w].from /\ m = wbuf[w].msg
  OBVIOUS
<1>1. /\ wbuf' = [wbuf EXCEPT ![w].from = None]
      /\ UNCHANGED <<sock, dgrams, conn, toSrv, clientVars, wpeer>>
      /\ SendClient(c, m) \/ UNCHANGED toCli
  BY <1>0, SendMeant DEF Send, Undisturbed
<1>2. /\ toCli \in [Client -> Seq(Message)] /\ wbuf \in [Client -> Request]
  BY DEF TableInv, TypeOK, NetTypeOK, SocketTypeOK, WorkerTypeOK
<1>3. /\ \A d \in Client : wbuf'[w].from # d
      /\ \A v \in Client \ {w} : wbuf'[v] = wbuf[v]
  <2>1. None \notin Client
    BY ClientAssumption DEF Client
  <2>2. wbuf'[w].from = None /\ \A v \in Client \ {w} : wbuf'[v] = wbuf[v]
    BY <1>1, <1>2, Zenon DEF Request
  <2> QED
    BY <2>1, <2>2
<1>4. \A d : \A v \in Client : \A i : HasDatagram(d, v, i)' <=> HasDatagram(d, v, i)
  BY <1>1 DEF HasDatagram
<1>5. ASSUME NEW d \in Client, toCli'[d] = toCli[d] \/ cpc[d] = "done" PROVE DialogueInv(d)'
  <2>1. SameSelf(d) /\ StaysConnected(d)
    BY <1>1, <1>5 DEF SameSelf, StaysConnected, clientVars
  <2>2. ASSUME NEW v \in Client PROVE NothingNew(d, v)
    <3>1. \A i \in 1 .. Len(dgrams'[v]) :
            HasDatagram(d, v, i)' => HasDatagram(d, v, i + 0) /\ dgrams'[v][i] = dgrams[v][i + 0]
      BY <1>1 DEF HasDatagram
    <3> QED
      BY <1>3, <3>1 DEF NothingNew
  <2> QED
    BY <2>1, <2>2, UntouchedInv DEF Untouched, Undisturbed
<1>6. CASE UNCHANGED toCli
  BY <1>1, <1>5, <1>6, ClosesOnly DEF Undisturbed, Dialogues
<1>7. CASE c \in Client /\ AtSession(c) /\ toCli' = [toCli EXCEPT ![c] = Append(@, m)]
  <2>1. \A d \in Client \ {c} : DialogueInv(d)'
    BY <1>2, <1>5, <1>7
  <2>2. DialogueInv(c) /\ Taken(c)
    BY <1>0, <1>7 DEF Undisturbed, Taken
  <2>3. /\ ~Asks(c) /\ ~Told(c) /\ cpc[c] \notin {"chat", "ask"}
        /\ \A v \in Client \ {w} : wbuf[v].from # c
        /\ ~Before(c) /\ cpc[c] # "redirected"
    BY <1>0, <1>7, <2>2 DEF DialogueInv, TurnInv, Before
  <2>4. toCli'[c] = <<m>>
    <3>1. toCli'[c] = Append(toCli[c], m) /\ toCli[c] = <<>>
      BY <1>2, <1>7, <2>3 DEF Told
    <3>2. Append(<<>>, m) = <<m>>
      OBVIOUS
    <3> QED
      BY <3>1, <3>2
  <2>5. ~Asks(c)' /\ ~Taken(c)'
    <3>1. ~Asks(c)'
      BY <1>1, <1>4, <2>3 DEF Asks
    <3>2. ~Taken(c)'
      BY <1>3, <1>7, <2>3 DEF Taken
    <3> QED
      BY <3>1, <3>2
  <2>6. WireInv(c)'
    BY <1>1, <1>4, <2>2 DEF DialogueInv, WireInv
  <2>7. TurnInv(c)'
    <3>1. Len(toSrv[c])' <= 1 /\ Len(toCli[c])' <= 1
      <4>1. Len(<<m>>) = 1
        OBVIOUS
      <4>2. Len(toSrv[c]) <= 1
        BY <1>7, <2>2 DEF DialogueInv, TurnInv
      <4> QED
        BY <1>1, <2>4, <4>1, <4>2
    <3>2. \A u, v \in Client : wbuf'[u].from = c /\ wbuf'[v].from = c => u = v
      BY <2>5 DEF Taken
    <3>3. \A v \in Client : \A i : ~HasDatagram(c, v, i)'
      BY <1>4, <2>3, NothingAsked
    <3> QED
      BY <1>1, <2>3, <2>5, <3>1, <3>2, <3>3 DEF TurnInv, Before, AtSession, clientVars
  <2>8. ContentInv(c)'
    <3>1. CASE cpc[c] = "reply"
      <4>1. m.message = Pow3(asked[c])
        BY <1>0, <2>2, <3>1 DEF DialogueInv, ContentInv
      <4>2. \A i \in 1 .. Len(toCli'[c]) : toCli'[c][i] = m
        BY <2>4
      <4>3. \A v \in Client : wbuf'[v].from # c
        BY <2>5 DEF Taken
      <4>4. \A v \in Client : \A i : ~HasDatagram(c, v, i)'
        BY <1>4, <2>3, NothingAsked
      <4>5. \A i \in 1 .. Len(toSrv'[c]) : toSrv'[c][i].message = asked[c]
        BY <1>1, <2>2, <3>1 DEF DialogueInv, ContentInv
      <4> QED
        BY <1>1, <3>1, <4>1, <4>2, <4>3, <4>4, <4>5 DEF ContentInv, clientVars
    <3>2. CASE cpc[c] # "reply"
      BY <1>1, <2>2, <3>2 DEF DialogueInv, ContentInv, clientVars
    <3> QED
      BY <3>1, <3>2
  <2>9. ConnInv(c)'
    BY <1>1, <2>2 DEF DialogueInv, ConnInv
  <2>10. DialogueInv(c)'
    BY <2>6, <2>7, <2>8, <2>9 DEF DialogueInv
  <2> QED
    BY <1>1, <2>1, <2>10, ClosesOnly DEF Undisturbed, Dialogues
<1>8. CASE c \notin Client /\ toCli' = [toCli EXCEPT ![c] = Append(@, m)]
  <2>1. toCli' = toCli
    BY <1>2, <1>8
  <2> QED
    BY <1>6, <2>1
<1>9. CASE cpc[c] = "done" /\ toCli' = [toCli EXCEPT ![c] = Append(@, m)]
  BY <1>1, <1>2, <1>5, <1>9, ClosesOnly DEF Undisturbed, Dialogues
<1> QED
  BY <1>1, <1>6, <1>7, <1>8, <1>9 DEF SendClient

\* Every step of a thread, and Ctrl+C.
LEMMA WorkerSession ==
  ASSUME TableInv, Undisturbed, NEW w \in Client, WorkerStep(w), server' = "up", ~crossed'
  PROVE  Dialogues'
<1> USE DEF Dialogues, Undisturbed
<1>0. /\ wpeer \in [Client -> Client \cup {None}] /\ wbuf \in [Client -> Request]
      /\ sock \in [Client -> SocketState]
  BY DEF TableInv, TypeOK, NetTypeOK, SocketTypeOK, WorkerTypeOK
<1>1. CASE RecvStream(w) \/ RecvUdp(w) \/ Send(w)
  BY <1>1, RecvStreamSession, RecvUdpSession, SendSessionInv
<1>2. CASE AcceptFails(w) \/ SendKills(w)
  BY <1>2 DEF AcceptFails, SendKills, Fail
<1>3. CASE CallAccept(w) \/ CallRecv(w) \/ Release(w)
  <2>1. UNCHANGED <<netVars, clientVars, wpeer, wbuf>>
    BY <1>3 DEF CallAccept, CallRecv, Release
  <2> QED
    BY <2>1, QuietInv, ClosesOnly DEF netVars, clientVars, StaysConnected
<1>4. CASE RecvEnd(w)
  <2>1. /\ UNCHANGED <<dgrams, toSrv, toCli, clientVars, wpeer, wbuf>>
        /\ wpc[w] = "recv" /\ CallReturns(w)
    BY <1>4 DEF RecvEnd
  <2>2. conn' = conn /\ \A v \in Client : sock'[v] = sock[v] \/ sock'[v] = Closed
    BY <2>1, CallEnds
  <2> QED
    BY <2>1, <2>2, QuietInv, ClosesOnly DEF clientVars, StaysConnected
<1>5. CASE RecvNothing(w)
  <2>1. wpc[w] = "recv" /\ w \notin TcpClient /\ AtEnd(wfile[w])
    BY <1>5, ClientAssumption DEF RecvNothing
  <2>2. wfile[w] = Serv(w)
    BY <2>1, OwnFiles
  <2> QED
    BY <2>1, <2>2, FileNames DEF AtEnd
<1>6. CASE SendFails(w)
  <2>1. /\ UNCHANGED <<netVars, clientVars, wpeer>>
        /\ wbuf' = [wbuf EXCEPT ![w].from = None]
    BY <1>6 DEF SendFails
  <2>2. \A v \in Client : wbuf'[v] = wbuf[v] \/ wbuf'[v].from = None
    BY <1>0, <2>1, Zenon DEF Request
  <2> QED
    BY <2>1, <2>2, QuietInv, ClosesOnly DEF netVars, clientVars, StaysConnected
<1>7. CASE Accept(w)
  <2>0. wpc[w] = "accept" /\ wfile[w] = Serv(w) /\ wfile[w][2] = w
    BY <1>7, OwnFiles, FileNames DEF Accept
  <2>1. /\ UNCHANGED <<dgrams, toSrv, toCli, clientVars, wbuf>>
        /\ conn' = conn \cup {<<Head(backlog[w]), sock[w].port>>}
        /\ wpeer' = [wpeer EXCEPT ![w] = Head(backlog[w])]
        /\ sock' = sock \/ sock' = [sock EXCEPT ![w] = Closed]
    BY <1>7, <2>0 DEF Accept
  <2>2. /\ \A v \in Client : sock'[v] = sock[v] \/ sock'[v] = Closed
        /\ sock[w].port \in Slot
    BY <1>0, <2>1, SlotFacts DEF SocketState, Closed
  <2>3. \A c \in Client : StaysConnected(c)
    BY <1>0, <2>1, <2>2 DEF StaysConnected
  <2> QED
    BY <2>1, <2>2, <2>3, QuietInv, ClosesOnly DEF clientVars
<1>8. CASE Close(w)
  <2>1. /\ UNCHANGED <<dgrams, toSrv, toCli, clientVars, wbuf>>
        /\ wpeer' = [wpeer EXCEPT ![w] = None]
    BY <1>8 DEF Close
  <2>2. conn' = conn /\ \A v \in Client : sock'[v] = sock[v] \/ sock'[v] = Closed
    BY <1>8, CloseEnds
  <2>3. \A c \in Client : StaysConnected(c)
    BY <1>0, <2>1, <2>2, ClientAssumption DEF StaysConnected, Client
  <2> QED
    BY <2>1, <2>2, <2>3, QuietInv, ClosesOnly DEF clientVars
<1> QED
  BY <1>1, <1>2, <1>3, <1>4, <1>5, <1>6, <1>7, <1>8 DEF WorkerStep

LEMMA InterruptSession ==
  ASSUME TableInv, Undisturbed, Interrupt, server' = "up"
  PROVE  Dialogues'
<1> USE DEF Dialogues, Undisturbed
<1>1. CASE InterruptMain \/ InterruptRunning
  <2>1. UNCHANGED <<netVars, clientVars, workerVars>>
    BY <1>1 DEF InterruptMain, InterruptRunning
  <2> QED
    BY <2>1, QuietInv, ClosesOnly DEF netVars, clientVars, workerVars, StaysConnected
<1>2. ASSUME NEW w \in Client, InterruptRecv(w) PROVE Dialogues'
  <2>1. /\ UNCHANGED <<dgrams, toSrv, toCli, clientVars, wbuf, wpeer>>
        /\ wpc[w] = "recv" /\ CallReturns(w)
    BY <1>2 DEF InterruptRecv
  <2>2. conn' = conn /\ \A v \in Client : sock'[v] = sock[v] \/ sock'[v] = Closed
    BY <2>1, CallEnds
  <2> QED
    BY <2>1, <2>2, QuietInv, ClosesOnly DEF clientVars, StaysConnected
<1>3. ASSUME NEW w \in Client, InterruptAccept(w) PROVE Dialogues'
  BY <1>3 DEF InterruptAccept
<1> QED
  BY <1>1, <1>2, <1>3 DEF Interrupt

(* The clients' steps. *)

\* What a client does changes nothing for the other clients.
LEMMA OthersSession ==
  ASSUME TypeOK, Undisturbed, NEW c \in Client, OnlyItself(c, Client),
         UNCHANGED <<wpeer, wbuf>>, NEW d \in Client \ {c}
  PROVE  DialogueInv(d)'
<1>1. SameSelf(d) /\ StaysConnected(d)
  BY DEF OnlyItself, SameSelf, StaysConnected
<1>2. ASSUME NEW w \in Client PROVE NothingNew(d, w)
  <2> DEFINE D == [from : Client, msg : Message]
  <2>1. dgrams[w] \in Seq(D) /\ MayReach(c, w)
    BY DEF TypeOK, NetTypeOK, SocketTypeOK, OnlyItself
  <2> HIDE DEF D
  <2>2. ASSUME NEW i \in 1 .. Len(dgrams'[w]), HasDatagram(d, w, i)'
        PROVE  HasDatagram(d, w, i + 0) /\ dgrams'[w][i] = dgrams[w][i + 0]
    <3>1. CASE dgrams'[w] = dgrams[w]
      BY <2>2, <3>1 DEF HasDatagram
    <3>2. ASSUME NEW m, dgrams'[w] = Append(dgrams[w], [from |-> c, msg |-> m])
          PROVE  HasDatagram(d, w, i + 0) /\ dgrams'[w][i] = dgrams[w][i + 0]
      <4> DEFINE e == [from |-> c, msg |-> m]
      <4>1. e.from # d
        OBVIOUS
      <4> HIDE DEF e
      <4>2. /\ Len(dgrams'[w]) = Len(dgrams[w]) + 1 /\ Len(dgrams[w]) \in Nat
            /\ dgrams'[w][Len(dgrams[w]) + 1] = e
            /\ \A j \in 1 .. Len(dgrams[w]) : dgrams'[w][j] = dgrams[w][j]
        BY <2>1, <3>2, AppendElements DEF e
      <4>3. dgrams'[w][i].from = d
        BY <2>2 DEF HasDatagram
      <4>4. i # Len(dgrams[w]) + 1
        BY <4>1, <4>2, <4>3
      <4>5. i \in 1 .. Len(dgrams[w]) /\ i + 0 = i
        BY <4>2, <4>4
      <4> QED
        BY <4>2, <4>3, <4>5 DEF HasDatagram
    <3> QED
      BY <2>1, <3>1, <3>2 DEF MayReach
  <2> QED
    BY <2>2 DEF NothingNew
<1> QED
  BY <1>1, <1>2, UntouchedInv DEF Untouched, Undisturbed

\* What has become of a client when its process has ended.
LEMMA EndedSession ==
  ASSUME NEW c \in Client, DialogueInv(c), cpc'[c] = "done", UNCHANGED <<conn, wpeer, wbuf>>,
         WireInv(c)'
  PROVE  DialogueInv(c)'
<1>1. TurnInv(c)' /\ ContentInv(c)'
  BY DEF TurnInv, ContentInv, Before, AtSession
<1>2. ConnInv(c)'
  BY DEF DialogueInv, ConnInv, AtSession, Talking, Taken
<1> QED
  BY <1>1, <1>2 DEF DialogueInv

\* A client that sends nothing has nothing more on its way.
LEMMA SendsNothing ==
  ASSUME NEW c \in Client, UNCHANGED <<dgrams, toSrv, wbuf>>
  PROVE  /\ \A w : \A i : HasDatagram(c, w, i)' <=> HasDatagram(c, w, i)
         /\ Asks(c)' <=> Asks(c)
         /\ Taken(c)' <=> Taken(c)
         /\ WireInv(c) => WireInv(c)'
<1>1. \A w : \A i : HasDatagram(c, w, i)' <=> HasDatagram(c, w, i)
  BY DEF HasDatagram
<1> QED
  BY <1>1 DEF Asks, Taken, WireInv

\* The client has not come to a session yet.
LEMMA BeforeSession ==
  ASSUME NEW c \in Client, DialogueInv(c), Before(c), cpc'[c] \in {"await", "redirected"},
         cpc'[c] = "redirected" => toCli'[c] = <<>>,
         UNCHANGED <<dgrams, conn, toSrv, wpeer, wbuf>>
  PROVE  DialogueInv(c)'
<1>1. WireInv(c)' /\ (Asks(c)' <=> Asks(c)) /\ (Taken(c)' <=> Taken(c))
  BY SendsNothing DEF DialogueInv
<1>2. TurnInv(c)' /\ ContentInv(c)'
  BY <1>1 DEF DialogueInv, TurnInv, ContentInv, Before, AtSession, Told
<1>3. ConnInv(c)'
  BY <1>1 DEF DialogueInv, ConnInv, AtSession, Talking
<1> QED
  BY <1>1, <1>2, <1>3 DEF DialogueInv

\* The client hears from its thread, and its user has the turn.
LEMMA HearsSession ==
  ASSUME TypeOK, NEW c \in Client, DialogueInv(c),
         \/ cpc[c] = "probing" /\ toCli[c] # <<>> /\ cpc'[c] = "chat"
         \/ cpc[c] = "reply" /\ toCli[c] # <<>> /\ cpc'[c] = "ask" /\ cbuf'[c] = Head(toCli[c]),
         toCli'[c] = Tail(toCli[c]), asked'[c] = asked[c],
         UNCHANGED <<dgrams, conn, toSrv, wpeer, wbuf>>
  PROVE  DialogueInv(c)'
<1>1. AtSession(c) /\ Told(c) /\ AtSession(c)' /\ Talking(c)'
  BY DEF AtSession, Told, Talking
<1>2. toCli[c] \in Seq(Message)
  BY DEF TypeOK, NetTypeOK, SocketTypeOK
<1>3. /\ ~Asks(c) /\ ~Taken(c) /\ Len(toCli[c]) <= 1 /\ toSrv[c] = <<>>
      /\ \A w \in Client : \A i : ~HasDatagram(c, w, i)
  BY <1>1, NothingAsked DEF DialogueInv, TurnInv
<1>4. toCli'[c] = <<>> /\ Head(toCli[c]) = toCli[c][1] /\ 1 \in 1 .. Len(toCli[c])
  BY <1>1, <1>2, <1>3, LastOne, QueueHead DEF Told
<1>5. /\ WireInv(c)' /\ ~Asks(c)' /\ ~Taken(c)' /\ ~Told(c)'
      /\ \A w \in Client : \A i : ~HasDatagram(c, w, i)'
  BY <1>3, <1>4, SendsNothing DEF DialogueInv, Told
<1>6. TurnInv(c)'
  <2>1. Len(toSrv[c])' <= 1 /\ Len(toCli[c])' <= 1
    <3>1. Len(<<>>) <= 1
      OBVIOUS
    <3>2. toSrv[c]' = <<>> /\ toCli[c]' = <<>>
      BY <1>3, <1>4
    <3> QED
      BY <3>1, <3>2, Zenon
  <2>2. \A v \in Client : wbuf'[v].from # c
    BY <1>5 DEF Taken
  <2> QED
    BY <1>5, <2>1, <2>2 DEF TurnInv, Before
<1>7. ContentInv(c)'
  BY <1>4 DEF DialogueInv, ContentInv
<1>8. ConnInv(c)'
  BY <1>1 DEF DialogueInv, ConnInv
<1> QED
  BY <1>5, <1>6, <1>7, <1>8 DEF DialogueInv

\* The client sends a request and waits.
LEMMA AsksSession ==
  ASSUME TypeOK, PortInv, server = "up", NEW c \in Client, NEW m \in Message, NEW p,
         DialogueInv(c), Deliver(c, m, p), ~Asks(c), ~Taken(c), toCli'[c] = <<>>,
         \/ cpc'[c] = "probing"
         \/ cpc'[c] = "reply" /\ m.message = asked'[c] /\ Talking(c),
         UNCHANGED <<conn, wpeer, wbuf>>
  PROVE  DialogueInv(c)'
<1>1. AtSession(c)' /\ ~Before(c)' /\ ~Told(c)' /\ ~Taken(c)' /\ cpc'[c] \in {"probing", "reply"}
  BY DEF AtSession, Before, Told, Taken
<1>2. SocketTypeOK(Client) /\ sock \in [Client -> SocketState]
  BY DEF TypeOK, NetTypeOK, SocketTypeOK
<1>3. /\ toSrv'[c] = IF c \in TcpClient THEN <<m>> ELSE <<>>
      /\ \A w \in Client : \A i : HasDatagram(c, w, i)' =>
           /\ c \notin TcpClient /\ sock[w] = Bound("udp", p)
           /\ i = Len(dgrams[w]) + 1 /\ dgrams'[w][i].msg = m
  <2>1. toSrv[c] = <<>> /\ \A w \in Client : \A i \in 1 .. Len(dgrams[w]) : dgrams[w][i].from # c
    BY DEF Asks, HasDatagram
  <2> QED
    BY <1>2, <2>1, DeliverFirst DEF HasDatagram
<1>4. WireInv(c)'
  BY <1>3, ClientAssumption DEF WireInv
<1>5. TurnInv(c)'
  <2>1. Len(toSrv'[c]) <= 1 /\ Len(toCli'[c]) <= 1
    <3>1. Len(<<m>>) = 1
      OBVIOUS
    <3> QED
      BY <1>3, <3>1
  <2>2. ASSUME NEW v \in Client, NEW w \in Client, NEW i, NEW j,
               HasDatagram(c, v, i)', HasDatagram(c, w, j)'
        PROVE  v = w /\ i = j
    <3>1. sock[v] = Bound("udp", p) /\ sock[w] = Bound("udp", p) /\ Bound("udp", p) # Closed
      BY <1>3, <2>2 DEF Bound, Closed
    <3>2. v = w
      BY <3>1 DEF PortInv
    <3> QED
      BY <1>3, <2>2, <3>2
  <2>3. \A v \in Client : wbuf'[v].from # c
    BY DEF Taken
  <2> QED
    BY <1>1, <2>1, <2>2, <2>3 DEF TurnInv, Before
<1>6. ContentInv(c)'
  <2>1. CASE cpc'[c] = "reply"
    <3>1. \A i \in 1 .. Len(toSrv'[c]) : toSrv'[c][i] = m
      BY <1>3
    <3>2. \A w \in Client : wbuf'[w].from # c
      BY DEF Taken
    <3> QED
      BY <1>3, <2>1, <3>1, <3>2 DEF ContentInv
  <2>2. CASE cpc'[c] # "reply"
    BY <1>1, <2>2 DEF ContentInv
  <2> QED
    BY <2>1, <2>2
<1>7. ConnInv(c)'
  BY <1>1 DEF DialogueInv, ConnInv, Talking
<1> QED
  BY <1>4, <1>5, <1>6, <1>7 DEF DialogueInv

\* A step of a client keeps its own part of the invariant.
LEMMA OwnSession ==
  ASSUME TypeOK, Undisturbed, server = "up", NEW c \in Client,
         ClientStep(c) \/ UserStep(c), OnlyItself(c, Client), UNCHANGED <<wpeer, wbuf>>
  PROVE  DialogueInv(c)'
<1>0. /\ DOMAIN cpc = Client /\ DOMAIN cbuf = Client
      /\ DOMAIN asked = Client /\ DOMAIN toCli = Client
  BY DEF ClientTypeOK, TypeOK, NetTypeOK, SocketTypeOK
<1>1. DialogueInv(c) /\ PortInv /\ UNCHANGED <<conn, wpeer, wbuf>>
  BY DEF Undisturbed, OnlyItself
<1>2. ASSUME Ends(c), UNCHANGED <<dgrams, toSrv>> PROVE DialogueInv(c)'
  <2>1. cpc'[c] = "done"
    BY <1>0, <1>2 DEF Ends
  <2> QED
    BY <1>1, <1>2, <2>1, SendsNothing, EndedSession DEF DialogueInv
<1>3. ASSUME NEW m, Follow(c, m), cpc[c] = "await", UNCHANGED <<dgrams, toSrv>>
      PROVE  DialogueInv(c)'
  <2>1. CASE m.sign = LIMIT
    BY <1>2, <1>3, <2>1 DEF Follow
  <2>2. CASE m.sign # LIMIT
    <3>1. cpc'[c] = "redirected" /\ toCli'[c] = <<>>
      BY <1>0, <1>3, <2>2 DEF Follow
    <3> QED
      BY <1>1, <1>3, <3>1, BeforeSession DEF Before
  <2> QED
    BY <2>1, <2>2
<1>4. CASE RecvRedirect(c) \/ RecvRedirectFails(c)
  <2>1. (\E m : Follow(c, m)) /\ cpc[c] = "await" /\ UNCHANGED <<dgrams, toSrv>>
    BY <1>4 DEF RecvRedirect, RecvRedirectFails
  <2> QED
    BY <1>3, <2>1
<1>5. CASE StartTcp(c) \/ StartUdp(c)
  <2>1. cpc[c] = "start" /\ cpc'[c] = "await" /\ UNCHANGED <<dgrams, toSrv>>
    BY <1>0, <1>5 DEF StartTcp, StartUdp
  <2> QED
    BY <1>1, <2>1, BeforeSession DEF Before
<1>6. CASE ConnectSessionTcp(c) \/ ConnectSessionUdp(c)
  <2>1. PICK m \in Message : m = FirstProbe(cbuf[c])
    BY FirstProbeType DEF ClientTypeOK, TypeOK
  <2>2. /\ Deliver(c, m, cbuf[c].message) /\ cpc'[c] = "probing"
        /\ toCli' = toCli /\ cpc[c] = "redirected"
    BY <1>0, <1>6, <2>1 DEF ConnectSessionTcp, ConnectSessionUdp, SendSession
  <2>3. toCli'[c] = <<>> /\ ~Asks(c) /\ ~Taken(c)
    BY <1>1, <2>2 DEF DialogueInv, TurnInv, Told, Before
  <2> QED
    BY <1>1, <2>2, <2>3, AsksSession
<1>7. CASE RecvOtherAck(c)
  <2>1. toCli[c] \in Seq(Message) /\ toCli[c] # <<>>
    BY <1>7 DEF RecvOtherAck, TypeOK, NetTypeOK, SocketTypeOK
  <2>2. PICK m \in Message : m = FirstProbe(Head(toCli[c]))
    BY <2>1, QueueHead, FirstProbeType
  <2>3. /\ Deliver(c, m, cport[c]) /\ cpc'[c] = "probing" /\ cpc[c] = "probing"
        /\ toCli'[c] = Tail(toCli[c])
    BY <1>0, <1>7, <2>2 DEF RecvOtherAck, SendSession
  <2>4. AtSession(c) /\ Told(c)
    BY <2>1, <2>3 DEF AtSession, Told
  <2>5. toCli'[c] = <<>> /\ ~Asks(c) /\ ~Taken(c)
    BY <1>1, <2>1, <2>3, <2>4, LastOne DEF DialogueInv, TurnInv
  <2> QED
    BY <1>1, <2>3, <2>5, AsksSession
<1>8. CASE Ask(c)
  <2>1. cpc[c] = "chat" /\ Talking(c) /\ AtSession(c)
    BY <1>8 DEF Ask, Talking, AtSession
  <2>2. PICK n \in Data :
          /\ asked' = [asked EXCEPT ![c] = n]
          /\ Deliver(c, Msg(cbuf[c].sign, n), cport[c])
    BY <1>8 DEF Ask, SendSession
  <2>3. PICK m \in Message : m = Msg(cbuf[c].sign, n)
    BY DataAssumption DEF ClientTypeOK, TypeOK, Msg, Message
  <2>4. /\ Deliver(c, m, cport[c]) /\ cpc'[c] = "reply"
        /\ m.message = asked'[c] /\ toCli' = toCli
    BY <1>0, <1>8, <2>2, <2>3 DEF Ask, Msg
  <2>5. toCli'[c] = <<>> /\ ~Asks(c) /\ ~Taken(c)
    BY <1>1, <2>1, <2>4 DEF DialogueInv, TurnInv, Told
  <2> QED
    BY <1>1, <2>1, <2>4, <2>5, AsksSession
<1>9. CASE Quit(c)
  <2>0. Msg(QUIT, cbuf[c].message) \in Message
    <3>1. cbuf[c].message \in Int
      BY DEF ClientTypeOK, TypeOK, Message
    <3> QED
      BY <3>1 DEF Msg, Message, QUIT
  <2>1. PICK m \in Message : m = Msg(QUIT, cbuf[c].message)
    BY <2>0
  <2>2. Deliver(c, m, cport[c]) /\ cpc'[c] = "done" /\ cpc[c] = "ask"
    BY <1>0, <1>9, <2>1 DEF Quit, Ends
  <2>3. ~Asks(c)
    BY <1>1, <2>2 DEF DialogueInv, TurnInv, AtSession
  <2>4. /\ toSrv'[c] = IF c \in TcpClient THEN <<m>> ELSE <<>>
        /\ \A w \in Client : \A i : HasDatagram(c, w, i)' => c \notin TcpClient
    <3>1. toSrv[c] = <<>> /\ \A w \in Client : \A i \in 1 .. Len(dgrams[w]) : dgrams[w][i].from # c
      BY <2>3 DEF Asks, HasDatagram
    <3> QED
      BY <2>2, <3>1, DeliverFirst DEF HasDatagram, TypeOK, NetTypeOK
  <2>5. WireInv(c)'
    BY <2>4, ClientAssumption DEF WireInv
  <2> QED
    BY <1>1, <2>2, <2>5, EndedSession
<1>10. CASE \/ ConnectSessionRefused(c) \/ ProbeGivesUp(c) \/ AnswerFails(c)
            \/ AskBroken(c) \/ Kill(c)
  <2>1. Ends(c) /\ UNCHANGED <<dgrams, toSrv>>
    BY <1>10 DEF ConnectSessionRefused, ProbeGivesUp, AnswerFails, AskBroken, Kill
  <2> QED
    BY <1>2, <2>1
<1>11. CASE RecvProbeAck(c) \/ RecvAnswer(c)
  <2>1. /\ \/ cpc[c] = "probing" /\ toCli[c] # <<>> /\ cpc'[c] = "chat"
           \/ cpc[c] = "reply" /\ toCli[c] # <<>> /\ cpc'[c] = "ask" /\ cbuf'[c] = Head(toCli[c])
        /\ toCli'[c] = Tail(toCli[c])
        /\ UNCHANGED <<dgrams, toSrv, asked>>
    BY <1>0, <1>11 DEF RecvProbeAck, RecvAnswer
  <2> QED
    BY <1>1, <2>1, HearsSession
<1>12. CASE RecvEofAsAnswer(c)
  <2>1. c \in TcpClient /\ ~SessionUp(c) /\ Talking(c)
    BY <1>12 DEF RecvEofAsAnswer, AtEof, Talking
  <2>2. \E p \in Slot : <<c, p>> \in conn
    BY <1>1, <2>1 DEF DialogueInv, ConnInv
  <2> QED
    BY <2>1, <2>2 DEF SessionUp
<1>13. CASE ProbeTimesOut(c)
  <2>1. UNCHANGED <<netVars, cpc, cbuf, asked>>
    BY <1>13 DEF ProbeTimesOut
  <2>2. \A d \in Client : StaysConnected(d)
    BY <1>1, <2>1 DEF StaysConnected, netVars
  <2> QED
    BY <1>1, <2>1, <2>2, QuietInv DEF netVars, Undisturbed
<1>14. CASE Again(c)
  <2>1. /\ UNCHANGED <<dgrams, toSrv, toCli, asked>>
        /\ cpc[c] = "ask" /\ cpc'[c] = "chat"
    BY <1>0, <1>14 DEF Again, netVars
  <2>2. WireInv(c)' /\ TurnInv(c)'
    BY <1>1, <2>1, SendsNothing DEF DialogueInv, TurnInv, Before, AtSession, Told
  <2>3. ContentInv(c)'
    BY <2>1 DEF ContentInv
  <2>4. ConnInv(c)'
    BY <1>1, <2>1 DEF DialogueInv, ConnInv, Talking, AtSession, Told
  <2> QED
    BY <2>2, <2>3, <2>4 DEF DialogueInv
<1> QED
  BY <1>4, <1>5, <1>6, <1>7, <1>8, <1>9, <1>10, <1>11, <1>12, <1>13, <1>14
     DEF ClientStep, UserStep

LEMMA ClientSession ==
  ASSUME TypeOK, Undisturbed, server = "up", NEW c \in Client,
         ClientStep(c) \/ UserStep(c), ClientKeeps
  PROVE  Dialogues'
<1>1. sock' = sock /\ UNCHANGED <<wpeer, wbuf>>
  BY ClientFrame DEF TypeOK, NetTypeOK, ClientKeeps, workerVars
<1>2. OnlyItself(c, Client)
  BY ClientAlone DEF TypeOK, NetTypeOK
<1>3. DialogueInv(c)'
  BY <1>1, <1>2, OwnSession
<1>4. \A d \in Client \ {c} : DialogueInv(d)'
  BY <1>1, <1>2, OthersSession
<1> QED
  BY <1>1, <1>3, <1>4, ClosesOnly DEF Undisturbed, Dialogues

\* A client's first connection is closed only when a descriptor is crossed.
LEMMA RedirectNotLost ==
  ASSUME Undisturbed, NEW c \in Client
  PROVE  ~RedirectLost(c)
  BY DEF RedirectLost, Undisturbed, FdInv, AwaitInv


-----------------------------------------------------------------------------
(* The redirects. *)

\* A queue, a set of datagrams without a redirect.
Clean(q) == \A i \in 1 .. Len(q) : q[i].sign # REDIRECT
CleanData(q) == \A i \in 1 .. Len(q) : q[i].msg.sign # REDIRECT

LEMMA ReplyClean == \A m : m.sign # REDIRECT => Reply(m).sign # REDIRECT
  BY DEF Reply, Msg, REDIRECT, QUIT, QUIT_ACK, PROBE, PROBE_ACK

LEMMA ProbeClean == \A m : FirstProbe(m).sign # REDIRECT
  BY DEF FirstProbe, Msg, REDIRECT, PROBE

LEMMA CleanTail ==
  ASSUME NEW S, NEW q \in Seq(S), q # <<>>
  PROVE  /\ Clean(q) => Clean(Tail(q)) /\ Head(q).sign # REDIRECT
         /\ CleanData(q) => CleanData(Tail(q)) /\ Head(q).msg.sign # REDIRECT
<1>1. /\ Head(q) = q[1] /\ 1 \in 1 .. Len(q)
      /\ \A i \in 1 .. Len(Tail(q)) : i + 1 \in 1 .. Len(q) /\ Tail(q)[i] = q[i + 1]
  BY QueueHead
<1> QED
  BY <1>1 DEF Clean, CleanData

LEMMA CleanAppend ==
  ASSUME NEW S, NEW q \in Seq(S), NEW e
  PROVE  /\ Clean(q) /\ e.sign # REDIRECT => Clean(Append(q, e))
         /\ CleanData(q) /\ e.msg.sign # REDIRECT => CleanData(Append(q, e))
<1>1. /\ Len(Append(q, e)) = Len(q) + 1 /\ Len(q) \in Nat
      /\ Append(q, e)[Len(q) + 1] = e
      /\ \A i \in 1 .. Len(q) : Append(q, e)[i] = q[i]
  BY AppendElements
<1>2. \A i \in 1 .. Len(Append(q, e)) : i = Len(q) + 1 \/ i \in 1 .. Len(q)
  BY <1>1
<1> HIDE DEF Clean
<1>3. ASSUME Clean(q), e.sign # REDIRECT PROVE Clean(Append(q, e))
  BY <1>1, <1>2, <1>3 DEF Clean
<1>4. ASSUME CleanData(q), e.msg.sign # REDIRECT PROVE CleanData(Append(q, e))
  BY <1>1, <1>2, <1>4 DEF CleanData
<1> QED
  BY <1>3, <1>4

\* The redirects of client c: in its queue, and the one it follows.
Announced(c) ==
  /\ \A i \in 1 .. Len(toCli[c]) : toCli[c][i].sign = REDIRECT =>
       AtMain(c) /\ wpc[c] # "none" /\ toCli[c][i].message = wslot[c]
  /\ cbuf[c].sign = REDIRECT =>
       /\ cpc[c] = "redirected"
       /\ c \notin Slow /\ server = "up" => wpc[c] # "none" /\ cbuf[c].message = wslot[c]

\* What else there is, which never holds a redirect.
Unmarked(c) == Clean(toSrv[c]) /\ CleanData(dgrams[c]) /\ wbuf[c].msg.sign # REDIRECT

Admitted == mpc = "reply" => \A c \in Client : cur = c => wpc[c] # "none"

\* Where the redirects are while no descriptor is crossed.
Redirects == \A c \in Client : RedirectInv(c)

LEMMA RedirectParts ==
  Redirects <=> (\A c \in Client : Announced(c) /\ Unmarked(c)) /\ Admitted
  BY DEF Redirects, RedirectInv, Announced, Unmarked, Admitted, Clean, CleanData

LEMMA RedirectPartsNext ==
  ASSUME \A c \in Client : Announced(c)' /\ Unmarked(c)', Admitted'
  PROVE  Redirects'
  BY DEF Redirects, RedirectInv, Announced, Unmarked, Admitted, Clean, CleanData

\* A client keeps the entry it was given.
KeepsEntry(c) == /\ wpc[c] # "none" => wpc'[c] # "none" /\ wslot'[c] = wslot[c]
                 /\ server' = "up" => server = "up"

LEMMA AnnouncedFrame ==
  ASSUME NEW c, Announced(c), KeepsEntry(c), cpc'[c] = cpc[c], cbuf'[c] = cbuf[c],
         toCli'[c] = toCli[c]
  PROVE  Announced(c)'
  BY DEF Announced, KeepsEntry, AtMain

\* A message that is no redirect changes nothing either.
LEMMA AnnouncedAppend ==
  ASSUME NEW c \in Client, Announced(c), KeepsEntry(c), cpc'[c] = cpc[c], cbuf'[c] = cbuf[c],
         toCli[c] \in Seq(Message), NEW m, toCli'[c] = Append(toCli[c], m),
         m.sign = REDIRECT => AtMain(c) /\ wpc'[c] # "none" /\ m.message = wslot'[c]
  PROVE  Announced(c)'
<1>1. /\ Len(toCli'[c]) = Len(toCli[c]) + 1 /\ Len(toCli[c]) \in Nat
      /\ toCli'[c][Len(toCli[c]) + 1] = m
      /\ \A i \in 1 .. Len(toCli[c]) : toCli'[c][i] = toCli[c][i]
  BY AppendElements
<1>2. \A i \in 1 .. Len(toCli'[c]) : i = Len(toCli[c]) + 1 \/ i \in 1 .. Len(toCli[c])
  BY <1>1
<1> QED
  BY <1>1, <1>2 DEF Announced, KeepsEntry, AtMain

LEMMA UnmarkedFrame ==
  ASSUME NEW c, Unmarked(c), UNCHANGED <<toSrv, dgrams, wbuf>>
  PROVE  Unmarked(c)'
  BY DEF Unmarked, Clean, CleanData

LEMMA MainRedirect ==
  ASSUME TableInv, Undisturbed, Redirects, MainStep, ~crossed'
  PROVE  Redirects'
<1>0. /\ toCli \in [Client -> Seq(Message)] /\ wpc \in [Client -> WorkerPc]
      /\ wslot \in [Client -> Slot]
  BY DEF TableInv, TypeOK, NetTypeOK, SocketTypeOK, WorkerTypeOK
<1>1. UNCHANGED <<toSrv, dgrams, wbuf, cpc, cbuf>> /\ (server' = "up" => server = "up")
  <2>1. CASE MainLoop \/ Select \/ Check \/ Take \/ Admit \/ Join \/ Return
    BY <2>1 DEF MainLoop, Select, Check, Take, Admit, Join, Return, netVars, clientVars, workerVars
  <2>2. CASE TakeFails \/ AdmitFails \/ ReplyFails
    BY <2>2 DEF TakeFails, AdmitFails, ReplyFails, Fail, clientVars, workerVars
  <2>3. CASE SendRedirect \/ Refuse
    BY <2>3 DEF SendRedirect, Refuse, Answer, clientVars, workerVars
  <2> QED
    BY <2>1, <2>2, <2>3 DEF MainStep
<1>2. \A c \in Client : Announced(c) /\ Unmarked(c)
  BY RedirectParts
<1>3. Admitted
  BY RedirectParts
<1>4. \A c \in Client : Unmarked(c)'
  BY <1>1, <1>2, UnmarkedFrame
<1>5. ASSUME UNCHANGED <<wpc, wslot>> PROVE \A c \in Client : KeepsEntry(c)
  BY <1>1, <1>5 DEF KeepsEntry
<1>6. CASE \/ MainLoop \/ Select \/ Check \/ Take \/ TakeFails \/ AdmitFails \/ ReplyFails
           \/ Join \/ Return
  <2>1. UNCHANGED <<wpc, wslot, toCli>> /\ (mpc' = "reply" => mpc = "reply" /\ cur' = cur)
    <3>1. CASE MainLoop \/ Select \/ Check \/ Take \/ Join \/ Return
      BY <3>1 DEF MainLoop, Select, Check, Take, Join, Return, netVars, mainVars, workerVars
    <3>2. CASE TakeFails \/ AdmitFails \/ ReplyFails
      BY <3>2 DEF TakeFails, AdmitFails, ReplyFails, Fail, mainVars, workerVars
    <3> QED
      BY <1>6, <3>1, <3>2
  <2>2. \A c \in Client : Announced(c)'
    BY <1>1, <1>2, <1>5, <2>1, AnnouncedFrame
  <2>3. Admitted'
    BY <1>3, <2>1 DEF Admitted
  <2> QED
    BY <1>4, <2>2, <2>3, RedirectPartsNext
<1>7. CASE Admit
  <2>1. PICK c \in Client : c = cur /\ wpc[c] = "none"
    BY <1>7 DEF Admit, TableInv, MainInv, Serves
  <2>2. /\ wpc' = [wpc EXCEPT ![c] = IF Now = "tcp" THEN "start" ELSE "loop"]
        /\ \E s \in Slot : wslot' = [wslot EXCEPT ![c] = s]
        /\ cur' = c /\ toCli' = toCli
    BY <1>7, <2>1 DEF Admit
  <2>3. \A d \in Client : KeepsEntry(d)
    BY <1>0, <1>1, <2>1, <2>2 DEF KeepsEntry
  <2>4. \A d \in Client : Announced(d)'
    BY <1>1, <1>2, <2>2, <2>3, AnnouncedFrame
  <2>5. Admitted'
    BY <1>0, <2>2 DEF Admitted
  <2> QED
    BY <1>4, <2>4, <2>5, RedirectPartsNext
<1>8. ASSUME NEW m, Answer(m), mpc \in Serves,
             m.sign = REDIRECT => wpc[cur] # "none" /\ m.message = wslot[cur]
      PROVE  Redirects'
  <2>1. /\ UNCHANGED <<wpc, wslot>> /\ mpc' \in {"loop", "check"}
        /\ AnswerFile = MainConn(cur) /\ Write(AnswerFile, m)
    BY <1>8 DEF Answer, NextBranch, workerVars
  <2>2. PICK c \in Client : c = cur
    BY <1>8 DEF TableInv, MainInv
  <2>3. SendMain(c, m)
    BY <2>1, <2>2, FileNames DEF Write
  <2>4. \A d \in Client : \/ toCli'[d] = toCli[d]
                          \/ d = c /\ AtMain(d) /\ toCli'[d] = Append(toCli[d], m)
    BY <1>0, <2>3 DEF SendMain
  <2>5. ASSUME NEW d \in Client PROVE Announced(d)'
    <3>1. CASE toCli'[d] = toCli[d]
      BY <1>1, <1>2, <1>5, <2>1, <3>1, AnnouncedFrame
    <3>2. CASE d = c /\ AtMain(d) /\ toCli'[d] = Append(toCli[d], m)
      <4>1. m.sign = REDIRECT => AtMain(d) /\ wpc'[d] # "none" /\ m.message = wslot'[d]
        BY <1>8, <2>1, <2>2, <3>2
      <4> QED
        BY <1>0, <1>1, <1>2, <1>5, <2>1, <3>2, <4>1, AnnouncedAppend
    <3> QED
      BY <2>4, <3>1, <3>2
  <2>6. Admitted'
    BY <2>1 DEF Admitted
  <2> QED
    BY <1>4, <2>5, <2>6, RedirectPartsNext
<1>9. CASE SendRedirect
  <2>1. mpc = "reply" /\ Answer(Msg(REDIRECT, wslot[cur]))
    BY <1>9 DEF SendRedirect
  <2>2. wpc[cur] # "none"
    BY <1>3, <2>1 DEF Admitted, TableInv, MainInv, Serves
  <2>3. Msg(REDIRECT, wslot[cur]).message = wslot[cur]
    BY DEF Msg
  <2> QED
    BY <1>8, <2>1, <2>2, <2>3 DEF Serves
<1>10. CASE Refuse
  <2>1. NoRoom.sign # REDIRECT
    BY DEF NoRoom, Msg, LIMIT, REDIRECT
  <2> QED
    BY <1>8, <1>10, <2>1 DEF Refuse, Serves
<1> QED
  BY <1>6, <1>7, <1>9, <1>10 DEF MainStep

\* A thread never goes back to where it was not created.
LEMMA WorkerMoves ==
  ASSUME TypeOK, NEW w \in Client, WorkerStep(w)
  PROVE  /\ UNCHANGED <<cpc, cbuf, wslot, mpc, cur>>
         /\ \A c \in Client : KeepsEntry(c)
<1>0. wpc \in [Client -> WorkerPc]
  BY DEF TypeOK, WorkerTypeOK
<1>1. /\ UNCHANGED <<cpc, cbuf, wslot, mpc, cur>> /\ (server' = "up" => server = "up")
      /\ wpc' = wpc \/ \E pc \in WorkerPc \ {"none"} : wpc' = [wpc EXCEPT ![w] = pc]
  <2>1. CASE CallAccept(w) \/ Accept(w) \/ CallRecv(w)
    BY <2>1 DEF CallAccept, Accept, CallRecv, Goto, WorkerPc, clientVars, mainVars, netVars
  <2>2. CASE AcceptFails(w) \/ SendKills(w)
    BY <2>2 DEF AcceptFails, SendKills, Fail, clientVars, mainVars, workerVars
  <2>3. CASE RecvStream(w) \/ RecvEnd(w) \/ RecvNothing(w) \/ RecvUdp(w)
    BY <2>3 DEF RecvStream, RecvEnd, RecvNothing, RecvUdp, Goto, WorkerPc, clientVars, mainVars
  <2>4. CASE Send(w) \/ SendFails(w)
    BY <2>4 DEF Send, SendFails, Goto, WorkerPc, clientVars, mainVars, netVars
  <2>5. CASE Release(w) \/ Close(w)
    BY <2>5 DEF Release, Close, Goto, WorkerPc, clientVars, mainVars, netVars
  <2> QED
    BY <2>1, <2>2, <2>3, <2>4, <2>5 DEF WorkerStep
<1> QED
  BY <1>0, <1>1 DEF KeepsEntry

LEMMA WorkerRedirect ==
  ASSUME TableInv, Undisturbed, Redirects, NEW w \in Client, WorkerStep(w), ~crossed'
  PROVE  Redirects'
<1>0. /\ toCli \in [Client -> Seq(Message)] /\ wpc \in [Client -> WorkerPc]
      /\ toSrv \in [Client -> Seq(Message)] /\ wbuf \in [Client -> Request]
      /\ dgrams \in [Client -> Seq([from : Client, msg : Message])]
  BY DEF TableInv, TypeOK, NetTypeOK, SocketTypeOK, WorkerTypeOK
<1>1. UNCHANGED <<cpc, cbuf, wslot, mpc, cur>>
  BY WorkerMoves DEF TableInv
<1>2. \A c \in Client : KeepsEntry(c)
  BY WorkerMoves DEF TableInv
<1>3. (\A c \in Client : Announced(c) /\ Unmarked(c)) /\ Admitted
  BY RedirectParts
<1>4. Admitted'
  BY <1>1, <1>2, <1>3 DEF Admitted, KeepsEntry
<1>5. ASSUME toCli' = toCli PROVE \A c \in Client : Announced(c)'
  BY <1>1, <1>2, <1>3, <1>5, AnnouncedFrame
<1>6. CASE \/ CallAccept(w) \/ AcceptFails(w) \/ Accept(w) \/ CallRecv(w) \/ RecvEnd(w)
           \/ SendKills(w) \/ Release(w) \/ Close(w)
  <2>1. UNCHANGED <<toSrv, dgrams, wbuf, toCli>>
    <3>1. CASE CallAccept(w) \/ Accept(w) \/ CallRecv(w) \/ RecvEnd(w)
      BY <3>1 DEF CallAccept, Accept, CallRecv, RecvEnd, netVars
    <3>2. CASE AcceptFails(w) \/ SendKills(w) \/ Release(w) \/ Close(w)
      BY <3>2 DEF AcceptFails, SendKills, Release, Close, Fail, netVars, workerVars
    <3> QED
      BY <1>6, <3>1, <3>2
  <2> QED
    BY <1>3, <1>4, <1>5, <2>1, UnmarkedFrame, RedirectPartsNext
<1>7. CASE RecvStream(w)
  <2>1. wpc[w] = "recv" /\ wfile[w][1] = "conn"
    BY <1>7 DEF RecvStream
  <2>2. w \in TcpClient /\ wpeer[w] \in Client /\ wfile[w][2] = wpeer[w]
    BY <2>1, OwnFiles, FileNames DEF Undisturbed
  <2>3. PICK c \in Client : c = wpeer[w]
    BY <2>2
  <2>4. /\ toSrv[c] # <<>> /\ toSrv' = [toSrv EXCEPT ![c] = Tail(@)]
        /\ wbuf' = [wbuf EXCEPT ![w] = [from |-> c, msg |-> Reply(Head(toSrv[c]))]]
        /\ UNCHANGED <<dgrams, toCli>>
    BY <1>7, <2>2, <2>3 DEF RecvStream
  <2>5. Clean(Tail(toSrv[c])) /\ Head(toSrv[c]).sign # REDIRECT
    BY <1>0, <1>3, <2>4, CleanTail DEF Unmarked
  <2>6. \A d \in Client : Clean(toSrv'[d])
    BY <1>0, <1>3, <2>4, <2>5 DEF Unmarked
  <2>7. \A d \in Client : wbuf'[d].msg.sign # REDIRECT
    BY <1>0, <1>3, <2>4, <2>5, ReplyClean DEF Unmarked
  <2>8. \A d \in Client : Unmarked(d)'
    BY <1>3, <2>4, <2>6, <2>7 DEF Unmarked, Clean, CleanData
  <2> QED
    BY <1>4, <1>5, <2>4, <2>8, RedirectPartsNext
<1>8. CASE RecvNothing(w)
  <2>1. wpc[w] = "recv" /\ w \notin TcpClient /\ AtEnd(wfile[w])
    BY <1>8, ClientAssumption DEF RecvNothing
  <2>2. wfile[w] = Serv(w)
    BY <2>1, OwnFiles DEF Undisturbed
  <2> QED
    BY <2>1, <2>2, FileNames DEF AtEnd
<1>9. CASE RecvUdp(w)
  <2>0. wfile[w][2] = w
    <3>1. wpc[w] = "recv" /\ wfile[w][1] = "serv"
      BY <1>9 DEF RecvUdp
    <3> QED
      BY <3>1, OwnFiles, FileNames DEF Undisturbed
  <2>1. /\ dgrams[w] # <<>> /\ dgrams' = [dgrams EXCEPT ![w] = Tail(@)]
        /\ \/ wbuf' = wbuf
           \/ wbuf' = [wbuf EXCEPT ![w] = [from |-> Head(dgrams[w]).from,
                                           msg |-> Reply(Head(dgrams[w]).msg)]]
        /\ UNCHANGED <<toSrv, toCli>>
    BY <1>9, <2>0 DEF RecvUdp
  <2> DEFINE D == [from : Client, msg : Message]
  <2>2. dgrams \in [Client -> Seq(D)]
    BY <1>0
  <2> HIDE DEF D
  <2>3. CleanData(Tail(dgrams[w])) /\ Head(dgrams[w]).msg.sign # REDIRECT
    BY <1>3, <2>1, <2>2, CleanTail DEF Unmarked
  <2>4. \A d \in Client : CleanData(dgrams'[d])
    BY <1>3, <2>1, <2>2, <2>3 DEF Unmarked
  <2>5. \A d \in Client : wbuf'[d].msg.sign # REDIRECT
    <3>1. Reply(Head(dgrams[w]).msg).sign # REDIRECT
      BY <2>3, ReplyClean
    <3>2. PICK x : x = Reply(Head(dgrams[w]).msg) /\ x.sign # REDIRECT
      BY <3>1
    <3>3. wbuf' = wbuf \/ wbuf' = [wbuf EXCEPT ![w] = [from |-> Head(dgrams[w]).from, msg |-> x]]
      BY <2>1, <3>2
    <3>4. PICK r : r = [from |-> Head(dgrams[w]).from, msg |-> x]
      OBVIOUS
    <3>5. r.msg = x
      BY <3>4
    <3>6. \A d \in Client : wbuf'[d] = wbuf[d] \/ wbuf'[d] = r
      BY <1>0, <3>3, <3>4
    <3> QED
      BY <1>3, <3>2, <3>5, <3>6 DEF Unmarked
  <2>6. \A d \in Client : Unmarked(d)'
    BY <1>3, <2>1, <2>4, <2>5 DEF Unmarked, Clean, CleanData
  <2> QED
    BY <1>4, <1>5, <2>1, <2>6, RedirectPartsNext
<1>10. CASE Send(w) \/ SendFails(w)
  <2>1. PICK m : m = wbuf[w].msg /\ m.sign # REDIRECT
    BY <1>3 DEF Unmarked
  <2>2. /\ wbuf' = [wbuf EXCEPT ![w].from = None] /\ UNCHANGED <<toSrv, dgrams>>
        /\ SendClient(wbuf[w].from, m) \/ UNCHANGED toCli
    <3>1. CASE Send(w)
      BY <2>1, <3>1, SendMeant DEF Send, Undisturbed
    <3>2. CASE SendFails(w)
      BY <3>2 DEF SendFails, netVars
    <3> QED
      BY <1>10, <3>1, <3>2
  <2>3. \A d \in Client : toCli'[d] = toCli[d] \/ toCli'[d] = Append(toCli[d], m)
    BY <1>0, <2>2 DEF SendClient
  <2>4. \A d \in Client : Announced(d)'
    BY <1>0, <1>1, <1>2, <1>3, <2>1, <2>3, AnnouncedFrame, AnnouncedAppend
  <2>5. \A d \in Client : wbuf'[d].msg = wbuf[d].msg
    BY <1>0, <2>2, Zenon DEF Request
  <2>6. \A d \in Client : Unmarked(d)'
    BY <1>3, <2>2, <2>5 DEF Unmarked, Clean, CleanData
  <2> QED
    BY <1>4, <2>4, <2>6, RedirectPartsNext
<1> QED
  BY <1>6, <1>7, <1>8, <1>9, <1>10 DEF WorkerStep

LEMMA InterruptRedirect ==
  ASSUME TableInv, Redirects, Interrupt
  PROVE  Redirects'
<1>0. wpc \in [Client -> WorkerPc]
  BY DEF TableInv, TypeOK, WorkerTypeOK
<1>1. /\ UNCHANGED <<cpc, cbuf, wslot, cur, toCli, toSrv, dgrams, wbuf>>
      /\ server' = "up" => server = "up"
      /\ mpc' = "reply" => mpc = "reply"
      /\ \/ wpc' = wpc
         \/ \E w \in Client : wpc' = [wpc EXCEPT ![w] = "release"]
  BY DEF Interrupt, Signal, InterruptMain, InterruptRunning, InterruptRecv, InterruptAccept, Goto,
         netVars, clientVars, mainVars, workerVars
<1>2. \A c \in Client : KeepsEntry(c)
  BY <1>0, <1>1 DEF KeepsEntry
<1>3. (\A c \in Client : Announced(c) /\ Unmarked(c)) /\ Admitted
  BY RedirectParts
<1>4. \A c \in Client : Announced(c)' /\ Unmarked(c)'
  BY <1>1, <1>2, <1>3, AnnouncedFrame, UnmarkedFrame
<1>5. Admitted'
  BY <1>1, <1>2, <1>3 DEF Admitted, KeepsEntry
<1> QED
  BY <1>4, <1>5, RedirectPartsNext

\* A message of a client that is no redirect.
LEMMA DeliverClean ==
  ASSUME TypeOK, \A d \in Client : Unmarked(d), NEW c \in Client, NEW m \in Message, NEW p,
         Deliver(c, m, p), m.sign # REDIRECT, wbuf' = wbuf
  PROVE  \A d \in Client : Unmarked(d)'
<1>1. toSrv \in [Client -> Seq(Message)]
  BY DEF TypeOK, NetTypeOK, SocketTypeOK
<1> DEFINE D == [from : Client, msg : Message]
           e == [from |-> c, msg |-> m]
<1>2. dgrams \in [Client -> Seq(D)] /\ e.msg.sign # REDIRECT
  BY DEF TypeOK, NetTypeOK, SocketTypeOK
<1>3. /\ toSrv' = toSrv \/ toSrv' = [toSrv EXCEPT ![c] = Append(@, m)]
      /\ \A w \in Client : dgrams'[w] = dgrams[w] \/ dgrams'[w] = Append(dgrams[w], e)
  BY <1>2 DEF Deliver
<1> HIDE DEF D, e
<1>4. ASSUME NEW d \in Client PROVE Clean(toSrv'[d]) /\ CleanData(dgrams'[d])
  <2>1. Clean(toSrv[d]) /\ Clean(Append(toSrv[d], m))
    BY <1>1, CleanAppend DEF Unmarked
  <2>2. CleanData(dgrams[d]) /\ CleanData(Append(dgrams[d], e))
    BY <1>2, CleanAppend DEF Unmarked
  <2>3. toSrv'[d] = toSrv[d] \/ toSrv'[d] = Append(toSrv[d], m)
    BY <1>1, <1>3
  <2> QED
    BY <1>3, <2>1, <2>2, <2>3
<1> QED
  BY <1>4 DEF Unmarked, Clean, CleanData

\* A client outside the redirect phase has no redirect.
LEMMA NoRedirect ==
  ASSUME NEW c, ~AtMain(c)', cbuf'[c].sign # REDIRECT, Clean(toCli'[c])
  PROVE  Announced(c)'
  BY DEF Announced, Clean

\* The step of a client that follows a redirect, or what it takes for one.
LEMMA FollowsRedirect ==
  ASSUME TypeOK, NEW c \in Client, Announced(c), RecvRedirect(c) \/ RecvRedirectFails(c),
         UNCHANGED <<wpc, wslot>>
  PROVE  Announced(c)'
<1>0. /\ DOMAIN cpc = Client /\ DOMAIN cbuf = Client
      /\ toCli \in [Client -> Seq(Message)]
  BY DEF TypeOK, ClientTypeOK, NetTypeOK, SocketTypeOK
<1>1. PICK m : /\ Follow(c, m)
               /\ \/ toCli[c] # <<>> /\ m = Head(toCli[c])
                  \/ c \in Slow \/ server # "up"
  BY DEF RecvRedirect, RecvRedirectFails
<1>2. toCli'[c] = <<>> /\ server' = server
  <2>1. cpc[c] = "await" /\ server' = server
    BY DEF RecvRedirect, RecvRedirectFails
  <2> QED
    BY <1>0, <1>1, <2>1 DEF Follow, Ends, AtSession
<1>3. Len(<<>>) = 0
  OBVIOUS
<1>4. CASE m.sign = LIMIT
  <2>1. cpc'[c] = "done" /\ cbuf'[c] = ZeroMsg
    BY <1>0, <1>1, <1>4 DEF Follow, Ends
  <2> QED
    BY <1>2, <1>3, <2>1, NoRedirect DEF Clean, AtMain, ZeroMsg, Msg, DATA, REDIRECT
<1>5. CASE m.sign # LIMIT
  <2>1. cpc'[c] = "redirected" /\ cbuf'[c] = m
    BY <1>0, <1>1, <1>5 DEF Follow
  <2>2. CASE toCli[c] # <<>> /\ m = Head(toCli[c])
    <3>1. m = toCli[c][1] /\ 1 \in 1 .. Len(toCli[c])
      BY <1>0, <2>2, QueueHead
    <3> QED
      BY <1>2, <1>3, <2>1, <3>1 DEF Announced
  <2>3. CASE c \in Slow \/ server # "up"
    BY <1>2, <1>3, <2>1, <2>3 DEF Announced
  <2> QED
    BY <1>1, <2>2, <2>3
<1> QED
  BY <1>4, <1>5

LEMMA ClientRedirect ==
  ASSUME TypeOK, Redirects, NEW c \in Client, ClientStep(c) \/ UserStep(c), ClientKeeps
  PROVE  Redirects'
<1>0. /\ DOMAIN cpc = Client /\ DOMAIN cbuf = Client /\ cbuf \in [Client -> Message]
      /\ toCli \in [Client -> Seq(Message)]
  BY DEF TypeOK, ClientTypeOK, NetTypeOK, SocketTypeOK
<1>1. UNCHANGED <<server, wpc, wslot, wbuf, mpc, cur>>
  BY ClientFrame DEF TypeOK, NetTypeOK, ClientKeeps, workerVars, mainVars
<1>2. (\A d \in Client : Announced(d) /\ Unmarked(d)) /\ Admitted
  BY RedirectParts
<1>3. Admitted'
  BY <1>1, <1>2 DEF Admitted
<1>4. \A d \in Client : KeepsEntry(d)
  BY <1>1 DEF KeepsEntry
<1>5. ASSUME NEW d \in Client \ {c} PROVE Announced(d)'
  <2>1. cpc'[d] = cpc[d] /\ cbuf'[d] = cbuf[d] /\ toCli'[d] = toCli[d]
    BY ClientAlone DEF OnlyItself, TypeOK, NetTypeOK
  <2> QED
    BY <1>2, <1>4, <2>1, AnnouncedFrame
<1>6. ASSUME UNCHANGED <<toSrv, dgrams>>, Announced(c)' PROVE Redirects'
  BY <1>1, <1>2, <1>3, <1>5, <1>6, UnmarkedFrame, RedirectPartsNext
<1>7. ASSUME NEW m \in Message, NEW p, Deliver(c, m, p), m.sign # REDIRECT, Announced(c)'
      PROVE  Redirects'
  BY <1>1, <1>2, <1>3, <1>5, <1>7, DeliverClean, RedirectPartsNext
<1>8. ASSUME Ends(c) PROVE Announced(c)'
  <2>1. /\ cpc'[c] = "done" /\ cbuf'[c] = ZeroMsg
        /\ toCli'[c] = <<>> \/ (AtSession(c) /\ toCli' = toCli)
    BY <1>0, <1>8 DEF Ends
  <2>2. Clean(toCli'[c])
    <3>1. Len(<<>>) = 0
      OBVIOUS
    <3>2. AtSession(c) => Clean(toCli[c])
      BY <1>2 DEF Announced, Clean, AtSession, AtMain
    <3> QED
      BY <2>1, <3>1, <3>2 DEF Clean
  <2> QED
    BY <2>1, <2>2, NoRedirect DEF AtMain, ZeroMsg, Msg, DATA, REDIRECT
<1>9. ~AtMain(c) => Clean(toCli[c])
  BY <1>2 DEF Announced, Clean
<1>10. CASE RecvRedirect(c) \/ RecvRedirectFails(c)
  <2>1. UNCHANGED <<toSrv, dgrams>>
    BY <1>10 DEF RecvRedirect, RecvRedirectFails
  <2> QED
    BY <1>1, <1>2, <1>6, <1>10, <2>1, FollowsRedirect
<1>11. CASE ConnectSessionTcp(c) \/ ConnectSessionUdp(c)
  <2>1. PICK m \in Message : m = FirstProbe(cbuf[c]) /\ m.sign # REDIRECT
    BY <1>0, FirstProbeType, ProbeClean
  <2>2. /\ Deliver(c, m, cbuf[c].message) /\ cpc'[c] = "probing" /\ cbuf'[c] = m
        /\ toCli' = toCli /\ cpc[c] = "redirected"
    BY <1>0, <1>11, <2>1 DEF ConnectSessionTcp, ConnectSessionUdp, SendSession
  <2>3. Announced(c)'
    BY <1>9, <2>1, <2>2, NoRedirect DEF AtMain
  <2> QED
    BY <1>7, <2>1, <2>2, <2>3
<1>12. CASE RecvOtherAck(c)
  <2>1. toCli[c] \in Seq(Message) /\ toCli[c] # <<>>
    BY <1>0, <1>12 DEF RecvOtherAck
  <2>2. PICK m \in Message : m = FirstProbe(Head(toCli[c])) /\ m.sign # REDIRECT
    BY <2>1, QueueHead, FirstProbeType, ProbeClean
  <2>3. /\ Deliver(c, m, cport[c]) /\ cpc' = cpc /\ cpc[c] = "probing" /\ cbuf'[c] = m
        /\ toCli'[c] = Tail(toCli[c])
    BY <1>0, <1>12, <2>2 DEF RecvOtherAck, SendSession
  <2>4. Announced(c)'
    BY <1>9, <2>1, <2>2, <2>3, CleanTail, NoRedirect DEF AtMain
  <2> QED
    BY <1>7, <2>2, <2>3, <2>4
<1>13. CASE Ask(c)
  <2>1. PICK n \in Data : /\ cbuf' = [cbuf EXCEPT ![c] = Msg(@.sign, n)]
                          /\ Deliver(c, Msg(cbuf[c].sign, n), cport[c])
    BY <1>13 DEF Ask, SendSession
  <2>2. PICK m \in Message : m = Msg(cbuf[c].sign, n)
    BY <1>0, DataAssumption DEF Msg, Message
  <2>3. /\ cpc[c] = "chat" /\ cpc'[c] = "reply" /\ toCli' = toCli
        /\ cbuf'[c] = m /\ Deliver(c, m, cport[c])
    BY <1>0, <1>13, <2>1, <2>2 DEF Ask
  <2>4. m.sign # REDIRECT
    BY <1>2, <2>2, <2>3 DEF Announced, Msg
  <2>5. Announced(c)'
    BY <1>9, <2>3, <2>4, NoRedirect DEF AtMain
  <2> QED
    BY <1>7, <2>3, <2>4, <2>5
<1>14. CASE Quit(c)
  <2>1. Msg(QUIT, cbuf[c].message) \in Message
    <3>1. cbuf[c].message \in Int
      BY <1>0 DEF Message
    <3> QED
      BY <3>1 DEF Msg, Message, QUIT
  <2>2. PICK m \in Message : m = Msg(QUIT, cbuf[c].message)
    BY <2>1
  <2>3. Deliver(c, m, cport[c]) /\ Ends(c) /\ m.sign # REDIRECT
    BY <1>14, <2>2 DEF Quit, Msg, QUIT, REDIRECT
  <2> QED
    BY <1>7, <1>8, <2>3
<1>15. CASE \/ ConnectSessionRefused(c) \/ ProbeGivesUp(c) \/ AnswerFails(c)
            \/ AskBroken(c) \/ Kill(c)
  <2>1. Ends(c) /\ UNCHANGED <<dgrams, toSrv>>
    BY <1>15 DEF ConnectSessionRefused, ProbeGivesUp, AnswerFails, AskBroken, Kill
  <2> QED
    BY <1>6, <1>8, <2>1
<1>16. CASE RecvProbeAck(c) \/ RecvAnswer(c)
  <2>1. /\ cpc[c] \in {"probing", "reply"} /\ cpc'[c] \in {"chat", "ask"}
        /\ toCli[c] # <<>> /\ toCli'[c] = Tail(toCli[c])
        /\ cbuf'[c].sign = DATA \/ cbuf'[c] = Head(toCli[c])
        /\ UNCHANGED <<dgrams, toSrv>>
    BY <1>0, <1>16 DEF RecvProbeAck, RecvAnswer, Msg
  <2>2. Clean(toCli'[c]) /\ cbuf'[c].sign # REDIRECT
    BY <1>0, <1>9, <2>1, CleanTail DEF AtMain, DATA, REDIRECT
  <2> QED
    BY <1>6, <2>1, <2>2, NoRedirect DEF AtMain
<1>17. CASE RecvEofAsAnswer(c) \/ Again(c) \/ ProbeTimesOut(c)
  <2>1. /\ cpc[c] \in {"probing", "reply", "ask"} /\ cpc'[c] \in {"probing", "chat", "ask"}
        /\ UNCHANGED <<dgrams, toSrv, toCli, cbuf>>
    BY <1>0, <1>17 DEF RecvEofAsAnswer, Again, ProbeTimesOut, netVars
  <2>2. cbuf[c].sign # REDIRECT
    BY <1>2, <2>1 DEF Announced
  <2> QED
    BY <1>6, <1>9, <2>1, <2>2, NoRedirect DEF AtMain
<1>18. CASE StartTcp(c) \/ StartUdp(c)
  <2>1. cpc[c] = "start" /\ UNCHANGED <<dgrams, toSrv, toCli, cbuf>>
    BY <1>18 DEF StartTcp, StartUdp
  <2>2. Clean(toCli[c]) /\ cbuf[c].sign # REDIRECT
    BY <1>2, <1>9, <2>1 DEF Announced, AtMain
  <2>3. Announced(c)'
    BY <2>1, <2>2 DEF Announced, Clean
  <2> QED
    BY <1>6, <2>1, <2>3
<1> QED
  BY <1>10, <1>11, <1>12, <1>13, <1>14, <1>15, <1>16, <1>17, <1>18 DEF ClientStep, UserStep


-----------------------------------------------------------------------------
(* The invariant as a whole. *)

LEMMA InitSession == Init => Undisturbed /\ Redirects
<1> SUFFICES ASSUME Init PROVE Undisturbed /\ Redirects
  OBVIOUS
<1>1. Len(<<>>) = 0
  OBVIOUS
<1>2. \A c \in Client : /\ toSrv[c] = <<>> /\ toCli[c] = <<>> /\ dgrams[c] = <<>>
                        /\ wbuf[c] = NoRequest /\ cbuf[c] = ZeroMsg /\ cpc[c] = "start"
                        /\ sock[c] = Closed /\ wpeer[c] = None /\ wpc[c] = "none"
  BY DEF Init, ClientInit
<1>3. None \notin Client
  BY ClientAssumption DEF Client
<1>4. NoRequest.from = None /\ ZeroMsg.sign # REDIRECT /\ NoRequest.msg.sign # REDIRECT
  BY DEF NoRequest, ZeroMsg, Msg, DATA, REDIRECT
<1>5. PortInv
  BY <1>2 DEF PortInv
<1>6. ASSUME NEW c \in Client PROVE DialogueInv(c)
  <2>1. ~Asks(c) /\ ~Taken(c) /\ ~Told(c)
    BY <1>1, <1>2, <1>3, <1>4 DEF Asks, Taken, Told, HasDatagram
  <2>2. WireInv(c)
    BY <1>1, <1>2 DEF WireInv, HasDatagram
  <2>3. TurnInv(c) /\ ContentInv(c)
    BY <1>2, <2>1 DEF TurnInv, ContentInv, AtSession
  <2>4. ConnInv(c)
    BY <1>2, <1>3, <2>1, ClientAssumption DEF ConnInv, Talking, Client
  <2> QED
    BY <2>2, <2>3, <2>4 DEF DialogueInv
<1>7. FdInv
  <2>1. fds[0] = Free
    BY FdFacts DEF Init
  <2> QED
    BY <1>2, <2>1 DEF FdInv, AcceptInv, OwnInv, AwaitInv
<1>8. mpc # "reply"
  BY DEF Init
<1>9. Redirects
  BY <1>1, <1>2, <1>4, <1>8 DEF Redirects, RedirectInv
<1> QED
  BY <1>5, <1>6, <1>7, <1>9 DEF Undisturbed

LEMMA StutterInv ==
  ASSUME UNCHANGED vars
  PROVE  (Redirects => Redirects') /\ (Undisturbed => Undisturbed')
<1>1. UNCHANGED <<server, mainq, accepted, sock, conn, toSrv, toCli, dgrams, cpc, cbuf, asked,
                  mpc, cur, ph, wpc, wslot, wpeer, wbuf, wfd, wfile, fds>>
  BY DEF vars, netVars, clientVars, mainVars, poolVars, workerVars, fdVars
<1>2. Redirects => Redirects'
  BY <1>1 DEF Redirects, RedirectInv, AtMain
<1>3. PortInv => PortInv'
  BY <1>1 DEF PortInv
<1>4. FdInv => FdInv'
  BY <1>1 DEF FdInv, AcceptInv, OwnInv, AwaitInv, Meant, Serving
<1>5. (\A c \in Client : DialogueInv(c)) => \A c \in Client : DialogueInv(c)'
  BY <1>1, QuietInv DEF StaysConnected
<1> QED
  BY <1>2, <1>3, <1>4, <1>5 DEF Undisturbed

\* A step of the running server that crosses no descriptor.
LEMMA ServerNext ==
  ASSUME TableInv, TableInv', Undisturbed, Redirects, ~crossed',
         MainStep \/ (\E w \in Client : WorkerStep(w)) \/ Interrupt
  PROVE  Redirects' /\ (server' = "up" => Undisturbed')
<1>1. CASE MainStep
  BY <1>1, MainFd, MainSession, MainRedirect DEF Undisturbed, Dialogues
<1>2. ASSUME NEW w \in Client, WorkerStep(w) PROVE Redirects' /\ (server' = "up" => Undisturbed')
  BY <1>2, WorkerFd, WorkerSession, WorkerRedirect DEF Undisturbed, Dialogues
<1>3. CASE Interrupt
  BY <1>3, InterruptFd, InterruptSession, InterruptRedirect DEF Undisturbed, Dialogues
<1> QED
  BY <1>1, <1>2, <1>3

\* The server runs before each of its steps, and a number once crossed stays so.
LEMMA ServerRuns ==
  ASSUME MainStep \/ (\E w \in Client : WorkerStep(w)) \/ Interrupt, ~crossed'
  PROVE  server = "up" /\ ~crossed
<1>1. CASE MainStep
  <2>1. CASE MainLoop \/ Select \/ Check \/ Take \/ Admit \/ Join \/ Return
    BY <2>1 DEF MainLoop, Select, Check, Take, Admit, Join, Return, fdVars
  <2>2. CASE TakeFails \/ AdmitFails \/ ReplyFails
    BY <2>2 DEF TakeFails, AdmitFails, ReplyFails, Fail, fdVars
  <2>3. CASE SendRedirect \/ Refuse
    BY <2>3 DEF SendRedirect, Refuse, Answer
  <2> QED
    BY <1>1, <2>1, <2>2, <2>3 DEF MainStep
<1>2. ASSUME NEW w \in Client, WorkerStep(w) PROVE server = "up" /\ ~crossed
  <2>1. CASE CallAccept(w) \/ CallRecv(w) \/ Send(w) \/ SendFails(w) \/ Close(w)
    BY <2>1, Zenon DEF CallAccept, CallRecv, Send, SendFails, Close
  <2>2. CASE AcceptFails(w) \/ SendKills(w)
    BY <2>2 DEF AcceptFails, SendKills, Fail, fdVars
  <2>3. CASE Accept(w) \/ RecvStream(w) \/ RecvEnd(w) \/ RecvNothing(w) \/ RecvUdp(w) \/ Release(w)
    BY <2>3 DEF Accept, RecvStream, RecvEnd, RecvNothing, RecvUdp, Release, fdVars
  <2> QED
    BY <1>2, <2>1, <2>2, <2>3 DEF WorkerStep
<1>3. CASE Interrupt
  BY <1>3 DEF Interrupt, Signal, InterruptMain, InterruptRunning, InterruptRecv, InterruptAccept,
     fdVars
<1> QED
  BY <1>1, <1>2, <1>3

LEMMA NextInv == IInv /\ [Next]_vars => IInv'
<1> SUFFICES ASSUME IInv, [Next]_vars PROVE IInv'
  OBVIOUS
<1>1. TableInv /\ TypeOK /\ TableInv'
  BY TableNext DEF IInv, TableInv
<1>2. ASSUME ~crossed' PROVE Redirects' /\ (server' = "up" => Undisturbed')
  <2>1. CASE MainStep \/ (\E w \in Client : WorkerStep(w)) \/ Interrupt
    BY <1>1, <1>2, <2>1, ServerRuns, ServerNext DEF IInv, SessionInv, RedirectsInv, Redirects
  <2>2. ASSUME NEW c \in Client, ClientMoves(c) \/ (UserStep(c) /\ ClientKeeps)
        PROVE  Redirects' /\ (server' = "up" => Undisturbed')
    <3>1. ClientKeeps /\ crossed' = crossed
      BY <2>2 DEF ClientMoves, ClientKeeps, fdVars
    <3>2. Redirects /\ (server = "up" => Undisturbed)
      BY <1>2, <3>1 DEF IInv, SessionInv, RedirectsInv, Redirects
    <3>3. ClientStep(c) \/ UserStep(c)
      <4>1. ~RedirectLost(c)
        BY <3>2, RedirectNotLost DEF RedirectLost
      <4> QED
        BY <2>2, <4>1 DEF ClientMoves
    <3>4. Redirects' /\ server' = server
      BY <1>1, <3>1, <3>2, <3>3, ClientRedirect, ClientFrame DEF TypeOK, NetTypeOK
    <3>5. ASSUME server = "up" PROVE Undisturbed'
      BY <1>1, <3>1, <3>2, <3>3, <3>5, ClientFd, ClientSession DEF Undisturbed, Dialogues
    <3> QED
      BY <3>4, <3>5
  <2>3. CASE UNCHANGED vars
    <3>1. UNCHANGED <<server, crossed>>
      BY <2>3 DEF vars, netVars, fdVars
    <3> QED
      BY <1>2, <2>3, <3>1, StutterInv DEF IInv, SessionInv, RedirectsInv, Redirects
  <2> QED
    BY <2>1, <2>2, <2>3 DEF Next
<1> QED
  BY <1>1, <1>2 DEF IInv, SessionInv, RedirectsInv, Redirects

-----------------------------------------------------------------------------
(* The theorems. *)

\* The invariant holds in every reachable state of the server: of the table of
\* ports without condition, of the sessions and redirects for as long as no
\* call and no close has reached another session's file through a descriptor
\* number that was given out again (phread_tcp.c:64, phread_udp.c:73).
THEOREM Invariance == Spec => []IInv
<1>1. Init => IInv
  BY InitInv, InitSession DEF IInv, SessionInv, RedirectsInv, Redirects
<1>2. IInv /\ [Next]_vars => IInv'
  BY NextInv
<1> QED
  BY <1>1, <1>2, PTL DEF Spec

\* While the server is up and no descriptor number was crossed, the number a
\* client prints as the answer is the cube of the number it sent, with any
\* number of clients, of which some time out, some are killed, and Ctrl+C at
\* any moment: a client and its thread take turns, so neither an older answer
\* nor one to another client is ever in its queue (client_tcp.c:34,
\* phread_tcp.c:26-38, phread_udp.c:20-58).  What is left as the source of a
\* wrong answer is a call or a close through a number given out again.
THEOREM AnswersAreCubes == Spec => []AnswerIsCube
<1>1. IInv => AnswerIsCube
  BY DEF IInv, SessionInv, Undisturbed, DialogueInv, ContentInv, AnswerIsCube
<1> QED
  BY <1>1, Invariance, PTL

\* Every redirect on its way, and every one followed by a client whose recv
\* got it, names the entry main() reserved for that client, although the client
\* may answer it while its thread starts and main() admits the next one
\* (server.c:126-161), until a descriptor number is crossed.
THEOREM RedirectsAreOwn == Spec => []RedirectNamesOwnSlot
<1>1. IInv => RedirectNamesOwnSlot
  BY DEF IInv, RedirectsInv, RedirectInv, RedirectNamesOwnSlot
<1> QED
  BY <1>1, Invariance, PTL

LEMMA TableAlways == Spec => []TableInv
<1>1. Init => TableInv
  BY InitInv
<1>2. TableInv /\ [Next]_vars => TableInv'
  BY TableNext
<1> QED
  BY <1>1, <1>2, PTL DEF Spec

\* Type correctness: every variable of the server, the network and the
\* clients keeps its type, so no step uses an entry or a thread that is not there.
THEOREM TypeCorrect == Spec => []TypeOK
<1>1. TableInv => TypeOK
  BY DEF TableInv
<1> QED
  BY <1>1, TableAlways, PTL

\* flag_client counts the free entries of ports_array, whatever main(), the
\* threads and Ctrl+C do in between (server.c:112, 135, 161; phread_tcp.c:59).
THEOREM CounterMatchesTable == Spec => []SlotAccounting
<1>1. TableInv => SlotAccounting
  BY DEF TableInv
<1> QED
  BY <1>1, TableAlways, PTL

\* One session at a time per entry: a busy entry is held by exactly the
\* thread of the session ph_tcp_udp describes, a free one by none.
THEOREM OneHolderPerEntry == Spec => []BusyIffHeld
<1>1. ASSUME TableInv PROVE BusyIffHeld
  <2> SUFFICES ASSUME NEW s \in Slot
               PROVE  {w \in Client : wpc[w] \in Holding /\ wslot[w] = s}
                        = IF status[s] = 1 THEN {ph[s]} ELSE {}
    BY DEF BusyIffHeld
  <2>1. CASE status[s] = 1
    BY <1>1, <2>1 DEF TableInv, HeldInv
  <2>2. CASE status[s] # 1
    BY <1>1, <2>2 DEF TableInv, HeldInv
  <2> QED
    BY <2>1, <2>2
<1> QED
  BY <1>1, TableAlways, PTL

\* The unlocked test of flag_client is safe: once it has succeeded a client is
\* waiting when main() blocks with the mutex held, and an entry is free when
\* it searches the table.
THEOREM UnlockedTestIsSafe == Spec => []AdmitHasRoom
<1>1. ASSUME TableInv PROVE AdmitHasRoom
  <2>1. status \in [Slot -> {0, 1}] /\ ready \subseteq {"tcp", "udp"}
    BY <1>1 DEF TableInv, TypeOK, PoolTypeOK, MainTypeOK
  <2>2. ASSUME mpc = "admit" PROVE mainq[Now] # <<>>
    <3>1. ready # {} /\ \A p \in ready : mainq[p] # <<>>
      BY <1>1, <2>2 DEF TableInv, MainInv
    <3> QED
      BY <2>1, <3>1 DEF Now
  <2>3. ASSUME mpc \in {"admit", "bind"} PROVE \E s \in Slot : status[s] = 0
    <3>1. flag_client > 0
      BY <1>1, <2>3 DEF TableInv, MainInv
    <3>2. flag_client = LENGTH_CLIENT - Cardinality(BusySlots)
      BY <1>1, <2>3, BusyFinite, LengthAssumption DEF TableInv, SlotAccounting
    <3>3. Cardinality(BusySlots) # LENGTH_CLIENT
      BY <3>1, <3>2, LengthAssumption
    <3>4. BusySlots # Slot
      <4>1. IsFiniteSet(Slot) /\ Cardinality(Slot) = LENGTH_CLIENT
        BY FS_Interval, LengthAssumption DEF Slot
      <4> QED
        BY <3>3, <4>1
    <3> QED
      BY <2>1, <3>4 DEF BusySlots
  <2> QED
    BY <2>2, <2>3 DEF AdmitHasRoom
<1> QED
  BY <1>1, TableAlways, PTL

\* The final loop of main() never joins an entry of thread_input that no
\* pthread_create has filled.
THEOREM JoinsOnlyCreated == Spec => []JoinsCreatedThreads
<1>1. TableInv => JoinsCreatedThreads
  BY DEF TableInv, CreatedInv, JoinsCreatedThreads
<1> QED
  BY <1>1, TableAlways, PTL

-----------------------------------------------------------------------------
(* The table of ports implements SlotPool. *)

Owner == [s \in Slot |-> IF status[s] = 1 THEN ph[s] ELSE None]
Served == {c \in Client : wpc[c] # "none"}

\* Steps in which no client is admitted and no entry is given back stutter.
LEMMA PoolStutter ==
  ASSUME UNCHANGED <<status, ph>>, \A w \in Client : wpc'[w] = "none" <=> wpc[w] = "none"
  PROVE  UNCHANGED <<Owner, Served>>
  BY DEF Owner, Served

LEMMA AdmitTakes == TableInv /\ Admit => \E c \in Client : Pool!Take(c)
<1> SUFFICES ASSUME TableInv, Admit PROVE \E c \in Client : Pool!Take(c)
  OBVIOUS
<1> DEFINE c == cur
<1>1. /\ wpc \in [Client -> WorkerPc] /\ status \in [Slot -> {0, 1}]
      /\ ph \in [Slot -> Client \cup {None}]
  BY DEF TableInv, TypeOK, WorkerTypeOK, PoolTypeOK
<1>3. c \in Client
  BY DEF Admit, TableInv, MainInv, Serves
<1>4. wpc[c] = "none"
  BY DEF Admit, TableInv, MainInv
<1>5. PICK s \in Slot :
        /\ FirstFree(s)
        /\ status' = [status EXCEPT ![s] = 1]
        /\ ph' = [ph EXCEPT ![s] = c]
        /\ wpc' = [wpc EXCEPT ![c] = IF Now = "tcp" THEN "start" ELSE "loop"]
  BY DEF Admit
<1> HIDE DEF c
<1>6. c \notin Served /\ Served' = Served \cup {c}
  BY <1>1, <1>3, <1>4, <1>5 DEF Served
<1>7. Owner[s] = None
  BY <1>5 DEF Owner, FirstFree
<1>8. \A t \in Slot : t < s => Owner[t] # None
  <2> SUFFICES ASSUME NEW t \in Slot, t < s PROVE Owner[t] # None
    OBVIOUS
  <2>1. status[t] = 1
    BY <1>1, <1>5 DEF FirstFree
  <2>2. ph[t] \in Client
    BY <2>1 DEF TableInv, HeldInv
  <2> QED
    BY <2>1, <2>2, ClientAssumption DEF Owner, Client
<1>9. Owner' = [Owner EXCEPT ![s] = c]
  BY <1>1, <1>5 DEF Owner
<1> QED
  BY <1>3, <1>6, <1>7, <1>8, <1>9 DEF Pool!Take, Owner, Served

LEMMA ReleaseGivesBack ==
  ASSUME TableInv, NEW w \in Client, Release(w)
  PROVE  \E s \in Slot : Pool!GiveBack(s)
<1> DEFINE s == wslot[w]
<1>1. /\ wpc \in [Client -> WorkerPc] /\ status \in [Slot -> {0, 1}]
      /\ wslot \in [Client -> Slot]
  BY DEF TableInv, TypeOK, WorkerTypeOK, PoolTypeOK
<1>2. /\ wpc[w] = "release" /\ wpc' = [wpc EXCEPT ![w] = "close"]
      /\ status' = [status EXCEPT ![s] = 0] /\ ph' = ph
  BY DEF Release, Goto
<1>3. s \in Slot /\ status[s] = 1 /\ ph[s] = w
  BY <1>1, <1>2 DEF TableInv, HeldInv, Holding
<1> HIDE DEF s
<1>4. Owner[s] # None
  BY <1>3, ClientAssumption DEF Owner, Client
<1>5. Owner' = [Owner EXCEPT ![s] = None]
  <2>1. status'[s] = 0 /\ \A t \in Slot : t # s => status'[t] = status[t]
    BY <1>1, <1>2, <1>3
  <2>2. /\ Owner' = [t \in Slot |-> Owner'[t]] /\ Owner = [t \in Slot |-> Owner[t]]
        /\ Owner'[s] = None
    BY <1>3, <2>1 DEF Owner
  <2>3. \A t \in Slot : t # s => Owner'[t] = Owner[t]
    BY <1>2, <2>1 DEF Owner
  <2> QED
    BY <1>3, <2>2, <2>3
<1>6. Served' = Served
  BY <1>1, <1>2 DEF Served
<1> QED
  BY <1>3, <1>4, <1>5, <1>6 DEF Pool!GiveBack, Owner, Served

\* A thread that moves on without giving its entry back.
LEMMA MovesOn ==
  ASSUME TableInv, NEW w \in Client, WorkerStep(w), ~Release(w)
  PROVE  UNCHANGED <<Owner, Served>>
<1>1. wpc \in [Client -> WorkerPc]
  BY DEF TableInv, TypeOK, WorkerTypeOK
<1>2. UNCHANGED <<status, ph>>
  <2>1. CASE CallAccept(w) \/ AcceptFails(w) \/ Accept(w) \/ CallRecv(w)
    BY <2>1 DEF CallAccept, AcceptFails, Accept, CallRecv, Fail, poolVars
  <2>2. CASE RecvStream(w) \/ RecvEnd(w) \/ RecvNothing(w) \/ RecvUdp(w)
    BY <2>2 DEF RecvStream, RecvEnd, RecvNothing, RecvUdp, poolVars
  <2>3. CASE Send(w) \/ SendKills(w)
    BY <2>3 DEF Send, SendKills, Fail, poolVars
  <2>4. CASE SendFails(w) \/ Close(w)
    BY <2>4 DEF SendFails, Close, poolVars
  <2> QED
    BY <2>1, <2>2, <2>3, <2>4 DEF WorkerStep
<1>3. wpc' = wpc \/ \E pc \in WorkerPc \ {"none"} : wpc[w] # "none" /\ wpc' = [wpc EXCEPT ![w] = pc]
  <2>1. CASE AcceptFails(w) \/ SendKills(w)
    BY <2>1 DEF AcceptFails, SendKills, Fail, workerVars
  <2>2. CASE CallAccept(w) \/ Accept(w)
    BY <2>2 DEF CallAccept, Accept, Goto, WorkerPc
  <2>3. CASE CallRecv(w) \/ SendFails(w) \/ Close(w)
    BY <2>3 DEF CallRecv, SendFails, Close, Goto, WorkerPc
  <2>4. CASE RecvStream(w) \/ RecvEnd(w) \/ RecvNothing(w)
    BY <2>4 DEF RecvStream, RecvEnd, RecvNothing, Goto, WorkerPc
  <2>5. CASE RecvUdp(w)
    BY <2>5 DEF RecvUdp, Goto, WorkerPc
  <2>6. CASE Send(w)
    BY <2>6 DEF Send, Goto, WorkerPc
  <2> QED
    BY <2>1, <2>2, <2>3, <2>4, <2>5, <2>6 DEF WorkerStep
<1> QED
  BY <1>1, <1>2, <1>3, PoolStutter

LEMMA InterruptStutters == TableInv /\ Interrupt => UNCHANGED <<Owner, Served>>
<1> SUFFICES ASSUME TableInv, Interrupt PROVE UNCHANGED <<Owner, Served>>
  OBVIOUS
<1>1. wpc \in [Client -> WorkerPc]
  BY DEF TableInv, TypeOK, WorkerTypeOK
<1>2. CASE InterruptMain
  BY <1>2, PoolStutter DEF InterruptMain, poolVars, workerVars
<1>3. CASE InterruptRunning
  BY <1>3, PoolStutter DEF InterruptRunning, poolVars, workerVars
<1>4. ASSUME NEW w \in Client, InterruptRecv(w) PROVE UNCHANGED <<Owner, Served>>
  BY <1>1, <1>4, PoolStutter DEF InterruptRecv, Goto, poolVars
<1>5. ASSUME NEW w \in Client, InterruptAccept(w) PROVE UNCHANGED <<Owner, Served>>
  BY <1>5, PoolStutter DEF InterruptAccept, poolVars, workerVars
<1> QED
  BY <1>2, <1>3, <1>4, <1>5 DEF Interrupt

LEMMA PoolStep == TableInv /\ [Next]_vars => [Pool!Next]_<<Owner, Served>>
<1> SUFFICES ASSUME TableInv, [Next]_vars PROVE [Pool!Next]_<<Owner, Served>>
  OBVIOUS
<1>1. CASE Admit
  BY <1>1, AdmitTakes DEF Pool!Next
<1>2. CASE MainStep /\ ~Admit
  BY <1>2, PoolStutter
     DEF MainStep, MainLoop, Select, Check, Take, TakeFails, AdmitFails, Fail, SendRedirect,
         Refuse, Answer, ReplyFails, Join, Return, poolVars, workerVars
<1>3. ASSUME NEW w \in Client, Release(w) PROVE Pool!Next
  BY <1>3, ReleaseGivesBack DEF Pool!Next
<1>4. ASSUME NEW w \in Client, WorkerStep(w), ~Release(w) PROVE UNCHANGED <<Owner, Served>>
  BY <1>4, MovesOn
<1>5. CASE Interrupt
  BY <1>5, InterruptStutters
<1>6. CASE ClientKeeps
  BY <1>6, PoolStutter DEF ClientKeeps, poolVars, workerVars
<1>7. CASE UNCHANGED vars
  BY <1>7, PoolStutter DEF vars, poolVars, workerVars
<1> QED
  BY <1>1, <1>2, <1>3, <1>4, <1>5, <1>6, <1>7 DEF Next, ClientMoves

\* The table of ports is a SlotPool: entries are taken first-free by clients
\* that never had one, belong to one client at a time and come back, however
\* main(), the threads, the clients and Ctrl+C interleave (server.c:126-161,
\* phread_tcp.c:58-62, phread_udp.c:69-72).
THEOREM ImplementsSlotPool == Spec => PoolSpec
<1>1. Init => Pool!Init
  <2> SUFFICES ASSUME Init PROVE Pool!Init
    OBVIOUS
  <2>1. \A s \in Slot : status[s] # 1
    BY DEF Init
  <2>2. \A c \in Client : wpc[c] = "none"
    BY DEF Init
  <2> QED
    BY <2>1, <2>2 DEF Pool!Init
<1>2. TableInv /\ [Next]_vars => [Pool!Next]_<<Owner, Served>>
  BY PoolStep
<1>3. Spec => []TableInv
  BY TableAlways
<1> QED
  BY <1>1, <1>2, <1>3, PTL DEF Spec, PoolSpec, Pool!Spec, Owner, Served
=============================================================================
