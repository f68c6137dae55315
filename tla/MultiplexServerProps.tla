---------------------------- MODULE MultiplexServerProps ----------------------------
(* The properties of MultiplexServer. *)
EXTENDS MultiplexServer

Count(S) == Cardinality(S)

\* What crosses the network, the clients, main() and the threads.
NetTypeOK ==
  /\ server \in {"up", "exited", "failed"}
  /\ mainq \in Seq(TcpClient) /\ open \subseteq TcpClient
  /\ wfd \in [TcpClient -> TcpClient \cup {None}]
  /\ udpq \in Seq([from : UdpClient, msg : Message])
  /\ toSrv \in [TcpClient -> Seq(Message)] /\ toCli \in [Client -> Seq(Message)]

ClientTypeOK ==
  /\ cpc \in [Client -> ClientPc] /\ cbuf \in [Client -> Message]
  /\ tries \in [Client -> 0 .. 4] /\ asked \in [Client -> Int]
  /\ refused \in [Client -> BOOLEAN]

MainTypeOK ==
  /\ flag \in {0, 1} /\ interrupts \in 0 .. MaxInterrupts
  /\ flag_tcp \in Int /\ flag_udp \in Int /\ lost \subseteq {"tcp", "udp"}
  /\ mpc \in {"loop", "select", "tcp", "readTcp", "writeTcp", "udp", "readUdp", "writeUdp",
              "joinTcp", "joinUdp", "return"}
  /\ ready \subseteq {"tcp", "udp"} /\ mread \in Int
  /\ client_fd_tcp \in TcpClient \cup {None} /\ thread_tcp \in TcpClient \cup {None}
  /\ thread_udp \in UdpThread \cup {0}

\* A thread that calls recv or has been answered by it has a descriptor to use.
ThreadTypeOK ==
  /\ tpc \in [TcpClient -> TcpPc] /\ tbuf \in [TcpClient -> Message]
  /\ tread \in [TcpClient -> Int]
  /\ upc \in [UdpThread -> UdpPc] /\ ubuf \in [UdpThread -> Message]
  /\ uread \in [UdpThread -> Int]
  /\ ph \in UdpClient \cup {None}
  /\ is_client_connected \in {0, 1} /\ connected_client \in UdpClient \cup {None}
  /\ \A w \in TcpClient : tpc[w] = "recv" => wfd[w] \in TcpClient

\* Every variable has its type.
TypeOK == NetTypeOK /\ ClientTypeOK /\ MainTypeOK /\ ThreadTypeOK

-----------------------------------------------------------------------------
(* Safety *)

\* Threads between pthread_create and their ++.
LiveTcp == {w \in TcpClient : tpc[w] \notin {"none", "close", "exited"}}
LiveUdp == {u \in UdpThread : upc[u] # "none"}

TcpCounted == flag_tcp = 1 - Count(LiveTcp) + (IF mpc \in {"readTcp", "writeTcp"} THEN 1 ELSE 0)
UdpCounted == flag_udp = 1 - Count(LiveUdp) + (IF mpc \in {"readUdp", "writeUdp"} THEN 1 ELSE 0)

\* As long as no update of a flag is lost, the flag counts the sessions main()
\* may still start, from the decrement that follows pthread_create
\* (server.c:103, :113) to the increment of the thread (phread_tcp.c:58,
\* phread_udp.c:69), even if a thread ends before main() counted it.
FlagsCountThreads == /\ "tcp" \notin lost => TcpCounted
                     /\ "udp" \notin lost => UdpCounted

\* As long as no update is lost, a UDP client in dialogue is the one the
\* server has connected and a thread serves: no other client's datagrams,
\* waiting at the same socket, take the session from it (phread_udp.c:27-38).
UdpDialogueIsConnected ==
  \A c \in UdpClient :
    InDialogue(c) /\ server = "up" /\ flag = 1 /\ "udp" \notin lost =>
      /\ is_client_connected = 1 /\ connected_client = c
      /\ \E u \in UdpThread : upc[u] \in {"loop", "recv", "check", "send"}

\* As long as no update is lost, a UDP client whose recv does not time out
\* prints the cube of its number (client_udp.c:34).
UdpAnswerIsCube ==
  \A c \in UdpClient \ Slow :
    cpc[c] = "ask" /\ server = "up" /\ "udp" \notin lost => cbuf[c].message = Pow3(asked[c])

\* As long as no update is lost, no two threads serve TCP clients, through
\* the one client_fd_tcp they share (server.c:95-103).
OneTcpSession ==
  "tcp" \notin lost =>
    \A v, w \in TcpClient : {tpc[v], tpc[w]} \subseteq {"loop", "recv", "send"} => v = w

-----------------------------------------------------------------------------
(* The inductive invariant the safety properties follow from *)

\* A TCP client is accepted once: it is queued once, and before it has a thread.
QueueInv ==
  /\ \A i, j \in 1 .. Len(mainq) : mainq[i] = mainq[j] => i = j
  /\ \A i \in 1 .. Len(mainq) : cpc[mainq[i]] # "start" /\ tpc[mainq[i]] = "none"
  /\ \A c \in TcpClient : cpc[c] = "start" => tpc[c] = "none"

\* Where a UDP thread serves, and where it has a datagram.
Serving == {"loop", "recv", "check", "send"}
Holding == {"check", "send"}

\* One UDP thread at a time uses ph_udp and connected_client, and it has a
\* connected client when it answers.
UdpThreadInv ==
  /\ \A u, v \in UdpThread : upc[u] # "none" /\ upc[v] # "none" => u = v
  /\ is_client_connected = 1 => \E u \in UdpThread : upc[u] \in Serving \cup {"read"}
  /\ \A u \in UdpThread :
       /\ upc[u] \in Holding => ph \in UdpClient
       /\ upc[u] = "send" => is_client_connected = 1 /\ connected_client = ph

\* A sign that does not end a session.
GoesOn(m) == m.sign \notin {QUIT, QUIT_ACK}

\* Client c has sent something that waits at the socket, or that a thread holds.
Queued(c) == \E i \in 1 .. Len(udpq) : udpq[i].from = c
Held(c) == ph = c /\ \E u \in UdpThread : upc[u] \in Holding
Told(c) == toCli[c] # <<>>

\* The session ends with a QUIT, the last thing its client sends.
QuitInv(c) ==
  /\ cpc[c] = "start" => ~Queued(c) /\ ~Held(c)
  /\ cpc[c] \in {"start", "done"} => ~Told(c)
  /\ GoesOn(cbuf[c])
  /\ \A i \in 1 .. Len(toCli[c]) : GoesOn(toCli[c][i])
  /\ cpc[c] # "done" =>
       /\ \A i \in 1 .. Len(udpq) : udpq[i].from = c => GoesOn(udpq[i].msg)
       /\ \A u \in UdpThread : upc[u] \in Holding /\ ph = c => GoesOn(ubuf[u])

\* Who is in dialogue, or is about to be, has the session.
ConnectedInv(c) ==
  flag = 1 /\ (InDialogue(c) \/ Told(c)) =>
    /\ is_client_connected = 1 /\ connected_client = c
    /\ \E u \in UdpThread : upc[u] \in Serving

\* A request that asks what client c waits for, and an answer to it.
IsRequest(c, m) == IF cpc[c] = "probing" THEN m.sign = PROBE
                                         ELSE m = Msg(DATA, asked[c])
IsAnswer(c, m) == IF cpc[c] = "probing" THEN m.sign = PROBE_ACK
                                        ELSE m = Msg(DATA, Pow3(asked[c]))

\* A client that does not time out has at most one message on its way, none
\* while its user has the turn, and what is on its way is what it waits for.
TurnInv(c) ==
  /\ cpc[c] \in {"start", "probe", "chat", "ask"} => ~Queued(c) /\ ~Held(c) /\ ~Told(c)
  /\ cpc[c] \in {"probe", "probing"} => cbuf[c].sign = PROBE
  /\ InDialogue(c) => cbuf[c].sign = DATA
  /\ cpc[c] = "ask" => cbuf[c].message = Pow3(asked[c])
  /\ cpc[c] \in {"probing", "reply"} =>
       /\ ~(Queued(c) /\ Held(c)) /\ ~(Queued(c) /\ Told(c)) /\ ~(Held(c) /\ Told(c))
       /\ \A i, j \in 1 .. Len(udpq) : udpq[i].from = c /\ udpq[j].from = c => i = j
       /\ Len(toCli[c]) <= 1
       /\ \A i \in 1 .. Len(udpq) : udpq[i].from = c => IsRequest(c, udpq[i].msg)
       /\ \A u \in UdpThread : ph = c =>
            /\ upc[u] = "check" => IsRequest(c, ubuf[u])
            /\ upc[u] = "send" => IsAnswer(c, ubuf[u])
       /\ \A i \in 1 .. Len(toCli[c]) : IsAnswer(c, toCli[c][i])

\* All of it, as long as no update of flag_udp is lost.
UdpInv == /\ UdpThreadInv
          /\ \A c \in UdpClient : QuitInv(c) /\ ConnectedInv(c)
          /\ \A c \in UdpClient \ Slow : TurnInv(c)

\* main(), the flags (server.c:77-118), the threads (phread_tcp.c:9-62,
\* phread_udp.c:8-72) and the one UDP session fit together in every state.
IInv == /\ TypeOK /\ QueueInv /\ FlagsCountThreads /\ OneTcpSession
        /\ "udp" \notin lost => UdpInv

-----------------------------------------------------------------------------
(* Liveness, under FairSpec *)

\* After Ctrl+C main() stops starting sessions (server.c:77, :85-88).
InterruptStopsAdmission == (flag = 0) ~> (mpc \in {"joinTcp", "joinUdp", "return"} \/ server # "up")

\* A TCP client in the queue is accepted once all the others are gone, however
\* they went (phread_tcp.c:14-20, :58).
NextTcpServed ==
  \A c \in TcpClient :
    (/\ \E i \in 1 .. Len(mainq) : mainq[i] = c
     /\ \A d \in TcpClient \ {c} : cpc[d] = "done")
      ~> (tpc[c] # "none" \/ "tcp" \in lost \/ flag = 0 \/ server # "up")
=============================================================================
