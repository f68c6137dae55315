--------------------------- MODULE DynamicServerProps ---------------------------
(* The properties of DynamicServer. *)
EXTENDS DynamicServer

BusySlots == {s \in Slot : status[s] = 1}

Request == [from : Client \cup {None}, msg : Message]

NetTypeOK == SocketTypeOK(Client)

MainTypeOK ==
  /\ flag \in {0, 1} /\ interrupts \in 0 .. MaxInterrupts
  /\ mpc \in {"loop", "select", "check", "admit", "bind", "reply", "refuse", "deny", "join"}
  /\ ready \subseteq {"tcp", "udp"}
  /\ cur \in Client \cup {None}
  /\ main_fd \in 0 .. FdLimit
  /\ join \in Slot

PoolTypeOK ==
  /\ flag_client \in Int
  /\ status \in [Slot -> {0, 1}]
  /\ ph \in [Slot -> Client \cup {None}]
  /\ fd_serv \in [Slot -> 0 .. FdLimit]
  /\ thread_input \in [Slot -> Client \cup {None}]
  /\ cout_thread \in Slot
  /\ locked \in BOOLEAN

WorkerTypeOK ==
  /\ wpc \in [Client -> WorkerPc]
  /\ wslot \in [Client -> Slot]
  /\ wpeer \in [Client -> Client \cup {None}]
  /\ wbuf \in [Client -> Request]
  /\ wfd \in [Client -> 0 .. FdLimit]
  /\ wfile \in [Client -> File \cup {Free}]
  /\ \A w \in Client : wpc[w] \in {"accept", "recv"} => wfile[w] \in File

FdTypeOK ==
  /\ fds \in [0 .. FdLimit -> File \cup {Free, Reserved}]
  /\ crossed \in BOOLEAN

\* Every variable has its type.
TypeOK ==
  NetTypeOK /\ ClientTypeOK /\ MainTypeOK /\ PoolTypeOK /\ WorkerTypeOK /\ FdTypeOK

-----------------------------------------------------------------------------
(* Safety *)

\* flag_client counts the free entries of ports_array: the counter main()
\* tests without the mutex (server.c:112) and the table it then searches
\* agree but for the moment between the search and flag_client-- (:135, :161).
SlotAccounting ==
  flag_client = LENGTH_CLIENT - Cardinality(BusySlots)
                  + (IF mpc = "reply" THEN 1 ELSE 0)

\* An entry is marked busy exactly while one thread has it: its session is
\* the one ph_tcp_udp describes, and no thread gives back an entry that was
\* meanwhile given to another session (phread_tcp.c:58-62).
BusyIffHeld ==
  \A s \in Slot : {w \in Client : wpc[w] \in Holding /\ wslot[w] = s}
                    = IF status[s] = 1 THEN {ph[s]} ELSE {}

\* The test flag_client > 0, made before the mutex is taken, still holds when
\* main() blocks in accept or recvfrom with the mutex held and then searches
\* the table: a client is waiting and an entry is free (server.c:112-139).
AdmitHasRoom ==
  /\ mpc = "admit" => mainq[Now] # <<>>
  /\ mpc \in {"admit", "bind"} => \E s \in Slot : status[s] = 0

\* The final loop only joins threads that were created: thread_input has no
\* gap below cout_thread (server.c:154, 239-242).
JoinsCreatedThreads ==
  \A s \in Slot : s < cout_thread => thread_input[s] # None

\* The redirect a client is sent, and the one it follows, name the entry that
\* was reserved for it, not one of a client admitted before or after
\* (server.c:130, 159), unless a descriptor was crossed.  A client whose recv
\* fails follows whatever its buffer holds instead, and that may look like a
\* redirect: recv fails only after its timeout or when the server is gone.
RedirectNamesOwnSlot ==
  ~crossed => \A c \in Client :
    LET Names(m) == m.sign = REDIRECT => wpc[c] # "none" /\ m.message = wslot[c]
    IN /\ \A i \in 1 .. Len(toCli[c]) : Names(toCli[c][i])
       /\ cpc[c] = "redirected" /\ c \notin Slow /\ server = "up" => Names(cbuf[c])

\* While the server is up, the number a client prints as the answer is the
\* cube of the number it sent, not the answer to a probe, to an earlier
\* question or to another client (client_tcp.c:34): the one way to a wrong
\* answer is a call or a close that reached another session's file through a
\* descriptor number that was given out again.
AnswerIsCube ==
  \A c \in Client :
    cpc[c] = "ask" /\ server = "up" /\ ~crossed => cbuf[c].message = Pow3(asked[c])

\* The table of ports implements SlotPool.
Pool == INSTANCE SlotPool WITH
          owner  <- [s \in Slot |-> IF status[s] = 1 THEN ph[s] ELSE None],
          served <- {c \in Client : wpc[c] # "none"}

PoolSpec == Pool!Spec

-----------------------------------------------------------------------------
(* The inductive invariant behind the safety properties. *)

\* Who is admitted once: a waiting client has its own protocol's queue, waits
\* there once, and has no thread yet.
QueueInv ==
  /\ \A c \in Client : cpc[c] = "start" => wpc[c] = "none"
  /\ \A p \in {"tcp", "udp"} : \A i \in 1 .. Len(mainq[p]) :
       /\ Proto(mainq[p][i]) = p
       /\ cpc[mainq[p][i]] # "start"
       /\ wpc[mainq[p][i]] = "none"
       /\ \A j \in 1 .. Len(mainq[p]) : mainq[p][i] = mainq[p][j] => i = j

\* Where main() has taken a client and holds the mutex.
Serves == {"bind", "reply", "deny"}

\* What main() knows at each of its steps.
MainInv ==
  /\ locked <=> mpc \in Serves
  /\ mpc \in Serves => cur \in Client /\ Proto(cur) = Now
  /\ mpc = "bind" => /\ wpc[cur] = "none" /\ cpc[cur] # "start"
                     /\ \A p \in {"tcp", "udp"} : \A i \in 1 .. Len(mainq[p]) : mainq[p][i] # cur
  /\ mpc \in {"admit", "bind"} => flag_client > 0
  /\ mpc \in {"check", "admit", "refuse"} \cup Serves => ready # {}
  /\ \A p \in ready :
       \/ mpc \in {"check", "admit", "refuse"}
       \/ mpc \in Serves /\ p # Now
       => mainq[p] # <<>>

\* BusyIffHeld, entry by entry and thread by thread.
HeldInv ==
  /\ \A w \in Client : wpc[w] \in Holding => status[wslot[w]] = 1 /\ ph[wslot[w]] = w
  /\ \A s \in Slot : status[s] = 1 =>
       ph[s] \in Client /\ wpc[ph[s]] \in Holding /\ wslot[ph[s]] = s

\* A thread was created for every busy entry and for every one below cout_thread.
CreatedInv == \A s \in Slot : status[s] = 1 \/ s < cout_thread => thread_input[s] # None

\* A thread finds some session in ph_tcp_udp, and a TCP thread that reads has
\* accepted a connection.
PeerInv ==
  /\ \A w \in Client : wpc[w] # "none" => Serving(w) \in Client
  /\ \A w \in TcpClient : wpc[w] \in {"loop", "recv", "send"} => wpeer[w] \in Client

\* What concerns main(), the table of ports and the threads.
TableInv ==
  TypeOK /\ QueueInv /\ MainInv /\ HeldInv /\ CreatedInv /\ PeerInv /\ SlotAccounting

-----------------------------------------------------------------------------
(* The invariant of the sessions: a client and its thread take turns, so     *)
(* that at most one message of a client is on its way, which is followed     *)
(* from the client (Asks) through a thread's buffer (Taken) and back (Told). *)

\* The client has not been connected to any session port yet.
Before(c) == cpc[c] \in {"start", "await", "redirected"}

\* The client has had its probe acknowledged and still runs.
Talking(c) == cpc[c] \in {"chat", "reply", "ask"}

\* Serving socket w holds a datagram of client c at place i of its queue.
HasDatagram(c, w, i) == i \in 1 .. Len(dgrams[w]) /\ dgrams[w][i].from = c

\* A request of c waits for a thread, is in a thread's buffer, or was answered.
Asks(c) == \/ toSrv[c] # <<>>
           \/ \E w \in Client : \E i \in 1 .. Len(dgrams[w]) : HasDatagram(c, w, i)
Taken(c) == \E w \in Client : wbuf[w].from = c
Told(c) == toCli[c] # <<>>

\* One socket per port: bind() refuses a second one.
PortInv == \A v, w \in Client : sock[v] # Closed /\ sock[v] = sock[w] => v = w

\* A TCP client sends on its stream, a UDP client sends datagrams.
WireInv(c) ==
  /\ c \in UdpClient => toSrv[c] = <<>>
  /\ c \in TcpClient =>
       \A w \in Client : \A i \in 1 .. Len(dgrams[w]) : ~HasDatagram(c, w, i)

\* At most one message of c is on its way, none while its user has the turn.
TurnInv(c) ==
  /\ Before(c) => ~Asks(c) /\ ~Taken(c)
  /\ cpc[c] = "redirected" => ~Told(c)
  /\ AtSession(c) =>
       /\ ~(Asks(c) /\ Taken(c)) /\ ~(Asks(c) /\ Told(c)) /\ ~(Taken(c) /\ Told(c))
       /\ cpc[c] \in {"chat", "ask"} => ~Asks(c) /\ ~Taken(c) /\ ~Told(c)
       /\ Len(toSrv[c]) <= 1 /\ Len(toCli[c]) <= 1
       /\ \A v, w \in Client :
            /\ wbuf[v].from = c /\ wbuf[w].from = c => v = w
            /\ \A i \in 1 .. Len(dgrams[v]) : \A j \in 1 .. Len(dgrams[w]) :
                 HasDatagram(c, v, i) /\ HasDatagram(c, w, j) => v = w /\ i = j

\* What is on its way between a client that waits for an answer and its thread.
ContentInv(c) ==
  /\ cpc[c] = "ask" => cbuf[c].message = Pow3(asked[c])
  /\ cpc[c] = "reply" =>
       /\ \A i \in 1 .. Len(toSrv[c]) : toSrv[c][i].message = asked[c]
       /\ \A i \in 1 .. Len(toCli[c]) : toCli[c][i].message = Pow3(asked[c])
       /\ \A w \in Client :
            /\ wbuf[w].from = c => wbuf[w].msg.message = Pow3(asked[c])
            /\ \A i \in 1 .. Len(dgrams[w]) :
                 HasDatagram(c, w, i) => dgrams[w][i].msg.message = asked[c]

\* The server holds a connection of every TCP client it has listened to.
ConnInv(c) ==
  /\ c \in TcpClient
  /\ \/ \E w \in TcpClient : wpeer[w] = c
     \/ Taken(c)
     \/ AtSession(c) /\ Told(c)
     \/ Talking(c)
  => \E p \in Slot : <<c, p>> \in conn

DialogueInv(c) == WireInv(c) /\ TurnInv(c) /\ ContentInv(c) /\ ConnInv(c)

\* The number accept() will return is kept for thread w.
AcceptInv(w) ==
  wpc[w] = "accept" =>
    /\ wfile[w] = Serv(w) /\ fds[wfd[w]] = Reserved
    /\ \A v \in Client : wpc[v] = "accept" /\ wfd[v] = wfd[w] => v = w

\* The numbers a thread uses open what it means: its descriptor is that of
\* its own connection, and so are the call it is in and the request it read.
OwnInv(w) ==
  /\ w \in TcpClient /\ wpc[w] \in {"loop", "recv", "send"} => fds[wfd[w]] = Conn(wpeer[w])
  /\ w \in TcpClient /\ wpc[w] = "send" => wbuf[w].from = wpeer[w]
  /\ wpc[w] = "recv" => wfile[w] = Meant(w)

\* The first connection of a client that waits for its redirect is still there.
AwaitInv(c) ==
  c \in TcpClient /\ cpc[c] = "await" =>
    c \in accepted \/ \E i \in 1 .. Len(mainq["tcp"]) : mainq["tcp"][i] = c

\* What descriptors are while no number was crossed.
FdInv == fds[0] = Free /\ \A w \in Client : AcceptInv(w) /\ OwnInv(w) /\ AwaitInv(w)

Undisturbed == FdInv /\ PortInv /\ \A c \in Client : DialogueInv(c)

\* All of it, while the server runs (afterwards a TCP client goes on alone),
\* and until a descriptor is crossed: then it no longer holds.
SessionInv == server = "up" /\ ~crossed => Undisturbed

\* Only main() sends redirects, and only to a client it has just admitted:
\* none is ever in the buffer of a client in a session or of a thread.
RedirectInv(c) ==
  /\ \A i \in 1 .. Len(toCli[c]) : toCli[c][i].sign = REDIRECT =>
       AtMain(c) /\ wpc[c] # "none" /\ toCli[c][i].message = wslot[c]
  /\ cbuf[c].sign = REDIRECT =>
       /\ cpc[c] = "redirected"
       /\ c \notin Slow /\ server = "up" => wpc[c] # "none" /\ cbuf[c].message = wslot[c]
  /\ \A i \in 1 .. Len(toSrv[c]) : toSrv[c][i].sign # REDIRECT
  /\ \A i \in 1 .. Len(dgrams[c]) : dgrams[c][i].msg.sign # REDIRECT
  /\ wbuf[c].msg.sign # REDIRECT
  /\ mpc = "reply" /\ cur = c => wpc[c] # "none"

RedirectsInv == ~crossed => \A c \in Client : RedirectInv(c)

IInv == TableInv /\ SessionInv /\ RedirectsInv

-----------------------------------------------------------------------------
(* Liveness, under FairSpec *)

\* After Ctrl+C main() stops admitting clients (server.c:90, 98-102).
InterruptStopsAdmission == (flag = 0) ~> (mpc = "join" \/ server # "up")

\* The entry of a TCP session is given back once its client is gone, whether
\* the client quit, gave up or died.
TcpSlotReturned ==
  \A w \in TcpClient :
    (\E c \in Client : wpc[w] = "recv" /\ wfile[w] = Conn(c) /\ cpc[c] = "done")
      ~> (wpc[w] \notin Holding \/ server # "up")

-----------------------------------------------------------------------------
(* What the documents and comments say and the code does not do *)

\* server.c:141 "новый сервер, который будет обслуживать клиента": until the
\* client it was told about arrives, the new serving socket is there.
RedirectAwaited ==
  \A c \in Client :
    cpc[c] = "redirected" /\ cbuf[c].sign = REDIRECT /\ server = "up" /\ flag = 1
      => sock[c] # Closed
=============================================================================
