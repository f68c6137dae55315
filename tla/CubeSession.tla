------------------------------- MODULE CubeSession -------------------------------
(***************************************************************************)
(* What is true of the sessions of TCP_UDP_task2 and TCP_UDP_task3 in      *)
(* every state, whichever of the two servers gave the client its thread:   *)
(* the invariant that both servers' dialogue properties rest on.           *)
(*                                                                         *)
(* A client and its thread take turns.  Between two steps of the user at   *)
(* most one message of a client is on its way, and SessionInv follows it   *)
(* from the client (Asks) through the thread's buffer (Taken) and back     *)
(* (Told).                                                                 *)
(***************************************************************************)
EXTENDS CubeServer

\* Where a thread has a serving socket, and where it has a client.
OpenPc == {"accept", "session", "recv", "send", "close"}
InDialogue == {"session", "recv", "send"}

\* The client has not been connected to any session port yet.
Before(c) == cpc[c] \in {"start", "await", "redirected"}

\* The client has had its probe acknowledged and still runs.
Talking(c) == cpc[c] \in {"chat", "reply", "ask"}

\* One socket per port: bind() refuses a second one.
PortInv == \A v, w \in Slot : sock[v] # Closed /\ sock[v] = sock[w] => v = w

\* The socket, the peer and the buffer of thread w are those of its step.
ThreadInv(w) ==
  /\ sock[w] # Closed <=> wpc[w] \in OpenPc
  /\ backlog[w] # <<>> => sock[w].proto = "tcp"
  /\ dgrams[w] # <<>> => sock[w].proto = "udp"
  /\ wpc[w] = "accept" => sock[w].proto = "tcp" /\ wpeer[w] = None
  /\ wpc[w] \in InDialogue /\ sock[w].proto = "tcp" => wpeer[w] # None
  /\ wpc[w] = "send" => wpeer[w] # None
  /\ wbuf[w].from = IF wpc[w] = "send" THEN wpeer[w] ELSE None

\* Thread w holds a datagram of client c at place i of its queue.
HasDatagram(c, w, i) == i \in 1 .. Len(dgrams[w]) /\ dgrams[w][i].from = c

\* Client c has come to the serving socket of thread w.
Reached(c, w) == \/ wpeer[w] = c
                 \/ \E i \in 1 .. Len(backlog[w]) : backlog[w][i] = c
                 \/ \E i \in 1 .. Len(dgrams[w]) : HasDatagram(c, w, i)

\* A client comes only to a socket of its protocol, and only to the one it is
\* connected to.
PlaceInv(c) ==
  \A w \in Slot :
    Reached(c, w) => /\ ~Before(c)
                     /\ sock[w].proto = Proto(c)
                     /\ AtSession(c) => sock[w].port = cport[c]

\* A request of c waits for a thread, is in a thread's buffer, or was answered.
Asks(c) == \/ toSrv[c] # <<>>
           \/ \E w \in Slot : \E i \in 1 .. Len(dgrams[w]) : HasDatagram(c, w, i)
Taken(c) == \E w \in Slot : wbuf[w].from = c
Told(c) == toCli[c] # <<>>

\* At most one message of c is on its way, none while its user has the turn.
TurnInv(c) ==
  /\ Before(c) \/ c \in UdpClient => toSrv[c] = <<>>
  /\ cpc[c] = "redirected" => ~Told(c)
  /\ AtSession(c) =>
       /\ ~(Asks(c) /\ Taken(c)) /\ ~(Asks(c) /\ Told(c)) /\ ~(Taken(c) /\ Told(c))
       /\ cpc[c] \in {"chat", "ask"} => ~Asks(c) /\ ~Taken(c) /\ ~Told(c)
       /\ Len(toSrv[c]) <= 1 /\ Len(toCli[c]) <= 1
       /\ \A w \in Slot : \A i, j \in 1 .. Len(dgrams[w]) :
            HasDatagram(c, w, i) /\ HasDatagram(c, w, j) => i = j

\* A sign that does not end a session.
GoesOn(m) == m.sign \notin {QUIT, QUIT_ACK}

\* A request that asks what client c asked, and an answer to it.
IsRequest(c, m) == GoesOn(m) /\ m.message = asked[c]
IsAnswer(c, m) == GoesOn(m) /\ m.message = Pow3(asked[c])

\* What is on its way between a client that waits for an answer and its thread.
ContentInv(c) ==
  /\ Talking(c) => GoesOn(cbuf[c])
  /\ cpc[c] = "ask" => cbuf[c].message = Pow3(asked[c])
  /\ cpc[c] = "reply" =>
       /\ \A i \in 1 .. Len(toSrv[c]) : IsRequest(c, toSrv[c][i])
       /\ \A i \in 1 .. Len(toCli[c]) : IsAnswer(c, toCli[c][i])
       /\ \A w \in Slot :
            /\ wbuf[w].from = c => IsAnswer(c, wbuf[w].msg)
            /\ \A i \in 1 .. Len(dgrams[w]) :
                 HasDatagram(c, w, i) => IsRequest(c, dgrams[w][i].msg)

\* The server holds a connection of every TCP client it has ever listened to.
ConnInv(c) ==
  /\ c \in TcpClient
  /\ \/ \E w \in Slot : wpeer[w] = c
     \/ AtSession(c) /\ Told(c)
     \/ Talking(c)
  => \E p \in Slot : <<c, p>> \in conn

\* A client that talks to the server, or is about to, has a thread.
ServedInv(c) ==
  /\ flag = 1
  /\ Talking(c) \/ (cpc[c] = "probing" /\ Told(c) /\ toCli[c][1].sign # QUIT_ACK)
  => \E w \in Slot : wpeer[w] = c /\ wpc[w] \in InDialogue

ClientInv(c) == PlaceInv(c) /\ TurnInv(c) /\ ContentInv(c) /\ ConnInv(c) /\ ServedInv(c)

\* All of it, while the server runs: afterwards a TCP client goes on alone.
LiveInv == /\ PortInv
           /\ \A w \in Slot : ThreadInv(w)
           /\ \A c \in Client : ClientInv(c)
SessionInv == server = "up" => LiveInv
=============================================================================
