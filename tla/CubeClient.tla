------------------------------- MODULE CubeClient -------------------------------
(***************************************************************************)
(* The client programs client_tcp and client_udp of TCP_UDP_task1, task2   *)
(* and task3 (the same code in all three, but for printed text), each run  *)
(* of one being an element of Client.                                      *)
(*                                                                         *)
(*   start -> await -> redirected -> probing -> chat <-> reply -> ask      *)
(*                                                 ^---------------'       *)
(* and "done" from anywhere: the process has ended, whatever the reason.   *)
(***************************************************************************)
EXTENDS CubeSockets

CONSTANTS
  Data,       \* the numbers a user may type
  Garbage,    \* what an uninitialised `sign buffer` may hold
  Slow,       \* clients whose recv may run into its 10 s timeout
  Killable    \* clients the user may kill at any moment

ASSUME DataAssumption == Data \subseteq Int /\ Garbage \subseteq Message
ASSUME ClientSubsetAssumption == Slow \subseteq Client /\ Killable \subseteq Client

VARIABLES
  cpc,      \* cpc[c]: where client c is
  cbuf,     \* cbuf[c]: its `buffer`
  cport,    \* cport[c]: the port its session socket is connected to
  tries,    \* tries[c]: `index` of the probing loop
  asked,    \* asked[c]: `message`, the number it sent last
  refused   \* refused[c]: an ICMP port-unreachable is pending on its UDP socket

clientVars == <<cpc, cbuf, cport, tries, asked, refused>>

ClientPc == {"start", "await", "redirected", "probing", "chat", "reply", "ask", "done"}

\* The types of the kernel's variables; X is the set of serving sockets.
SocketTypeOK(X) ==
  /\ server \in {"up", "exited", "failed"}
  /\ mainq \in [{"tcp", "udp"} -> Seq(Client)]
  /\ accepted \subseteq Client /\ conn \subseteq Client \X Slot
  /\ sock \in [X -> SocketState]
  /\ backlog \in [X -> Seq(Client)]
  /\ dgrams \in [X -> Seq([from : Client, msg : Message])]
  /\ toSrv \in [Client -> Seq(Message)] /\ toCli \in [Client -> Seq(Message)]

ClientTypeOK == /\ cpc \in [Client -> ClientPc]
                /\ cbuf \in [Client -> Message]
                /\ cport \in [Client -> Int]
                /\ tries \in [Client -> 0 .. 4]
                /\ asked \in [Client -> Int]
                /\ refused \in [Client -> BOOLEAN]

ClientInit == /\ cpc = [c \in Client |-> "start"]
              /\ cbuf = [c \in Client |-> ZeroMsg]
              /\ cport = [c \in Client |-> LENGTH_CLIENT]
              /\ tries = [c \in Client |-> 0]
              /\ asked = [c \in Client |-> 0]
              /\ refused = [c \in Client |-> FALSE]

-----------------------------------------------------------------------------
\* The endpoint of c that a message from the main (session) port reaches.
AtMain(c) == cpc[c] = "await"
AtSession(c) == cpc[c] \in {"probing", "chat", "reply", "ask"}

\* Process c ends; its endpoint and what was queued at it disappear.  On a
\* session stream, bytes it never read are answered with a reset.
Ends(c) == /\ cpc' = [cpc EXCEPT ![c] = "done"]
           /\ cbuf' = [cbuf EXCEPT ![c] = ZeroMsg]
           /\ cport' = [cport EXCEPT ![c] = LENGTH_CLIENT]
           /\ tries' = [tries EXCEPT ![c] = 0]
           /\ asked' = [asked EXCEPT ![c] = 0]
           /\ refused' = [refused EXCEPT ![c] = FALSE]
           /\ toCli' = IF c \in TcpClient /\ AtSession(c)
                       THEN toCli ELSE [toCli EXCEPT ![c] = <<>>]

\* A message from port 8080 or 8079 to client c.
SendMain(c, m) == toCli' = IF AtMain(c) THEN [toCli EXCEPT ![c] = Append(@, m)] ELSE toCli

\* A message from a session to client c.  A stream whose client has ended
\* takes it too, and draws a reset.
SendClient(c, m) ==
  toCli' = IF AtSession(c) \/ (c \in TcpClient /\ cpc[c] = "done")
           THEN [toCli EXCEPT ![c] = Append(@, m)] ELSE toCli

\* The session stream of c was reset: the server's end is no longer connected
\* and has given up its port, though its descriptor is still open.
Reset(c) == c \in TcpClient /\ cpc[c] = "done" /\ toCli[c] # <<>>

\* bind() fails with EADDRINUSE: SO_REUSEADDR is never set, so a listening
\* socket, or a connection accepted from one, still occupies the port.  What
\* is never closed gives it up only when it is reset, as QUIT_ACK does to the
\* connection of a client that quit.
PortInUse(proto, p) == \/ SocketsAt(proto, p) # {}
                       \/ proto = "tcp" /\ \E c \in Client : <<c, p>> \in conn /\ ~Reset(c)

\* Message m reaches the socket that port p names at this moment.
Deliver(c, m, p) ==
  IF c \in TcpClient
  THEN toSrv' = [toSrv EXCEPT ![c] = Append(@, m)] /\ UNCHANGED dgrams
  ELSE /\ dgrams' = [x \in DOMAIN dgrams |->
                       IF x \in UdpAt(p) THEN Append(dgrams[x], [from |-> c, msg |-> m])
                                         ELSE dgrams[x]]
       /\ UNCHANGED toSrv

\* send(fd, m) on the session socket of c, connected to port p.  A datagram
\* for a port nobody is bound to comes back as an error of the next call.
SendSession(c, m, p) ==
  /\ Deliver(c, m, p)
  /\ refused' = [refused EXCEPT ![c] = c \in UdpClient /\ UdpAt(p) = {}]

\* How a recv on the session socket of c may end without a message: the
\* orderly end of the stream (0), a reset or an ICMP error (-1), or the
\* SO_RCVTIMEO timeout (-1, EAGAIN).  Bytes the server did not read before it
\* closed make a reset likely, but not certain: the end of the stream may
\* have come first.
AtEof(c) == c \in TcpClient /\ ~SessionUp(c)
Broken(c) == AtEof(c) /\ toSrv[c] # <<>>
InError(c) == IF c \in TcpClient THEN Broken(c) ELSE refused[c]
TimesOut(c) == c \in Slow /\ ~AtEof(c) /\ ~InError(c)

-----------------------------------------------------------------------------
(* main() up to connect_in_server, and the probe a UDP client sends first. *)
StartTcp(c) ==
  /\ c \in TcpClient /\ cpc[c] = "start"
  /\ server = "up" /\ Len(mainq["tcp"]) <= Backlog
  /\ mainq' = [mainq EXCEPT !["tcp"] = Append(@, c)]
  /\ cpc' = [cpc EXCEPT ![c] = "await"]
  /\ UNCHANGED <<server, accepted, sock, backlog, dgrams, conn, toSrv, toCli,
                 cbuf, cport, tries, asked, refused>>

StartUdp(c) ==
  /\ c \in UdpClient /\ cpc[c] = "start"
  /\ server = "up"
  /\ mainq' = [mainq EXCEPT !["udp"] = Append(@, c)]
  /\ cpc' = [cpc EXCEPT ![c] = "await"]
  /\ UNCHANGED <<server, accepted, sock, backlog, dgrams, conn, toSrv, toCli,
                 cbuf, cport, tries, asked, refused>>

(* recv of the redirect.  Its status is ignored: when it fails the client  *)
(* goes on with whatever `buffer` holds, which a TCP client never set and  *)
(* of which a UDP client set only the sign.                                *)
Follow(c, m) ==
  IF m.sign = LIMIT
  THEN Ends(c)
  ELSE /\ cbuf' = [cbuf EXCEPT ![c] = m]
       /\ toCli' = [toCli EXCEPT ![c] = <<>>]
       /\ cpc' = [cpc EXCEPT ![c] = "redirected"]
       /\ UNCHANGED <<cport, tries, asked, refused>>

RecvRedirect(c) ==
  /\ cpc[c] = "await"
  /\ toCli[c] # <<>>
  /\ Follow(c, Head(toCli[c]))
  /\ UNCHANGED <<server, mainq, accepted, sock, backlog, dgrams, conn, toSrv>>

RecvRedirectFails(c) ==
  /\ cpc[c] = "await"
  /\ toCli[c] = <<>>
  /\ c \in Slow \/ server # "up"
  /\ \E g \in Garbage :
       Follow(c, IF c \in TcpClient THEN g ELSE Msg(PROBE, g.message))
  /\ UNCHANGED <<server, mainq, accepted, sock, backlog, dgrams, conn, toSrv>>

-----------------------------------------------------------------------------
\* What the client sends first on its session socket.
FirstProbe(m) == IF m.sign = REDIRECT THEN Msg(PROBE, 0) ELSE m

(* The second half of connect_in_server: connect to the announced port and *)
(* send the first probe; a TCP connect waits while the backlog is full.    *)
ConnectSessionTcp(c) ==
  /\ c \in TcpClient /\ cpc[c] = "redirected" /\ server = "up"
  /\ \E x \in SocketsAt("tcp", cbuf[c].message) :
       /\ Len(backlog[x]) <= Backlog
       /\ backlog' = [backlog EXCEPT ![x] = Append(@, c)]
  /\ cport' = [cport EXCEPT ![c] = cbuf[c].message]
  /\ cbuf' = [cbuf EXCEPT ![c] = FirstProbe(@)]
  /\ SendSession(c, FirstProbe(cbuf[c]), cbuf[c].message)
  /\ cpc' = [cpc EXCEPT ![c] = "probing"]
  /\ UNCHANGED <<server, mainq, accepted, sock, conn, toCli, tries, asked>>

ConnectSessionRefused(c) ==
  /\ c \in TcpClient /\ cpc[c] = "redirected"
  /\ server # "up" \/ SocketsAt("tcp", cbuf[c].message) = {}
  /\ Ends(c)
  /\ UNCHANGED <<server, mainq, accepted, sock, backlog, dgrams, conn, toSrv>>

ConnectSessionUdp(c) ==
  /\ c \in UdpClient /\ cpc[c] = "redirected"
  /\ cport' = [cport EXCEPT ![c] = cbuf[c].message]
  /\ cbuf' = [cbuf EXCEPT ![c] = FirstProbe(@)]
  /\ SendSession(c, FirstProbe(cbuf[c]), cbuf[c].message)
  /\ cpc' = [cpc EXCEPT ![c] = "probing"]
  /\ UNCHANGED <<server, mainq, accepted, sock, backlog, conn, toCli, tries, asked>>

\* Bug: the buffer is sent back before its sign is tested.
RecvProbeAckAnswers(c) ==
  /\ cpc[c] = "probing" /\ toCli[c] # <<>> /\ ~refused[c]
  /\ Head(toCli[c]).sign = PROBE_ACK
  /\ cbuf' = [cbuf EXCEPT ![c] = Msg(DATA, Head(toCli[c]).message)]
  /\ SendSession(c, Msg(DATA, Head(toCli[c]).message), cport[c])
  /\ toCli' = [toCli EXCEPT ![c] = Tail(@)]
  /\ cpc' = [cpc EXCEPT ![c] = "chat"]
  /\ tries' = [tries EXCEPT ![c] = 0]
  /\ UNCHANGED <<server, mainq, accepted, sock, backlog, conn, cport, asked>>

(* One turn of the probing loop.  The probe is not sent again after a      *)
(* timeout, and the client gives up after four turns.                      *)
RecvProbeAck(c) ==
  /\ cpc[c] = "probing" /\ toCli[c] # <<>> /\ ~refused[c]
  /\ Head(toCli[c]).sign = PROBE_ACK
  /\ cbuf' = [cbuf EXCEPT ![c] = Msg(DATA, Head(toCli[c]).message)]
  /\ toCli' = [toCli EXCEPT ![c] = Tail(@)]
  /\ cpc' = [cpc EXCEPT ![c] = "chat"]
  /\ tries' = [tries EXCEPT ![c] = 0]
  /\ UNCHANGED <<server, mainq, accepted, sock, backlog, dgrams, conn, toSrv,
                 cport, asked, refused>>

RecvOtherAck(c) ==
  /\ cpc[c] = "probing" /\ toCli[c] # <<>> /\ ~refused[c]
  /\ Head(toCli[c]).sign # PROBE_ACK
  /\ LET m == FirstProbe(Head(toCli[c]))
     IN /\ SendSession(c, m, cport[c])
        /\ cbuf' = [cbuf EXCEPT ![c] = m]
  /\ toCli' = [toCli EXCEPT ![c] = Tail(@)]
  /\ tries' = [tries EXCEPT ![c] = @ + 1]
  /\ tries[c] < 4
  /\ UNCHANGED <<server, mainq, accepted, sock, backlog, conn, cpc, cport, asked>>

ProbeTimesOut(c) ==
  /\ cpc[c] = "probing" /\ toCli[c] = <<>> /\ tries[c] < 4
  /\ TimesOut(c) \/ AtEof(c)
  /\ tries' = [tries EXCEPT ![c] = @ + 1]
  /\ UNCHANGED <<netVars, cpc, cbuf, cport, asked, refused>>

ProbeGivesUp(c) ==
  /\ cpc[c] = "probing"
  /\ \/ tries[c] = 4
     \/ toCli[c] = <<>> /\ InError(c)
  /\ Ends(c)
  /\ UNCHANGED <<server, mainq, accepted, sock, backlog, dgrams, conn, toSrv>>

-----------------------------------------------------------------------------
(* The dialogue with the user in main(). *)
Ask(c) ==
  /\ cpc[c] = "chat" /\ ~Broken(c)
  /\ \E m \in Data :
       /\ asked' = [asked EXCEPT ![c] = m]
       /\ cbuf' = [cbuf EXCEPT ![c] = Msg(@.sign, m)]
       /\ SendSession(c, Msg(cbuf[c].sign, m), cport[c])
  /\ cpc' = [cpc EXCEPT ![c] = "reply"]
  /\ UNCHANGED <<server, mainq, accepted, sock, backlog, conn, toCli, cport, tries>>

\* A second send after the server closed the connection raises SIGPIPE.
AskBroken(c) ==
  /\ cpc[c] = "chat" /\ Broken(c)
  /\ Ends(c)
  /\ UNCHANGED <<server, mainq, accepted, sock, backlog, dgrams, conn, toSrv>>

RecvAnswer(c) ==
  /\ cpc[c] = "reply" /\ toCli[c] # <<>> /\ ~refused[c]
  /\ cbuf' = [cbuf EXCEPT ![c] = Head(toCli[c])]
  /\ toCli' = [toCli EXCEPT ![c] = Tail(@)]
  /\ cpc' = [cpc EXCEPT ![c] = "ask"]
  /\ UNCHANGED <<server, mainq, accepted, sock, backlog, dgrams, conn, toSrv,
                 cport, tries, asked, refused>>

\* recv returns 0, which is not -1: the client goes on with the buffer it
\* sent and prints its own number as the cube.
RecvEofAsAnswer(c) ==
  /\ cpc[c] = "reply" /\ toCli[c] = <<>> /\ AtEof(c)
  /\ cpc' = [cpc EXCEPT ![c] = "ask"]
  /\ UNCHANGED <<netVars, cbuf, cport, tries, asked, refused>>

AnswerFails(c) ==
  /\ cpc[c] = "reply" /\ toCli[c] = <<>>
  /\ InError(c) \/ TimesOut(c)
  /\ Ends(c)
  /\ UNCHANGED <<server, mainq, accepted, sock, backlog, dgrams, conn, toSrv>>

Again(c) ==
  /\ cpc[c] = "ask"
  /\ cpc' = [cpc EXCEPT ![c] = "chat"]
  /\ UNCHANGED <<netVars, cbuf, cport, tries, asked, refused>>

\* The user answers "exit": QUIT carries the last answer, and the client
\* ends without waiting for QUIT_ACK.
Quit(c) ==
  /\ cpc[c] = "ask"
  /\ Deliver(c, Msg(QUIT, cbuf[c].message), cport[c])
  /\ Ends(c)
  /\ UNCHANGED <<server, mainq, accepted, sock, backlog, conn>>

\* The client process dies without a word.
Kill(c) ==
  /\ c \in Killable /\ cpc[c] \notin {"start", "done"}
  /\ Ends(c)
  /\ UNCHANGED <<server, mainq, accepted, sock, backlog, dgrams, conn, toSrv>>

\* The steps a client takes by itself ...
ClientStep(c) ==
  \/ RecvRedirect(c) \/ RecvRedirectFails(c)
  \/ ConnectSessionTcp(c) \/ ConnectSessionRefused(c) \/ ConnectSessionUdp(c)
  \/ RecvProbeAck(c) \/ RecvOtherAck(c) \/ ProbeTimesOut(c) \/ ProbeGivesUp(c)
  \/ RecvAnswer(c) \/ RecvEofAsAnswer(c) \/ AnswerFails(c)

\* ... and those its user decides on.
UserStep(c) ==
  \/ StartTcp(c) \/ StartUdp(c)
  \/ Ask(c) \/ AskBroken(c) \/ Again(c) \/ Quit(c)
  \/ Kill(c)
=============================================================================
