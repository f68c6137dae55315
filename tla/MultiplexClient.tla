----------------------------- MODULE MultiplexClient -----------------------------
(***************************************************************************)
(* The clients of Multiplexed_TCP_UDP and the sockets between them and the *)
(* server.  There is no redirect: client_tcp talks over the connection     *)
(* main() accepts, client_udp with the server's one UDP socket.            *)
(*                                                                         *)
(*   start -> (probe ->) probing -> chat <-> reply -> ask -> chat | done   *)
(*                                                                         *)
(* A client is one run of a program; a connection and its descriptor are   *)
(* named by the client.  Datagrams and bytes are neither lost nor          *)
(* reordered on the loopback interface the addresses name.                 *)
(***************************************************************************)
EXTENDS Cube, Sequences, FiniteSets

CONSTANTS
  TcpClient,   \* runs of client_tcp
  UdpClient,   \* runs of client_udp
  None,        \* no client
  Backlog,     \* connections the listening socket queues: listen(fd, 1)
  Data,        \* the numbers a user may type
  Slow,        \* clients whose recv may run into its 10 s timeout
  Killable     \* clients the user may kill at any moment

ASSUME ClientAssumption == /\ IsFiniteSet(TcpClient) /\ IsFiniteSet(UdpClient)
                           /\ TcpClient \cap UdpClient = {}
                           /\ None \notin TcpClient \cup UdpClient
ASSUME UserAssumption == /\ Backlog \in Nat /\ Data \subseteq Int
                         /\ Slow \cup Killable \subseteq TcpClient \cup UdpClient

Client == TcpClient \cup UdpClient

VARIABLES
  server,   \* "up", "exited" or "failed"
  mainq,    \* connections waiting on port 8080
  open,     \* clients whose accepted connection has an open descriptor
  wfd,      \* wfd[w]: the connection TCP thread w is blocked in recv on
  udpq,     \* datagrams waiting on port 8081
  toSrv,    \* toSrv[c]: messages c sent over TCP that nobody has read
  toCli,    \* toCli[c]: messages waiting at c's socket
  cpc,      \* cpc[c]: where client c is
  cbuf,     \* cbuf[c]: its `buffer`
  tries,    \* tries[c]: `index` of connect_in_server
  asked,    \* asked[c]: `message`, the number it sent last
  refused   \* refused[c]: an ICMP port-unreachable is pending on its UDP socket

netVars == <<server, mainq, open, wfd, udpq, toSrv, toCli>>
clientVars == <<cpc, cbuf, tries, asked, refused>>

ClientPc == {"start", "probe", "probing", "chat", "reply", "ask", "done"}

\* Clients in the dialogue of main(), after the server acknowledged a probe.
InDialogue(c) == cpc[c] \in {"chat", "reply", "ask"}

ClientInit == /\ mainq = <<>> /\ open = {} /\ udpq = <<>>
              /\ wfd = [w \in TcpClient |-> None]
              /\ toSrv = [c \in TcpClient |-> <<>>]
              /\ toCli = [c \in Client |-> <<>>]
              /\ cpc = [c \in Client |-> "start"]
              /\ cbuf = [c \in Client |-> ZeroMsg]
              /\ tries = [c \in Client |-> 0]
              /\ asked = [c \in Client |-> 0]
              /\ refused = [c \in Client |-> FALSE]

-----------------------------------------------------------------------------
\* Process c ends; its socket and what was queued at it disappear.
Ends(c) == /\ cpc' = [cpc EXCEPT ![c] = "done"]
           /\ cbuf' = [cbuf EXCEPT ![c] = ZeroMsg]
           /\ tries' = [tries EXCEPT ![c] = 0]
           /\ asked' = [asked EXCEPT ![c] = 0]
           /\ refused' = [refused EXCEPT ![c] = FALSE]
           /\ toCli' = [toCli EXCEPT ![c] = <<>>]

\* Message m of client c reaches the server's socket.
Deliver(c, m) ==
  /\ toSrv' = IF c \in TcpClient THEN [toSrv EXCEPT ![c] = Append(@, m)] ELSE toSrv
  /\ udpq' = IF c \in UdpClient /\ server = "up"
             THEN Append(udpq, [from |-> c, msg |-> m]) ELSE udpq

\* send(fd, m); a datagram for a server that is gone comes back as an error.
SendServer(c, m) ==
  /\ Deliver(c, m)
  /\ refused' = [refused EXCEPT ![c] = c \in UdpClient /\ server # "up"]

\* The connection of c has a peer: a queued connection, an open descriptor,
\* or a recv that still holds the file after its descriptor was closed.
SessionUp(c) == /\ server = "up"
                /\ \/ \E i \in 1 .. Len(mainq) : mainq[i] = c
                   \/ c \in open
                   \/ \E w \in TcpClient : wfd[w] = c

\* How recv may end without a message: 0, -1, or -1 after the timeout.
AtEof(c) == c \in TcpClient /\ ~SessionUp(c)
Broken(c) == AtEof(c) /\ toSrv[c] # <<>>
InError(c) == IF c \in TcpClient THEN Broken(c) ELSE refused[c]
TimesOut(c) == c \in Slow /\ ~AtEof(c) /\ ~InError(c)

-----------------------------------------------------------------------------
(* main() and connect_in_server *)

\* connect, and the one probe a TCP client sends.
StartTcp(c) ==
  /\ c \in TcpClient /\ cpc[c] = "start" /\ server = "up" /\ Len(mainq) <= Backlog
  /\ mainq' = Append(mainq, c)
  /\ cbuf' = [cbuf EXCEPT ![c] = Msg(PROBE, 0)]
  /\ SendServer(c, Msg(PROBE, 0))
  /\ cpc' = [cpc EXCEPT ![c] = "probing"]
  /\ UNCHANGED <<server, open, wfd, toCli, tries, asked>>

StartUdp(c) ==
  /\ c \in UdpClient /\ cpc[c] = "start" /\ server = "up"
  /\ cbuf' = [cbuf EXCEPT ![c] = Msg(PROBE, 0)]
  /\ cpc' = [cpc EXCEPT ![c] = "probe"]
  /\ UNCHANGED <<netVars, tries, asked, refused>>

\* Bug: the first probe is sent before the loop too, as client_tcp does.
SendProbeTwice(c) ==
  /\ cpc[c] = "probe" /\ tries[c] < 4
  /\ refused' = [refused EXCEPT ![c] = server # "up"]
  /\ udpq' = LET d == [from |-> c, msg |-> cbuf[c]]
             IN IF server # "up" THEN udpq
                ELSE udpq \o (IF tries[c] = 0 THEN <<d, d>> ELSE <<d>>)
  /\ cpc' = [cpc EXCEPT ![c] = "probing"]
  /\ UNCHANGED <<server, mainq, open, wfd, toSrv, toCli, cbuf, tries, asked>>

\* A UDP client sends its buffer in every turn of the loop.
SendProbe(c) ==
  /\ cpc[c] = "probe" /\ tries[c] < 4
  /\ SendServer(c, cbuf[c])
  /\ cpc' = [cpc EXCEPT ![c] = "probing"]
  /\ UNCHANGED <<server, mainq, open, wfd, toCli, cbuf, tries, asked>>

\* The next turn of the loop.
NextTurn(c) == /\ tries[c] < 4
               /\ tries' = [tries EXCEPT ![c] = @ + 1]
               /\ cpc' = [cpc EXCEPT ![c] = IF c \in UdpClient THEN "probe" ELSE "probing"]

RecvProbe(c) ==
  /\ cpc[c] = "probing" /\ toCli[c] # <<>> /\ ~refused[c]
  /\ LET m == Head(toCli[c])
     IN IF m.sign = PROBE_ACK
        THEN /\ cbuf' = [cbuf EXCEPT ![c] = Msg(DATA, m.message)]
             /\ tries' = [tries EXCEPT ![c] = 0]
             /\ cpc' = [cpc EXCEPT ![c] = "chat"]
        ELSE /\ cbuf' = [cbuf EXCEPT ![c] = m]
             /\ NextTurn(c)
  /\ toCli' = [toCli EXCEPT ![c] = Tail(@)]
  /\ UNCHANGED <<server, mainq, open, wfd, udpq, toSrv, asked, refused>>

ProbeTimesOut(c) ==
  /\ cpc[c] = "probing" /\ toCli[c] = <<>> /\ TimesOut(c)
  /\ NextTurn(c)
  /\ UNCHANGED <<netVars, cbuf, asked, refused>>

ProbeGivesUp(c) ==
  /\ cpc[c] \in {"probe", "probing"}
  /\ \/ tries[c] = 4
     \/ cpc[c] = "probing" /\ toCli[c] = <<>> /\ (AtEof(c) \/ InError(c))
  /\ Ends(c)
  /\ UNCHANGED <<server, mainq, open, wfd, udpq, toSrv>>

-----------------------------------------------------------------------------
(* The dialogue in main() *)
Ask(c) ==
  /\ cpc[c] = "chat" /\ ~Broken(c)
  /\ \E m \in Data :
       /\ asked' = [asked EXCEPT ![c] = m]
       /\ cbuf' = [cbuf EXCEPT ![c] = Msg(@.sign, m)]
       /\ SendServer(c, Msg(cbuf[c].sign, m))
  /\ cpc' = [cpc EXCEPT ![c] = "reply"]
  /\ UNCHANGED <<server, mainq, open, wfd, toCli, tries>>

\* A second send after the server closed the connection raises SIGPIPE.
AskBroken(c) ==
  /\ cpc[c] = "chat" /\ Broken(c)
  /\ Ends(c)
  /\ UNCHANGED <<server, mainq, open, wfd, udpq, toSrv>>

RecvAnswer(c) ==
  /\ cpc[c] = "reply" /\ toCli[c] # <<>> /\ ~refused[c]
  /\ cbuf' = [cbuf EXCEPT ![c] = Head(toCli[c])]
  /\ toCli' = [toCli EXCEPT ![c] = Tail(@)]
  /\ cpc' = [cpc EXCEPT ![c] = "ask"]
  /\ UNCHANGED <<server, mainq, open, wfd, udpq, toSrv, tries, asked, refused>>

\* recv returns 0, which is not -1: the client prints the number it sent.
RecvEofAsAnswer(c) ==
  /\ cpc[c] = "reply" /\ toCli[c] = <<>> /\ AtEof(c)
  /\ cpc' = [cpc EXCEPT ![c] = "ask"]
  /\ UNCHANGED <<netVars, cbuf, tries, asked, refused>>

AnswerFails(c) ==
  /\ cpc[c] = "reply" /\ toCli[c] = <<>>
  /\ InError(c) \/ TimesOut(c)
  /\ Ends(c)
  /\ UNCHANGED <<server, mainq, open, wfd, udpq, toSrv>>

Again(c) ==
  /\ cpc[c] = "ask"
  /\ cpc' = [cpc EXCEPT ![c] = "chat"]
  /\ UNCHANGED <<netVars, cbuf, tries, asked, refused>>

Quit(c) ==
  /\ cpc[c] = "ask"
  /\ Deliver(c, Msg(QUIT, cbuf[c].message))
  /\ Ends(c)
  /\ UNCHANGED <<server, mainq, open, wfd>>

Kill(c) ==
  /\ c \in Killable /\ cpc[c] \notin {"start", "done"}
  /\ Ends(c)
  /\ UNCHANGED <<server, mainq, open, wfd, udpq, toSrv>>

ClientStep(c) ==
  \/ SendProbe(c) \/ RecvProbe(c) \/ ProbeTimesOut(c) \/ ProbeGivesUp(c)
  \/ RecvAnswer(c) \/ RecvEofAsAnswer(c) \/ AnswerFails(c)

UserStep(c) ==
  \/ StartTcp(c) \/ StartUdp(c)
  \/ Ask(c) \/ AskBroken(c) \/ Again(c) \/ Quit(c)
  \/ Kill(c)
=============================================================================
