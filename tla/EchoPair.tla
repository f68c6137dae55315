-------------------------------- MODULE EchoPair --------------------------------
(***************************************************************************)
(* The AF_Inet and AF_Local pairs.  A server handles one conversation and  *)
(* ends: it answers a first message with "hi" and a second one with "yes"  *)
(* (over datagrams only if it was "exit").  A client sends "hello", waits, *)
(* sends "exit", waits, and ends.  Nobody tests whom a message is from,    *)
(* and the stream programs test no result: bind, listen, accept or connect *)
(* may have failed, and num_bytes be -1 when buffer[num_bytes] is written. *)
(***************************************************************************)
EXTENDS Integers, Sequences

CONSTANTS
  Client,    \* runs of the client program
  Nobody,    \* no client: not in Client
  Mortal     \* clients the user may kill, some of Client

VARIABLES
  program,   \* the directory whose programs run
  bound,     \* the server's bind() succeeded, and for a stream its listen()
  srv,       \* where the server is
  peer,      \* its `client' (datagrams) or client_fd (streams; -1: Nobody)
  mail,      \* datagrams waiting at its socket, or connections to accept
  sent,      \* sent[c]: bytes of c's stream the server has not read
  path,      \* local datagrams: who is bound to SOCKET_PATH_CLIENT
  cli,       \* cli[c]: where client c is
  linked,    \* stream clients whose connect() found the server
  got,       \* got[c]: messages waiting at c's socket
  heard,     \* heard[c]: what it has received
  spoiled    \* processes that wrote buffer[-1]

srvVars == <<bound, srv, peer, mail>>
cliVars == <<path, linked, heard>>
vars == <<program, srvVars, sent, cli, got, cliVars, spoiled>>

EchoProgram == {"AF_Inet_Sock_Dgram", "AF_Local_Sock_Dgram",
                "AF_Inet_Sock_Stream", "AF_Local_Sock_Stream"}

Dgram == program \in {"AF_Inet_Sock_Dgram", "AF_Local_Sock_Dgram"}
Stream == program \in {"AF_Inet_Sock_Stream", "AF_Local_Sock_Stream"}
Local == program \in {"AF_Local_Sock_Dgram", "AF_Local_Sock_Stream"}

\* Nothing has happened yet ...
Fresh == /\ peer = Nobody /\ mail = <<>>
         /\ sent = [c \in Client |-> <<>>] /\ got = [c \in Client |-> <<>>]
         /\ path = Nobody /\ linked = {} /\ spoiled = {}
         /\ heard = [c \in Client |-> <<>>]

\* ... or these programs do not run at all.
Off == Fresh /\ bound = TRUE /\ srv = "done" /\ cli = [c \in Client |-> "off"]

\* The server has called bind: a datagram server tests the result and ends.
Init == /\ program \in EchoProgram /\ Fresh /\ bound \in BOOLEAN
        /\ srv = IF bound \/ Stream THEN "accept" ELSE "failed"
        /\ cli = [c \in Client |-> "start"]

\* "done": main() returned.  "failed": exit(EXIT_FAILURE), or a signal.
Up == srv \notin {"done", "failed"}
Gone(c) == cli[c] \in {"done", "failed"}
Alive(c) == cli[c] \notin {"off", "start"} /\ ~Gone(c)

CliGoto(c, pc) == cli' = [cli EXCEPT ![c] = pc]

-----------------------------------------------------------------------------
(* The server *)

Receiving == srv \in {"recv1", "recv2"}
Sending == srv \in {"send1", "send2"}
Answer == IF srv = "send1" THEN "hi" ELSE "yes"
Sent == IF srv = "send1" THEN "recv2" ELSE "done"

\* accept; a datagram server goes on at once.
Accept ==
  /\ srv = "accept" /\ srv' = "recv1"
  /\ \/ Dgram /\ UNCHANGED <<peer, mail>>
     \/ Stream /\ mail # <<>> /\ peer' = Head(mail) /\ mail' = Tail(mail)
  /\ UNCHANGED <<program, bound, sent, cli, got, cliVars, spoiled>>

\* accept fails: no connection can come to it, or no descriptor is left.
AcceptFails ==
  /\ Stream /\ srv = "accept" /\ srv' = "recv1"
  /\ peer' = Nobody
  /\ UNCHANGED <<program, bound, mail, sent, cli, got, cliVars, spoiled>>

\* Bug: the second message is not compared with "exit".
RecvFromAny ==
  /\ Dgram /\ Receiving /\ mail # <<>>
  /\ peer' = Head(mail).from /\ mail' = Tail(mail)
  /\ srv' = IF srv = "recv1" THEN "send1" ELSE "send2"
  /\ UNCHANGED <<program, bound, sent, cli, got, cliVars, spoiled>>

\* Bug: "exit" is looked for in the first message.
RecvFromFirst ==
  /\ Dgram /\ Receiving /\ mail # <<>>
  /\ peer' = Head(mail).from /\ mail' = Tail(mail)
  /\ srv' = CASE srv = "recv2" -> "send2"
              [] srv = "recv1" /\ Head(mail).msg = "exit" -> "send1"
              [] OTHER -> "done"
  /\ UNCHANGED <<program, bound, sent, cli, got, cliVars, spoiled>>

\* recvfrom: a message of anyone; the answer will go to its sender.
RecvFrom ==
  /\ Dgram /\ Receiving /\ mail # <<>>
  /\ peer' = Head(mail).from /\ mail' = Tail(mail)
  /\ srv' = CASE srv = "recv1" -> "send1"
              [] srv = "recv2" /\ Head(mail).msg = "exit" -> "send2"
              [] OTHER -> "done"
  /\ UNCHANGED <<program, bound, sent, cli, got, cliVars, spoiled>>

\* The socket an answer to peer comes to.  A local client is answered by its
\* path, which is bound anew by every client.
Addressee == IF Local THEN path ELSE peer

\* sendto.  The path of a local client may be unbound, or nobody's any more.
SendTo ==
  /\ Dgram /\ Sending
  /\ IF Addressee # Nobody /\ Alive(Addressee)
     THEN /\ got' = [got EXCEPT ![Addressee] = Append(@, Answer)]
          /\ srv' = Sent
     ELSE /\ srv' = IF Local THEN "failed" ELSE Sent
          /\ UNCHANGED got
  /\ UNCHANGED <<program, bound, peer, mail, sent, cli, cliVars, spoiled>>

\* recv on the accepted connection: a message, the end of the stream (0), or
\* a reset (-1) if the client left an answer unread; on no connection, -1.
Recv ==
  /\ Stream /\ Receiving
  /\ srv' = IF srv = "recv1" THEN "send1" ELSE "send2"
  /\ \/ peer = Nobody /\ spoiled' = spoiled \cup {"server"} /\ UNCHANGED sent
     \/ /\ peer # Nobody /\ sent[peer] # <<>>
        /\ sent' = [sent EXCEPT ![peer] = Tail(@)] /\ UNCHANGED spoiled
     \/ /\ peer # Nobody /\ sent[peer] = <<>> /\ Gone(peer)
        /\ \/ UNCHANGED spoiled
           \/ srv = "recv2" /\ spoiled' = spoiled \cup {"server"}
        /\ UNCHANGED sent
  /\ UNCHANGED <<program, bound, peer, mail, cli, got, cliVars>>

\* send; when the client is gone, SIGPIPE may end the server.  An error is
\* ignored.
SendStream ==
  /\ Stream /\ Sending
  /\ \/ peer = Nobody /\ srv' = Sent /\ UNCHANGED got
     \/ /\ peer # Nobody /\ Alive(peer)
        /\ got' = [got EXCEPT ![peer] = Append(@, Answer)] /\ srv' = Sent
     \/ peer # Nobody /\ Gone(peer) /\ srv' \in {Sent, "failed"} /\ UNCHANGED got
  /\ UNCHANGED <<program, bound, peer, mail, sent, cli, cliVars, spoiled>>

ServerStep == Accept \/ RecvFrom \/ SendTo \/ Recv \/ SendStream

-----------------------------------------------------------------------------
(* The clients *)

\* Up to connect: a local datagram client unlinks the path first ...
Unlink(c) ==
  /\ cli[c] = "start" /\ program = "AF_Local_Sock_Dgram"
  /\ path' = Nobody /\ CliGoto(c, "bind")
  /\ UNCHANGED <<program, srvVars, sent, got, linked, heard, spoiled>>

\* ... and binds it, unless another client has by now.
BindPath(c) ==
  /\ cli[c] = "bind"
  /\ IF path = Nobody THEN path' = c /\ CliGoto(c, IF Up THEN "send1" ELSE "failed")
                      ELSE UNCHANGED path /\ CliGoto(c, "failed")
  /\ UNCHANGED <<program, srvVars, sent, got, linked, heard, spoiled>>

ConnectInet(c) ==
  /\ cli[c] = "start" /\ program = "AF_Inet_Sock_Dgram"
  /\ CliGoto(c, "send1")
  /\ UNCHANGED <<program, srvVars, sent, got, cliVars, spoiled>>

\* connect of a stream, whose result is not tested.
ConnectStream(c) ==
  /\ cli[c] = "start" /\ Stream
  /\ IF Up /\ bound
     THEN mail' = Append(mail, c) /\ linked' = linked \cup {c}
     ELSE UNCHANGED <<mail, linked>>
  /\ CliGoto(c, "send1")
  /\ UNCHANGED <<program, bound, srv, peer, sent, got, path, heard, spoiled>>

Text(c) == IF cli[c] = "send1" THEN "hello" ELSE "exit"
Waits(c) == IF cli[c] = "send1" THEN "recv1" ELSE "recv2"
Heard(c) == IF cli[c] = "recv1" THEN "send2" ELSE "done"

\* send of a datagram; without a server a local client fails at once, the
\* other when it reads.
SendDgram(c) ==
  /\ Dgram /\ cli[c] \in {"send1", "send2"}
  /\ IF Up THEN mail' = Append(mail, [from |-> c, msg |-> Text(c)]) ELSE UNCHANGED mail
  /\ CliGoto(c, IF Up THEN Waits(c) ELSE IF Local THEN "failed" ELSE "refused")
  /\ UNCHANGED <<program, bound, srv, peer, sent, got, cliVars, spoiled>>

\* send on a stream: without a connection, or on one that was reset, it is
\* ignored or raises SIGPIPE.
SendBytes(c) ==
  /\ Stream /\ cli[c] \in {"send1", "send2"}
  /\ \/ /\ c \in linked /\ Up
        /\ sent' = [sent EXCEPT ![c] = Append(@, Text(c))] /\ CliGoto(c, Waits(c))
     \/ /\ ~(c \in linked /\ Up) /\ UNCHANGED sent
        /\ \/ (c \in linked \/ Local) /\ CliGoto(c, Waits(c))
           \/ (c \in linked \/ ~Local) /\ CliGoto(c, "failed")
  /\ UNCHANGED <<program, srvVars, got, cliVars, spoiled>>

\* recv: a message ...
Receive(c) ==
  /\ cli[c] \in {"recv1", "recv2"} /\ got[c] # <<>>
  /\ heard' = [heard EXCEPT ![c] = Append(@, Head(got[c]))]
  /\ got' = [got EXCEPT ![c] = Tail(@)]
  /\ CliGoto(c, Heard(c))
  /\ UNCHANGED <<program, srvVars, sent, path, linked, spoiled>>

\* ... the error a refused datagram left behind ...
ReceiveRefused(c) == /\ cli[c] = "refused" /\ CliGoto(c, "failed")
                     /\ UNCHANGED <<program, srvVars, sent, got, cliVars, spoiled>>

\* ... or, on a stream without a server, 0 or -1.
ReceiveNothing(c) ==
  /\ Stream /\ cli[c] \in {"recv1", "recv2"} /\ got[c] = <<>>
  /\ ~(c \in linked /\ Up)
  /\ CliGoto(c, Heard(c))
  /\ \/ c \in linked /\ UNCHANGED spoiled
     \/ spoiled' = spoiled \cup {c}
  /\ UNCHANGED <<program, srvVars, sent, got, cliVars>>

Kill(c) == /\ c \in Mortal /\ Alive(c) /\ CliGoto(c, "failed")
           /\ UNCHANGED <<program, srvVars, sent, got, cliVars, spoiled>>

ClientStep(c) == \/ BindPath(c) \/ SendDgram(c) \/ SendBytes(c)
                 \/ Receive(c) \/ ReceiveRefused(c) \/ ReceiveNothing(c)

\* accept may fail, and need not: it is no step of ServerStep, which is fair.
Next == \/ ServerStep \/ AcceptFails
        \/ \E c \in Client : \/ Unlink(c) \/ ConnectInet(c) \/ ConnectStream(c)
                             \/ ClientStep(c) \/ Kill(c)

Fairness == WF_vars(ServerStep) /\ \A c \in Client : WF_vars(ClientStep(c))

-----------------------------------------------------------------------------
\* The only client so far, and one that is not killed.
Alone(c) == c \notin Mortal /\ \A d \in Client \ {c} : cli[d] = "start"

\* bind, listen and accept have not failed; no stream server tests them.
Listens == bound /\ (Stream => srv = "accept" \/ peer # Nobody)

InOrder == {<<>>, <<"hi">>, <<"hi", "yes">>}

\* A client hears "hi" and then "yes", if it hears them at all, although the
\* server answers whoever wrote last: only the shared path of local datagram
\* clients breaks this.  A client alone with a server that listens hears both
\* when it ends, no process fails, and none writes before its buffer.  (With
\* client_fd = -1 the server itself does, at its first recv.)
HeardInOrder ==
  /\ program # "AF_Local_Sock_Dgram" => \A c \in Client : heard[c] \in InOrder
  /\ \A c \in Client : Alone(c) /\ Listens /\ cli[c] # "start" =>
       /\ heard[c] \in InOrder /\ spoiled = {}
       /\ cli[c] # "failed" /\ srv # "failed"
       /\ cli[c] = "done" => heard[c] = <<"hi", "yes">>

\* A client alone with a server that listens comes to an end, and the server
\* with it.
PairEnds ==
  \A c \in Client :
    (Alone(c) /\ Listens /\ cli[c] = "send1")
      ~> (~Alone(c) \/ ~Listens \/ (cli[c] = "done" /\ srv = "done"))
=============================================================================
