------------------------------ MODULE RawExchange ------------------------------
(***************************************************************************)
(* UDP_RAW, UDP_RAW_IP and UDP_RAW_ethernet: a client writes a number in a *)
(* datagram whose headers it builds itself, a UDP server answers with the  *)
(* square.  The client's raw socket reads everything of its kind that the  *)
(* machine hears, and keeps what is for port 7564, the port every run of   *)
(* the client uses.                                                        *)
(***************************************************************************)
EXTENDS Cube, Sequences

CONSTANTS
  Client,         \* runs of the client program
  Number,         \* the integers a user may type
  MaxRounds,      \* bound on the numbers sent by all
  MaxTraffic,     \* bound on the frames of other programs
  MaxInterrupts   \* bound on the number of times the user types Ctrl+C

VARIABLES
  program,     \* the directory whose programs run
  server,      \* where the server is
  flag_while,  \* its loop runs while flag_while is 1
  buffer,      \* what it sends next
  inbox,       \* numbers waiting at its socket
  client,      \* client[c]: where client c is
  message,     \* message[c]: the number it sent last
  answer,      \* answer[c]: the number it printed last
  serv,        \* serv[c]: who sent what it read last; it sends its next number there
  queue,       \* queue[c]: frames waiting at its raw socket
  rounds, traffic, interrupts,  \* what the bounds count
  foreign      \* another program's frame for port 7564 has come

serverVars == <<server, flag_while, buffer, inbox>>
clientVars == <<client, message, answer, serv, queue, rounds>>
vars == <<program, serverVars, clientVars, traffic, interrupts, foreign>>

RawProgram == {"UDP_RAW", "UDP_RAW_IP", "UDP_RAW_ethernet"}

\* A frame as the client reads it: its destination port, its sender, its data.
Frame == [port : {"server", "client", "other"}, from : {"server", "other"}, data : Int]

\* Nothing has happened yet ...
Fresh == /\ flag_while = 1 /\ buffer = 0 /\ inbox = <<>>
         /\ message = [c \in Client |-> 0] /\ answer = [c \in Client |-> 0]
         /\ serv = [c \in Client |-> "server"]
         /\ queue = [c \in Client |-> <<>>]
         /\ rounds = 0 /\ traffic = 0 /\ interrupts = 0 /\ foreign = FALSE

\* ... or these programs do not run at all.
Off == Fresh /\ server = "done" /\ client = [c \in Client |-> "done"]

Init == /\ program \in RawProgram /\ Fresh
        /\ server = "loop" /\ client = [c \in Client |-> "start"]

Open(c) == client[c] \in {"ask", "recv", "more"}

\* The raw sockets of S read frame f.
Hear(S, f) == queue' = [c \in Client |-> IF c \in S /\ Open(c) THEN Append(queue[c], f)
                                                               ELSE queue[c]]

-----------------------------------------------------------------------------
(* The server *)

ServerLoop ==
  /\ server = "loop"
  /\ server' = IF flag_while = 1 THEN "recv" ELSE "done"
  /\ UNCHANGED <<program, flag_while, buffer, inbox, clientVars, traffic, interrupts, foreign>>

ServerRecv ==
  /\ server = "recv" /\ inbox # <<>>
  /\ buffer' = Wrap(Head(inbox) * Head(inbox))
  /\ inbox' = Tail(inbox)
  /\ server' = "send"
  /\ UNCHANGED <<program, flag_while, clientVars, traffic, interrupts, foreign>>

\* Bug: the answer goes to the server's own port.
ServerSendsToItself ==
  /\ server = "send"
  /\ Hear(Client, [port |-> "server", from |-> "server", data |-> buffer])
  /\ server' = "loop"
  /\ UNCHANGED <<program, flag_while, buffer, inbox, client, message, answer, serv, rounds,
                 traffic, interrupts, foreign>>

\* The answer goes to port 7564, where no socket is bound but every raw
\* socket reads it; between two machines it may be lost.
ServerSend ==
  /\ server = "send"
  /\ \/ Hear(Client, [port |-> "client", from |-> "server", data |-> buffer])
     \/ program = "UDP_RAW_ethernet" /\ UNCHANGED queue
  /\ server' = "loop"
  /\ UNCHANGED <<program, flag_while, buffer, inbox, client, message, answer, serv, rounds,
                 traffic, interrupts, foreign>>

\* Ctrl+C: recvfrom, when it is blocked, fails with EINTR and the loop is
\* left; a signal that comes before the call is seen after one more datagram.
Interrupt ==
  /\ server # "done" /\ interrupts < MaxInterrupts
  /\ flag_while' = 0 /\ interrupts' = interrupts + 1
  /\ \/ UNCHANGED server
     \/ server = "recv" /\ inbox = <<>> /\ server' = "done"
  /\ UNCHANGED <<program, buffer, inbox, clientVars, traffic, foreign>>

-----------------------------------------------------------------------------
(* The client *)

\* socket(), and the server's address.
Start(c) ==
  /\ client[c] = "start" /\ client' = [client EXCEPT ![c] = "ask"]
  /\ UNCHANGED <<program, serverVars, message, answer, serv, queue, rounds, traffic,
                 interrupts, foreign>>

\* The headers: where the datagram goes, and the length in the UDP header.
\* The kernel completes the IP header, but for UDP_RAW_ethernet.
HeaderUdp == [address |-> "127.0.0.1", length |-> 8 + 4]
HeaderIp == [address |-> "127.0.0.1", length |-> 8 + 4]
HeaderEthernet == [address |-> "224.0.0.2", length |-> 8 + 4]

Header == CASE program = "UDP_RAW" -> HeaderUdp
            [] program = "UDP_RAW_IP" -> HeaderIp
            [] OTHER -> HeaderEthernet

\* Where the server is bound.
ServerAddress == IF program = "UDP_RAW_ethernet" THEN "224.0.0.2" ELSE "127.0.0.1"

\* The datagram holds a number and may come to the server's socket.  That of
\* UDP_RAW_ethernet has a multicast source and goes to a group nobody joined,
\* which Linux drops; other systems, and other addresses, need not.
Reaches(c) == /\ server # "done" /\ serv[c] = "server"
              /\ Header = [address |-> ServerAddress, length |-> 8 + 4]

\* sendto; UDP_RAW_ethernet may lose it.  On the loopback interface the
\* client's own datagram comes back to its raw socket; a packet socket reads
\* the frames of other sockets only.
Send(c) ==
  /\ client[c] = "ask" /\ rounds < MaxRounds
  /\ \E n \in Number :
       /\ message' = [message EXCEPT ![c] = n]
       /\ \/ inbox' = IF Reaches(c) THEN Append(inbox, n) ELSE inbox
          \/ program = "UDP_RAW_ethernet" /\ UNCHANGED inbox
       /\ Hear(IF program = "UDP_RAW_ethernet" THEN Client \ {c} ELSE Client,
               [port |-> "server", from |-> "server", data |-> n])
  /\ rounds' = rounds + 1
  /\ client' = [client EXCEPT ![c] = "recv"]
  /\ UNCHANGED <<program, server, flag_while, buffer, answer, serv, traffic, interrupts, foreign>>

\* Bug: the port is not tested.
ForAnyone(f) == TRUE

\* ntohs(destination_port) == 7564
ForClient(f) == f.port = "client"

\* One turn of the inner loop: the frame is printed, or skipped.
Read(c) ==
  /\ client[c] = "recv" /\ queue[c] # <<>>
  /\ LET f == Head(queue[c])
     IN /\ serv' = [serv EXCEPT ![c] = f.from]
        /\ IF ForClient(f)
           THEN /\ answer' = [answer EXCEPT ![c] = f.data]
                /\ client' = [client EXCEPT ![c] = "more"]
           ELSE UNCHANGED <<answer, client>>
  /\ queue' = [queue EXCEPT ![c] = Tail(@)]
  /\ UNCHANGED <<program, serverVars, message, rounds, traffic, interrupts, foreign>>

ReadUdp(c) == program = "UDP_RAW" /\ Read(c)
ReadIp(c) == program = "UDP_RAW_IP" /\ Read(c)
ReadEthernet(c) == program = "UDP_RAW_ethernet" /\ Read(c)

\* The user goes on, ends the program, or (Ctrl+C) kills it at any moment.
Again(c) == /\ client[c] = "more" /\ client' = [client EXCEPT ![c] = "ask"]
            /\ UNCHANGED <<program, serverVars, message, answer, serv, queue, rounds,
                           traffic, interrupts, foreign>>

End(c) == /\ Open(c) /\ client' = [client EXCEPT ![c] = "done"]
          /\ queue' = [queue EXCEPT ![c] = <<>>]
          /\ UNCHANGED <<program, serverVars, message, answer, serv, rounds, traffic,
                         interrupts, foreign>>

\* Frames of other programs, from anywhere, while they are read.
Traffic == /\ traffic < MaxTraffic /\ traffic' = traffic + 1
           /\ \E c \in Client : Open(c)
           /\ \E f \in [port : {"other", "client"}, from : {"server", "other"}, data : {0}] :
                Hear(Client, f) /\ foreign' = (foreign \/ ForClient(f))
           /\ UNCHANGED <<program, serverVars, client, message, answer, serv, rounds, interrupts>>

-----------------------------------------------------------------------------
ServerStep == ServerLoop \/ ServerRecv \/ ServerSend
ReadStep(c) == ReadUdp(c) \/ ReadIp(c) \/ ReadEthernet(c)

Next == \/ ServerStep \/ Interrupt \/ Traffic
        \/ \E c \in Client : Start(c) \/ Send(c) \/ ReadStep(c) \/ Again(c) \/ End(c)

\* The server and the clients run whenever they can; users need not.
Fairness == WF_vars(ServerStep) /\ \A c \in Client : WF_vars(ReadStep(c))

-----------------------------------------------------------------------------
\* As long as no other program sends to port 7564 (the port is all a client
\* tests: not the sender, nor the protocol), a client that is the first on its
\* machine prints the square of the number it sent, in every round: nothing
\* its raw socket reads besides, its own datagrams and frames for other ports,
\* is taken for the answer, and no answer is left for the next round
\* (UDP_RAW client.c:85-102).
OwnAnswer ==
  \A c \in Client :
    client[c] = "more" /\ (\A d \in Client \ {c} : client[d] = "start") /\ ~foreign
      => answer[c] = Wrap(message[c] * message[c])

\* Where nothing is lost, and on the same assumption, a client gets an answer
\* as long as the server runs: though each frame it skips overwrites `serv',
\* its next number still goes to the server (UDP_RAW client.c:79, :88).
AnswerComes ==
  \A c \in Client :
    (client[c] = "recv" /\ program # "UDP_RAW_ethernet")
      ~> (client[c] # "recv" \/ flag_while = 0 \/ foreign)
=============================================================================
