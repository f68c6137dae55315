------------------------------- MODULE PoolServer -------------------------------
(***************************************************************************)
(* The server of TCP_UDP_task2 with its clients: main() creates one thread *)
(* per entry of ports_array before it starts, admits a client by storing   *)
(* the protocol in the entry's status_tcp_udp, and redirects the client to *)
(* the entry's port at once.  The thread of the entry polls status_tcp_udp *)
(* without the mutex, opens a serving socket through the shared addresses  *)
(* serv_tcp and serv_udp, serves the client, closes the socket and gives   *)
(* the entry back.                                                         *)
(*                                                                         *)
(* The locked section of a thread is one step: the threads read            *)
(* status_tcp_udp without the mutex, but each only its own.                *)
(***************************************************************************)
EXTENDS CubeServer

VARIABLES
  status,         \* status[s]: ports_array[s].status
  status_tcp_udp, \* status_tcp_udp[s]: 0, 1 (a TCP client) or 2 (a UDP client)
  serv,           \* serv["tcp"], serv["udp"]: sin_port of the shared serv_tcp, serv_udp
  cur,            \* the client main() is admitting
  buffer          \* what main() is about to tell it

tableVars == <<status, status_tcp_udp>>
ownVars == <<tableVars, serv, cur, buffer>>
vars == <<netVars, clientVars, serverVars, ownVars>>

WorkerPc == {"loop", "poll", "pollUdp", "socket", "bind", "accept",
             "session", "recv", "send", "close", "release", "exited"}

\* Where a thread is between noticing a client and giving its entry back.
Busy == {"socket", "bind", "accept", "session", "recv", "send", "close", "release"}

Init ==
  /\ ServerInit
  /\ status = [s \in Slot |-> 0]
  /\ status_tcp_udp = [s \in Slot |-> 0]
  /\ serv = [p \in {"tcp", "udp"} |-> LENGTH_CLIENT]   \* the port main() listens on
  /\ cur = None /\ buffer = ZeroMsg

\* The entry the search of ports_array stops at.
FirstFree(s) == status[s] = 0 /\ \A t \in Slot : t < s => status[t] # 0

\* Descriptors in use, with the sockets that are not bound yet.
Fds == OpenFds + Cardinality({w \in Slot : wpc[w] = "bind"})

-----------------------------------------------------------------------------
(* main() *)

\* From pthread_mutex_lock to the entry, whose thread may now start.
Admit ==
  /\ server = "up" /\ mpc = "admit" /\ ~locked
  /\ Now = "tcp" => Fds < FdLimit
  /\ TakeNext
  /\ \E s \in Slot :
       /\ FirstFree(s)
       /\ status' = [status EXCEPT ![s] = 1]
       /\ status_tcp_udp' = [status_tcp_udp EXCEPT ![s] = IF Now = "tcp" THEN 1 ELSE 2]
       /\ buffer' = Msg(REDIRECT, s)
  /\ cur' = Head(mainq[Now])
  /\ locked' = TRUE
  /\ mpc' = "reply"
  /\ UNCHANGED <<server, sock, backlog, dgrams, conn, toSrv, toCli, clientVars, flag,
                 interrupts, flag_client, ready, join, threadVars, serv>>

\* The redirect is sent, flag_client-- and pthread_mutex_unlock.
SendRedirect ==
  /\ server = "up" /\ mpc = "reply"
  /\ SendMain(cur, buffer)
  /\ flag_client' = flag_client - 1
  /\ locked' = FALSE
  /\ cur' = None /\ buffer' = ZeroMsg
  /\ NextBranch("loop")
  /\ UNCHANGED <<server, mainq, accepted, sock, backlog, dgrams, conn, toSrv, clientVars,
                 flag, interrupts, join, threadVars, tableVars, serv>>

\* accept(server_fd_tcp) fails: no descriptor is left.
MainAcceptFails ==
  /\ server = "up" /\ mpc \in {"admit", "refuse"} /\ ~locked /\ mainq[Now] # <<>>
  /\ Now = "tcp" /\ Fds >= FdLimit
  /\ Fail /\ UNCHANGED ownVars

MainStep == \/ /\ MainLoop \/ Select("loop") \/ Check \/ Join \/ Return
               /\ UNCHANGED ownVars
            \/ /\ Now = "tcp" => Fds < FdLimit
               /\ Refuse("loop")
               /\ UNCHANGED ownVars
            \/ Admit \/ SendRedirect \/ MainAcceptFails

-----------------------------------------------------------------------------
(* create_server *)

\* The protocol of the session thread w serves.
WProto(w) == IF status_tcp_udp[w] = 1 THEN "tcp" ELSE "udp"

\* Bug: the second test is for a TCP client as well.
PollTcpTwice(w) ==
  /\ \/ wpc[w] = "loop" /\ Proceed(w, IF flag = 1 THEN "poll" ELSE "exited")
     \/ wpc[w] \in {"poll", "pollUdp"}
          /\ Proceed(w, IF status_tcp_udp[w] = 1 THEN "socket" ELSE "loop")
  /\ UNCHANGED ownVars

\* while (flag), and the two tests of status_tcp_udp, without the mutex.
Poll(w) ==
  /\ \/ wpc[w] = "loop" /\ Proceed(w, IF flag = 1 THEN "poll" ELSE "exited")
     \/ wpc[w] = "poll" /\ Proceed(w, IF status_tcp_udp[w] = 1 THEN "socket" ELSE "pollUdp")
     \/ wpc[w] = "pollUdp" /\ Proceed(w, IF status_tcp_udp[w] = 2 THEN "socket" ELSE "loop")
  /\ UNCHANGED ownVars

\* socket(), and the port is stored in the address all threads share.
Socket(w) ==
  /\ wpc[w] = "socket" /\ Fds < FdLimit
  /\ serv' = [serv EXCEPT ![WProto(w)] = w]
  /\ Proceed(w, "bind")
  /\ UNCHANGED <<tableVars, cur, buffer>>

\* bind() (and listen()) to whatever port the shared address holds by now.
Bind(w) ==
  /\ server = "up" /\ wpc[w] = "bind"
  /\ LET proto == WProto(w)
     IN /\ ~PortInUse(proto, serv[proto])
        /\ sock' = [sock EXCEPT ![w] = Bound(proto, serv[proto])]
        /\ Goto(w, IF proto = "tcp" THEN "accept" ELSE "session")
  /\ UNCHANGED <<server, mainq, accepted, backlog, dgrams, conn, toSrv, toCli, clientVars,
                 flag, interrupts, mainVars, wpeer, wbuf, ownVars>>

OpenFails(w) ==
  /\ server = "up"
  /\ \/ wpc[w] = "socket" /\ Fds >= FdLimit
     \/ wpc[w] = "bind" /\ PortInUse(WProto(w), serv[WProto(w)])
  /\ Fail /\ UNCHANGED ownVars

Accept(w) ==
  /\ server = "up" /\ wpc[w] = "accept" /\ backlog[w] # <<>> /\ Fds < FdLimit
  /\ conn' = conn \cup {<<Head(backlog[w]), sock[w].port>>}
  /\ wpeer' = [wpeer EXCEPT ![w] = Head(backlog[w])]
  /\ backlog' = [backlog EXCEPT ![w] = Tail(@)]
  /\ Goto(w, "session")
  /\ UNCHANGED <<server, mainq, accepted, sock, dgrams, toSrv, toCli, clientVars, flag, interrupts,
                 mainVars, wbuf, ownVars>>

\* accept() is not checked: with no descriptor left, recv(-1) ends the session.
AcceptFails(w) ==
  /\ wpc[w] = "accept" /\ Fds >= FdLimit
  /\ Proceed(w, "close")
  /\ UNCHANGED ownVars

ServeTcp(w) == WProto(w) = "tcp" /\ SessionTcp(w) /\ UNCHANGED ownVars

ServeUdp(w) == WProto(w) = "udp" /\ SessionUdp(w) /\ UNCHANGED ownVars

\* Bug: flag_client++ is missing.
ReleaseUncounted(w) ==
  /\ wpc[w] = "release" /\ ~locked
  /\ status' = [status EXCEPT ![w] = 0]
  /\ status_tcp_udp' = [status_tcp_udp EXCEPT ![w] = 0]
  /\ Proceed(w, IF WProto(w) = "tcp" THEN "pollUdp" ELSE "loop")
  /\ UNCHANGED <<serv, cur, buffer>>

\* Bug: status_tcp_udp is not reset.
ReleaseKeepsProtocol(w) ==
  /\ server = "up" /\ wpc[w] = "release" /\ ~locked
  /\ flag_client' = flag_client + 1
  /\ status' = [status EXCEPT ![w] = 0]
  /\ Goto(w, IF WProto(w) = "tcp" THEN "pollUdp" ELSE "loop")
  /\ UNCHANGED <<netVars, clientVars, flag, interrupts, locked, mpc, ready, join,
                 wpeer, wbuf, status_tcp_udp, serv, cur, buffer>>

\* The locked section that gives the entry back.  A TCP session is followed
\* by the test for a UDP client, a UDP session by the head of the loop.
Release(w) ==
  /\ server = "up" /\ wpc[w] = "release" /\ ~locked
  /\ flag_client' = flag_client + 1
  /\ status' = [status EXCEPT ![w] = 0]
  /\ status_tcp_udp' = [status_tcp_udp EXCEPT ![w] = 0]
  /\ Goto(w, IF WProto(w) = "tcp" THEN "pollUdp" ELSE "loop")
  /\ UNCHANGED <<netVars, clientVars, flag, interrupts, locked, mpc, ready, join,
                 wpeer, wbuf, serv, cur, buffer>>

WorkerStep(w) == \/ Poll(w) \/ Socket(w) \/ Bind(w) \/ OpenFails(w)
                 \/ Accept(w) \/ AcceptFails(w)
                 \/ ServeTcp(w) \/ ServeUdp(w) \/ Release(w)

-----------------------------------------------------------------------------
\* EINTR in accept, which is not checked, ends the session as well.
InterruptAccept(w) ==
  /\ Signal
  /\ wpc[w] = "accept" /\ Goto(w, "close")
  /\ UNCHANGED <<netVars, clientVars, mainVars, wpeer, wbuf>>

Interrupt == /\ \/ InterruptMain \/ InterruptRunning
                \/ \E w \in Slot : InterruptRecv(w) \/ InterruptAccept(w)
             /\ UNCHANGED ownVars

-----------------------------------------------------------------------------
ClientKeeps == UNCHANGED <<serverVars, ownVars>>

Next == \/ MainStep
        \/ \E w \in Slot : WorkerStep(w)
        \/ Interrupt
        \/ \E c \in Client : (ClientStep(c) \/ UserStep(c)) /\ ClientKeeps

Spec == Init /\ [][Next]_vars

\* The scheduler runs every thread and every client that can take a step;
\* users may stay silent for ever.
Fairness == /\ WF_vars(MainStep)
            /\ \A w \in Slot : WF_vars(WorkerStep(w))
            /\ \A c \in Client : WF_vars(ClientStep(c) /\ ClientKeeps)

FairSpec == Spec /\ Fairness
=============================================================================
