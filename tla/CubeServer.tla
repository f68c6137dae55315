------------------------------- MODULE CubeServer -------------------------------
(***************************************************************************)
(* What the servers of TCP_UDP_task2 and TCP_UDP_task3 have in common: the *)
(* loop of main() around pselect, the session a thread holds with its      *)
(* client, and Ctrl+C.  Both create their LENGTH_CLIENT threads at the     *)
(* start; a thread, and its serving socket, are named by its index.        *)
(***************************************************************************)
EXTENDS CubeClient

CONSTANT MaxInterrupts   \* bound on the number of times the user types Ctrl+C

ASSUME MaxInterruptsAssumption == MaxInterrupts \in Nat

VARIABLES
  flag,           \* the loops run while flag is 1; handle_signal clears it
  interrupts,     \* number of SIGINTs so far
  flag_client,    \* number of clients main() would still admit
  locked,         \* some thread holds mutex across steps
  mpc,            \* where main() is
  ready,          \* protocols pselect reported and main() has not handled
  join,           \* index_port of the final loop
  wpc,            \* wpc[w]: where thread w is
  wpeer,          \* wpeer[w]: client_fd_tcp (TCP), connected_client (UDP)
  wbuf            \* wbuf[w]: its `buffer` and the address it came from

mainVars == <<flag_client, locked, mpc, ready, join>>
threadVars == <<wpc, wpeer, wbuf>>
serverVars == <<flag, interrupts, mainVars, threadVars>>

NoRequest == [from |-> None, msg |-> ZeroMsg]

\* The types of what both servers have; each adds its own mpc and wpc.
MainTypeOK ==
  /\ flag \in {0, 1} /\ interrupts \in 0 .. MaxInterrupts
  /\ flag_client \in Int
  /\ locked \in BOOLEAN
  /\ ready \subseteq {"tcp", "udp"}
  /\ join \in 0 .. LENGTH_CLIENT

ThreadTypeOK ==
  /\ wpeer \in [Slot -> Client \cup {None}]
  /\ wbuf \in [Slot -> [from : Client \cup {None}, msg : Message]]

ServerTypeOK == SocketTypeOK(Slot) /\ MainTypeOK /\ ThreadTypeOK

ServerInit ==
  /\ server = "up"
  /\ mainq = [p \in {"tcp", "udp"} |-> <<>>]
  /\ accepted = {} /\ conn = {}
  /\ sock = [w \in Slot |-> Closed]
  /\ backlog = [w \in Slot |-> <<>>]
  /\ dgrams = [w \in Slot |-> <<>>]
  /\ toSrv = [c \in Client |-> <<>>]
  /\ toCli = [c \in Client |-> <<>>]
  /\ ClientInit
  /\ flag = 1 /\ interrupts = 0
  /\ flag_client = LENGTH_CLIENT
  /\ locked = FALSE
  /\ mpc = "loop" /\ ready = {} /\ join = 0
  /\ wpc = [w \in Slot |-> "loop"]
  /\ wpeer = [w \in Slot |-> None]
  /\ wbuf = [w \in Slot |-> NoRequest]

-----------------------------------------------------------------------------
(* exit(EXIT_FAILURE) from error_func: the kernel closes everything. *)
Fail == /\ server' = "failed"
        /\ UNCHANGED <<mainq, accepted, sock, backlog, dgrams, conn, toSrv, toCli,
                       clientVars, serverVars>>

\* The protocol main() handles now: TCP is tested first.
Now == IF "tcp" \in ready THEN "tcp" ELSE "udp"

\* accept or recvfrom takes the next client of protocol Now.
TakeNext == /\ mainq[Now] # <<>>
            /\ mainq' = [mainq EXCEPT ![Now] = Tail(@)]
            /\ accepted' = IF Now = "tcp" THEN accepted \cup {Head(mainq["tcp"])} ELSE accepted

-----------------------------------------------------------------------------
(* main(); `end` is where a turn of its loop goes after both protocols. *)

\* while (flag)
MainLoop ==
  /\ server = "up" /\ mpc = "loop"
  /\ mpc' = IF flag = 1 THEN "select" ELSE "join"
  /\ UNCHANGED <<netVars, clientVars, flag, interrupts, flag_client, locked, ready, join, threadVars>>

\* pselect returns with something to read, or after its 10 s with nothing.
Select(end) ==
  /\ server = "up" /\ mpc = "select"
  /\ ready' = {p \in {"tcp", "udp"} : mainq[p] # <<>>}
  /\ mpc' = IF ready' = {} THEN end ELSE "check"
  /\ UNCHANGED <<netVars, clientVars, flag, interrupts, flag_client, locked, join, threadVars>>

\* Bug: flag_client >= 0.
CheckOffByOne ==
  /\ server = "up" /\ mpc = "check"
  /\ mpc' = IF flag_client >= 0 THEN "admit" ELSE "refuse"
  /\ UNCHANGED <<netVars, clientVars, flag, interrupts, flag_client, locked, ready, join, threadVars>>

\* if (flag_client > 0), read without the mutex.
Check ==
  /\ server = "up" /\ mpc = "check"
  /\ mpc' = IF flag_client > 0 THEN "admit" ELSE "refuse"
  /\ UNCHANGED <<netVars, clientVars, flag, interrupts, flag_client, locked, ready, join, threadVars>>

\* After a branch main() goes on to the other protocol, or to the end of its turn.
NextBranch(end) == /\ ready' = ready \ {Now}
                   /\ mpc' = IF ready' = {} THEN end ELSE "check"

\* No room: the client is told so; its TCP connection is never closed.
Refuse(end) ==
  /\ server = "up" /\ mpc = "refuse" /\ ~locked
  /\ TakeNext
  /\ SendMain(Head(mainq[Now]), Msg(LIMIT, 0))
  /\ NextBranch(end)
  /\ UNCHANGED <<server, sock, backlog, dgrams, conn, toSrv, clientVars, flag,
                 interrupts, flag_client, locked, join, threadVars>>

\* pthread_join(thread_input[join]) for every thread.
Join ==
  /\ server = "up" /\ mpc = "join" /\ join < LENGTH_CLIENT
  /\ wpc[join] = "exited"
  /\ join' = join + 1
  /\ UNCHANGED <<netVars, clientVars, flag, interrupts, flag_client, locked, mpc, ready, threadVars>>

Return ==
  /\ server = "up" /\ mpc = "join" /\ join >= LENGTH_CLIENT
  /\ server' = "exited"
  /\ UNCHANGED <<mainq, accepted, sock, backlog, dgrams, conn, toSrv, toCli, clientVars, serverVars>>

-----------------------------------------------------------------------------
(* A session of thread w, between accept or bind and the lock that ends it *)

Goto(w, pc) == wpc' = [wpc EXCEPT ![w] = pc]

Proceed(w, pc) == /\ server = "up"
                  /\ Goto(w, pc)
                  /\ UNCHANGED <<netVars, clientVars, flag, interrupts, mainVars, wpeer, wbuf>>

\* The inner while (flag), and the call of recv or recvfrom.
CallRecv(w) == wpc[w] = "session" /\ Proceed(w, IF flag = 1 THEN "recv" ELSE "close")

RecvTcp(w) ==
  /\ server = "up" /\ wpc[w] = "recv"
  /\ LET c == wpeer[w]
     IN /\ toSrv[c] # <<>>
        /\ wbuf' = [wbuf EXCEPT ![w] = [from |-> c, msg |-> Reply(Head(toSrv[c]))]]
        /\ toSrv' = [toSrv EXCEPT ![c] = Tail(@)]
  /\ Goto(w, "send")
  /\ UNCHANGED <<server, mainq, accepted, sock, backlog, dgrams, conn, toCli, clientVars,
                 flag, interrupts, mainVars, wpeer>>

\* The stream of the client has ended: the process is gone.
StreamEnd(w) == toSrv[wpeer[w]] = <<>> /\ cpc[wpeer[w]] = "done"

\* Bug: the result of recv is not tested.
RecvTcpEndIgnored(w) == wpc[w] = "recv" /\ StreamEnd(w) /\ Proceed(w, "session")

\* recv returns 0 or an error.
RecvTcpEnd(w) == wpc[w] = "recv" /\ StreamEnd(w) /\ Proceed(w, "close")

\* Bug: the address of a datagram is not compared.
AnyClient(w, c) == TRUE

\* The sender is the client that spoke first in this session, if one did.
SameClient(w, c) == wpeer[w] \in {None, c}

RecvUdp(w) ==
  /\ server = "up" /\ wpc[w] = "recv"
  /\ dgrams[w] # <<>>
  /\ dgrams' = [dgrams EXCEPT ![w] = Tail(@)]
  /\ LET d == Head(dgrams[w])
     IN IF SameClient(w, d.from)
        THEN /\ wpeer' = [wpeer EXCEPT ![w] = d.from]
             /\ wbuf' = [wbuf EXCEPT ![w] = [from |-> d.from, msg |-> Reply(d.msg)]]
             /\ Goto(w, "send")
        ELSE Goto(w, "session") /\ UNCHANGED <<wpeer, wbuf>>
  /\ UNCHANGED <<server, mainq, accepted, sock, backlog, conn, toSrv, toCli, clientVars,
                 flag, interrupts, mainVars>>

\* The reply; the loop is left after QUIT_ACK.
Send(w) ==
  /\ server = "up" /\ wpc[w] = "send"
  /\ SendClient(wbuf[w].from, wbuf[w].msg)
  /\ Goto(w, IF wbuf[w].msg.sign = QUIT_ACK THEN "close" ELSE "session")
  /\ wbuf' = [wbuf EXCEPT ![w] = NoRequest]
  /\ UNCHANGED <<server, mainq, accepted, sock, backlog, dgrams, conn, toSrv, clientVars,
                 flag, interrupts, mainVars, wpeer>>

\* Bug: the serving socket is not closed.
CloseForgotten(w) ==
  /\ server = "up" /\ wpc[w] = "close"
  /\ wpeer' = [wpeer EXCEPT ![w] = None]
  /\ Goto(w, "release")
  /\ UNCHANGED <<netVars, clientVars, flag, interrupts, mainVars, wbuf>>

\* close(serving_server_fd): what was queued at it is lost.  The accepted
\* connection is never closed.
Close(w) ==
  /\ server = "up" /\ wpc[w] = "close"
  /\ sock' = [sock EXCEPT ![w] = Closed]
  /\ backlog' = [backlog EXCEPT ![w] = <<>>]
  /\ dgrams' = [dgrams EXCEPT ![w] = <<>>]
  /\ wpeer' = [wpeer EXCEPT ![w] = None]
  /\ Goto(w, "release")
  /\ UNCHANGED <<server, mainq, accepted, conn, toSrv, toCli, clientVars, flag, interrupts,
                 mainVars, wbuf>>

SessionTcp(w) == CallRecv(w) \/ RecvTcp(w) \/ RecvTcpEnd(w) \/ Send(w) \/ Close(w)
SessionUdp(w) == CallRecv(w) \/ RecvUdp(w) \/ Send(w) \/ Close(w)

-----------------------------------------------------------------------------
(* Ctrl+C.  Any thread may run handle_signal, and a call it was blocked in *)
(* fails with EINTR: pselect sends main() back to its loop.                *)

Signal == /\ server = "up" /\ interrupts < MaxInterrupts
          /\ flag' = 0
          /\ interrupts' = interrupts + 1

InterruptMain ==
  /\ Signal
  /\ mpc = "select" /\ mpc' = "loop"
  /\ UNCHANGED <<netVars, clientVars, flag_client, locked, ready, join, threadVars>>

InterruptRunning ==
  /\ Signal
  /\ UNCHANGED <<netVars, clientVars, mainVars, threadVars>>

\* A blocked recv or recvfrom ends the session.
InterruptRecv(w) ==
  /\ Signal
  /\ wpc[w] = "recv" /\ Goto(w, "close")
  /\ UNCHANGED <<netVars, clientVars, mainVars, wpeer, wbuf>>
=============================================================================
