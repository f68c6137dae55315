----------------------------- MODULE MultiplexServer -----------------------------
(***************************************************************************)
(* The server of Multiplexed_TCP_UDP with its clients.  main() waits on    *)
(* two sockets with pselect and starts a thread for a TCP client while     *)
(* flag_tcp > 0, one for UDP while flag_udp > 0, decrementing the flag     *)
(* after pthread_create; the thread increments it when it ends.  Nothing   *)
(* is locked (the mutex is never used), so each -- and ++ is a read and,   *)
(* later, a write.                                                         *)
(*                                                                         *)
(* The threads are handed pointers into main()'s stack: TCP threads to the *)
(* one client_fd_tcp, UDP threads to ph_udp, a variable of an inner block  *)
(* whose place in the frame the build (gcc, no optimisation) never gives   *)
(* to anything else.                                                       *)
(***************************************************************************)
EXTENDS MultiplexClient

CONSTANTS
  MaxInterrupts,   \* bound on the number of times the user types Ctrl+C
  MaxUdpThreads    \* bound on UDP threads alive at once

ASSUME BoundAssumption == MaxInterrupts \in Nat /\ MaxUdpThreads \in Nat \ {0}

UdpThread == 1 .. MaxUdpThreads

VARIABLES
  flag,                 \* the loops run while flag is 1
  flag_tcp, flag_udp,   \* sessions main() would still start
  mpc,                  \* where main() is
  ready,                \* the protocols whose socket pselect reported
  mread,                \* the flag main() read and has not yet written back
  client_fd_tcp,        \* the client accepted last, whose descriptor it holds
  thread_tcp,           \* the TCP thread created last, None at first
  thread_udp,           \* the UDP thread created last, 0 at first
  tpc, tbuf, tread,     \* TCP threads, named by the client they were created for:
                        \* where they are, their `buffer`, and their read of flag_tcp
  upc, ubuf, uread,     \* the same for UDP threads; an id is used again
  ph,                   \* ph_udp.client, the address recvfrom wrote last
  is_client_connected,
  connected_client,
  interrupts,           \* number of SIGINTs so far
  lost                  \* history: the protocols whose flag has lost an update

mainVars == <<mpc, ready, mread, client_fd_tcp, thread_tcp, thread_udp>>
tcpVars == <<tpc, tbuf, tread>>
udpVars == <<upc, ubuf, uread, ph, is_client_connected, connected_client>>
flagVars == <<flag_tcp, flag_udp, lost>>
vars == <<netVars, clientVars, flag, interrupts, mainVars, tcpVars, udpVars, flagVars>>

TcpPc == {"none", "loop", "recv", "send", "read", "write", "close", "exited"}
UdpPc == {"none", "loop", "recv", "check", "send", "read", "write"}

Init ==
  /\ server = "up"
  /\ ClientInit
  /\ flag = 1 /\ interrupts = 0
  /\ flag_tcp = 1 /\ flag_udp = 1 /\ lost = {}
  /\ mpc = "loop" /\ ready = {} /\ mread = 0
  /\ client_fd_tcp = None /\ thread_tcp = None /\ thread_udp = 0
  /\ tpc = [w \in TcpClient |-> "none"]
  /\ tbuf = [w \in TcpClient |-> ZeroMsg]
  /\ tread = [w \in TcpClient |-> 0]
  /\ upc = [u \in UdpThread |-> "none"]
  /\ ubuf = [u \in UdpThread |-> ZeroMsg]
  /\ uread = [u \in UdpThread |-> 0]
  /\ ph = None /\ is_client_connected = 0 /\ connected_client = None

\* A message from the server reaches client c's socket while there is one.
Answer(c, m) ==
  toCli' = IF c # None /\ cpc[c] \notin {"start", "done"}
           THEN [toCli EXCEPT ![c] = Append(@, m)] ELSE toCli

\* The write of a flag overwrites a change made since it was read.
Lose(proto, value, seen) == lost' = IF value = seen THEN lost ELSE lost \cup {proto}

-----------------------------------------------------------------------------
(* main() *)
\* Bug: for (;;).
LoopForEver ==
  /\ server = "up" /\ mpc = "loop"
  /\ mpc' = "select"
  /\ UNCHANGED <<netVars, clientVars, flag, interrupts, ready, mread, client_fd_tcp,
                 thread_tcp, thread_udp, tcpVars, udpVars, flagVars>>

\* while (flag)
MainLoop ==
  /\ server = "up" /\ mpc = "loop"
  /\ mpc' = IF flag = 1 THEN "select" ELSE "joinTcp"
  /\ UNCHANGED <<netVars, clientVars, flag, interrupts, ready, mread, client_fd_tcp,
                 thread_tcp, thread_udp, tcpVars, udpVars, flagVars>>

\* pselect returns with something to read, or after its 10 s with nothing.
Select ==
  /\ server = "up" /\ mpc = "select"
  /\ ready' = (IF mainq # <<>> THEN {"tcp"} ELSE {}) \cup (IF udpq # <<>> THEN {"udp"} ELSE {})
  /\ mpc' = IF ready' = {} THEN "loop" ELSE "tcp"
  /\ UNCHANGED <<netVars, clientVars, flag, interrupts, mread, client_fd_tcp,
                 thread_tcp, thread_udp, tcpVars, udpVars, flagVars>>

SkipTcp ==
  /\ server = "up" /\ mpc = "tcp"
  /\ "tcp" \notin ready \/ flag_tcp <= 0
  /\ mpc' = "udp"
  /\ UNCHANGED <<netVars, clientVars, flag, interrupts, ready, mread, client_fd_tcp,
                 thread_tcp, thread_udp, tcpVars, udpVars, flagVars>>

\* Bug: flag_tcp >= 0.
TakeTcpOffByOne ==
  /\ server = "up" /\ mpc = "tcp"
  /\ "tcp" \in ready /\ flag_tcp >= 0 /\ mainq # <<>>
  /\ LET c == Head(mainq)
     IN /\ client_fd_tcp' = c /\ thread_tcp' = c
        /\ open' = open \cup {c}
        /\ tpc' = [tpc EXCEPT ![c] = "loop"]
  /\ mainq' = Tail(mainq)
  /\ mpc' = "readTcp"
  /\ UNCHANGED <<server, wfd, udpq, toSrv, toCli, clientVars, flag, interrupts, ready, mread,
                 thread_udp, tbuf, tread, udpVars, flagVars>>

\* accept and pthread_create.
TakeTcp ==
  /\ server = "up" /\ mpc = "tcp"
  /\ "tcp" \in ready /\ flag_tcp > 0 /\ mainq # <<>>
  /\ LET c == Head(mainq)
     IN /\ client_fd_tcp' = c /\ thread_tcp' = c
        /\ open' = open \cup {c}
        /\ tpc' = [tpc EXCEPT ![c] = "loop"]
  /\ mainq' = Tail(mainq)
  /\ mpc' = "readTcp"
  /\ UNCHANGED <<server, wfd, udpq, toSrv, toCli, clientVars, flag, interrupts, ready, mread,
                 thread_udp, tbuf, tread, udpVars, flagVars>>

SkipUdp ==
  /\ server = "up" /\ mpc = "udp"
  /\ "udp" \notin ready \/ flag_udp <= 0
  /\ mpc' = "loop" /\ ready' = {}
  /\ UNCHANGED <<netVars, clientVars, flag, interrupts, mread, client_fd_tcp,
                 thread_tcp, thread_udp, tcpVars, udpVars, flagVars>>

\* ph_udp is filled (its address with the client_udp main() never set) and
\* the thread created.
TakeUdp ==
  /\ server = "up" /\ mpc = "udp"
  /\ "udp" \in ready /\ flag_udp > 0
  /\ \E u \in UdpThread :
       /\ upc[u] = "none"
       /\ upc' = [upc EXCEPT ![u] = "loop"]
       /\ thread_udp' = u
  /\ ph' = None
  /\ mpc' = "readUdp" /\ ready' = {}
  /\ UNCHANGED <<netVars, clientVars, flag, interrupts, mread, client_fd_tcp, thread_tcp,
                 tcpVars, ubuf, uread, is_client_connected, connected_client, flagVars>>

\* flag_tcp-- and flag_udp--
ReadFlag ==
  /\ server = "up" /\ mpc \in {"readTcp", "readUdp"}
  /\ IF mpc = "readTcp" THEN mread' = flag_tcp /\ mpc' = "writeTcp"
                        ELSE mread' = flag_udp /\ mpc' = "writeUdp"
  /\ UNCHANGED <<netVars, clientVars, flag, interrupts, ready, client_fd_tcp,
                 thread_tcp, thread_udp, tcpVars, udpVars, flagVars>>

WriteFlag ==
  /\ server = "up"
  /\ \/ /\ mpc = "writeTcp" /\ mpc' = "udp"
        /\ flag_tcp' = mread - 1 /\ flag_udp' = flag_udp
        /\ Lose("tcp", flag_tcp, mread)
     \/ /\ mpc = "writeUdp" /\ mpc' = "loop"
        /\ flag_udp' = mread - 1 /\ flag_tcp' = flag_tcp
        /\ Lose("udp", flag_udp, mread)
  /\ mread' = 0
  /\ UNCHANGED <<netVars, clientVars, flag, interrupts, ready, client_fd_tcp,
                 thread_tcp, thread_udp, tcpVars, udpVars>>

\* pthread_join of a thread that was created.
Join ==
  /\ server = "up"
  /\ \/ /\ mpc = "joinTcp" /\ mpc' = "joinUdp"
        /\ thread_tcp # None /\ tpc[thread_tcp] = "exited"
     \/ /\ mpc = "joinUdp" /\ mpc' = "return"
        /\ thread_udp # 0 /\ upc[thread_udp] = "none"
  /\ UNCHANGED <<netVars, clientVars, flag, interrupts, ready, mread, client_fd_tcp,
                 thread_tcp, thread_udp, tcpVars, udpVars, flagVars>>

\* pthread_join of an uninitialised pthread_t: the call returns an error, or
\* the process dies of it.
JoinGarbage ==
  /\ server = "up"
  /\ \/ mpc = "joinTcp" /\ thread_tcp = None /\ mpc' = "joinUdp"
     \/ mpc = "joinUdp" /\ thread_udp = 0 /\ mpc' = "return"
  /\ server' \in {"up", "failed"}
  /\ UNCHANGED <<mainq, open, wfd, udpq, toSrv, toCli, clientVars, flag, interrupts, ready, mread,
                 client_fd_tcp, thread_tcp, thread_udp, tcpVars, udpVars, flagVars>>

Return ==
  /\ server = "up" /\ mpc = "return"
  /\ server' = "exited"
  /\ UNCHANGED <<mainq, open, wfd, udpq, toSrv, toCli, clientVars, flag, interrupts,
                 mainVars, tcpVars, udpVars, flagVars>>

MainStep == \/ MainLoop \/ Select \/ SkipTcp \/ TakeTcp \/ SkipUdp \/ TakeUdp
            \/ ReadFlag \/ WriteFlag
            \/ Join \/ JoinGarbage \/ Return

-----------------------------------------------------------------------------
(* communicate_with_client_tcp *)
GotoTcp(w, pc) == tpc' = [tpc EXCEPT ![w] = pc]

\* while (flag), and the call of recv with the descriptor client_fd_tcp has now.
CallRecvTcp(w) ==
  /\ server = "up" /\ tpc[w] = "loop"
  /\ IF flag = 1 /\ client_fd_tcp \in open
     THEN GotoTcp(w, "recv") /\ wfd' = [wfd EXCEPT ![w] = client_fd_tcp]
     ELSE GotoTcp(w, "read") /\ UNCHANGED wfd
  /\ UNCHANGED <<server, mainq, open, udpq, toSrv, toCli, clientVars, flag, interrupts,
                 mainVars, tbuf, tread, udpVars, flagVars>>

RecvTcp(w) ==
  /\ server = "up" /\ tpc[w] = "recv" /\ toSrv[wfd[w]] # <<>>
  /\ tbuf' = [tbuf EXCEPT ![w] = Reply(Head(toSrv[wfd[w]]))]
  /\ toSrv' = [toSrv EXCEPT ![wfd[w]] = Tail(@)]
  /\ wfd' = [wfd EXCEPT ![w] = None]
  /\ GotoTcp(w, "send")
  /\ UNCHANGED <<server, mainq, open, udpq, toCli, clientVars, flag, interrupts,
                 mainVars, tread, udpVars, flagVars>>

\* Bug: the end of the stream is not tested.
RecvTcpEndIgnored(w) ==
  /\ server = "up" /\ tpc[w] = "recv" /\ toSrv[wfd[w]] = <<>> /\ cpc[wfd[w]] = "done"
  /\ wfd' = [wfd EXCEPT ![w] = None]
  /\ GotoTcp(w, "loop")
  /\ UNCHANGED <<server, mainq, open, udpq, toSrv, toCli, clientVars, flag, interrupts,
                 mainVars, tbuf, tread, udpVars, flagVars>>

\* recv returns 0 or an error once the client process is gone.
RecvTcpEnd(w) ==
  /\ server = "up" /\ tpc[w] = "recv" /\ toSrv[wfd[w]] = <<>> /\ cpc[wfd[w]] = "done"
  /\ wfd' = [wfd EXCEPT ![w] = None]
  /\ GotoTcp(w, "read")
  /\ UNCHANGED <<server, mainq, open, udpq, toSrv, toCli, clientVars, flag, interrupts,
                 mainVars, tbuf, tread, udpVars, flagVars>>

\* send to the descriptor client_fd_tcp has now; it fails if that is closed.
SendTcp(w) ==
  /\ server = "up" /\ tpc[w] = "send"
  /\ IF client_fd_tcp \in open
     THEN /\ Answer(client_fd_tcp, tbuf[w])
          /\ GotoTcp(w, IF tbuf[w].sign = QUIT_ACK THEN "read" ELSE "loop")
     ELSE GotoTcp(w, "read") /\ UNCHANGED toCli
  /\ tbuf' = [tbuf EXCEPT ![w] = ZeroMsg]
  /\ UNCHANGED <<server, mainq, open, wfd, udpq, toSrv, clientVars, flag, interrupts,
                 mainVars, tread, udpVars, flagVars>>

\* flag_tcp++
ReadFlagTcp(w) ==
  /\ server = "up" /\ tpc[w] = "read"
  /\ tread' = [tread EXCEPT ![w] = flag_tcp]
  /\ GotoTcp(w, "write")
  /\ UNCHANGED <<netVars, clientVars, flag, interrupts, mainVars, tbuf, udpVars, flagVars>>

WriteFlagTcp(w) ==
  /\ server = "up" /\ tpc[w] = "write"
  /\ flag_tcp' = tread[w] + 1
  /\ Lose("tcp", flag_tcp, tread[w])
  /\ tread' = [tread EXCEPT ![w] = 0]
  /\ GotoTcp(w, "close")
  /\ UNCHANGED <<netVars, clientVars, flag, interrupts, mainVars, tbuf, udpVars, flag_udp>>

\* close(*client_fd_tcp): by now it may be the next client's descriptor.
CloseTcp(w) ==
  /\ server = "up" /\ tpc[w] = "close"
  /\ open' = open \ {client_fd_tcp}
  /\ GotoTcp(w, "exited")
  /\ UNCHANGED <<server, mainq, wfd, udpq, toSrv, toCli, clientVars, flag, interrupts,
                 mainVars, tbuf, tread, udpVars, flagVars>>

TcpStep(w) == \/ CallRecvTcp(w) \/ RecvTcp(w) \/ RecvTcpEnd(w) \/ SendTcp(w)
              \/ ReadFlagTcp(w) \/ WriteFlagTcp(w) \/ CloseTcp(w)

-----------------------------------------------------------------------------
(* communicate_with_client_udp *)
GotoUdp(u, pc) == upc' = [upc EXCEPT ![u] = pc]

CallRecvUdp(u) ==
  /\ server = "up" /\ upc[u] = "loop"
  /\ GotoUdp(u, IF flag = 1 THEN "recv" ELSE "read")
  /\ UNCHANGED <<netVars, clientVars, flag, interrupts, mainVars, tcpVars, ubuf, uread, ph,
                 is_client_connected, connected_client, flagVars>>

RecvUdp(u) ==
  /\ server = "up" /\ upc[u] = "recv" /\ udpq # <<>>
  /\ ph' = Head(udpq).from
  /\ ubuf' = [ubuf EXCEPT ![u] = Head(udpq).msg]
  /\ udpq' = Tail(udpq)
  /\ GotoUdp(u, "check")
  /\ UNCHANGED <<server, mainq, open, wfd, toSrv, toCli, clientVars, flag, interrupts, mainVars,
                 tcpVars, uread, is_client_connected, connected_client, flagVars>>

\* Bug: the addresses are not compared.
CheckUdpAny(u) ==
  /\ server = "up" /\ upc[u] = "check"
  /\ GotoUdp(u, "send")
  /\ ubuf' = [ubuf EXCEPT ![u] = Reply(@)]
  /\ is_client_connected' = 1
  /\ connected_client' = IF is_client_connected = 1 THEN connected_client ELSE ph
  /\ UNCHANGED <<netVars, clientVars, flag, interrupts, mainVars, tcpVars, uread, ph, flagVars>>

\* The session is the first client's; data of another one is skipped.
CheckUdp(u) ==
  /\ server = "up" /\ upc[u] = "check"
  /\ IF is_client_connected = 1 /\ ph # connected_client
     THEN /\ GotoUdp(u, "loop")
          /\ ubuf' = [ubuf EXCEPT ![u] = ZeroMsg]
          /\ UNCHANGED <<is_client_connected, connected_client>>
     ELSE /\ GotoUdp(u, "send")
          /\ ubuf' = [ubuf EXCEPT ![u] = Reply(@)]
          /\ is_client_connected' = 1
          /\ connected_client' = IF is_client_connected = 1 THEN connected_client ELSE ph
  /\ UNCHANGED <<netVars, clientVars, flag, interrupts, mainVars, tcpVars, uread, ph, flagVars>>

SendUdp(u) ==
  /\ server = "up" /\ upc[u] = "send"
  /\ Answer(ph, ubuf[u])
  /\ GotoUdp(u, IF ubuf[u].sign = QUIT_ACK THEN "read" ELSE "loop")
  /\ ubuf' = [ubuf EXCEPT ![u] = ZeroMsg]
  /\ UNCHANGED <<server, mainq, open, wfd, udpq, toSrv, clientVars, flag, interrupts, mainVars,
                 tcpVars, uread, ph, is_client_connected, connected_client, flagVars>>

\* Bug: is_client_connected is not reset.
ReadFlagUdpKeepsClient(u) ==
  /\ server = "up" /\ upc[u] = "read"
  /\ uread' = [uread EXCEPT ![u] = flag_udp]
  /\ GotoUdp(u, "write")
  /\ UNCHANGED <<netVars, clientVars, flag, interrupts, mainVars, tcpVars, ubuf, ph,
                 is_client_connected, connected_client, flagVars>>

\* is_client_connected = 0, and the read of flag_udp++
ReadFlagUdp(u) ==
  /\ server = "up" /\ upc[u] = "read"
  /\ is_client_connected' = 0
  /\ uread' = [uread EXCEPT ![u] = flag_udp]
  /\ GotoUdp(u, "write")
  /\ UNCHANGED <<netVars, clientVars, flag, interrupts, mainVars, tcpVars, ubuf, ph,
                 connected_client, flagVars>>

WriteFlagUdp(u) ==
  /\ server = "up" /\ upc[u] = "write"
  /\ flag_udp' = uread[u] + 1
  /\ Lose("udp", flag_udp, uread[u])
  /\ uread' = [uread EXCEPT ![u] = 0]
  /\ GotoUdp(u, "none")
  /\ UNCHANGED <<netVars, clientVars, flag, interrupts, mainVars, tcpVars, ubuf, ph,
                 is_client_connected, connected_client, flag_tcp>>

UdpStep(u) == \/ CallRecvUdp(u) \/ RecvUdp(u) \/ CheckUdp(u) \/ SendUdp(u)
              \/ ReadFlagUdp(u) \/ WriteFlagUdp(u)

-----------------------------------------------------------------------------
(* Ctrl+C.  Any thread may run handle_signal; the call it was blocked in   *)
(* fails with EINTR.                                                       *)
Signal == /\ server = "up" /\ interrupts < MaxInterrupts
          /\ flag' = 0
          /\ interrupts' = interrupts + 1

InterruptMain ==
  /\ Signal /\ mpc = "select" /\ mpc' = "loop"
  /\ UNCHANGED <<netVars, clientVars, ready, mread, client_fd_tcp, thread_tcp, thread_udp,
                 tcpVars, udpVars, flagVars>>

InterruptRunning ==
  /\ Signal
  /\ UNCHANGED <<netVars, clientVars, mainVars, tcpVars, udpVars, flagVars>>

InterruptTcp(w) ==
  /\ Signal /\ tpc[w] = "recv" /\ GotoTcp(w, "read")
  /\ wfd' = [wfd EXCEPT ![w] = None]
  /\ UNCHANGED <<server, mainq, open, udpq, toSrv, toCli, clientVars, mainVars, tbuf, tread,
                 udpVars, flagVars>>

\* Bug: after a failed recvfrom the thread exits without flag_udp++.
InterruptUdpExits(u) ==
  /\ Signal /\ upc[u] = "recv" /\ GotoUdp(u, "none")
  /\ UNCHANGED <<netVars, clientVars, mainVars, tcpVars, ubuf, uread, ph,
                 is_client_connected, connected_client, flagVars>>

InterruptUdp(u) ==
  /\ Signal /\ upc[u] = "recv" /\ GotoUdp(u, "read")
  /\ UNCHANGED <<netVars, clientVars, mainVars, tcpVars, ubuf, uread, ph,
                 is_client_connected, connected_client, flagVars>>

Interrupt == \/ InterruptMain \/ InterruptRunning
             \/ \E w \in TcpClient : InterruptTcp(w)
             \/ \E u \in UdpThread : InterruptUdp(u)

-----------------------------------------------------------------------------
ClientKeeps == UNCHANGED <<flag, interrupts, mainVars, tcpVars, udpVars, flagVars>>

Next == \/ MainStep
        \/ \E w \in TcpClient : TcpStep(w)
        \/ \E u \in UdpThread : UdpStep(u)
        \/ Interrupt
        \/ \E c \in Client : (ClientStep(c) \/ UserStep(c)) /\ ClientKeeps

Spec == Init /\ [][Next]_vars

\* The scheduler runs every thread and every client that can take a step;
\* users may stay silent for ever.
Fairness == /\ WF_vars(MainStep)
            /\ \A w \in TcpClient : WF_vars(TcpStep(w))
            /\ \A u \in UdpThread : WF_vars(UdpStep(u))
            /\ \A c \in Client : WF_vars(ClientStep(c) /\ ClientKeeps)

FairSpec == Spec /\ Fairness
=============================================================================
