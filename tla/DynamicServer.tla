------------------------------ MODULE DynamicServer ------------------------------
(***************************************************************************)
(* The server of TCP_UDP_task1 with its clients: main() admits a client by *)
(* giving it a free entry of ports_array, binds a serving socket to that   *)
(* port, creates a thread for the session and redirects the client to the  *)
(* port; the thread answers until the client quits or disappears, or       *)
(* SIGINT arrives, and gives the entry back.                               *)
(*                                                                         *)
(* A thread and its serving socket are named by the client they were made  *)
(* for.  The locked section of a thread is one step, since nothing else    *)
(* can observe it half done: every other access to what it writes is under *)
(* the mutex or is the one unlocked read of flag_client in main().         *)
(*                                                                         *)
(* Descriptors are numbers here: a thread reads the number it uses from    *)
(* ph_tcp_udp, where it may be that of another session, or one that was    *)
(* closed and given out again.  Of the kernel the model uses that          *)
(*   - socket() and accept() give the lowest free number, and accept()     *)
(*     takes it when the call begins: it cannot be closed meanwhile;       *)
(*   - a call works on the file its number opened when it began, and       *)
(*     keeps that file alive until it returns;                             *)
(*   - a file goes once neither a number nor a call refers to it.          *)
(***************************************************************************)
EXTENDS CubeClient

CONSTANT MaxInterrupts   \* bound on the number of times the user types Ctrl+C

ASSUME MaxInterruptsAssumption == MaxInterrupts \in Nat

VARIABLES
  flag,         \* the loops run while flag is 1; handle_signal clears it
  flag_client,  \* number of clients main() would still admit
  status,       \* status[s]: ports_array[s].status
  ph,           \* ph[s]: the session ph_tcp_udp[s] describes (its client)
  fd_serv,      \* fd_serv[s]: ph_tcp_udp[s].fd_serv, 0 while unset
  thread_input, \* thread_input[s]: the thread last created for entry s
  cout_thread,  \* largest index a thread was created for
  locked,       \* main() holds mutex
  mpc,          \* where main() is
  ready,        \* protocols pselect reported and main() has not handled
  cur,          \* the client main() is admitting or refusing
  main_fd,      \* client_fd_tcp of main(), 0 while it is not used
  join,         \* index_port of the final loop
  wpc,          \* wpc[w]: where thread w is
  wslot,        \* wslot[w]: the entry whose ph_tcp_udp it was given
  wpeer,        \* wpeer[w]: client_fd_tcp (TCP), connected_client (UDP)
  wbuf,         \* wbuf[w]: its `buffer` and the address it came from
  wfd,          \* wfd[w]: client_fd_tcp, the number its accept returns
  wfile,        \* wfile[w]: the file of the call it is blocked in, or Free
  fds,          \* fds[n]: what descriptor n opens
  crossed,      \* history: a call or a close has reached a file it was not meant for
  interrupts    \* number of SIGINTs so far

mainVars == <<mpc, ready, cur, main_fd, join>>
poolVars == <<flag_client, status, ph, fd_serv, thread_input, cout_thread, locked>>
workerVars == <<wpc, wslot, wpeer, wbuf, wfd, wfile>>
fdVars == <<fds, crossed>>
vars == <<netVars, clientVars, flag, interrupts, mainVars, poolVars, workerVars, fdVars>>

WorkerPc == {"none", "start", "accept", "loop", "recv", "send", "release", "close", "exited"}

\* Threads that have not given their entry back.
Holding == {"start", "accept", "loop", "recv", "send", "release"}

NoRequest == [from |-> None, msg |-> ZeroMsg]

\* What a descriptor opens: the serving socket made for client c, the
\* connection main() accepted from c, or the one a thread accepted from c.
Serv(c) == <<"serv", c>>
MainConn(c) == <<"main", c>>
Conn(c) == <<"conn", c>>
Free == <<"free", None>>
Reserved == <<"reserved", None>>   \* by an accept() that has not returned

File == {"serv", "main", "conn"} \X Client
Fd == 1 .. FdLimit   \* 0 is no descriptor

Init ==
  /\ server = "up"
  /\ mainq = [p \in {"tcp", "udp"} |-> <<>>]
  /\ accepted = {} /\ conn = {}
  /\ sock = [w \in Client |-> Closed]
  /\ backlog = [w \in Client |-> <<>>]
  /\ dgrams = [w \in Client |-> <<>>]
  /\ toSrv = [c \in Client |-> <<>>]
  /\ toCli = [c \in Client |-> <<>>]
  /\ ClientInit
  /\ flag = 1 /\ interrupts = 0
  /\ flag_client = LENGTH_CLIENT
  /\ status = [s \in Slot |-> 0]
  /\ ph = [s \in Slot |-> None]
  /\ fd_serv = [s \in Slot |-> 0]
  /\ thread_input = [s \in Slot |-> None]
  /\ cout_thread = 0
  /\ locked = FALSE
  /\ mpc = "loop" /\ ready = {} /\ cur = None /\ main_fd = 0 /\ join = 0
  /\ wpc = [w \in Client |-> "none"]
  /\ wslot = [w \in Client |-> 0]
  /\ wpeer = [w \in Client |-> None]
  /\ wbuf = [w \in Client |-> NoRequest]
  /\ wfd = [w \in Client |-> 0]
  /\ wfile = [w \in Client |-> Free]
  /\ fds = [n \in 0 .. FdLimit |-> Free]
  /\ crossed = FALSE

-----------------------------------------------------------------------------
(* exit(EXIT_FAILURE) from error_func: the kernel closes everything. *)
Fail == /\ server' = "failed"
        /\ UNCHANGED <<mainq, accepted, sock, backlog, dgrams, conn, toSrv, toCli,
                       clientVars, flag, interrupts, mainVars, poolVars, workerVars, fdVars>>

(* Descriptors and files. *)

\* The number the kernel gives next, if there is one.
Lowest(n) == fds[n] = Free /\ \A k \in Fd : k < n => fds[k] # Free
NoFd == \A n \in Fd : fds[n] # Free

\* Nothing refers to file f any more.
Destroys(f) == /\ sock' = [x \in Client |-> IF f = Serv(x) THEN Closed ELSE sock[x]]
               /\ accepted' = {c \in accepted : f # MainConn(c)}
               /\ conn' = {d \in conn : f # Conn(d[1])}

\* The server may write to f: a connection that was not reset.
CanWrite(f) == f[1] = "main" \/ (f[1] = "conn" /\ ~Reset(f[2]))

\* A message written to connection f.
Write(f, m) == IF f[1] = "main" THEN SendMain(f[2], m) ELSE SendClient(f[2], m)

(* The table of ports. *)

\* The protocol main() handles now: TCP is tested first.
Now == IF "tcp" \in ready THEN "tcp" ELSE "udp"

\* Bugs in the search of ports_array: it takes any free entry, searches from
\* the end, or forgets to test the entry it stops at.
AnyFree(s) == status[s] = 0
LastFree(s) == status[s] = 0 /\ \A t \in Slot : t > s => status[t] # 0
FirstUntested(s) == \A t \in Slot : t < s => status[t] # 0

\* The entry the search of ports_array stops at.
FirstFree(s) == status[s] = 0 /\ \A t \in Slot : t < s => status[t] # 0

\* Bug: buffer.sign = 6 is forgotten and the last redirect is sent again.
StaleBuffer == Msg(REDIRECT, 0)

\* What a client is told when there is no room.
NoRoom == Msg(LIMIT, 0)

-----------------------------------------------------------------------------
(* main() *)

\* Bug: while (1).
LoopForEver ==
  /\ server = "up" /\ mpc = "loop"
  /\ mpc' = "select"
  /\ UNCHANGED <<netVars, clientVars, flag, interrupts, ready, cur, main_fd, join, poolVars,
                 workerVars, fdVars>>

\* while (flag)
MainLoop ==
  /\ server = "up" /\ mpc = "loop"
  /\ mpc' = IF flag = 1 THEN "select" ELSE "join"
  /\ UNCHANGED <<netVars, clientVars, flag, interrupts, ready, cur, main_fd, join, poolVars,
                 workerVars, fdVars>>

\* pselect returns with something to read, or after its 10 s with nothing.
Select ==
  /\ server = "up" /\ mpc = "select"
  /\ ready' = {p \in {"tcp", "udp"} : mainq[p] # <<>>}
  /\ mpc' = IF ready' = {} THEN "loop" ELSE "check"
  /\ UNCHANGED <<netVars, clientVars, flag, interrupts, cur, main_fd, join, poolVars,
                 workerVars, fdVars>>

\* Bug: flag_client >= 0.
CheckOffByOne ==
  /\ server = "up" /\ mpc = "check"
  /\ mpc' = IF flag_client >= 0 THEN "admit" ELSE "refuse"
  /\ UNCHANGED <<netVars, clientVars, flag, interrupts, ready, cur, main_fd, join, poolVars,
                 workerVars, fdVars>>

\* if (flag_client > 0), read without the mutex.
Check ==
  /\ server = "up" /\ mpc = "check"
  /\ mpc' = IF flag_client > 0 THEN "admit" ELSE "refuse"
  /\ UNCHANGED <<netVars, clientVars, flag, interrupts, ready, cur, main_fd, join, poolVars,
                 workerVars, fdVars>>

\* pthread_mutex_lock, then accept or recvfrom.
Take ==
  /\ server = "up" /\ mpc \in {"admit", "refuse"} /\ ~locked /\ mainq[Now] # <<>>
  /\ cur' = Head(mainq[Now])
  /\ mainq' = [mainq EXCEPT ![Now] = Tail(@)]
  /\ IF Now = "tcp"
     THEN \E n \in Fd :
            /\ Lowest(n)
            /\ fds' = [fds EXCEPT ![n] = MainConn(cur')]
            /\ main_fd' = n
            /\ accepted' = accepted \cup {cur'}
     ELSE UNCHANGED <<fds, main_fd, accepted>>
  /\ locked' = TRUE
  /\ mpc' = IF mpc = "admit" THEN "bind" ELSE "deny"
  /\ UNCHANGED <<server, sock, backlog, dgrams, conn, toSrv, toCli, clientVars, flag,
                 interrupts, ready, join, flag_client, status, ph, fd_serv, thread_input,
                 cout_thread, workerVars, crossed>>

\* accept fails: error_func ends the process.
TakeFails ==
  /\ server = "up" /\ mpc \in {"admit", "refuse"} /\ ~locked /\ mainq[Now] # <<>>
  /\ Now = "tcp" /\ NoFd
  /\ Fail

\* From socket() to pthread_create.
Admit ==
  /\ server = "up" /\ mpc = "bind"
  /\ \E n \in Fd, s \in Slot :
       /\ Lowest(n) /\ FirstFree(s) /\ ~PortInUse(Now, s)
       /\ fds' = [fds EXCEPT ![n] = Serv(cur)]
       /\ sock' = [sock EXCEPT ![cur] = Bound(Now, s)]
       /\ status' = [status EXCEPT ![s] = 1]
       /\ ph' = [ph EXCEPT ![s] = cur]
       /\ fd_serv' = [fd_serv EXCEPT ![s] = n]
       /\ thread_input' = [thread_input EXCEPT ![s] = cur]
       /\ cout_thread' = IF s > cout_thread THEN s ELSE cout_thread
       /\ wpc' = [wpc EXCEPT ![cur] = IF Now = "tcp" THEN "start" ELSE "loop"]
       /\ wslot' = [wslot EXCEPT ![cur] = s]
  /\ mpc' = "reply"
  /\ UNCHANGED <<server, mainq, accepted, backlog, dgrams, conn, toSrv, toCli, clientVars, flag,
                 interrupts, ready, cur, main_fd, join, flag_client, locked, wpeer, wbuf, wfd,
                 wfile, crossed>>

\* socket or bind fails (or pthread_create, with the same end).
AdmitFails ==
  /\ server = "up" /\ mpc = "bind"
  /\ NoFd \/ \E s \in Slot : FirstFree(s) /\ PortInUse(Now, s)
  /\ Fail

\* Bug: the branch that was handled is looked at again.
SameBranch == ready' = ready /\ mpc' = "check"

\* After a branch main() goes on to the other protocol, or back to the loop.
NextBranch == /\ ready' = ready \ {Now}
              /\ mpc' = IF ready' = {} THEN "loop" ELSE "check"

\* Where main() writes its answer: to client_fd_tcp, which may have been
\* closed and given out again, or from port 8079 to the client's address.
AnswerFile == IF Now = "tcp" THEN fds[main_fd] ELSE MainConn(cur)

\* The answer, and pthread_mutex_unlock.
Answer(m) ==
  /\ server = "up" /\ CanWrite(AnswerFile)
  /\ Write(AnswerFile, m)
  /\ crossed' = (crossed \/ AnswerFile # MainConn(cur))
  /\ locked' = FALSE
  /\ cur' = None /\ main_fd' = 0
  /\ NextBranch
  /\ UNCHANGED <<server, mainq, accepted, sock, backlog, dgrams, conn, toSrv, clientVars,
                 flag, interrupts, join, status, ph, fd_serv, thread_input, cout_thread,
                 workerVars, fds>>

\* The redirect is sent, and flag_client--.
SendRedirect == /\ mpc = "reply" /\ Answer(Msg(REDIRECT, wslot[cur]))
                /\ flag_client' = flag_client - 1

\* No room: the client is told so; its TCP connection is never closed.
Refuse == /\ mpc = "deny" /\ Answer(NoRoom)
          /\ UNCHANGED flag_client

\* send fails, or raises SIGPIPE.
ReplyFails == /\ server = "up" /\ mpc \in {"reply", "deny"} /\ ~CanWrite(AnswerFile)
              /\ Fail

\* pthread_join(thread_input[join]) for join < cout_thread.
Join ==
  /\ server = "up" /\ mpc = "join" /\ join < cout_thread
  /\ wpc[thread_input[join]] = "exited"
  /\ join' = join + 1
  /\ UNCHANGED <<netVars, clientVars, flag, interrupts, mpc, ready, cur, main_fd, poolVars,
                 workerVars, fdVars>>

\* return 0: the process ends with whatever threads it still has.
Return ==
  /\ server = "up" /\ mpc = "join" /\ join >= cout_thread
  /\ server' = "exited"
  /\ UNCHANGED <<mainq, accepted, sock, backlog, dgrams, conn, toSrv, toCli, clientVars,
                 flag, interrupts, mainVars, poolVars, workerVars, fdVars>>

MainStep == \/ MainLoop \/ Select \/ Check
            \/ Take \/ TakeFails \/ Admit \/ AdmitFails
            \/ SendRedirect \/ Refuse \/ ReplyFails
            \/ Join \/ Return

-----------------------------------------------------------------------------
(* communicate_with_client_tcp and communicate_with_client_udp.  A thread  *)
(* finds its serving socket through ph_tcp_udp each time it uses it.       *)

\* The session ph_tcp_udp describes at thread w's entry, and what its fd_serv opens.
Serving(w) == ph[wslot[w]]
ServFile(w) == fds[fd_serv[wslot[w]]]

\* What thread w reads from and writes to, and what it was meant to.
SessionFile(w) == IF w \in TcpClient THEN fds[wfd[w]] ELSE ServFile(w)
Meant(w) == IF w \in TcpClient THEN Conn(wpeer[w]) ELSE Serv(Serving(w))

\* The number of a file meant to be m has been given to another one, f.
Crosses(f, m) == f \notin {Free, Reserved, m}

Goto(w, pc) == wpc' = [wpc EXCEPT ![w] = pc]

\* The file of thread w's call loses its last reference when the call returns.
LastUse(w) == /\ \A n \in Fd : fds[n] # wfile[w]
              /\ \A v \in Client : v # w => wfile[v] # wfile[w]

CallReturns(w) == /\ wfile' = [wfile EXCEPT ![w] = Free]
                  /\ IF LastUse(w) THEN Destroys(wfile[w]) ELSE UNCHANGED <<sock, accepted, conn>>

\* accept(fd_tcp->fd_serv) on a listening socket: the thread blocks.
CallAccept(w) ==
  /\ server = "up" /\ wpc[w] = "start"
  /\ \E x \in TcpClient, n \in Fd :
       /\ ServFile(w) = Serv(x) /\ Lowest(n)
       /\ fds' = [fds EXCEPT ![n] = Reserved]
       /\ wfd' = [wfd EXCEPT ![w] = n]
       /\ wfile' = [wfile EXCEPT ![w] = Serv(x)]
       /\ crossed' = (crossed \/ Crosses(Serv(x), Serv(Serving(w))))
  /\ Goto(w, "accept")
  /\ UNCHANGED <<netVars, clientVars, flag, interrupts, mainVars, poolVars, wslot, wpeer, wbuf>>

\* ... on anything else, or with no descriptor left.
AcceptFails(w) ==
  /\ server = "up" /\ wpc[w] = "start"
  /\ NoFd \/ \A x \in TcpClient : ServFile(w) # Serv(x)
  /\ Fail

Accept(w) ==
  /\ server = "up" /\ wpc[w] = "accept"
  /\ LET x == wfile[w][2]
     IN /\ backlog[x] # <<>>
        /\ fds' = [fds EXCEPT ![wfd[w]] = Conn(Head(backlog[x]))]
        /\ conn' = conn \cup {<<Head(backlog[x]), sock[x].port>>}
        /\ wpeer' = [wpeer EXCEPT ![w] = Head(backlog[x])]
        /\ backlog' = [backlog EXCEPT ![x] = Tail(@)]
        /\ sock' = IF LastUse(w) THEN [sock EXCEPT ![x] = Closed] ELSE sock
  /\ wfile' = [wfile EXCEPT ![w] = Free]
  /\ Goto(w, "loop")
  /\ UNCHANGED <<server, mainq, accepted, dgrams, toSrv, toCli, clientVars, flag, interrupts,
                 mainVars, poolVars, wslot, wbuf, wfd, crossed>>

\* recv waits on f: a connection or a UDP socket.  Otherwise it is an error
\* (EBADF, ENOTCONN), after which the loop is left.
Readable(f) == f[1] \in {"main", "conn"} \/ (f[1] = "serv" /\ f[2] \in UdpClient)

\* while (flag), and the call of recv or recvfrom.
CallRecv(w) ==
  /\ server = "up" /\ wpc[w] = "loop"
  /\ IF flag = 1 /\ Readable(SessionFile(w))
     THEN Goto(w, "recv") /\ wfile' = [wfile EXCEPT ![w] = SessionFile(w)]
     ELSE Goto(w, "release") /\ UNCHANGED wfile
  /\ crossed' = (crossed \/ (flag = 1 /\ Crosses(SessionFile(w), Meant(w))))
  /\ UNCHANGED <<netVars, clientVars, flag, interrupts, mainVars, poolVars, wslot, wpeer, wbuf,
                 wfd, fds>>

\* A message from a session connection.  It comes with no address for the
\* reply, which recvfrom sets to length 0.
RecvStream(w) ==
  /\ server = "up" /\ wpc[w] = "recv" /\ wfile[w][1] = "conn"
  /\ LET c == wfile[w][2]
     IN /\ toSrv[c] # <<>>
        /\ wbuf' = [wbuf EXCEPT ![w] = [from |-> IF w \in TcpClient THEN c ELSE None,
                                         msg |-> Reply(Head(toSrv[c]))]]
        /\ toSrv' = [toSrv EXCEPT ![c] = Tail(@)]
  /\ CallReturns(w)
  /\ Goto(w, "send")
  /\ UNCHANGED <<server, mainq, backlog, dgrams, toCli, clientVars, flag, interrupts,
                 mainVars, poolVars, wslot, wpeer, wfd, fds, crossed>>

\* The client process at the other end of connection f is gone (a client
\* also closes its first connection once it was answered), and f was read up.
AtEnd(f) == \/ f[1] = "main" /\ cpc[f[2]] # "await"
            \/ f[1] = "conn" /\ cpc[f[2]] = "done" /\ toSrv[f[2]] = <<>>

\* A message was sent there since then, and drew a reset.
WasReset(f) == f[1] = "main" \/ (f[1] = "conn" /\ Reset(f[2]))

\* Bug: recv's 0 is taken for a message (no break).
RecvEndIgnored(w) ==
  /\ server = "up" /\ wpc[w] = "recv" /\ AtEnd(wfile[w])
  /\ CallReturns(w)
  /\ Goto(w, "loop")
  /\ UNCHANGED <<server, mainq, backlog, dgrams, toSrv, toCli, clientVars, flag, interrupts,
                 mainVars, poolVars, wslot, wpeer, wbuf, wfd, fds, crossed>>

\* recv returns 0 or an error.
RecvEnd(w) ==
  /\ server = "up" /\ wpc[w] = "recv" /\ AtEnd(wfile[w])
  /\ w \in UdpClient => WasReset(wfile[w])
  /\ CallReturns(w)
  /\ Goto(w, "release")
  /\ UNCHANGED <<server, mainq, backlog, dgrams, toSrv, toCli, clientVars, flag, interrupts,
                 mainVars, poolVars, wslot, wpeer, wbuf, wfd, fds, crossed>>

\* To a UDP thread 0 is no error: it answers what its buffer holds already.
RecvNothing(w) ==
  /\ server = "up" /\ wpc[w] = "recv" /\ w \in UdpClient /\ AtEnd(wfile[w])
  /\ \E m \in IF wbuf[w] = NoRequest THEN Garbage ELSE {wbuf[w].msg} :
       wbuf' = [wbuf EXCEPT ![w] = [from |-> None, msg |-> Reply(m)]]
  /\ CallReturns(w)
  /\ Goto(w, "send")
  /\ UNCHANGED <<server, mainq, backlog, dgrams, toSrv, toCli, clientVars, flag, interrupts,
                 mainVars, poolVars, wslot, wpeer, wfd, fds, crossed>>

\* The address that is compared with connected_client is not the sender's
\* but the one main() left in ph_tcp_udp.
SameClient(w) == wpeer[w] = None \/ wpeer[w] = Serving(w)

RecvUdp(w) ==
  /\ server = "up" /\ wpc[w] = "recv" /\ wfile[w][1] = "serv"
  /\ LET x == wfile[w][2]
     IN /\ dgrams[x] # <<>>
        /\ dgrams' = [dgrams EXCEPT ![x] = Tail(@)]
        /\ IF w \in TcpClient \/ SameClient(w)
           THEN /\ wpeer' = [wpeer EXCEPT ![w] = IF w \in TcpClient THEN @ ELSE Serving(w)]
                /\ wbuf' = [wbuf EXCEPT ![w] = [from |-> Head(dgrams[x]).from,
                                                 msg |-> Reply(Head(dgrams[x]).msg)]]
                /\ Goto(w, "send")
           ELSE Goto(w, "loop") /\ UNCHANGED <<wpeer, wbuf>>
  /\ CallReturns(w)
  /\ UNCHANGED <<server, mainq, backlog, toSrv, toCli, clientVars, flag, interrupts,
                 mainVars, poolVars, wslot, wfd, fds, crossed>>

\* Thread w may send a datagram on f: it has an address for it, which reaches
\* the client only from the port the client is connected to.
CanSendTo(w, f) == f[1] = "serv" /\ f[2] \in UdpClient /\ w \in UdpClient /\ wbuf[w].from # None

SendDatagram(f, r) ==
  IF cport[r.from] = sock[f[2]].port THEN SendClient(r.from, r.msg) ELSE UNCHANGED toCli

\* The reply; the loop is left after QUIT_ACK.  The buffer keeps the message.
Send(w) ==
  /\ server = "up" /\ wpc[w] = "send"
  /\ LET f == SessionFile(w)
         r == wbuf[w]
     IN /\ \/ CanWrite(f) /\ Write(f, r.msg)
           \/ CanSendTo(w, f) /\ SendDatagram(f, r)
        /\ crossed' = (crossed \/ Crosses(f, Meant(w)))
        /\ Goto(w, IF r.msg.sign # QUIT_ACK THEN "loop" ELSE "release")
  /\ wbuf' = [wbuf EXCEPT ![w].from = None]
  /\ UNCHANGED <<server, mainq, accepted, sock, backlog, dgrams, conn, toSrv, clientVars,
                 flag, interrupts, mainVars, poolVars, wslot, wpeer, wfd, wfile, fds>>

\* A write to f raises SIGPIPE: f is listening, or was reset.
RaisesSigpipe(f) == \/ f[1] = "serv" /\ f[2] \in TcpClient
                    \/ f[1] = "main" /\ cpc[f[2]] # "await"
                    \/ f[1] = "conn" /\ Reset(f[2])

SendKills(w) == /\ server = "up" /\ wpc[w] = "send" /\ RaisesSigpipe(SessionFile(w))
                /\ Fail

\* EBADF, EDESTADDRREQ or EINVAL: the loop is left.
SendFails(w) ==
  /\ server = "up" /\ wpc[w] = "send"
  /\ LET f == SessionFile(w)
     IN /\ ~CanWrite(f) /\ ~CanSendTo(w, f) /\ ~RaisesSigpipe(f)
        /\ crossed' = (crossed \/ Crosses(f, Meant(w)))
  /\ Goto(w, "release")
  /\ wbuf' = [wbuf EXCEPT ![w].from = None]
  /\ UNCHANGED <<netVars, clientVars, flag, interrupts, mainVars, poolVars, wslot, wpeer, wfd,
                 wfile, fds>>

\* Bug: flag_client++ is forgotten.
ReleaseUncounted(w) ==
  /\ server = "up" /\ wpc[w] = "release" /\ ~locked
  /\ status' = [status EXCEPT ![wslot[w]] = 0]
  /\ Goto(w, "close")
  /\ UNCHANGED <<netVars, clientVars, flag, interrupts, mainVars, flag_client, ph, fd_serv,
                 thread_input, cout_thread, locked, wslot, wpeer, wbuf, wfd, wfile, fdVars>>

\* The locked section that gives the entry back.
Release(w) ==
  /\ server = "up" /\ wpc[w] = "release" /\ ~locked
  /\ flag_client' = flag_client + 1
  /\ status' = [status EXCEPT ![wslot[w]] = 0]
  /\ Goto(w, "close")
  /\ UNCHANGED <<netVars, clientVars, flag, interrupts, mainVars, ph, fd_serv, thread_input,
                 cout_thread, locked, wslot, wpeer, wbuf, wfd, wfile, fdVars>>

\* close(ph_tcp_udp[..].fd_serv) after the entry was given back: by now the
\* number may be that of the entry's next session, or be closed, or open
\* something else.  The accepted connection is never closed.
Close(w) ==
  /\ server = "up" /\ wpc[w] = "close"
  /\ LET f == ServFile(w)
     IN /\ fds' = IF f \in File THEN [fds EXCEPT ![fd_serv[wslot[w]]] = Free] ELSE fds
        /\ IF f \in File /\ \A v \in Client : wfile[v] # f
           THEN Destroys(f) ELSE UNCHANGED <<sock, accepted, conn>>
        /\ crossed' = (crossed \/ Crosses(f, Serv(Serving(w))))
  /\ Goto(w, "exited")
  /\ wpeer' = [wpeer EXCEPT ![w] = None]
  /\ wfd' = [wfd EXCEPT ![w] = 0]
  /\ UNCHANGED <<server, mainq, backlog, dgrams, toSrv, toCli, clientVars, flag, interrupts,
                 mainVars, poolVars, wslot, wbuf, wfile>>

WorkerStep(w) == \/ CallAccept(w) \/ AcceptFails(w) \/ Accept(w) \/ CallRecv(w)
                 \/ RecvStream(w) \/ RecvEnd(w) \/ RecvNothing(w) \/ RecvUdp(w)
                 \/ Send(w) \/ SendKills(w) \/ SendFails(w) \/ Release(w) \/ Close(w)

-----------------------------------------------------------------------------
(* Ctrl+C.  Any thread may run handle_signal (the mask given to pselect is *)
(* never initialised, so main() may have SIGINT blocked); a call it was    *)
(* blocked in fails with EINTR, which is fatal for accept.  main() may also *)
(* be just about to call pselect, which then waits for its timeout.        *)

Signal == /\ server = "up" /\ interrupts < MaxInterrupts
          /\ flag' = 0
          /\ interrupts' = interrupts + 1

InterruptMain ==
  /\ Signal
  /\ mpc = "select" /\ mpc' = "loop"
  /\ UNCHANGED <<netVars, clientVars, ready, cur, main_fd, join, poolVars, workerVars, fdVars>>

InterruptRunning ==
  /\ Signal
  /\ UNCHANGED <<netVars, clientVars, mainVars, poolVars, workerVars, fdVars>>

InterruptRecv(w) ==
  /\ Signal
  /\ wpc[w] = "recv" /\ Goto(w, "release") /\ CallReturns(w)
  /\ UNCHANGED <<server, mainq, backlog, dgrams, toSrv, toCli, clientVars, mainVars, poolVars,
                 wslot, wpeer, wbuf, wfd, fds, crossed>>

InterruptAccept(w) ==
  /\ Signal
  /\ wpc[w] = "accept"
  /\ server' = "failed"
  /\ UNCHANGED <<mainq, accepted, sock, backlog, dgrams, conn, toSrv, toCli, clientVars,
                 mainVars, poolVars, workerVars, fdVars>>

Interrupt == \/ InterruptMain \/ InterruptRunning
             \/ \E w \in Client : InterruptRecv(w) \/ InterruptAccept(w)

-----------------------------------------------------------------------------
(* The clients.  A TCP client whose first connection was closed under it    *)
(* has its recv return 0 and goes on with whatever its buffer holds.       *)

ClientKeeps == UNCHANGED <<flag, interrupts, mainVars, poolVars, workerVars, fdVars>>

RedirectLost(c) ==
  /\ server = "up"
  /\ c \in TcpClient /\ cpc[c] = "await" /\ toCli[c] = <<>>
  /\ c \notin accepted /\ \A i \in 1 .. Len(mainq["tcp"]) : mainq["tcp"][i] # c
  /\ \E g \in Garbage : Follow(c, g)
  /\ UNCHANGED <<server, mainq, accepted, sock, backlog, dgrams, conn, toSrv>>

ClientMoves(c) == (ClientStep(c) \/ RedirectLost(c)) /\ ClientKeeps

Next == \/ MainStep
        \/ \E w \in Client : WorkerStep(w)
        \/ Interrupt
        \/ \E c \in Client : ClientMoves(c) \/ (UserStep(c) /\ ClientKeeps)

Spec == Init /\ [][Next]_vars

\* The scheduler runs every thread and every client that can take a step;
\* users may stay silent for ever.
Fairness == /\ WF_vars(MainStep)
            /\ \A w \in Client : WF_vars(WorkerStep(w))
            /\ \A c \in Client : WF_vars(ClientMoves(c))

FairSpec == Spec /\ Fairness
=============================================================================
