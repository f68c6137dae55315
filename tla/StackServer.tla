------------------------------ MODULE StackServer ------------------------------
(***************************************************************************)
(* The server of TCP_UDP_task3 with its clients: main() appends an admitted*)
(* client to stack_array and says nothing to it.  A thread claims entries  *)
(* by writing its number into id, opens its port, redirects the client of  *)
(* the first entry it claimed, and marks that entry as served (status 2).  *)
(* At the end of each turn main() removes the served entries at the head.  *)
(*                                                                         *)
(* The mutex is held from the redirect of a TCP client to the end of       *)
(* accept; every other locked section is one step.  id is NoThread for 0   *)
(* and w for 10 + w.                                                       *)
(***************************************************************************)
EXTENDS CubeServer

CONSTANT LENGTH_STACK    \* server.h: number of elements of stack_array

ASSUME StackAssumption == LENGTH_STACK \in Nat \ {0}

NoThread == -1

Entry == [status : 0 .. 2, status_tcp_udp : 0 .. 2,
          fd_client : TcpClient \cup {None}, id : Slot \cup {NoThread}]

Blank == [status |-> 0, status_tcp_udp |-> 0, fd_client |-> None, id |-> NoThread]

StackIndex == 0 .. LENGTH_STACK - 1

VARIABLES
  stack_array,  \* the elements of stack_array
  cout_stack,   \* the element main() fills next
  client_udp,   \* the UDP client main() heard last
  wproto,       \* wproto[w]: status_tcp_udp of thread w
  lost          \* history: clients stored past the end of stack_array

stackVars == <<stack_array, cout_stack, client_udp, wproto, lost>>
vars == <<netVars, clientVars, serverVars, stackVars>>

WorkerPc == {"loop", "claim", "open", "accept",
             "session", "recv", "send", "close", "release", "exited"}

Init ==
  /\ ServerInit
  /\ stack_array = [i \in StackIndex |-> Blank]
  /\ cout_stack = 0 /\ lost = 0
  /\ client_udp = None
  /\ wproto = [w \in Slot |-> 0]

-----------------------------------------------------------------------------
(* main() *)

\* status and status_tcp_udp (and fd_client of a TCP client) of the element
\* cout_stack.  The array is the last object in the .bss of the build: past
\* its end the values land in memory that nobody reads.
Push(kind, fd) ==
  /\ stack_array' = [i \in StackIndex |->
       IF i # cout_stack THEN stack_array[i]
       ELSE [stack_array[i] EXCEPT !.status = 1, !.status_tcp_udp = kind,
                                   !.fd_client = IF kind = 1 THEN fd ELSE @]]
  /\ lost' = IF cout_stack \in StackIndex THEN lost ELSE lost + 1
  /\ cout_stack' = cout_stack + 1
  /\ flag_client' = flag_client - 1

Admitting(proto) == server = "up" /\ mpc = "admit" /\ ~locked /\ Now = proto

AdmitTcp ==
  /\ Admitting("tcp") /\ OpenFds < FdLimit
  /\ TakeNext
  /\ Push(1, Head(mainq["tcp"]))
  /\ NextBranch("compact")
  /\ UNCHANGED <<server, sock, backlog, dgrams, conn, toSrv, toCli, clientVars,
                 flag, interrupts, locked, join, threadVars, client_udp, wproto>>

AdmitUdp ==
  /\ Admitting("udp")
  /\ TakeNext
  /\ client_udp' = Head(mainq["udp"])
  /\ Push(2, None)
  /\ NextBranch("compact")
  /\ UNCHANGED <<server, sock, backlog, dgrams, conn, toSrv, toCli, clientVars,
                 flag, interrupts, locked, join, threadVars, wproto>>

RefuseTcp == Now = "tcp" /\ OpenFds < FdLimit /\ Refuse("compact") /\ UNCHANGED stackVars

RefuseUdp == /\ Now = "udp" /\ Refuse("compact")
             /\ client_udp' = Head(mainq["udp"])
             /\ UNCHANGED <<stack_array, cout_stack, wproto, lost>>

\* accept(server_fd_tcp) fails: no descriptor is left.
MainAcceptFails ==
  /\ server = "up" /\ mpc \in {"admit", "refuse"} /\ ~locked /\ mainq[Now] # <<>>
  /\ Now = "tcp" /\ OpenFds >= FdLimit
  /\ Fail /\ UNCHANGED stackVars

\* The first n elements are served, and no more.
ServedHead(n) == /\ \A j \in 0 .. n - 1 : stack_array[j].status = 2
                 /\ n \in StackIndex => stack_array[n].status # 2

\* Bug: the last element is not blanked.
ShiftKeepsLast(n) ==
  /\ stack_array' = [i \in StackIndex |->
                       IF i + n \in StackIndex THEN stack_array[i + n]
                                               ELSE stack_array[LENGTH_STACK - 1]]
  /\ cout_stack' = cout_stack - n

\* Removes the first n elements; blank ones move up from the end.
Shift(n) ==
  /\ stack_array' = [i \in StackIndex |->
                       IF i + n \in StackIndex THEN stack_array[i + n] ELSE Blank]
  /\ cout_stack' = cout_stack - n

\* Bug: `if' tests that the element is taken, not that it is served.
CompactTaken ==
  /\ server = "up" /\ mpc = "compact" /\ ~locked
  /\ Shift(IF stack_array[0].status # 0 THEN 1 ELSE 0)
  /\ mpc' = "loop"
  /\ UNCHANGED <<netVars, clientVars, flag, interrupts, flag_client, locked, ready, join,
                 threadVars, client_udp, wproto, lost>>

\* while (stack_array[0].status == 2), under the mutex, after every turn.
Compact ==
  /\ server = "up" /\ mpc = "compact" /\ ~locked
  /\ \E n \in 0 .. LENGTH_STACK : ServedHead(n) /\ Shift(n)
  /\ mpc' = "loop"
  /\ UNCHANGED <<netVars, clientVars, flag, interrupts, flag_client, locked, ready, join,
                 threadVars, client_udp, wproto, lost>>

Turn == (MainLoop \/ Select("compact") \/ Check) /\ UNCHANGED stackVars

Shutdown == (Join \/ Return) /\ UNCHANGED stackVars

MainStep == \/ Turn \/ AdmitTcp \/ AdmitUdp \/ RefuseTcp \/ RefuseUdp
            \/ MainAcceptFails \/ Compact \/ Shutdown

-----------------------------------------------------------------------------
(* create_server *)

\* while (flag)
Loop(w) == /\ wpc[w] = "loop"
           /\ Proceed(w, IF flag = 1 THEN "claim" ELSE "exited")
           /\ UNCHANGED stackVars

Unclaimed == {i \in StackIndex : stack_array[i].status = 1 /\ stack_array[i].id = NoThread}

\* Bug: the search starts at the second element.
ClaimFromSecond(w) ==
  LET found == Unclaimed \ {0}
  IN /\ wpc[w] = "claim" /\ ~locked
     /\ stack_array' = [i \in StackIndex |-> IF i \in found THEN [stack_array[i] EXCEPT !.id = w]
                                                            ELSE stack_array[i]]
     /\ \/ found = {} /\ UNCHANGED wproto
        \/ \E i \in found : /\ \A j \in found : j <= i
                             /\ wproto' = [wproto EXCEPT ![w] = stack_array[i].status_tcp_udp]
     /\ Proceed(w, IF wproto'[w] = 0 THEN "loop" ELSE "open")
     /\ UNCHANGED <<cout_stack, client_udp, lost>>

\* The thread takes all unclaimed elements and serves as the last one says.
Claim(w) ==
  /\ wpc[w] = "claim" /\ ~locked
  /\ stack_array' = [i \in StackIndex |-> IF i \in Unclaimed THEN [stack_array[i] EXCEPT !.id = w]
                                                             ELSE stack_array[i]]
  /\ \/ Unclaimed = {} /\ UNCHANGED wproto
     \/ \E i \in Unclaimed : /\ \A j \in Unclaimed : j <= i
                             /\ wproto' = [wproto EXCEPT ![w] = stack_array[i].status_tcp_udp]
  /\ Proceed(w, IF wproto'[w] = 0 THEN "loop" ELSE "open")
  /\ UNCHANGED <<cout_stack, client_udp, lost>>

\* index_stack: the first element thread w has claimed.
FirstClaimed(w, i) == /\ stack_array[i].id = w
                      /\ \A j \in StackIndex : j < i => stack_array[j].id # w

Opening(w, kind) == server = "up" /\ wpc[w] = "open" /\ wproto[w] = kind /\ ~locked

\* Bug: the redirect names the port of the element, as in task2.
OpenTcpElement(w) ==
  /\ Opening(w, 1) /\ OpenFds < FdLimit /\ ~PortInUse("tcp", w)
  /\ sock' = [sock EXCEPT ![w] = Bound("tcp", w)]
  /\ \E i \in StackIndex : /\ FirstClaimed(w, i)
                           /\ stack_array[i].fd_client # None
                           /\ SendMain(stack_array[i].fd_client, Msg(REDIRECT, i))
  /\ locked' = TRUE
  /\ Goto(w, "accept")
  /\ UNCHANGED <<server, mainq, accepted, backlog, dgrams, conn, toSrv, clientVars, flag,
                 interrupts, flag_client, mpc, ready, join, wpeer, wbuf, stackVars>>

\* socket, bind, listen, and the redirect to the thread's own port.
OpenTcp(w) ==
  /\ Opening(w, 1) /\ OpenFds < FdLimit /\ ~PortInUse("tcp", w)
  /\ sock' = [sock EXCEPT ![w] = Bound("tcp", w)]
  /\ \E i \in StackIndex : /\ FirstClaimed(w, i)
                           /\ stack_array[i].fd_client # None
                           /\ SendMain(stack_array[i].fd_client, Msg(REDIRECT, w))
  /\ locked' = TRUE
  /\ Goto(w, "accept")
  /\ UNCHANGED <<server, mainq, accepted, backlog, dgrams, conn, toSrv, clientVars, flag,
                 interrupts, flag_client, mpc, ready, join, wpeer, wbuf, stackVars>>

\* Bug: id is not reset.
MarkServedKeepsId(w) ==
  /\ stack_array' = [i \in StackIndex |->
       IF FirstClaimed(w, i) THEN [stack_array[i] EXCEPT !.status = 2] ELSE stack_array[i]]
  /\ UNCHANGED <<cout_stack, client_udp, wproto, lost>>

\* stack_array[index_stack].status = 2 and .id = 0.
MarkServed(w) ==
  /\ stack_array' = [i \in StackIndex |->
       IF FirstClaimed(w, i) THEN [stack_array[i] EXCEPT !.status = 2, !.id = NoThread]
                             ELSE stack_array[i]]
  /\ UNCHANGED <<cout_stack, client_udp, wproto, lost>>

\* socket, bind, and the redirect of the UDP client main() heard last.
OpenUdp(w) ==
  /\ Opening(w, 2) /\ OpenFds < FdLimit /\ ~PortInUse("udp", w)
  /\ sock' = [sock EXCEPT ![w] = Bound("udp", w)]
  /\ SendMain(client_udp, Msg(REDIRECT, w))
  /\ MarkServed(w)
  /\ Goto(w, "session")
  /\ UNCHANGED <<server, mainq, accepted, backlog, dgrams, conn, toSrv, clientVars, flag,
                 interrupts, mainVars, wpeer, wbuf>>

\* socket or bind fails, or send to fd_client 0, the standard input, of an
\* element that holds a UDP client.
OpenFails(w) ==
  /\ server = "up" /\ wpc[w] = "open" /\ ~locked
  /\ \/ OpenFds >= FdLimit
     \/ PortInUse(IF wproto[w] = 1 THEN "tcp" ELSE "udp", w)
     \/ /\ wproto[w] = 1
        /\ \E i \in StackIndex : FirstClaimed(w, i) /\ stack_array[i].fd_client = None
  /\ Fail /\ UNCHANGED stackVars

Accept(w) ==
  /\ server = "up" /\ wpc[w] = "accept" /\ backlog[w] # <<>> /\ OpenFds < FdLimit
  /\ conn' = conn \cup {<<Head(backlog[w]), w>>}
  /\ wpeer' = [wpeer EXCEPT ![w] = Head(backlog[w])]
  /\ backlog' = [backlog EXCEPT ![w] = Tail(@)]
  /\ MarkServed(w)
  /\ locked' = FALSE
  /\ Goto(w, "session")
  /\ UNCHANGED <<server, mainq, accepted, sock, dgrams, toSrv, toCli, clientVars, flag,
                 interrupts, flag_client, mpc, ready, join, wbuf>>

\* Bug: an error of accept leaves the locked section without unlocking.
AcceptErrorKeepsLock(w) ==
  /\ wpc[w] = "accept" /\ Goto(w, "close")
  /\ MarkServed(w)
  /\ UNCHANGED <<netVars, clientVars, flag_client, locked, mpc, ready, join, wpeer, wbuf>>

\* accept() is not checked: the element is served, and recv(-1) ends the session.
AcceptReturnsError(w) ==
  /\ wpc[w] = "accept" /\ Goto(w, "close")
  /\ MarkServed(w)
  /\ locked' = FALSE
  /\ UNCHANGED <<netVars, clientVars, flag_client, mpc, ready, join, wpeer, wbuf>>

AcceptFails(w) == /\ server = "up" /\ OpenFds >= FdLimit
                  /\ AcceptReturnsError(w)
                  /\ UNCHANGED <<flag, interrupts>>

ServeTcp(w) == wproto[w] = 1 /\ SessionTcp(w) /\ UNCHANGED stackVars

ServeUdp(w) == wproto[w] = 2 /\ SessionUdp(w) /\ UNCHANGED stackVars

\* Bug: flag_client++ before the loop instead of after it.
ReleaseTwice(w) ==
  /\ server = "up" /\ wpc[w] = "release" /\ ~locked
  /\ flag_client' = flag_client + 2
  /\ wproto' = [wproto EXCEPT ![w] = 0]
  /\ Goto(w, "loop")
  /\ UNCHANGED <<netVars, clientVars, flag, interrupts, locked, mpc, ready, join, wpeer, wbuf,
                 stack_array, cout_stack, client_udp, lost>>

\* The locked section after a session.
Release(w) ==
  /\ server = "up" /\ wpc[w] = "release" /\ ~locked
  /\ flag_client' = flag_client + 1
  /\ wproto' = [wproto EXCEPT ![w] = 0]
  /\ Goto(w, "loop")
  /\ UNCHANGED <<netVars, clientVars, flag, interrupts, locked, mpc, ready, join, wpeer, wbuf,
                 stack_array, cout_stack, client_udp, lost>>

WorkerStep(w) == \/ Loop(w) \/ Claim(w) \/ OpenTcp(w) \/ OpenUdp(w) \/ OpenFails(w)
                 \/ Accept(w) \/ AcceptFails(w)
                 \/ ServeTcp(w) \/ ServeUdp(w) \/ Release(w)

-----------------------------------------------------------------------------
InterruptAccept(w) == Signal /\ AcceptReturnsError(w)

Interrupt == \/ /\ InterruptMain \/ InterruptRunning \/ \E w \in Slot : InterruptRecv(w)
                /\ UNCHANGED stackVars
             \/ \E w \in Slot : InterruptAccept(w)

ClientKeeps == UNCHANGED <<serverVars, stackVars>>

Next == \/ MainStep
        \/ \E w \in Slot : WorkerStep(w)
        \/ Interrupt
        \/ \E c \in Client : (ClientStep(c) \/ UserStep(c)) /\ ClientKeeps

Spec == Init /\ [][Next]_vars

\* The scheduler runs every thread and every client that can take a step;
\* users may stay silent for ever.
Fairness == /\ WF_vars(MainStep)
            /\ \A w \in Slot : WF_vars(WorkerStep(w))
            /\ \A c \in Client : WF_vars(ClientStep(c) /\ ClientKeeps)

FairSpec == Spec /\ Fairness
=============================================================================
