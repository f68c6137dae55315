---------------------------- MODULE StackServerProps ----------------------------
(* The properties of StackServer. *)
EXTENDS StackServer, CubeSession

StackTypeOK ==
  /\ mpc \in {"loop", "select", "check", "admit", "refuse", "compact", "join"}
  /\ wpc \in [Slot -> WorkerPc]
  /\ stack_array \in [StackIndex -> Entry]
  /\ cout_stack \in Nat /\ lost \in Nat
  /\ client_udp \in UdpClient \cup {None}
  /\ wproto \in [Slot -> 0 .. 2]

\* Every variable has its type.
TypeOK == ServerTypeOK /\ ClientTypeOK /\ StackTypeOK

-----------------------------------------------------------------------------
(* Safety *)

Waiting == {i \in StackIndex : stack_array[i].status = 1}

\* Threads between taking a client off the stack and flag_client++.
InSession == {w \in Slot : wpc[w] \in {"session", "recv", "send", "close", "release"}}

\* flag_client, which main() decrements when it pushes (server.c:136, :168)
\* and a thread increments after its session (create_server.c:117, :209),
\* counts what is neither on the stack, nor served, nor stored past its end.
SlotAccounting ==
  flag_client = LENGTH_CLIENT - Cardinality(Waiting) - Cardinality(InSession) - lost

Filled == {i \in StackIndex : stack_array[i].status # 0}

\* cout_stack counts the elements in use, and those lost past the end; what is
\* at or above it is free.  main() pushes and compacts, while the threads
\* change status and id (server.c:131-135, :184-194, create_server.c:68-69).
StackFilled ==
  /\ Cardinality(Filled) = cout_stack - lost
  /\ \A i \in StackIndex : i >= cout_stack => stack_array[i] = Blank

\* Between its three locked sections a thread keeps its claim: when it comes to
\* look for index_stack it finds an element, though main() may have moved the
\* elements since it wrote the id; and nobody's id stays on an element that
\* has been served (create_server.c:22-29, :33-39, :68-69).
ClaimOnStack ==
  /\ \A w \in Slot : wpc[w] \in {"open", "accept"} =>
       wproto[w] # 0 /\ \E i \in StackIndex : stack_array[i].id = w
  /\ \A i \in StackIndex : stack_array[i].id # NoThread => stack_array[i].status = 1

\* While the server runs, a TCP client on its way to the port it was told has
\* the thread of that port waiting for it in accept, with the mutex, though
\* the redirect is chosen by the element's position and the port by the
\* thread's number (create_server.c:46, :60-66).
RedirectAwaited ==
  \A c \in TcpClient \ Slow, w \in Slot :
    /\ server = "up" /\ flag = 1
    /\ \/ cpc[c] = "await" /\ toCli[c] # <<>> /\ Head(toCli[c]) = Msg(REDIRECT, w)
       \/ cpc[c] = "redirected" /\ cbuf[c] = Msg(REDIRECT, w)
    => wpc[w] = "accept" /\ locked /\ sock[w] = Bound("tcp", w)

\* While the server runs, a client in dialogue has a thread of its own, bound
\* to the port it talks to, even if main() has redirected it twice or a client
\* without a redirect sends there (create_server.c:166-176).
DialogueHasThread ==
  \A c \in Client :
    cpc[c] \in {"chat", "reply", "ask"} /\ server = "up" /\ flag = 1 =>
      \E w \in Slot : /\ wpeer[w] = c
                      /\ wpc[w] \in {"session", "recv", "send"}
                      /\ sock[w] = Bound(Proto(c), cport[c])

\* The stack and the threads keep the promise of ClientStack.
Stack == INSTANCE ClientStack
           WITH Thread <- Slot, Capacity <- LENGTH_CLIENT,
                waiting <- Cardinality(Waiting), serving <- InSession, dropped <- lost
StackSpec == Stack!Spec

-----------------------------------------------------------------------------
(* The inductive invariant the safety properties follow from *)

\* main() admits a client only while it counts a free place, takes a client
\* only from a queue that has one, and finds in it clients of its protocol.
MainInv ==
  /\ mpc = "admit" => flag_client > 0
  /\ mpc \in {"check", "admit", "refuse"} => ready # {} /\ \A p \in ready : mainq[p] # <<>>
  /\ mainq["tcp"] \in Seq(TcpClient) /\ mainq["udp"] \in Seq(UdpClient)

\* A thread without a claim has no protocol, and one with a claim serves the
\* protocol of its socket, on its own port.
ThreadClaims ==
  /\ \A i \in StackIndex : stack_array[i].status = 1 => stack_array[i].status_tcp_udp # 0
  /\ \A w \in Slot :
       /\ wpc[w] \in {"loop", "claim", "exited"} <=> wproto[w] = 0
       /\ wpc[w] = "accept" => wproto[w] = 1
       /\ sock[w] # Closed => sock[w] = Bound(IF wproto[w] = 1 THEN "tcp" ELSE "udp", w)

\* The state of main(), of the stack (server.c:117-194), of the threads
\* (create_server.c:16-214) and of the sessions with their clients.
StackInv == /\ TypeOK /\ MainInv /\ ThreadClaims
            /\ SlotAccounting /\ StackFilled /\ ClaimOnStack /\ SessionInv

\* The mutex is held over several steps by one thread, which is in accept.
MutexInv == /\ locked <=> \E w \in Slot : wpc[w] = "accept"
            /\ \A v, w \in Slot : wpc[v] = "accept" /\ wpc[w] = "accept" => v = w

\* A TCP client comes once: it is queued for main() or on the stack, in one place.
Queue == 1 .. Len(mainq["tcp"])
Queued(c, k) == k \in Queue /\ mainq["tcp"][k] = c
Holds(c, i) == i \in StackIndex /\ stack_array[i].status = 1 /\ stack_array[i].fd_client = c
Absent(c) == (\A k \in Queue : ~Queued(c, k)) /\ (\A i \in StackIndex : ~Holds(c, i))

VisitInv(c) ==
  /\ \A k, l \in Queue : Queued(c, k) /\ Queued(c, l) => k = l
  /\ \A i, j \in StackIndex : Holds(c, i) /\ Holds(c, j) => i = j
  /\ \A k \in Queue, i \in StackIndex : ~(Queued(c, k) /\ Holds(c, i))
  /\ cpc[c] = "start" => Absent(c) /\ toCli[c] = <<>>

\* It has one session connection, which waits in one backlog until it is accepted.
Guests(w) == 1 .. Len(backlog[w])

ConnectInv ==
  /\ accepted \subseteq TcpClient
  /\ \A e \in conn : e[1] \in TcpClient /\ ~Before(e[1])
  /\ \A e, f \in conn : e[1] = f[1] => e = f
  /\ \A w \in Slot : \A k \in Guests(w) :
       /\ backlog[w][k] \in TcpClient /\ \A e \in conn : e[1] # backlog[w][k]
       /\ \A v \in Slot : \A l \in Guests(v) : backlog[v][l] = backlog[w][k] => v = w /\ l = k

\* Thread w waits in accept for client c, which it has redirected.
AwaitedBy(c, w) == /\ wpc[w] = "accept"
                   /\ \E i \in StackIndex : FirstClaimed(w, i) /\ stack_array[i].fd_client = c

\* What waits for a client at port 8080 is its refusal, or the redirect to the
\* thread that waits for it; who comes to a thread in accept is that client.
AwaitInv ==
  server = "up" /\ flag = 1 =>
    /\ \A c \in TcpClient :
         /\ AtMain(c) /\ toCli[c] # <<>> =>
              \/ Head(toCli[c]).sign = LIMIT /\ Absent(c)
              \/ \E w \in Slot : toCli[c] = <<Msg(REDIRECT, w)>> /\ AwaitedBy(c, w)
         /\ cpc[c] = "redirected" => \E w \in Slot : cbuf[c] = Msg(REDIRECT, w) /\ AwaitedBy(c, w)
    /\ \A w \in Slot : wpc[w] = "accept" => \A k \in Guests(w) : AwaitedBy(backlog[w][k], w)

\* Every TCP client receives its redirect in time, and there are descriptors for
\* two connections of each and a serving socket of each thread.
Punctual == TcpClient \cap Slow = {}
Roomy == FdLimit > 2 * Cardinality(TcpClient) + LENGTH_CLIENT

RedirectInv == /\ MutexInv /\ \A c \in TcpClient : VisitInv(c)
               /\ server = "up" => ConnectInv
               /\ Punctual /\ Roomy => AwaitInv

\* All of it, with the way of a TCP client from port 8080 to its thread
\* (create_server.c:33-70), fits together in every state: what the other
\* safety properties follow from.
IInv == StackInv /\ RedirectInv

-----------------------------------------------------------------------------
(* Liveness, under FairSpec; clients neither die nor time out *)

\* A client on the stack is claimed by some thread, as long as the server runs
\* (create_server.c:19-29).
NoEntryWaits == (Unclaimed # {}) ~> (Unclaimed = {} \/ flag = 0 \/ server # "up")

\* The mutex is given back, though a thread holds it in accept until its
\* client comes (create_server.c:66-70): main() and the other threads go on.
MutexReleased == locked ~> (~locked \/ server # "up")

-----------------------------------------------------------------------------
(* What the documents say and the code does not do *)

\* src/README.md: the server adds clients to the stack, and the threads choose
\* which client to connect to.  So a client on the stack is served by one of
\* the threads, as there are as many as clients.
StackedClientServed == (Waiting # {}) ~> (Waiting = {} \/ flag = 0 \/ server # "up")
=============================================================================
