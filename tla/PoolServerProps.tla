---------------------------- MODULE PoolServerProps ----------------------------
(* The properties of PoolServer. *)
EXTENDS PoolServer, CubeSession

PoolTypeOK ==
  /\ mpc \in {"loop", "select", "check", "admit", "reply", "refuse", "join"}
  /\ cur \in Client \cup {None}
  /\ buffer \in Message
  /\ status \in [Slot -> {0, 1}]
  /\ status_tcp_udp \in [Slot -> 0 .. 2]
  /\ serv \in [{"tcp", "udp"} -> Slot \cup {LENGTH_CLIENT}]
  /\ wpc \in [Slot -> WorkerPc]

\* Every variable has its type.
TypeOK == ServerTypeOK /\ ClientTypeOK /\ PoolTypeOK

-----------------------------------------------------------------------------
(* Safety *)

TakenSlots == {s \in Slot : status[s] = 1}

\* flag_client, which main() tests without the mutex (server.c:119, :163),
\* counts the free entries but for the moment between the search and the
\* flag_client-- that follows the redirect (:143, :189).
SlotAccounting ==
  flag_client = LENGTH_CLIENT - Cardinality(TakenSlots)
                  + (IF mpc = "reply" THEN 1 ELSE 0)

\* The test flag_client > 0, made before the mutex is taken, still holds when
\* main() searches the table and blocks in accept or recvfrom with the mutex
\* held (server.c:119-139, :163-180).
AdmitHasRoom ==
  mpc = "admit" => (\E s \in Slot : status[s] = 0) /\ mainq[Now] # <<>>

\* status_tcp_udp is read by the thread without the mutex (create_server.c:18,
\* :95) while main() writes it: for as long as the thread is at work, the
\* entry stays taken and names the protocol of the thread's socket.
SessionMatchesEntry ==
  \A w \in Slot :
    /\ status_tcp_udp[w] # 0 => status[w] = 1
    /\ wpc[w] \in Busy => status_tcp_udp[w] # 0
    /\ sock[w] # Closed => wpc[w] \in Busy /\ sock[w].proto = WProto(w)

\* While the server is up, the number a client prints as the answer is the
\* cube of the number it sent (client_tcp.c:34), whichever thread ended up
\* with the socket it talks to.
AnswerIsCube ==
  \A c \in Client : cpc[c] = "ask" /\ server = "up" => cbuf[c].message = Pow3(asked[c])

\* While the server runs, a client in dialogue has a thread of its own: one
\* that knows it as its peer and is bound to the port the client talks to,
\* even if the threads mixed up their ports or a foreign client sends there
\* (create_server.c:25-41, :102-132).
DialogueHasThread ==
  \A c \in Client :
    cpc[c] \in {"chat", "reply", "ask"} /\ server = "up" /\ flag = 1 =>
      \E w \in Slot : /\ wpeer[w] = c
                      /\ wpc[w] \in {"session", "recv", "send"}
                      /\ sock[w] = Bound(Proto(c), cport[c])

\* Every entry goes through the cycle of EntryCycle: main() gives it away while
\* its thread is idle, and the thread, which polls status_tcp_udp without the
\* mutex, neither works for an entry that was given back nor twice for one that
\* was given once (server.c:131-138, create_server.c:18, :87-92).
Working == {w \in Slot : wpc[w] \in Busy}
Cycle == INSTANCE EntryCycle WITH taken <- TakenSlots, working <- Working
CycleSpec == Cycle!Spec

-----------------------------------------------------------------------------
(* The inductive invariant the safety properties follow from *)

\* The protocols pselect reported that main() has not taken a client of yet.
Waiting == IF mpc = "reply" THEN ready \ {Now} ELSE ready

\* main() holds the mutex from the table to the redirect, admits a client only
\* while it counts a free entry, and has a client to take.
MainInv ==
  /\ locked <=> mpc = "reply"
  /\ mpc = "admit" => flag_client > 0
  /\ mpc \in {"check", "admit", "refuse", "reply"} =>
       ready # {} /\ \A p \in Waiting : mainq[p] # <<>>

\* An entry and its thread agree, and the thread binds to a port of the table,
\* if not always to its own.
EntryInv == /\ SessionMatchesEntry
            /\ \A w \in Slot : wpc[w] = "bind" => serv[WProto(w)] \in Slot

\* The state of main(), of the table (server.c:112-191), of the threads
\* (create_server.c:16-170) and of the sessions with their clients fit together
\* in every state: what the other safety properties follow from.
IInv == TypeOK /\ MainInv /\ EntryInv /\ SlotAccounting /\ SessionInv

-----------------------------------------------------------------------------
(* Liveness, under FairSpec *)

\* The thread of an entry notices that main() has given it a client
\* (create_server.c:16-18, :95), unless the server is going down.
ThreadNoticesClient ==
  \A w \in Slot : (status_tcp_udp[w] # 0) ~> (wpc[w] \in Busy \/ flag = 0 \/ server # "up")

\* The entry of a TCP session is given back once its client is gone, whether
\* the client quit, gave up or died (create_server.c:46-52, :87-92).
TcpSlotReturned ==
  \A w \in Slot :
    (\E c \in TcpClient : wpc[w] = "recv" /\ wpeer[w] = c /\ cpc[c] = "done")
      ~> (status[w] = 0 \/ server # "up")

-----------------------------------------------------------------------------
(* What the documents and comments say and the code does not do *)

\* readme.md:6 "sudo ./server(отключается Ctrl+C)": the server stops on Ctrl+C only.
StopsOnlyOnInterrupt == server # "up" => flag = 0
=============================================================================
