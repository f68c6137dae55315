# A TLA+ verification of the socket servers

The repository holds small socket programs in C. Four of them are servers that
answer several clients at once with threads, and these are the heart of this
project: it models the servers, their clients and the kernel between them in
TLA+, checks them with TLC on small instances, and proves their invariants with
TLAPS for every value of the constants. The smaller programs, the echo pairs and
the raw sockets with their checksum, have modules of their own, and their
invariants are proved too.

## 1. The system

### Components

| Component (under `src/`) | State | Operations | Modelled |
|---|---|---|---|
| `TCP_UDP_task1` server: one thread per client, created on demand | `flag`, `flag_client`, `ports_array[].status`, `ph_tcp_udp[]`, `thread_input[]`, `cout_thread`, a mutex | wait (pselect), admit or refuse a client, create its serving socket and thread, serve it, give the entry back, stop on SIGINT, join | `DynamicServer` |
| `TCP_UDP_task2` server: all threads created at the start | `flag`, `flag_client`, `ports_array[].status` and `.status_tcp_udp`, the shared addresses `serv_tcp` and `serv_udp`, a mutex | admit by storing a protocol in an entry; each thread polls its own entry, opens a socket, serves, gives the entry back | `PoolServer` |
| `TCP_UDP_task3` server: a stack of clients the threads claim from | `stack_array[]`, `cout_stack`, `flag_client`, `client_udp`, a mutex | push, claim, redirect and accept under the mutex, serve, remove what is served | `StackServer` |
| clients of task1, task2, task3 (the same code but for one printed line) | `buffer`, `message`, the turn of the probing loop | ask for a session, follow the redirect, probe, send a number, print the answer, quit | `CubeClient` |
| `Multiplexed_TCP_UDP` server and clients: one TCP and one UDP session at a time, no redirect | `flag`, `flag_tcp`, `flag_udp`, `client_fd_tcp`, `ph_udp`, `is_client_connected`, `connected_client`; no lock | wait, start a thread per protocol, serve, count | `MultiplexServer`, `MultiplexClient` |
| the message `sign` and `pow3` | - | reply to a request | `Cube` |
| `AF_Inet_*`, `AF_Local_*` echo pairs | two buffers, the address of the peer, a path in the file system | two messages, two replies, end | `EchoPair` |
| `UDP_RAW`, `UDP_RAW_IP`, `UDP_RAW_ethernet` | `flag_while`, buffers, `serv`; headers built by hand | send a number, pick the answer out of all frames, repeat; stop on SIGINT | `RawExchange` |
| `my_checksum` of `UDP_RAW_ethernet` | `sum`, the bytes left | add words, add the last byte, fold, invert | `Checksum` |
| `broadcast`, `multicast` | - | one datagram per run | no: pure I/O |

### How the parts interact

A client of task1-3 connects to port 8080 (TCP) or sends a probe to 8079 (UDP).
`main()` reserves an entry of `ports_array` and answers `REDIRECT` with the
entry's port, or `LIMIT` when no entry is free. The client connects to that
port, sends `PROBE`, waits for `PROBE_ACK`, and then sends numbers, each
answered with its cube; `QUIT` ends the session (the client does not wait for
`QUIT_ACK`). In the multiplexed program the session takes place on the
announced sockets themselves. In task3 `main()` answers nothing but `LIMIT`:
it puts the client on the stack, and the thread that claims it sends the
redirect, to the thread's own port. Threads and `main()` share the globals
above; clients and server share only the kernel's queues. SIGINT clears `flag`.

An echo pair shares one socket each way and, over local datagrams, the path
every client binds. A raw client shares the network with everything else on
the machine, and its port with every other run of itself.

### What is hard

* `main()` and the threads update a counter and a table in different critical
  sections, and test the counter outside them (task1 `server.c:112`, task2
  `server.c:119`); in the multiplexed server nothing is locked.
* State is shared by pointer or global and used after it was given up: the
  descriptor number in `ph_tcp_udp` (task1 `phread_tcp.c:64`, `phread_udp.c:73`),
  which the kernel may have given out again by then, the addresses
  `serv_tcp`/`serv_udp` (task2 `create_server.c:26-31, :104-108`), the variable
  `client_fd_tcp` (multiplexed `phread_tcp.c:59`).
* In task3 a thread finds its client by a number it wrote into the stack in an
  earlier critical section, while `main()` moves the elements
  (`create_server.c:22-39`, `server.c:184-194`); it waits in `accept` with the
  mutex held (`create_server.c:66`).
* Clients time out, give up or die at any point, and go on after a failed
  `recv` with an uninitialised buffer (task1 `connect_in_server.c:24-30`).
* Ctrl+C may interrupt any thread, in any call or between calls.
* A raw socket reads every frame of its kind (`UDP_RAW/create/client.c:85-102`)
  and an echo server answers whoever wrote last; the echo stream servers do not
  test `bind`, `listen` and `accept`.
* Descriptors are never closed (task1, task2), a port may stay occupied, and a
  failing call ends the whole process (`error_func`).

`PROJECT.json` lists these and the other hazards line by line.

### What makes each part correct

* Task1, task2: the counter is the number of free entries; an entry belongs to
  one session from its reservation to its release; what `main()` does under the
  mutex cannot block; a redirect names the entry reserved for that client; an
  answer is the cube of the number asked (in task1 the last two only until a
  thread uses a descriptor number that was given out again); entries of vanished
  TCP clients come back; Ctrl+C stops admission.
* Task3: the counter, the stack and the threads agree; a claim survives the
  removal of other elements; a redirected client is awaited by the thread that
  redirected it; the mutex is given back.
* Multiplexed: the flags count the sessions; one session per protocol; a client
  in dialogue keeps it; the next client is served.
* Raw clients: the number printed is the square of the number sent; a header
  passes the receiver's test. Echo pairs: the replies come in order, and a
  client alone with its server ends with it.

## 2. Modules

    Cube                  message codes, Reply, Pow3 (wrapping int)
      CubeProofs          lemmas (TLAPS): replies and message queues
      CubeSockets         the kernel: queues, sockets, connections, ports, descriptors
        CubeClient        client_tcp and client_udp of task1-3
          CubeClientProofs        lemmas (TLAPS): what a client's step changes, and its types
          DynamicServer           task1 server        DynamicServerProps, DynamicServerMC
            DynamicServerProofs   theorems (TLAPS)    SlotPool: the abstract table of ports
          CubeServer              what the servers of task2 and task3 have in common
            CubeSession           the invariant of their sessions
              CubeServerProofs    lemmas (TLAPS): every shared step keeps it
            PoolServer            task2 server        PoolServerProps, PoolServerMC
              PoolServerProofs    theorems (TLAPS)    EntryCycle: the abstract life of an entry
            StackServer           task3 server        StackServerProps, StackServerMC
              StackServerProofs   theorems (TLAPS)    ClientStack: the abstract stack
      MultiplexClient     the clients of the multiplexed server, with their own sockets
        MultiplexServer           its server          MultiplexServerProps, MultiplexServerMC
          MultiplexServerProofs   theorems (TLAPS)
      RawExchange         the raw clients and their servers
    EchoPair              the echo pairs
    Checksum              my_checksum
      SmallPrograms       composes RawExchange, EchoPair and Checksum, one running at a time
        SmallProgramsProofs       theorems (TLAPS) on all three

Each server module composes the server with the clients: one action per step of
`main()`, of a thread or of a client. `CubeServer` has what task2 and task3
share line for line: the turn of `main()` up to an admission, refusal, joining
all threads, the dialogue of a session, and Ctrl+C in each place. The `map` of `PROJECT.json` gives the
source lines of every definition. Variables keep the C names; `mpc`, `wpc`,
`tpc`, `upc`, `cpc` are program counters. Definitions commented `Bug:` are
mutated versions of the definition that follows, used to show that a property
can fail; no action uses them.

### Correspondence and abstractions

* **Grain.** A step is what no other actor can observe in parts: a critical
  section of a thread, or one access to shared state outside them, or one
  system call. Unlocked tests (`flag`, `flag_client`, `status_tcp_udp`) are
  steps of their own. In `MultiplexServer` every `++` and `--` is a read step
  and a write step. The programs are built by gcc without optimisation, so each
  access in the source is an access of the program; an optimising compiler
  could keep `flag` in a register, which is not modelled.
* **Clients.** An element of `TcpClient` or `UdpClient` is one run of the
  program. `Slow` clients may see their 10 s receive timeout at any moment;
  `Killable` clients may die at any moment.
* **Ports** are indices of `ports_array`; any other integer is "another port".
* **Descriptors** of task1 are numbers (`fds[n]` is what number n opens), because
  its threads call and close numbers they read from `ph_tcp_udp`, where the
  number may be another session's, or closed, or given out again for something
  else. `socket` and `accept` return the lowest free number; `accept` takes its
  number when the call begins (it blocks with the number reserved, so nobody can
  close it or get it meanwhile); a call goes on with the file its number opened
  when it began, and keeps that file alive (`wfile`): a port is free again only
  when no number and no call refers to its socket. Whatever a number opens then
  is acted on: `recv`, `send` and `sendto` on another session's stream, on a
  socket of the other protocol, on a listening socket, on nothing. `crossed` is a
  history variable: a call or a close has reached a file its number was not
  meant for. Two successors that follow one another on a port after a crossed
  close are not delayed by TIME_WAIT or FIN_WAIT: that is left out.
  In task2, task3 and the multiplexed server the numbers do not matter, and
  descriptors are named by what they open: a thread of task2 or task3 closes
  only numbers of its own stack, once; in the multiplexed server the
  stale descriptor is the variable `client_fd_tcp`, whose *current* contents are
  read at each use, and the only call that gets a number again, `accept`, stores
  it in that same variable.
* **The stack of task3.** `id` is `NoThread` for 0 and `w` for 10 + w. The mutex
  is held over several steps only from the redirect of a TCP client to the end
  of `accept`, which may block; every other locked section is one step. Nothing
  compares `cout_stack` with the length of the array: a client pushed past the
  end is counted in `lost` (the array is the last object in the `.bss` of the
  build, so nothing else is overwritten, and no loop reads there). A descriptor
  0 in `fd_client` is the server's standard input: `send` fails.
* **Raw frames** carry the destination port, the sender and the number; of the
  headers only the address and the length count, which decide whether the
  datagram arrives. A raw socket of `UDP_RAW` and `UDP_RAW_IP` also reads what
  its own client sends, a packet socket (`UDP_RAW_ethernet`) does not, and
  between two machines frames may be lost. `UDP_RAW_ethernet` sends from one
  multicast address to another (`client.c:84-85`), and the server joins no group
  (`server.c:43-46`): Linux drops such a datagram, the model lets it arrive or be
  lost, and so has more behaviours than the program. Other programs send to any
  port, the client's 7564 included. That port is all a client tests (`UDP_RAW`
  `client.c:95`, `UDP_RAW_IP` `client.c:111`, `UDP_RAW_ethernet` `client.c:113`),
  not the sender nor the protocol, so it takes such a frame for the answer;
  `foreign` is a history variable that records that one was sent, and the
  properties of the raw clients are stated until then.
* **Echo messages** are the texts the programs compare; `spoiled` is a history
  variable that names a process that wrote `buffer[-1]`. `bound` says whether
  the server's `bind` (with `listen`) succeeded: the datagram servers test it and
  end, the stream servers go on, and nobody can connect to them. `AcceptFails` is
  the unchecked failure of `accept`, after which the server has no connection
  (`peer = Nobody`) and its first `recv` spoils its buffer. `Listens` is the
  condition that none of this happened.
* **`my_checksum`** reads words of two bytes, of `Byte` values each. `sum` is
  not a variable of the code: `sum[n]` is the sum of the first `n` words, with
  which the properties compare. `all_sum` is unbounded here: the code's `int`
  holds the sum of any IP header, at most 30 words below 2^16. The program calls
  it once, for a constant header of 20 bytes whose words add up to 0x380F: it
  never carries and its length is even. The model and the theorem are about the
  function, for every header it could be given.
* **Threads** of task1 and TCP threads of the multiplexed server are named by
  the client they were created for, those of task2 by their entry, UDP threads
  of the multiplexed server by a number that is used again.
* **Kernel** (external): loopback, so nothing is lost or reordered;
  `listen(fd, 1)` queues `Backlog + 1` connections; without `SO_REUSEADDR` a
  port is occupied by its socket and by every connection accepted from it that
  was not reset (after `QUIT` the client has closed, `QUIT_ACK` draws a reset, and
  the port is free though the server's descriptor stays open; the connection of
  a client that died between requests is in CLOSE_WAIT and keeps it); a
  datagram to an unbound port makes the sender's next call fail;
  closing a listening socket resets what was queued. The end of a stream is
  `recv` = 0, a reset -1; a second `send` on a broken connection kills the
  client (SIGPIPE). A server thread never sends twice without a `recv` between,
  so it meets SIGPIPE only if two threads use one descriptor: in task1 after a
  number was crossed (`SendKills`, `ReplyFails`); in the multiplexed server that
  takes a lost update and three TCP clients, and is not modelled.
* **Uninitialised data.** A client that missed its redirect goes on with any
  value of `Garbage`; `pthread_join` of a thread never created returns or kills
  the process (`JoinGarbage`); `pselect` gets a signal mask that was never set,
  so SIGINT may be delivered to any thread. Uninitialised numbers that are only
  cubed and dropped are 0.
* **Numbers** wrap at `IntMax` as the build's `int` does (C calls it undefined).

## 3. Runs

Client sets, table size and bounds are in the `.cfg` files. Deadlock is not
checked: a server that ended with its clients done is a proper end, and users
may stay silent for ever.

| Run | Instance | What it shows |
|---|---|---|
| `dynamic_mixed` | 1 TCP, 2 UDP clients (symmetric), 2 entries, 9 descriptors, 1 Ctrl+C; 2.5 million states | the inductive invariant `IInv`; `BusyIffHeld`: an entry is busy exactly while the thread `ph_tcp_udp` names holds it; `AdmitHasRoom`: the unlocked test still holds under the mutex; `JoinsCreatedThreads`; `RedirectNamesOwnSlot` and `AnswerIsCube`, until a number is crossed; refinement of `SlotPool` |
| `dynamic_faults` | 2 TCP (one mortal), 1 UDP, 1 entry, 4 descriptors, 1 Ctrl+C; 350,000 states | `SlotAccounting` after deaths and failures, and with numbers crossed into other connections (`RecvNothing`, `SendKills`, `ReplyFails`); liveness `TcpSlotReturned`, `InterruptStopsAdmission` |
| `dynamic_foreign_close` | 2 clients, 1 entry | violation of `RedirectAwaited` |
| `pool_mixed` | 1 TCP, 2 UDP (one slow), 2 entries, 3 descriptors | the inductive invariant `IInv`, with the types; `SlotAccounting`, `AdmitHasRoom`; `SessionMatchesEntry`: the entry polled without the mutex stays the thread's while it works; `DialogueHasThread`, `AnswerIsCube`: clients in dialogue are served even after threads exchanged ports or a slow client sent to a foreign one; refinement of `EntryCycle` |
| `pool_faults` | 2 TCP (one mortal), 1 slow UDP, 1 entry, 3 descriptors, 1 Ctrl+C | liveness `ThreadNoticesClient`, `TcpSlotReturned` |
| `pool_shared_address` | 2 UDP, 2 entries | violation of `StopsOnlyOnInterrupt` |
| `stack_mixed` | 1 TCP, 2 UDP (one slow), 2 threads, stack of 2 | the inductive invariant `IInv`, with the types; `SlotAccounting`; `StackFilled`: `cout_stack` counts the elements in use; `ClaimOnStack`: a thread finds the element it claimed though `main()` moved it; `RedirectAwaited` (the TCP client is not slow, and there are 20 descriptors), `DialogueHasThread`; refinement of `ClientStack` |
| `stack_faults` | 2 TCP, 2 threads, stack of 2, 3 descriptors, 1 Ctrl+C | liveness `NoEntryWaits`: a client on the stack is claimed; `MutexReleased`: `accept` under the mutex ends |
| `stack_overclaim` | 2 TCP, 2 threads | violation of `StackedClientServed` |
| `multiplex_mixed` | 1 TCP, 2 UDP (symmetric), 1 Ctrl+C | the inductive invariant `IInv`, with the types; `FlagsCountThreads`, `UdpDialogueIsConnected`, `UdpAnswerIsCube`, each unless an update was lost |
| `multiplex_faults` | 2 TCP (one mortal, one slow), 1 Ctrl+C | `OneTcpSession` unless an update was lost; liveness `NextTcpServed`, `InterruptStopsAdmission` |
| `small_programs` | 2 runs of a raw client, 2 different numbers, 1 frame of another program, 1 Ctrl+C; 2 echo clients, one mortal, servers whose `bind` or `accept` may fail; headers of up to 6 bytes | `RawOwnAnswer`, `EchoHeardInOrder`; `ReceiverAccepts` for every header; liveness `RawAnswerComes`, `EchoPairEnds` |

**Why the bounds are enough.** Two entries and three clients give every relation
the code distinguishes: a free and a busy entry, two sessions of different or
of the same protocol, a client refused while others are served, one that waits
while an entry is given back. Three or four descriptors for more sockets make every
`accept`, `socket` and `bind` fail somewhere; nine, in `dynamic_mixed`,
are as many as three clients can use, so that a call fails there only for
another reason. One Ctrl+C at any point covers
all: a second changes nothing but the call it interrupts.
In this instance numbers are crossed too, but never into a wrong answer
(`AnswerIsCube` holds there without its condition); what it takes is described
with the observations. No client of the task1 runs times out, for the size of
the instances: that client code is the one of `pool_mixed`, `pool_faults` and
`stack_mixed`, which have slow clients, and the theorems about task1 allow any client
to be slow. `Data = {2}` suffices
because the cube 8 differs from 2, from 0 and from its own cube modulo 2^8
(`IntMax = 127`). Two UDP thread numbers suffice for two UDP clients.
In task3 a stack of two for three clients makes `main()` push past its end, and
two threads let one claim what the other leaves; with three clients an element
is removed while another is claimed or served. Of the small programs a second
run of the client is every disturbance there can be, and a second number shows
what the first round left behind; `IntMax = 7` makes 3 * 3 wrap. Headers of six
bytes with `Byte = 2` include odd lengths, an empty header, and sums whose
folding carries twice.
In `MultiplexServer`, `lost` is a history variable: a protocol enters it when a
write of its flag overwrites a value that changed since it was read. Properties
that start "as long as no update is lost" are false after that (two threads may
share one descriptor variable), and true, as the runs show, before it.

**Fairness.** `FairSpec` has weak fairness for `main()`, each thread and each
client's own steps: the kernel's scheduler runs every runnable thread; the small
programs have the same for their servers and for clients that wait. There is
none for users (they may stop typing), for SIGINT, for timeouts beyond the
client's own steps, or for deaths. `InterruptStopsAdmission` relies on
`pselect`'s 10 s timeout, by which `main()` reads `flag` again even when SIGINT
was delivered elsewhere. `MutexReleased` has clients that neither die nor time out
before they connect; see the observations for one that does.

### Findings

1. *Task1: a thread closes its successor's socket* (`dynamic_foreign_close`).
   `phread_tcp.c:64` reads `fd_serv` after the entry was given back, and closes
   the socket of the next session (`server.c:141` promises "a new server that
   will serve the client").
2. *Task2: threads bind a shared address* (`pool_shared_address`). Two clients
   admitted together make two threads bind one port; the server exits, though
   `readme.md:6` says it is switched off with Ctrl+C. When timing is kinder the
   threads merely exchange ports, and an entry may be given back while its
   client is still on its way.
3. *Task3: a thread claims clients it does not serve* (`stack_overclaim`).
   `create_server.c:22-28` claims every waiting client and serves one; the
   others wait for that thread while another is idle, and then for a client
   that makes it look again. The repository's README (line 19) says that the
   threads choose which client to connect to.

### Observations

The models show these too; they contradict no text, or follow from one line
whatever the interleaving.

* Task1, task2: the accepted descriptor of a TCP session is never closed. After
  a `QUIT` the connection is reset by `QUIT_ACK` and the next TCP session can
  bind the port; after a client that died without a reset it cannot, and
  `error_func` ends the server. The descriptors stay open in either case, until
  `accept` or `socket` fails for want of one, with the same end.
* Task1: a descriptor number may be closed twice. When two threads of one entry
  close late, both close the number in `ph_tcp_udp` (`phread_tcp.c:64`,
  `phread_udp.c:73`). Between the two the number is free, and the `accept` of a
  session on the other entry may get it for its connection; the second close
  ends that connection, its client's `recv` returns 0, and the client prints the
  number it sent as its cube (`client_tcp.c:34`) with the server up. The model
  has this behaviour: without the condition `~crossed`, TLC finds `AnswerIsCube`
  violated for two TCP clients and one UDP client on two entries with nine
  descriptors, in 52 states; with the condition it holds for all 1.0 million
  states of that instance. With one TCP and two UDP clients it holds
  without the condition: one UDP session cannot follow another on its entry
  before the first one's socket is closed, since its `bind` would fail, and
  `accept` holds its number from the start of the call, so that nobody
  closes it while it waits.
* Task1: a UDP session
  answers anyone: `phread_udp.c:30` compares an address with its own copy. The
  thread created last is not joined (`server.c:239`).
* Task1, task2: a UDP client that dies is never noticed and its entry is gone
  until Ctrl+C (in the multiplexed program, the only UDP session).
* Task2: a TCP client may follow its redirect before the thread has bound the
  port; it is refused, and the thread waits in `accept` for ever.
* Task3: `client_udp` is one variable, so of two UDP clients heard before the
  first redirect one is redirected twice and the other never. Served elements
  under one that waits are not removed, so `main()` may store a client past the
  end of the array: it is never served, and its place never given back. A
  client that dies, or gives up after 10 s, before it connects leaves a thread
  in `accept` with the mutex held, and the whole server stops: no property
  covers that, `MutexReleased` is about clients that do neither. After Ctrl+C `main()` may wait for
  ever for a thread that is blocked in `recvfrom`.
* Multiplexed: a thread closes whatever connection `client_fd_tcp` names by
  then (`phread_tcp.c:58-59`), possibly the next client's, and
  `client_tcp.c:34` then prints the number sent as its own cube, because
  `recv` = 0 is not an error for it. A UDP client that timed out once and
  resent its probe takes the second `PROBE_ACK` for its first answer, and is
  one answer behind from then on. A lost update of `flag_tcp` can leave the
  value 0 with no session, and no TCP client is ever accepted again.
* Echo pairs: the second local datagram client unlinks the path of the first,
  so that an answer goes to the wrong client or `sendto` fails and ends the
  server. The stream programs write `buffer[-1]` when the other side is missing
  or gone. The stream servers do not test `bind`, `listen` and `accept`: started
  again while the port is in TIME_WAIT, or after a run that was killed before it
  could `unlink` its path, a server serves nobody and, when `accept` fails,
  writes `buffer[-1]`. A second datagram client can take the place of the first in the
  middle of its conversation.
* Raw sockets: a second client on a machine reads the answers for the first,
  because both have port 7564, and any client takes what another program sends
  to that port for its answer. An answer of `UDP_RAW_ethernet` may be lost, and
  the client then waits for ever.

## 4. Theorems

### The task1 server

`DynamicServerProofs` (checked by tlapm, all backends automatic) proves of
`DynamicServer`, for any finite sets of clients, any table size, any limits:

| Theorem | Statement |
|---|---|
| `Invariance` | `Spec => []IInv` |
| `TypeCorrect` | `Spec => []TypeOK` |
| `CounterMatchesTable` | `Spec => []SlotAccounting` |
| `OneHolderPerEntry` | `Spec => []BusyIffHeld` |
| `UnlockedTestIsSafe` | `Spec => []AdmitHasRoom` |
| `JoinsOnlyCreated` | `Spec => []JoinsCreatedThreads` |
| `AnswersAreCubes` | `Spec => []AnswerIsCube` |
| `RedirectsAreOwn` | `Spec => []RedirectNamesOwnSlot` |
| `ImplementsSlotPool` | `Spec => PoolSpec`, the refinement of `SlotPool` |

**Assumptions.** Those declared with the constants: finite disjoint client sets,
`None` no client, a table of at least one entry, natural bounds, `Garbage` made
of messages. TLC evaluates them in every run.

**The argument.** `IInv == TableInv /\ SessionInv /\ RedirectsInv`, and each of
the three is kept by every step.

*The table.* `SlotAccounting` is not inductive: that a release does not
increment the counter twice needs the entry to be busy (`HeldInv`), which needs
that no two threads hold one entry, which needs that a client is admitted once
(`QueueInv`: a queue holds a client once, and none that has a thread) and that
the mutex excludes a release between search and decrement (`MainInv`).
`AdmitHasRoom` needs `flag_client > 0` at the search, which follows from the
counter only ever growing between the test and the lock because only `main()`
decrements it, and from `SlotAccounting`. `CreatedInv` (a busy entry has a
thread) and `PeerInv` (a reading thread has a peer) complete
`TableInv == TypeOK /\ QueueInv /\ MainInv /\ HeldInv /\ CreatedInv /\ PeerInv /\ SlotAccounting`.
Each part has a frame lemma (which variables it depends on) and a lemma for the
actions that touch them. In the refinement, `Admit` implements `Take` of the
first free entry, `Release` implements `GiveBack`, everything else stutters.

*What is conditional.* The table is proved for every state. The sessions and the
redirects cannot be: `SessionInv` and `RedirectsInv` hold until `crossed`, a
history variable that becomes true when a call or a close reaches a file that
its number was not meant for (a number that is free, or that a blocked `accept`
has reserved, fails harmlessly and does not count). After that a client may get
another session's answer or the end of its stream, as the observations describe. So
`AnswersAreCubes` and `RedirectsAreOwn` say that this is the *only* way to a wrong
answer or redirect: not the unlocked flag, nor a thread that outlives its entry and
reads another session's element, nor a number that was closed twice or given
out again, as long as none is used on another session's file.

*The descriptors.* `FdInv` is what makes that inductive: until a crossing a TCP
thread's number opens its own connection and a thread in a call works on its own
file (`OwnInv`), an `accept` under way has a number nobody else has (`AcceptInv`),
and the first connection of a client that waits for its redirect is still there
(`AwaitInv`). Only a close could change it, and one that would is a crossing.

*The sessions.* Here threads outlive their entries and read `ph_tcp_udp` again,
so a message cannot be followed by the thread it is meant for. `DialogueInv`, which
holds while the server is up, follows it by the client instead: the request of
`c` is in a queue (`Asks`), in the buffer of some thread (`Taken`), or answered
(`Told`). `TurnInv` says that it is at most one of these, once, and none while
the user has the turn; `ContentInv` that what is on its way asks or is the cube
of the number the client remembers. Two facts make `TurnInv` inductive:
`PortInv`, one socket to a port, without which a datagram would reach two
threads; and `ConnInv`, that a TCP client in dialogue is still connected, without
which it would take the end of the stream for an answer and go on while its
request is under way. A step that leaves the client alone and moves none of its
messages is `Untouched` and needs one lemma (`UntouchedInv`); receiving, sending
and the client's own steps have one each.

*The redirects.* `RedirectInv` says of every queue and every buffer what a
redirect in it means, most often that there is none: a redirect is made by
`main()` only (a reply and a probe never are one), and by the time the client
has left for its session port it has read it. What `main()` is about to send
names the entry it has just reserved for `cur`, and entries do not move.
`RedirectNamesOwnSlot` speaks of the redirect that was received; a client whose
`recv` failed follows an uninitialised buffer, which the instances include
(`Garbage` has a redirect that looks right).

### The sessions of the task2 and task3 servers

Both servers talk to the same clients with the same code (`CubeServer`), so what
is true of their sessions is stated once, in `CubeSession`, and proved once, in
`CubeServerProofs`: one lemma for each kind of step (a thread opens its socket,
accepts, receives, sends, closes; a client's step, its end), each of which says
that the step keeps `SessionInv`. The two servers only show that their own steps
are of these kinds.

`SessionInv` holds while the server is up and follows the one message between a
client and its thread. `PortInv` and `ThreadInv` tie the socket, the peer and
the buffer of a thread to where it is. `PlaceInv` says that a client reaches only
the socket bound to the port it is connected to. `TurnInv` says that of the
client's request, the thread's buffer and the answer at most one is on its way,
and none while its user has the turn; without it an answer left over could be
taken for the next one, which is what goes wrong in the multiplexed program.
`ContentInv` says that what is on its way asks, or is, the cube of the number
the client remembers. `ConnInv` and `ServedInv` give every client in dialogue a
thread that knows it. `DialogueHasThread` and `AnswerIsCube` follow.

The type and the effect of every client step are in `CubeClientProofs`, which the
proofs of the servers of task1, task2 and task3 share, with what a step of one
client leaves alone (`ClientAlone`: nothing of the other clients, and one
connection or datagram more at a serving socket); what all four need of
replies and of queues is in `CubeProofs`.

### The task2 server

`PoolServerProofs` proves of `PoolServer`, for any clients, any number of
entries, any limits, with clients that time out and die at any moment:

| Theorem | Statement |
|---|---|
| `Invariance` | `Spec => []IInv` |
| `TypeCorrect` | `Spec => []TypeOK` |
| `CounterMatchesTable` | `Spec => []SlotAccounting` |
| `UnlockedTestIsSafe` | `Spec => []AdmitHasRoom` |
| `EntryNamesSession` | `Spec => []SessionMatchesEntry` |
| `AnswersAreCubes` | `Spec => []AnswerIsCube` |
| `ClientsAreServed` | `Spec => []DialogueHasThread` |
| `ImplementsEntryCycle` | `Spec => CycleSpec`, the refinement of `EntryCycle` |

**The argument.** `IInv == TypeOK /\ MainInv /\ EntryInv /\ SlotAccounting /\
SessionInv`. That a release increments the counter for an entry that is taken
needs `SessionMatchesEntry` (a thread at work has its entry taken); that it does
not fall between the search and the decrement needs `MainInv` (`main()` holds
the mutex for that time). `main()` writes an entry only if it is free, which by
`SessionMatchesEntry` means that its thread is idle: so the unlocked reads of
`status_tcp_udp` are safe. `AdmitHasRoom` follows from the counter and from the
queues, which only `main()` shortens. Nothing in the invariant says that a thread
is bound to the port of its *own* entry, because that is false (finding 2);
`DialogueHasThread` holds all the same, with whatever port the thread got.

`EntryCycle` is what the table and the threads together promise: an entry is given
away while its thread is idle, its thread begins to work once, gives it back
once. In the refinement `taken` is the set of entries with `status` 1 and
`working` the set of entries whose thread has left its polling loop. `Admit` is
`Give` of the first free entry, a poll that finds the thread's protocol is
`Begin`, `Release` is `GiveBack`, everything else stutters. `Begin` needs the entry to
be taken, though the poll only saw `status_tcp_udp`, and `Give` needs the thread
idle, though `main()` only saw `status`: both are `SessionMatchesEntry`. That a
thread does not begin again after its release is that the release resets
`status_tcp_udp` in the same critical section.

### The task3 server

`StackServerProofs` proves of `StackServer`, under the assumptions above and a
stack of at least one element (not necessarily as many as threads):

| Theorem | Statement |
|---|---|
| `Invariance` | `Spec => []IInv` |
| `TypeCorrect` | `Spec => []TypeOK` |
| `CounterMatchesStack` | `Spec => []SlotAccounting` |
| `StackIsFilled` | `Spec => []StackFilled` |
| `ClaimsAreKept` | `Spec => []ClaimOnStack` |
| `ClientsAreServed` | `Spec => []DialogueHasThread` |
| `ImplementsClientStack` | `Spec => StackSpec`, the refinement of `ClientStack` |
| `RedirectsAreAwaited` | `Punctual /\ Roomy => (Spec => []RedirectAwaited)`, its hypotheses below |
| `OneThreadAccepts` | `Spec => []MutexInv` |
| `DescriptorsSuffice` | `Roomy => (Spec => [](server = "up" => OpenFds < FdLimit))` |

**The argument.** `IInv == StackInv /\ RedirectInv`, where `StackInv == TypeOK /\
MainInv /\ ThreadClaims /\ SlotAccounting /\ StackFilled /\ ClaimOnStack /\
SessionInv`. Compaction removes served elements
from the bottom (`ServedHead(n)` says there are n of them), and
`ShiftedDown` proves that every other element keeps its contents and every
count its value. That this takes no thread's claim away needs the second part of
`ClaimOnStack`: an `id` is never on a served element. `ThreadClaims` says which
threads have a claim, and that each is bound to its own port for the protocol it
claimed. A thread that claims serves one element and marks it, so the waiting
elements shrink by one as the sessions grow by one, and `SlotAccounting` is kept.
In the refinement a push is `Admit` (`Drop` when it falls past the end),
`MarkServed` is `Serve`, `flag_client++` is `Release`, everything else,
compaction included, stutters; `StackServerProofs` shows it in the same lemmas
as the invariant, one for each action.

*The redirect.* A thread writes its port to a TCP client and then waits for that
client in `accept`, with the mutex held. That a client on its way to a port is
awaited there, by a thread that claimed *it*, is `RedirectAwaited`; it depends on
nobody else coming to that port, on the client not being on the stack twice, and
on `accept` finding a descriptor. `RedirectInv` collects this.

* `MutexInv`: over several steps the mutex is held by the one thread that is in
  `accept`, or by nobody; so at most one redirect is under way.
* `VisitInv`: a TCP client that waits at port 8080 is in one place: in `main()`'s
  queue, or once on the stack.
* `ConnectInv`: a client connects to a session port once, and its connection is
  either in one backlog or was taken from it.
* `AwaitInv`, under the two hypotheses: what waits for a client at port 8080 is
  a refusal, or the redirect of the thread that awaits it, and whoever comes to
  a thread in `accept` is the client it awaits.

The hypotheses are on the constants. `Punctual`: no TCP client is in `Slow`. One
that times out before its redirect arrives follows an uninitialised buffer, to
the port of another thread, which then takes it for its own client. `Roomy`: more
descriptors than two for each TCP client and one for each thread. With fewer,
`accept` fails after the redirect was sent, and the thread goes on without the
client. The server closes no descriptor of a TCP client, but a client has at
most two (`ConnectInv`), so that this many suffice for a whole run: that is
`DescriptorsSuffice`. TLC finds `RedirectAwaited` violated without either
hypothesis (for two TCP clients and two threads, one of the clients slow, or
with 3, 4 or 5 descriptors; with 6, one less than `Roomy` asks, it holds).
UDP clients may time out and any client may die: neither is excluded.

### The multiplexed server

`MultiplexServerProofs` proves of `MultiplexServer`, for any finite disjoint sets
of clients, of which any may time out or die at any moment, any backlog, any
number of UDP threads at once and any number of Ctrl+C:

| Theorem | Statement |
|---|---|
| `Invariance` | `Spec => []IInv` |
| `TypeCorrect` | `Spec => []TypeOK` |
| `FlagsAreCounts` | `Spec => []FlagsCountThreads` |
| `TcpServedAlone` | `Spec => []OneTcpSession` |
| `UdpSessionKept` | `Spec => []UdpDialogueIsConnected` |
| `UdpAnswerCorrect` | `Spec => []UdpAnswerIsCube` |

**What they say.** Nothing in this server is locked, and the properties are false
once an update of a flag is lost. So each of them has the hypothesis that this
has not happened to its protocol (`lost`), and the theorems say that it is the
only thing that can go wrong: no interleaving of datagrams, threads, deaths and
signals breaks a property before an increment and a decrement overlap.
`UdpAnswerIsCube` is about clients not in `Slow`, because it is false of a client
that repeated its probe (see the observations). `IInv` itself holds in every
state, also after an update was lost.

**The argument.** `IInv == TypeOK /\ QueueInv /\ FlagsCountThreads /\
OneTcpSession /\ ("udp" \notin lost => UdpInv)`. A flag is 1 less its live threads,
plus 1 between `pthread_create` and the write of the decrement: the write
stores what was read plus or minus 1, and since it is no lost update, what was
read is still the flag. `QueueInv` (a client is queued once, and before it has a
thread) makes a new thread count once. `main()` creates a thread only when its flag
is positive and it is not about to decrement it, hence when no thread is live:
that is `OneTcpSession`, and for UDP the first part of `UdpThreadInv`, by which
`ph_udp`, `is_client_connected` and `connected_client`, shared by all UDP threads,
have one user. `QuitInv` says that a `QUIT` is the last thing its client sends, so
that a thread that ends for it leaves nobody in dialogue; an answer to a
client that is gone reaches nobody. `ConnectedInv` then gives every client that
is in dialogue, or has an answer waiting, the session: a client gets a first
answer only from a thread that has just connected it, and the thread skips the
datagrams of all others. `TurnInv` is the counterpart of the one above for
datagrams that queue at one socket: of a client's request, the thread's copy and
the answer at most one exists, it asks or answers what the client waits for, and
nothing exists while the user has the turn.

The invariant is preserved by frame lemmas (`SessionFrame`, `OtherClients`: who
does not take part keeps what it has), one lemma for each step of the UDP thread,
and one for each kind of client step: it ends, sends, or hears.

### The checksum

`SmallProgramsProofs` proves `ChecksumIsRight`, `Spec => []ReceiverAccepts`: for
headers of any length, odd or even, and bytes of any size, the one's complement
sum of the words and the checksum together is all ones, which is what a receiver
tests. The only assumption is the one of `Checksum`: a byte has at least two
values, and the bound on lengths is a natural number. With M the number of
values of a word, the argument is that each turn of the last loop takes a
multiple of M - 1 from `all_sum`, which therefore stays congruent to the sum of the
words while it shrinks below M. The invariant says how much of the header
`all_sum` holds at each step; inverting what is left gives M - 1.

### The raw sockets and the echo pairs

`SmallProgramsProofs` proves `RawAnswersAreOwn`, `SmallSpec => []RawOwnAnswer`,
and `EchoesInOrder`, `SmallSpec => []EchoHeardInOrder`, for any set of clients,
any of which may be killed, and with no bound on numbers, rounds, frames or
interrupts. The first is about the first client on its machine until another
program sends to port 7564 (`foreign`): its own datagrams, other programs' frames
to other ports, and answers left over do not disturb it. Assumed is only that `Nobody` is no client, that `Mortal` is a set of
clients, and that the numbers typed are integers.

`RawOwnAnswer` alone is not inductive: it says nothing until the answer is
printed. `RawTurn` adds that at most one number of the first client is under
way. While it waits for an answer, its number is in the server's inbox, or its
square in the server's buffer, or in one frame of its queue that has the client's
port; between rounds there is none of the three. The first client can only
become one of several (`FirstStays`), after which the property says no more.

`EchoHeardInOrder` has two parts with an invariant each.

* `OrderInv`: where the server is, and where the client is, bound what the
  client can have heard or be about to hear (`HeardSoFar`). A datagram server
  says "yes" only to who sent "exit", and a client sends "exit" only after it heard
  "hi" (`DgramInv`: the mail waiting is taken into account); a stream server
  serves one connection, and what it has read of it fixes where that client is
  (`StreamInv`). The local datagram pair is left out: its clients share one path.
* `AloneInv`: while no other client has started and the server listens, the state
  is one of the few of the conversation as it is meant (`DgramTalk`, `StreamTalk`), for the local
  datagram pair too, whose path is then the client's own (`PathInv`). In none of
  them does a process fail or write before its buffer.

The proof has one lemma for each step of the server and for each step of a client;
`OrderOther` treats the steps of all other clients at once.

### Only model-checked

* Liveness, and whatever else depends on fairness or `ENABLED`, which the prover
  cannot treat: `TcpSlotReturned`, `ThreadNoticesClient`, `InterruptStopsAdmission`,
  `NextTcpServed`, `NoEntryWaits`, `MutexReleased`, `RawAnswerComes`,
  `EchoPairEnds`.

## 5. Plan

Done: every program of the repository that keeps state has its module; every
safety invariant the passing runs check has a theorem, and so have the three
refinements.

Open: the exact number of descriptors from which `RedirectAwaited` holds (the
theorem asks for one more than the instances need), and an abstract
specification of the multiplexed server.

### Not modelled

`broadcast` and `multicast`: one process sends one datagram, the other receives
it, with no state and no choice. The layout of the IP, UDP and Ethernet headers
beyond the address, the ports and the length, and the printed text: no property
is about them. The `Makefile`s.
