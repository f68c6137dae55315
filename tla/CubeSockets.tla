------------------------------ MODULE CubeSockets ------------------------------
(***************************************************************************)
(* What the three TCP_UDP servers and their clients share: the part of the *)
(* kernel they talk through (sockets of the server process, stream         *)
(* buffers, datagram queues).  The kernel is not in the repository; it is  *)
(* modelled from how the code uses it.                                     *)
(*                                                                         *)
(* Abstractions.  A port is the index of its entry in ports_array; every   *)
(* integer that is no such index stands for "some other port".  A client   *)
(* is one run of a client program, so it has one main-phase endpoint and   *)
(* at most one session endpoint.  Which number the kernel gives a          *)
(* descriptor matters only in TCP_UDP_task1, where threads close numbers   *)
(* they read from shared memory (DynamicServer); elsewhere a descriptor is *)
(* named by the socket it opens.                                           *)
(***************************************************************************)
EXTENDS Cube, Sequences, FiniteSets

CONSTANTS
  TcpClient,      \* runs of client_tcp
  UdpClient,      \* runs of client_udp
  None,           \* no client (an unset field)
  LENGTH_CLIENT,  \* server.h: number of entries of ports_array
  Backlog,        \* connections a listening socket queues (listen(fd, 1))
  FdLimit         \* descriptors the server process may still open (RLIMIT_NOFILE)

ASSUME ClientAssumption == /\ IsFiniteSet(TcpClient)
                           /\ IsFiniteSet(UdpClient)
                           /\ TcpClient \cap UdpClient = {}
                           /\ None \notin TcpClient \cup UdpClient
ASSUME LengthAssumption == LENGTH_CLIENT \in Nat \ {0}
ASSUME LimitAssumption == Backlog \in Nat /\ FdLimit \in Nat

Client == TcpClient \cup UdpClient

Slot == 0 .. LENGTH_CLIENT - 1

Proto(c) == IF c \in TcpClient THEN "tcp" ELSE "udp"

-----------------------------------------------------------------------------
VARIABLES
  server,    \* the server process: "up", "exited" (returned from main) or "failed" (exit(EXIT_FAILURE))
  mainq,     \* mainq["tcp"]: connections waiting on port 8080; mainq["udp"]: probes waiting on port 8079
  accepted,  \* clients whose connection to port 8080 the server holds a descriptor for
  sock,      \* sock[x]: what serving socket x is bound to, or Closed
  backlog,   \* backlog[x]: connections waiting on serving socket x (TCP)
  dgrams,    \* dgrams[x]: datagrams waiting on serving socket x (UDP)
  conn,      \* <<c, p>>: the accepted session connection of client c, local port p
  toSrv,     \* toSrv[c]: bytes of c's session stream the server has not read
  toCli      \* toCli[c]: messages waiting at c's current endpoint

netVars == <<server, mainq, accepted, sock, backlog, dgrams, conn, toSrv, toCli>>

Closed == [proto |-> "none", port |-> 0]

Bound(proto, p) == [proto |-> proto, port |-> p]

SocketState == [proto : {"tcp", "udp"}, port : Slot] \cup {Closed}

\* The serving sockets bound to port p of a protocol (at most one).
SocketsAt(proto, p) == {x \in DOMAIN sock : sock[x] = Bound(proto, p)}

UdpAt(p) == IF server = "up" THEN SocketsAt("udp", p) ELSE {}

\* The descriptors of TCP_UDP_task2 and TCP_UDP_task3.
OpenFds == Cardinality(accepted)
             + Cardinality({x \in DOMAIN sock : sock[x] # Closed})
             + Cardinality(conn)

\* The session connection of c still has a peer in the server process.
SessionUp(c) == /\ server = "up"
                /\ \/ \E p \in Slot : <<c, p>> \in conn
                   \/ \E x \in DOMAIN sock :
                        sock[x] # Closed /\ \E i \in 1 .. Len(backlog[x]) : backlog[x][i] = c
=============================================================================
