---------------------------- MODULE PoolServerProofs ----------------------------
(***************************************************************************)
(* The safety properties of PoolServer hold for every number of clients,   *)
(* entries, descriptors and interrupts, and the table and the threads      *)
(* implement EntryCycle.  Each action keeps the inductive invariant IInv;  *)
(* what the actions of CubeServer and the clients do to the types and to   *)
(* the sessions is in CubeServerProofs.                                    *)
(***************************************************************************)
EXTENDS PoolServerProps, CubeServerProofs

-----------------------------------------------------------------------------
(* What each part of the invariant depends on. *)

LEMMA PoolKept == PoolTypeOK /\ UNCHANGED <<mpc, wpc, ownVars>> => PoolTypeOK'
  BY DEF PoolTypeOK, ownVars, tableVars

LEMMA MainFrame ==
  ASSUME MainInv, ready \subseteq {"tcp", "udp"}, flag_client \in Int,
         UNCHANGED <<mpc, ready, locked>>,
         flag_client' = flag_client \/ flag_client' = flag_client + 1,
         \A p \in {"tcp", "udp"} : mainq[p] # <<>> => mainq'[p] # <<>>
  PROVE  MainInv'
<1>1. Waiting' = Waiting /\ Waiting \subseteq ready
  BY DEF Waiting, Now
<1>2. mpc' = "admit" => flag_client' > 0
  BY DEF MainInv
<1>3. mpc' \in {"check", "admit", "refuse", "reply"} =>
        ready' # {} /\ \A p \in Waiting' : mainq'[p] # <<>>
  BY <1>1 DEF MainInv
<1> QED
  BY <1>2, <1>3 DEF MainInv

LEMMA EntryFrame ==
  ASSUME EntryInv, UNCHANGED <<tableVars, serv, sock>>,
         \A w \in Slot : \/ wpc'[w] = wpc[w]
                         \/ wpc'[w] # "bind" /\ (wpc'[w] \in Busy <=> wpc[w] \in Busy)
  PROVE  EntryInv'
  BY DEF EntryInv, SessionMatchesEntry, WProto, Busy, tableVars

LEMMA AccountingFrame ==
  ASSUME SlotAccounting, UNCHANGED <<flag_client, status>>, mpc' = "reply" <=> mpc = "reply"
  PROVE  SlotAccounting'
  BY DEF SlotAccounting, TakenSlots

\* The set of taken entries is finite and no larger than the table.
LEMMA TakenFinite ==
  /\ IsFiniteSet(TakenSlots) /\ Cardinality(TakenSlots) \in Nat
  /\ Cardinality(TakenSlots) = LENGTH_CLIENT => TakenSlots = Slot
<1>1. IsFiniteSet(Slot) /\ Cardinality(Slot) = LENGTH_CLIENT
  BY FS_Interval, LengthAssumption DEF Slot
<1>2. TakenSlots \in SUBSET Slot
  BY DEF TakenSlots
<1> QED
  BY <1>1, <1>2, FS_Subset, FS_CardinalityType

\* Where main() takes the client of its queue from.
LEMMA NowReady ==
  ASSUME MainInv, ready \subseteq {"tcp", "udp"}, mpc \in {"check", "admit", "refuse", "reply"}
  PROVE  Now \in ready /\ Now \in {"tcp", "udp"}
  BY DEF MainInv, Now

LEMMA InitInv == Init => IInv
<1> SUFFICES ASSUME Init PROVE IInv
  OBVIOUS
<1> USE DEF Init, ServerInit
<1>1. TypeOK
  <2>1. ServerTypeOK /\ ClientTypeOK
    BY ServerInitType
  <2>2. ZeroMsg \in Message
    BY DEF ZeroMsg, Msg, Message, DATA
  <2>3. PoolTypeOK
    BY <2>2 DEF PoolTypeOK, WorkerPc
  <2> QED
    BY <2>1, <2>3 DEF TypeOK
<1>2. MainInv /\ EntryInv
  BY DEF MainInv, EntryInv, SessionMatchesEntry, Busy
<1>3. SlotAccounting
  <2>1. TakenSlots = {}
    BY DEF TakenSlots
  <2> QED
    BY <2>1, FS_EmptySet, LengthAssumption DEF SlotAccounting
<1>4. LiveInv
  BY InitSession
<1> QED
  BY <1>1, <1>2, <1>3, <1>4 DEF IInv, SessionInv

-----------------------------------------------------------------------------
(* What each step does to the invariant: main(), *)

\* The server's end stops its sessions, and changes no table.
LEMMA StopInv ==
  ASSUME IInv, server' # "up", ServerTypeOK', ClientTypeOK',
         UNCHANGED <<mainq, sock, serverVars, ownVars>>
  PROVE  IInv'
<1> USE DEF IInv
<1>1. UNCHANGED <<flag_client, locked, mpc, ready, wpc, status>>
  BY DEF serverVars, mainVars, threadVars, ownVars, tableVars
<1>2. TypeOK'
  BY <1>1, PoolKept DEF TypeOK
<1>3. MainInv'
  BY <1>1, MainFrame DEF TypeOK, ServerTypeOK, MainTypeOK
<1>4. EntryInv'
  BY <1>1, EntryFrame DEF ownVars
<1> QED
  BY <1>1, <1>2, <1>3, <1>4, AccountingFrame DEF SessionInv

\* The steps of main() that touch neither the table nor the sessions.
LEMMA MainOnlyInv ==
  ASSUME IInv, MainLoop \/ Select("loop") \/ Check \/ Join \/ Refuse("loop"), UNCHANGED ownVars
  PROVE  IInv'
<1> USE DEF IInv
<1>1. /\ server = "up" /\ mpc # "reply" /\ mpc' # "reply" /\ mpc' \in {"loop", "select", "check", "admit", "refuse", "join"}
      /\ UNCHANGED <<sock, backlog, dgrams, conn, toSrv, clientVars, flag, flag_client, locked, threadVars>>
  BY DEF MainLoop, Select, Check, Join, Refuse, NextBranch, netVars
<1>2. ServerTypeOK' /\ ClientTypeOK'
  BY MainType DEF TypeOK
<1>3. TypeOK'
  BY <1>1, <1>2 DEF TypeOK, PoolTypeOK, ownVars, tableVars, threadVars
<1>4. EntryInv'
  BY <1>1, EntryFrame DEF ownVars, threadVars
<1>5. SlotAccounting'
  BY <1>1, AccountingFrame DEF ownVars, tableVars
<1>6. SessionInv'
  <2>1. \A c \in Client : toCli'[c] = toCli[c] \/ AtMain(c)
    <3>1. CASE Refuse("loop")
      BY <3>1 DEF Refuse, SendMain, TypeOK, ServerTypeOK, SocketTypeOK
    <3>2. CASE ~Refuse("loop")
      BY <3>2 DEF MainLoop, Select, Check, Join, netVars
    <3> QED
      BY <3>1, <3>2
  <2> QED
    BY <1>1, <2>1, QuietInv DEF SessionInv, threadVars
<1>7. MainInv'
  <2>1. ready \subseteq {"tcp", "udp"} /\ flag_client \in Int
        /\ mainq \in [{"tcp", "udp"} -> Seq(Client)]
    BY DEF TypeOK, ServerTypeOK, MainTypeOK, SocketTypeOK
  <2>2. CASE MainLoop \/ Join
    BY <1>1, <2>2 DEF MainLoop, Join, MainInv, netVars
  <2>3. CASE Select("loop")
    BY <1>1, <2>3 DEF Select, MainInv, Waiting, netVars
  <2>4. CASE Check
    BY <1>1, <2>1, <2>4 DEF Check, MainInv, Waiting, netVars
  <2>5. CASE Refuse("loop")
    <3>1. mainq' = [mainq EXCEPT ![Now] = Tail(@)] /\ ready' = ready \ {Now} /\ mpc = "refuse"
      BY <2>5 DEF Refuse, TakeNext, NextBranch
    <3>2. \A p \in ready' : mainq'[p] # <<>>
      BY <1>1, <2>1, <3>1 DEF MainInv, Waiting
    <3> QED
      BY <1>1, <2>1, <2>5, <3>1, <3>2 DEF MainInv, Waiting, Refuse, NextBranch
  <2> QED
    BY <2>2, <2>3, <2>4, <2>5
<1> QED
  BY <1>3, <1>4, <1>5, <1>6, <1>7

\* Between the unlocked test and the search, the entry found is free and its
\* thread idle.
LEMMA AdmitInv == IInv /\ Admit => IInv'
<1> SUFFICES ASSUME IInv, Admit PROVE IInv'
  OBVIOUS
<1> USE DEF IInv
<1>1. PICK s \in Slot :
        /\ FirstFree(s)
        /\ status' = [status EXCEPT ![s] = 1]
        /\ status_tcp_udp' = [status_tcp_udp EXCEPT ![s] = IF Now = "tcp" THEN 1 ELSE 2]
        /\ buffer' = Msg(REDIRECT, s)
  BY DEF Admit
<1>2. /\ server = "up" /\ mpc = "admit" /\ mpc' = "reply" /\ ~locked /\ locked' = TRUE
      /\ UNCHANGED <<server, sock, backlog, dgrams, conn, toSrv, toCli, clientVars, flag,
                     interrupts, flag_client, ready, join, threadVars, serv>>
      /\ TakeNext /\ cur' = Head(mainq[Now])
  BY DEF Admit
<1>3. /\ status \in [Slot -> {0, 1}] /\ status_tcp_udp \in [Slot -> 0 .. 2]
      /\ wpc \in [Slot -> WorkerPc] /\ ready \subseteq {"tcp", "udp"} /\ flag_client \in Int
      /\ mainq \in [{"tcp", "udp"} -> Seq(Client)] /\ SocketTypeOK(Slot)
  BY DEF TypeOK, PoolTypeOK, ServerTypeOK, MainTypeOK, SocketTypeOK
<1>4. status[s] = 0 /\ status_tcp_udp[s] = 0 /\ wpc[s] \notin Busy /\ sock[s] = Closed
  BY <1>1, <1>3 DEF FirstFree, EntryInv, SessionMatchesEntry
<1>5. TypeOK'
  <2>1. /\ Head(mainq[Now]) \in Client
        /\ mainq' \in [{"tcp", "udp"} -> Seq(Client)] /\ accepted' \subseteq Client
    BY <1>2, <1>3, TakeNextType
  <2>2. SocketTypeOK(Slot)'
    BY <1>2, <1>3, <2>1 DEF SocketTypeOK
  <2>3. MainTypeOK' /\ ThreadTypeOK'
    BY <1>2, ThreadKept DEF TypeOK, ServerTypeOK, MainTypeOK, threadVars
  <2>4. Msg(REDIRECT, s) \in Message
    BY SlotFacts DEF Msg, Message, REDIRECT
  <2>5. PoolTypeOK'
    BY <1>1, <1>2, <1>3, <2>1, <2>4 DEF TypeOK, PoolTypeOK, threadVars
  <2> QED
    BY <1>2, <2>2, <2>3, <2>5, ClientKept DEF TypeOK, ServerTypeOK
<1>6. MainInv'
  <2>1. mainq' = [mainq EXCEPT ![Now] = Tail(@)] /\ Now' = Now
    BY <1>2 DEF TakeNext, Now
  <2>2. Waiting = ready /\ Waiting' = ready \ {Now}
    BY <1>2, <2>1 DEF Waiting
  <2> QED
    BY <1>2, <1>3, <2>1, <2>2 DEF MainInv
<1>7. EntryInv'
  BY <1>1, <1>2, <1>3, <1>4 DEF EntryInv, SessionMatchesEntry, WProto, threadVars, Busy
<1>8. SlotAccounting'
  <2>1. TakenSlots' = TakenSlots \cup {s} /\ s \notin TakenSlots
    BY <1>1, <1>3, <1>4 DEF TakenSlots
  <2>2. Cardinality(TakenSlots') = Cardinality(TakenSlots) + 1
    BY <2>1, TakenFinite, FS_AddElement
  <2>3. flag_client = LENGTH_CLIENT - Cardinality(TakenSlots)
    BY <1>2, TakenFinite, LengthAssumption DEF SlotAccounting
  <2> QED
    BY <1>2, <2>2, <2>3, TakenFinite, LengthAssumption DEF SlotAccounting
<1>9. SessionInv'
  BY <1>2, QuietInv DEF SessionInv, threadVars
<1> QED
  BY <1>5, <1>6, <1>7, <1>8, <1>9

LEMMA SendRedirectInv == IInv /\ SendRedirect => IInv'
<1> SUFFICES ASSUME IInv, SendRedirect PROVE IInv'
  OBVIOUS
<1> USE DEF IInv
<1>1. /\ server = "up" /\ mpc = "reply" /\ locked' = FALSE /\ flag_client' = flag_client - 1
      /\ cur' = None /\ buffer' = ZeroMsg /\ SendMain(cur, buffer)
      /\ ready' = ready \ {Now} /\ mpc' = IF ready' = {} THEN "loop" ELSE "check"
      /\ UNCHANGED <<server, mainq, accepted, sock, backlog, dgrams, conn, toSrv, clientVars,
                     flag, interrupts, join, threadVars, tableVars, serv>>
  BY DEF SendRedirect, NextBranch
<1>2. buffer \in Message /\ toCli \in [Client -> Seq(Message)] /\ flag_client \in Int
      /\ SocketTypeOK(Slot)
  BY DEF TypeOK, PoolTypeOK, ServerTypeOK, SocketTypeOK, MainTypeOK
<1>3. TypeOK'
  <2>1. toCli' \in [Client -> Seq(Message)]
    BY <1>1, <1>2, SendType DEF SendMain
  <2>2. SocketTypeOK(Slot)'
    BY <1>1, <1>2, <2>1 DEF SocketTypeOK
  <2>3. MainTypeOK' /\ ThreadTypeOK'
    <3>1. flag_client' \in Int
      BY <1>1, <1>2
    <3>2. ready' \subseteq ready /\ locked' \in BOOLEAN
      BY <1>1
    <3> QED
      BY <1>1, <3>1, <3>2, ThreadKept DEF TypeOK, ServerTypeOK, MainTypeOK, threadVars
  <2>4. ZeroMsg \in Message
    BY DEF ZeroMsg, Msg, Message, DATA
  <2>5. PoolTypeOK'
    BY <1>1, <2>4 DEF TypeOK, PoolTypeOK, threadVars, tableVars
  <2> QED
    BY <1>1, <2>2, <2>3, <2>5, ClientKept DEF TypeOK, ServerTypeOK
<1>4. MainInv'
  BY <1>1 DEF MainInv, Waiting
<1>5. EntryInv'
  BY <1>1, EntryFrame DEF threadVars
<1>6. SlotAccounting'
  <2>1. TakenSlots' = TakenSlots /\ mpc' # "reply"
    BY <1>1 DEF TakenSlots, tableVars
  <2>2. flag_client = LENGTH_CLIENT - Cardinality(TakenSlots) + 1
    BY <1>1 DEF SlotAccounting
  <2> QED
    BY <1>1, <2>1, <2>2, TakenFinite, LengthAssumption DEF SlotAccounting
<1>7. SessionInv'
  <2>1. \A c \in Client : toCli'[c] = toCli[c] \/ AtMain(c)
    BY <1>1, <1>2 DEF SendMain
  <2> QED
    BY <1>1, <2>1, QuietInv DEF SessionInv, threadVars
<1> QED
  BY <1>3, <1>4, <1>5, <1>6, <1>7

LEMMA MainStepInv == IInv /\ MainStep => IInv'
<1> SUFFICES ASSUME IInv, MainStep PROVE IInv'
  OBVIOUS
<1>1. CASE Admit \/ SendRedirect
  BY <1>1, AdmitInv, SendRedirectInv
<1>2. CASE (MainLoop \/ Select("loop") \/ Check \/ Join \/ Refuse("loop")) /\ UNCHANGED ownVars
  BY <1>2, MainOnlyInv
<1>3. CASE (Return \/ Fail) /\ UNCHANGED ownVars
  <2>1. ServerTypeOK' /\ ClientTypeOK'
    BY <1>3, MainType DEF IInv, TypeOK
  <2>2. server' # "up" /\ UNCHANGED <<mainq, sock, serverVars, ownVars>>
    BY <1>3 DEF Return, Fail
  <2> QED
    BY <2>1, <2>2, StopInv
<1> QED
  BY <1>1, <1>2, <1>3 DEF MainStep, MainAcceptFails

-----------------------------------------------------------------------------
(* ... the threads, *)

\* A step of a thread that leaves main() and the table alone: what is left to
\* show are the types, the thread's entry and its session.
LEMMA ThreadFrame ==
  ASSUME IInv, server = "up", UNCHANGED <<server, mainq, mainVars, tableVars, cur, buffer>>,
         ServerTypeOK', ClientTypeOK', wpc' \in [Slot -> WorkerPc],
         serv' \in [{"tcp", "udp"} -> Slot \cup {LENGTH_CLIENT}],
         EntryInv', LiveInv'
  PROVE  IInv'
<1> USE DEF IInv
<1>1. UNCHANGED <<flag_client, locked, mpc, ready, status, status_tcp_udp>>
  BY DEF mainVars, tableVars
<1>2. TypeOK'
  BY <1>1 DEF TypeOK, PoolTypeOK
<1>3. MainInv'
  BY <1>1, MainFrame DEF TypeOK, ServerTypeOK, MainTypeOK
<1> QED
  BY <1>1, <1>2, <1>3, AccountingFrame DEF SessionInv

\* Polling, which reads status_tcp_udp without the mutex.
LEMMA PollInv == ASSUME IInv, NEW w \in Slot, Poll(w) PROVE IInv'
<1> USE DEF IInv
<1>1. /\ server = "up" /\ wpc[w] \in {"loop", "poll", "pollUdp"}
      /\ UNCHANGED <<netVars, clientVars, flag, interrupts, mainVars, wpeer, wbuf, ownVars>>
  BY DEF Poll, Proceed
<1>2. wpc \in [Slot -> WorkerPc]
  BY DEF TypeOK, PoolTypeOK
<1>3. PICK pc \in {"poll", "exited", "socket", "pollUdp", "loop"} :
        Goto(w, pc) /\ (pc = "socket" => status_tcp_udp[w] # 0)
  BY DEF Poll, Proceed
<1>4. /\ wpc'[w] = pc /\ \A v \in Slot \ {w} : wpc'[v] = wpc[v]
      /\ wpc' \in [Slot -> WorkerPc]
  BY <1>2, <1>3 DEF Goto, WorkerPc
<1>5. ServerTypeOK' /\ ClientTypeOK'
  BY <1>1, NetKept, MainKept, ThreadKept, ClientKept DEF TypeOK, ServerTypeOK
<1>6. EntryInv'
  BY <1>1, <1>3, <1>4 DEF EntryInv, SessionMatchesEntry, WProto, Busy, netVars, ownVars, tableVars
<1>7. LiveInv'
  BY <1>1, <1>3, <1>4, QuietInv DEF SessionInv, netVars, OpenPc
<1> QED
  BY <1>1, <1>4, <1>5, <1>6, <1>7, ThreadFrame DEF netVars, ownVars, TypeOK, PoolTypeOK

\* A serving socket is opened: socket() and bind().
LEMMA SocketInv == ASSUME IInv, NEW w \in Slot, Socket(w) PROVE IInv'
<1> USE DEF IInv
<1>1. /\ server = "up" /\ wpc[w] = "socket" /\ Goto(w, "bind")
      /\ serv' = [serv EXCEPT ![WProto(w)] = w]
      /\ UNCHANGED <<netVars, clientVars, flag, interrupts, mainVars, wpeer, wbuf,
                     tableVars, cur, buffer>>
  BY DEF Socket, Proceed
<1>2. wpc \in [Slot -> WorkerPc] /\ serv \in [{"tcp", "udp"} -> Slot \cup {LENGTH_CLIENT}]
  BY DEF TypeOK, PoolTypeOK
<1>3. /\ wpc'[w] = "bind" /\ \A v \in Slot \ {w} : wpc'[v] = wpc[v]
      /\ wpc' \in [Slot -> WorkerPc]
  BY <1>1, <1>2 DEF Goto, WorkerPc
<1>4. ServerTypeOK' /\ ClientTypeOK'
  BY <1>1, NetKept, MainKept, ThreadKept, ClientKept DEF TypeOK, ServerTypeOK
<1>5. serv' \in [{"tcp", "udp"} -> Slot \cup {LENGTH_CLIENT}]
  BY <1>1, <1>2
<1>6. EntryInv'
  <2>1. SessionMatchesEntry'
    BY <1>1, <1>3 DEF EntryInv, SessionMatchesEntry, WProto, Busy, netVars, tableVars
  <2>2. ASSUME NEW v \in Slot, wpc'[v] = "bind" PROVE serv'[WProto(v)'] \in Slot
    <3>1. WProto(v)' = WProto(v) /\ WProto(v) \in {"tcp", "udp"} /\ WProto(w) \in {"tcp", "udp"}
      BY <1>1 DEF WProto, tableVars
    <3>2. CASE WProto(v) = WProto(w)
      BY <1>1, <1>2, <3>1, <3>2
    <3>3. CASE WProto(v) # WProto(w)
      BY <1>1, <1>2, <1>3, <2>2, <3>1, <3>3 DEF EntryInv
    <3> QED
      BY <3>2, <3>3
  <2> QED
    BY <2>1, <2>2 DEF EntryInv
<1>7. LiveInv'
  BY <1>1, <1>3, QuietInv DEF SessionInv, netVars, OpenPc
<1> QED
  BY <1>1, <1>3, <1>4, <1>5, <1>6, <1>7, ThreadFrame DEF netVars

LEMMA BindInv == ASSUME IInv, NEW w \in Slot, Bind(w) PROVE IInv'
<1> USE DEF IInv
<1>0. PICK proto \in {"tcp", "udp"}, p \in Slot : proto = WProto(w) /\ p = serv[proto]
  BY DEF Bind, EntryInv, WProto
<1>1. /\ server = "up" /\ wpc[w] = "bind" /\ ~PortInUse(proto, p)
      /\ sock' = [sock EXCEPT ![w] = Bound(proto, p)]
      /\ Goto(w, IF proto = "tcp" THEN "accept" ELSE "session")
      /\ UNCHANGED <<server, mainq, accepted, backlog, dgrams, conn, toSrv, toCli, clientVars,
                     flag, interrupts, mainVars, wpeer, wbuf, ownVars>>
  BY <1>0 DEF Bind
<1>2. wpc \in [Slot -> WorkerPc] /\ SocketTypeOK(Slot)
  BY DEF TypeOK, PoolTypeOK, ServerTypeOK
<1>3. /\ wpc'[w] \in {"accept", "session"} /\ \A v \in Slot \ {w} : wpc'[v] = wpc[v]
      /\ wpc' \in [Slot -> WorkerPc]
  BY <1>1, <1>2 DEF Goto, WorkerPc
<1>4. sock'[w] = Bound(proto, p) /\ \A v \in Slot \ {w} : sock'[v] = sock[v]
  BY <1>1, <1>2 DEF SocketTypeOK
<1>5. SocketTypeOK(Slot)'
  BY <1>1, <1>2 DEF SocketTypeOK, SocketState, Bound
<1>6. ServerTypeOK' /\ ClientTypeOK'
  BY <1>1, <1>5, MainKept, ThreadKept, ClientKept DEF TypeOK, ServerTypeOK
<1>7. EntryInv'
  BY <1>0, <1>1, <1>3, <1>4
     DEF EntryInv, SessionMatchesEntry, WProto, Busy, Bound, ownVars, tableVars
<1>8. LiveInv'
  BY <1>1, <1>2, OpenInv DEF SessionInv, OpenPc, TypeOK
<1> QED
  BY <1>1, <1>3, <1>6, <1>7, <1>8, ThreadFrame DEF ownVars, TypeOK, PoolTypeOK

LEMMA OpenFailsInv == ASSUME IInv, NEW w \in Slot, OpenFails(w) PROVE IInv'
<1>1. ServerTypeOK' /\ ClientTypeOK'
  BY MainType DEF OpenFails, IInv, TypeOK
<1>2. server' # "up" /\ UNCHANGED <<mainq, sock, serverVars, ownVars>>
  BY DEF OpenFails, Fail
<1> QED
  BY <1>1, <1>2, StopInv

\* A session: accept, recv, send, close.
LEMMA AcceptClientInv == ASSUME IInv, NEW w \in Slot, Accept(w) PROVE IInv'
<1> USE DEF IInv
<1>1. /\ server = "up" /\ wpc[w] = "accept" /\ backlog[w] # <<>>
      /\ conn' = conn \cup {<<Head(backlog[w]), sock[w].port>>}
      /\ wpeer' = [wpeer EXCEPT ![w] = Head(backlog[w])]
      /\ backlog' = [backlog EXCEPT ![w] = Tail(@)]
      /\ Goto(w, "session")
      /\ UNCHANGED <<server, mainq, accepted, sock, dgrams, toSrv, toCli, clientVars, flag,
                     interrupts, mainVars, wbuf, ownVars>>
  BY DEF Accept
<1>2. wpc \in [Slot -> WorkerPc] /\ SocketTypeOK(Slot)
  BY DEF TypeOK, PoolTypeOK, ServerTypeOK
<1>3. /\ wpc'[w] = "session" /\ \A v \in Slot \ {w} : wpc'[v] = wpc[v]
      /\ wpc' \in [Slot -> WorkerPc]
  BY <1>1, <1>2 DEF Goto, WorkerPc
<1>4. PICK p \in Slot : p = sock[w].port
  <2>1. sock[w] # Closed
    BY <1>1 DEF SessionInv, LiveInv, ThreadInv, OpenPc
  <2> QED
    BY <1>2, <2>1 DEF SocketTypeOK, SocketState
<1>5. Head(backlog[w]) \in Client /\ Tail(backlog[w]) \in Seq(Client)
  BY <1>1, <1>2, QueueHead DEF SocketTypeOK
<1>6. ServerTypeOK' /\ ClientTypeOK'
  <2>1. SocketTypeOK(Slot)'
    <3>1. conn' \subseteq Client \X Slot
      BY <1>1, <1>2, <1>4, <1>5 DEF SocketTypeOK
    <3>2. backlog' \in [Slot -> Seq(Client)]
      BY <1>1, <1>2, <1>5 DEF SocketTypeOK
    <3> QED
      BY <1>1, <1>2, <3>1, <3>2 DEF SocketTypeOK
  <2>2. ThreadTypeOK'
    BY <1>1, <1>5 DEF TypeOK, ServerTypeOK, ThreadTypeOK
  <2> QED
    BY <1>1, <2>1, <2>2, MainKept, ClientKept DEF TypeOK, ServerTypeOK
<1>7. EntryInv'
  BY <1>1, <1>3, EntryFrame DEF Busy, ownVars
<1>8. LiveInv'
  BY <1>1, <1>2, <1>4, AcceptInv DEF SessionInv, TypeOK
<1> QED
  BY <1>1, <1>3, <1>6, <1>7, <1>8, ThreadFrame DEF ownVars, TypeOK, PoolTypeOK

\* Steps in which a thread moves on in its session and touches nothing else.
LEMMA ProceedInv ==
  ASSUME IInv, NEW w \in Slot, NEW pc \in {"session", "recv", "close"},
         wpc[w] \in {"accept", "session", "recv"},
         pc # "close" => wpc[w] # "accept",
         pc = "close" => wpc[w] = "accept" \/ flag # 1 \/ cpc[wpeer[w]] = "done",
         Proceed(w, pc), UNCHANGED ownVars
  PROVE  IInv'
<1> USE DEF IInv
<1>1. /\ server = "up" /\ Goto(w, pc)
      /\ UNCHANGED <<netVars, clientVars, flag, interrupts, mainVars, wpeer, wbuf, ownVars>>
  BY DEF Proceed
<1>2. wpc \in [Slot -> WorkerPc]
  BY DEF TypeOK, PoolTypeOK
<1>3. /\ wpc'[w] = pc /\ \A v \in Slot \ {w} : wpc'[v] = wpc[v]
      /\ wpc' \in [Slot -> WorkerPc]
  BY <1>1, <1>2 DEF Goto, WorkerPc
<1>4. ServerTypeOK' /\ ClientTypeOK'
  BY <1>1, NetKept, MainKept, ThreadKept, ClientKept DEF TypeOK, ServerTypeOK
<1>5. EntryInv'
  BY <1>1, <1>3, EntryFrame DEF Busy, ownVars, netVars
<1>6. LiveInv'
  BY <1>1, <1>2, MoveInv DEF SessionInv, netVars
<1> QED
  BY <1>1, <1>3, <1>4, <1>5, <1>6, ThreadFrame DEF netVars, ownVars, TypeOK, PoolTypeOK

\* Only a thread that serves a TCP client calls recv.
LEMMA TcpSession ==
  ASSUME IInv, server = "up", NEW w \in Slot, WProto(w) = "tcp", wpc[w] \in InDialogue
  PROVE  sock[w].proto = "tcp" /\ wpeer[w] \in Client
<1> USE DEF IInv
<1>1. sock[w] # Closed
  BY DEF SessionInv, LiveInv, ThreadInv, InDialogue, OpenPc
<1>2. sock[w].proto = "tcp"
  BY <1>1 DEF EntryInv, SessionMatchesEntry
<1>3. wpeer[w] # None /\ wpeer[w] \in Client \cup {None}
  BY <1>2 DEF SessionInv, LiveInv, ThreadInv, TypeOK, ServerTypeOK, ThreadTypeOK
<1> QED
  BY <1>2, <1>3

LEMMA ServeInv == ASSUME IInv, NEW w \in Slot, ServeTcp(w) \/ ServeUdp(w) PROVE IInv'
<1> USE DEF IInv
<1>1. UNCHANGED ownVars /\ (SessionTcp(w) \/ SessionUdp(w))
  BY DEF ServeTcp, ServeUdp
<1>2. wpc \in [Slot -> WorkerPc] /\ flag \in {0, 1} /\ SocketTypeOK(Slot)
  BY DEF TypeOK, PoolTypeOK, ServerTypeOK, MainTypeOK
<1>3. CASE CallRecv(w)
  BY <1>1, <1>2, <1>3, ProceedInv DEF CallRecv
<1>4. CASE RecvTcpEnd(w)
  BY <1>1, <1>4, ProceedInv DEF RecvTcpEnd, StreamEnd
<1>5. CASE WProto(w) = "tcp" /\ RecvTcp(w)
  <2>1. sock[w].proto = "tcp" /\ wpeer[w] \in Client
    BY <1>5, TcpSession DEF RecvTcp, InDialogue
  <2>2. /\ server = "up" /\ wpc[w] = "recv" /\ Goto(w, "send")
        /\ UNCHANGED <<server, mainq, sock, mainVars>>
    BY <1>5 DEF RecvTcp
  <2>3. ServerTypeOK' /\ ClientTypeOK'
    BY <1>1, <2>1, SessionType DEF TypeOK
  <2>4. /\ wpc'[w] = "send" /\ \A v \in Slot \ {w} : wpc'[v] = wpc[v]
        /\ wpc' \in [Slot -> WorkerPc]
    BY <1>2, <2>2 DEF Goto, WorkerPc
  <2>5. EntryInv'
    BY <1>1, <2>2, <2>4, EntryFrame DEF Busy, ownVars
  <2>6. LiveInv'
    BY <1>2, <1>5, <2>1, <2>2, RecvTcpInv DEF SessionInv, TypeOK
  <2> QED
    BY <1>1, <2>2, <2>3, <2>4, <2>5, <2>6, ThreadFrame DEF ownVars, TypeOK, PoolTypeOK
<1>6. CASE RecvUdp(w) \/ Send(w)
  <2>1. /\ server = "up" /\ wpc[w] \in {"recv", "send"}
        /\ UNCHANGED <<server, mainq, sock, mainVars>>
    BY <1>6 DEF RecvUdp, Send
  <2>2. PICK pc \in {"send", "session", "close"} : Goto(w, pc)
    BY <1>6 DEF RecvUdp, Send
  <2>3. ~RecvTcp(w)
    <3>1. CASE Send(w)
      BY <3>1 DEF Send, RecvTcp
    <3>2. CASE RecvUdp(w)
      <4>1. dgrams[w] # <<>> /\ dgrams' = [dgrams EXCEPT ![w] = Tail(@)]
        BY <3>2 DEF RecvUdp
      <4>2. Len(Tail(dgrams[w])) = Len(dgrams[w]) - 1 /\ Len(dgrams[w]) \in Nat
        BY <1>2, <4>1, QueueHead DEF SocketTypeOK
      <4>3. dgrams'[w] # dgrams[w]
        <5>1. dgrams'[w] = Tail(dgrams[w])
          BY <1>2, <4>1 DEF SocketTypeOK
        <5>2. Len(Tail(dgrams[w])) # Len(dgrams[w])
          BY <4>2
        <5> QED
          BY <5>1, <5>2
      <4> QED
        BY <4>3 DEF RecvTcp
    <3> QED
      BY <1>6, <3>1, <3>2
  <2>4. ServerTypeOK' /\ ClientTypeOK'
    BY <1>1, <2>3, SessionType DEF TypeOK
  <2>5. /\ wpc'[w] = pc /\ \A v \in Slot \ {w} : wpc'[v] = wpc[v]
        /\ wpc' \in [Slot -> WorkerPc]
    BY <1>2, <2>2 DEF Goto, WorkerPc
  <2>6. EntryInv'
    BY <1>1, <2>1, <2>5, EntryFrame DEF Busy, ownVars
  <2>7. LiveInv'
    BY <1>2, <1>6, <2>1, RecvUdpInv, SendInv DEF SessionInv, TypeOK
  <2> QED
    BY <1>1, <2>1, <2>4, <2>5, <2>6, <2>7, ThreadFrame DEF ownVars, TypeOK, PoolTypeOK
<1>7. CASE Close(w)
  <2>1. /\ server = "up" /\ wpc[w] = "close" /\ Goto(w, "release")
        /\ sock' = [sock EXCEPT ![w] = Closed]
        /\ UNCHANGED <<server, mainq, mainVars>>
    BY <1>7 DEF Close
  <2>2. ServerTypeOK' /\ ClientTypeOK'
    BY <1>1, <2>1, SessionType DEF TypeOK, RecvTcp
  <2>3. /\ wpc'[w] = "release" /\ \A v \in Slot \ {w} : wpc'[v] = wpc[v]
        /\ wpc' \in [Slot -> WorkerPc]
    BY <1>2, <2>1 DEF Goto, WorkerPc
  <2>4. sock'[w] = Closed /\ \A v \in Slot \ {w} : sock'[v] = sock[v]
    BY <1>2, <2>1 DEF SocketTypeOK
  <2>5. EntryInv'
    BY <1>1, <2>1, <2>3, <2>4
       DEF EntryInv, SessionMatchesEntry, WProto, Busy, ownVars, tableVars
  <2>6. LiveInv'
    BY <1>2, <1>7, <2>1, CloseInv DEF SessionInv, TypeOK
  <2> QED
    BY <1>1, <2>1, <2>2, <2>3, <2>5, <2>6, ThreadFrame DEF ownVars, TypeOK, PoolTypeOK
<1> QED
  BY <1>3, <1>4, <1>5, <1>6, <1>7 DEF ServeTcp, ServeUdp, SessionTcp, SessionUdp

\* The entry is given back, by a thread whose socket is closed.
LEMMA ReleaseInv == ASSUME IInv, NEW w \in Slot, Release(w) PROVE IInv'
<1> USE DEF IInv
<1>1. /\ server = "up" /\ wpc[w] = "release" /\ ~locked
      /\ flag_client' = flag_client + 1
      /\ status' = [status EXCEPT ![w] = 0]
      /\ status_tcp_udp' = [status_tcp_udp EXCEPT ![w] = 0]
      /\ Goto(w, IF WProto(w) = "tcp" THEN "pollUdp" ELSE "loop")
      /\ UNCHANGED <<netVars, clientVars, flag, interrupts, locked, mpc, ready, join,
                     wpeer, wbuf, serv, cur, buffer>>
  BY DEF Release
<1>2. /\ wpc \in [Slot -> WorkerPc] /\ flag_client \in Int
      /\ status \in [Slot -> {0, 1}] /\ status_tcp_udp \in [Slot -> 0 .. 2]
      /\ ready \subseteq {"tcp", "udp"} /\ MainTypeOK
  BY DEF TypeOK, PoolTypeOK, ServerTypeOK, MainTypeOK
<1>3. /\ wpc'[w] \in {"pollUdp", "loop"} /\ \A v \in Slot \ {w} : wpc'[v] = wpc[v]
      /\ wpc' \in [Slot -> WorkerPc]
  BY <1>1, <1>2 DEF Goto, WorkerPc
<1>4. /\ status' \in [Slot -> {0, 1}] /\ status_tcp_udp' \in [Slot -> 0 .. 2]
      /\ status_tcp_udp'[w] = 0
      /\ \A v \in Slot \ {w} : status'[v] = status[v] /\ status_tcp_udp'[v] = status_tcp_udp[v]
  BY <1>1, <1>2
<1>5. sock[w] = Closed /\ status[w] = 1
  BY <1>1 DEF SessionInv, LiveInv, ThreadInv, OpenPc, EntryInv, SessionMatchesEntry, Busy
<1>6. TypeOK'
  <2>1. MainTypeOK'
    <3>1. flag_client' \in Int
      BY <1>1, <1>2
    <3> QED
      BY <1>1, <1>2, <3>1 DEF MainTypeOK
  <2>2. ServerTypeOK' /\ ClientTypeOK'
    BY <1>1, <2>1, NetKept, ThreadKept, ClientKept DEF TypeOK, ServerTypeOK
  <2> QED
    BY <1>1, <1>3, <1>4, <2>2 DEF TypeOK, PoolTypeOK
<1>7. MainInv'
  <2>1. \A p \in {"tcp", "udp"} : mainq[p] # <<>> => mainq'[p] # <<>>
    BY <1>1 DEF netVars
  <2> QED
    BY <1>1, <1>2, <2>1, MainFrame
<1>8. EntryInv'
  <2>1. \A v \in Slot \ {w} : WProto(v)' = WProto(v)
    BY <1>4 DEF WProto
  <2> QED
    BY <1>1, <1>3, <1>4, <1>5, <2>1 DEF EntryInv, SessionMatchesEntry, Busy, netVars
<1>9. SlotAccounting'
  <2>1. TakenSlots' = TakenSlots \ {w} /\ w \in TakenSlots
    BY <1>1, <1>2, <1>5 DEF TakenSlots
  <2>2. Cardinality(TakenSlots') = Cardinality(TakenSlots) - 1
    BY <2>1, TakenFinite, FS_RemoveElement
  <2>3. /\ mpc # "reply" /\ mpc' # "reply"
        /\ flag_client = LENGTH_CLIENT - Cardinality(TakenSlots)
    BY <1>1, TakenFinite, LengthAssumption DEF SlotAccounting, MainInv
  <2> QED
    BY <1>1, <2>2, <2>3, TakenFinite, LengthAssumption DEF SlotAccounting
<1>10. LiveInv'
  BY <1>1, <1>3, QuietInv DEF SessionInv, OpenPc, netVars
<1> QED
  BY <1>1, <1>6, <1>7, <1>8, <1>9, <1>10 DEF SessionInv

LEMMA WorkerStepInv == ASSUME IInv, NEW w \in Slot, WorkerStep(w) PROVE IInv'
<1>1. CASE AcceptFails(w)
  BY <1>1, ProceedInv DEF AcceptFails
<1> QED
  BY <1>1, PollInv, SocketInv, BindInv, OpenFailsInv, AcceptClientInv, ServeInv, ReleaseInv
     DEF WorkerStep

-----------------------------------------------------------------------------
(* ... Ctrl+C and the clients. *)

LEMMA InterruptInv == IInv /\ Interrupt => IInv'
<1> SUFFICES ASSUME IInv, Interrupt PROVE IInv'
  OBVIOUS
<1> USE DEF IInv
<1>1. /\ server = "up" /\ flag' = 0 /\ Signal
      /\ UNCHANGED <<netVars, clientVars, flag_client, locked, ready, join, wpeer, wbuf, ownVars>>
  BY DEF Interrupt, InterruptMain, InterruptRunning, InterruptRecv, InterruptAccept, Signal,
         mainVars, threadVars
<1>2. wpc \in [Slot -> WorkerPc] /\ mpc \in {"loop", "select", "check", "admit", "reply", "refuse", "join"}
  BY DEF TypeOK, PoolTypeOK
<1>3. ServerTypeOK' /\ ClientTypeOK'
  <2>1. MainTypeOK'
    BY <1>1, SignalType DEF TypeOK, ServerTypeOK, MainTypeOK
  <2> QED
    BY <1>1, <2>1, NetKept, ThreadKept, ClientKept DEF TypeOK, ServerTypeOK
<1>4. mpc' = mpc \/ (mpc = "select" /\ mpc' = "loop")
  BY DEF Interrupt, InterruptMain, InterruptRunning, InterruptRecv, InterruptAccept, mainVars
<1>5. wpc' = wpc \/ \E w \in Slot : wpc[w] \in {"recv", "accept"} /\ Goto(w, "close")
  BY DEF Interrupt, InterruptMain, InterruptRunning, InterruptRecv, InterruptAccept, threadVars
<1>6. wpc' \in [Slot -> WorkerPc]
        /\ \A w \in Slot : \/ wpc'[w] = wpc[w]
                           \/ wpc'[w] # "bind" /\ (wpc'[w] \in Busy <=> wpc[w] \in Busy)
  BY <1>2, <1>5 DEF Goto, WorkerPc, Busy
<1>7. TypeOK'
  BY <1>1, <1>2, <1>3, <1>4, <1>6 DEF TypeOK, PoolTypeOK, ownVars, tableVars
<1>8. MainInv'
  <2>1. \A p \in {"tcp", "udp"} : mainq[p] # <<>> => mainq'[p] # <<>>
    BY <1>1 DEF netVars
  <2>2. CASE mpc' = mpc
    BY <1>1, <2>1, <2>2, MainFrame DEF TypeOK, ServerTypeOK, MainTypeOK
  <2>3. CASE mpc = "select" /\ mpc' = "loop"
    BY <1>1, <2>3 DEF MainInv
  <2> QED
    BY <1>4, <2>2, <2>3
<1>9. EntryInv'
  BY <1>1, <1>6, EntryFrame DEF ownVars, netVars
<1>10. SlotAccounting'
  BY <1>1, <1>4, AccountingFrame DEF ownVars, tableVars
<1>11. LiveInv'
  <2>1. CASE wpc' = wpc
    BY <1>1, <2>1, QuietInv DEF SessionInv, netVars
  <2>2. CASE \E w \in Slot : wpc[w] \in {"recv", "accept"} /\ Goto(w, "close")
    <3>1. PICK w \in Slot : wpc[w] \in {"recv", "accept"} /\ Goto(w, "close")
      BY <2>2
    <3> QED
      BY <1>1, <1>2, <3>1, MoveInv DEF SessionInv, netVars
  <2> QED
    BY <1>5, <2>1, <2>2
<1> QED
  BY <1>1, <1>7, <1>8, <1>9, <1>10, <1>11 DEF SessionInv, netVars

LEMMA ClientsStepInv ==
  ASSUME IInv, NEW c \in Client, ClientStep(c) \/ UserStep(c), ClientKeeps
  PROVE  IInv'
<1> USE DEF IInv
<1>1. UNCHANGED <<flag, interrupts, flag_client, locked, mpc, ready, wpc, wpeer, wbuf, serverVars, ownVars>>
  BY DEF ClientKeeps, serverVars, mainVars, threadVars
<1>2. UNCHANGED <<server, sock>> /\ \A p \in {"tcp", "udp"} : mainq[p] # <<>> => mainq'[p] # <<>>
  BY ClientFrame DEF TypeOK, ServerTypeOK
<1>3. TypeOK'
  BY <1>1, ClientsType, PoolKept DEF TypeOK
<1>4. MainInv'
  BY <1>1, <1>2, MainFrame DEF TypeOK, ServerTypeOK, MainTypeOK
<1>5. EntryInv'
  BY <1>1, <1>2, EntryFrame DEF ownVars
<1>6. SlotAccounting'
  BY <1>1, AccountingFrame DEF ownVars, tableVars
<1>7. SessionInv'
  BY <1>1, <1>2, ClientsInv DEF SessionInv, TypeOK
<1> QED
  BY <1>3, <1>4, <1>5, <1>6, <1>7

LEMMA StutterInv == IInv /\ UNCHANGED vars => IInv'
<1> SUFFICES ASSUME IInv, UNCHANGED vars PROVE IInv'
  OBVIOUS
<1> USE DEF IInv
<1>1. UNCHANGED <<netVars, clientVars, serverVars, ownVars, flag, flag_client, locked, mpc, ready,
                  wpc, wpeer, wbuf>>
  BY DEF vars, serverVars, mainVars, threadVars
<1>2. TypeOK'
  BY <1>1, AllKept, PoolKept DEF TypeOK
<1>3. MainInv'
  BY <1>1, MainFrame DEF TypeOK, ServerTypeOK, MainTypeOK, netVars
<1>4. EntryInv' /\ SlotAccounting'
  BY <1>1, EntryFrame, AccountingFrame DEF ownVars, tableVars, netVars
<1>5. SessionInv'
  BY <1>1, QuietInv DEF SessionInv, netVars
<1> QED
  BY <1>2, <1>3, <1>4, <1>5

LEMMA NextInv == IInv /\ [Next]_vars => IInv'
<1> SUFFICES ASSUME IInv, [Next]_vars PROVE IInv'
  OBVIOUS
<1> QED
  BY MainStepInv, WorkerStepInv, InterruptInv, ClientsStepInv, StutterInv DEF Next

\* The invariant holds in every reachable state of the server.
THEOREM Invariance == Spec => []IInv
<1>1. Init => IInv
  BY InitInv
<1>2. IInv /\ [Next]_vars => IInv'
  BY NextInv
<1> QED
  BY <1>1, <1>2, PTL DEF Spec

-----------------------------------------------------------------------------
(* The properties *)

\* Every variable of the server, the network and the clients keeps its type:
\* no step uses an entry, a thread or a port of the table that is not there.
THEOREM TypeCorrect == Spec => []TypeOK
<1>1. IInv => TypeOK
  BY DEF IInv
<1> QED
  BY <1>1, Invariance, PTL

\* flag_client counts the free entries of ports_array, whatever main(), the
\* threads and Ctrl+C do in between (server.c:143, :189; create_server.c:89, :165).
THEOREM CounterMatchesTable == Spec => []SlotAccounting
<1>1. IInv => SlotAccounting
  BY DEF IInv
<1> QED
  BY <1>1, Invariance, PTL

\* The unlocked test of flag_client is safe: once it has succeeded a free
\* entry and a waiting client are there when main() comes to use them.
THEOREM UnlockedTestIsSafe == Spec => []AdmitHasRoom
<1>1. ASSUME IInv PROVE AdmitHasRoom
  <2> SUFFICES ASSUME mpc = "admit"
               PROVE  (\E s \in Slot : status[s] = 0) /\ mainq[Now] # <<>>
    BY DEF AdmitHasRoom
  <2> USE <1>1 DEF IInv
  <2>1. status \in [Slot -> {0, 1}] /\ ready \subseteq {"tcp", "udp"} /\ flag_client > 0
    BY DEF TypeOK, PoolTypeOK, ServerTypeOK, MainTypeOK, MainInv
  <2>2. flag_client = LENGTH_CLIENT - Cardinality(TakenSlots)
    BY TakenFinite, LengthAssumption DEF SlotAccounting
  <2>3. Cardinality(TakenSlots) # LENGTH_CLIENT
    BY <2>1, <2>2, LengthAssumption
  <2>4. TakenSlots # Slot
    <3>1. IsFiniteSet(Slot) /\ Cardinality(Slot) = LENGTH_CLIENT
      BY FS_Interval, LengthAssumption DEF Slot
    <3> QED
      BY <2>3, <3>1
  <2>5. \E s \in Slot : status[s] = 0
    BY <2>1, <2>4 DEF TakenSlots
  <2>6. mainq[Now] # <<>>
    BY <2>1, NowReady DEF MainInv, Waiting
  <2> QED
    BY <2>5, <2>6
<1> QED
  BY <1>1, Invariance, PTL

\* The thread's unlocked reads of status_tcp_udp are safe: its entry stays
\* taken, and names the protocol of its socket, for as long as it is at work.
THEOREM EntryNamesSession == Spec => []SessionMatchesEntry
<1>1. IInv => SessionMatchesEntry
  BY DEF IInv, EntryInv
<1> QED
  BY <1>1, Invariance, PTL

\* The number a client prints is the cube of the one it sent: what SessionInv
\* says of the request, the thread's buffer and the answer on their way.
THEOREM AnswersAreCubes == Spec => []AnswerIsCube
<1>1. IInv => AnswerIsCube
  BY DEF IInv, SessionInv, LiveInv, ClientInv, ContentInv, AnswerIsCube
<1> QED
  BY <1>1, Invariance, PTL

\* A client in dialogue is served by a thread that knows it and is bound to the
\* port it talks to, even though threads may bind to each other's ports.
THEOREM ClientsAreServed == Spec => []DialogueHasThread
<1>1. IInv => DialogueHasThread
  BY DialogueServed DEF IInv, SessionInv, TypeOK, ServerTypeOK, DialogueHasThread, Talking, InDialogue
<1> QED
  BY <1>1, Invariance, PTL

-----------------------------------------------------------------------------
(* The refinement: what each step is to the cycle of the entries. *)

CycleStep == [Cycle!Next]_<<TakenSlots, Working>>

LEMMA QuietCycle ==
  ASSUME status' = status, \A w \in Slot : wpc'[w] \in Busy <=> wpc[w] \in Busy
  PROVE  CycleStep
<1>1. TakenSlots' = TakenSlots /\ Working' = Working
  BY DEF TakenSlots, Working
<1> QED
  BY <1>1 DEF CycleStep

\* A thread that moves on in its work, or among its tests.
LEMMA MoveCycle ==
  ASSUME IInv, status' = status, NEW w \in Slot, NEW pc, Goto(w, pc),
         wpc[w] \in Busy <=> pc \in Busy
  PROVE  CycleStep
<1>1. wpc \in [Slot -> WorkerPc]
  BY DEF IInv, TypeOK, PoolTypeOK
<1>2. wpc'[w] = pc /\ \A v \in Slot \ {w} : wpc'[v] = wpc[v]
  BY <1>1 DEF Goto
<1> QED
  BY <1>2, QuietCycle

\* The entry main() finds free has an idle thread.
LEMMA AdmitGives == IInv /\ Admit => CycleStep
<1> SUFFICES ASSUME IInv, Admit PROVE CycleStep
  OBVIOUS
<1>1. PICK s \in Slot : FirstFree(s) /\ status' = [status EXCEPT ![s] = 1] /\ wpc' = wpc
  BY DEF Admit, threadVars
<1>2. status \in [Slot -> {0, 1}] /\ SessionMatchesEntry
  BY DEF IInv, TypeOK, PoolTypeOK, EntryInv
<1>3. status[s] = 0 /\ wpc[s] \notin Busy /\ \A t \in Slot : t < s => status[t] = 1
  BY <1>1, <1>2 DEF FirstFree, SessionMatchesEntry
<1>4. TakenSlots' = TakenSlots \cup {s}
  BY <1>1, <1>2 DEF TakenSlots
<1>5. Working' = Working
  BY <1>1 DEF Working
<1>6. Cycle!Give(s)
  BY <1>3, <1>4, <1>5 DEF Cycle!Give, TakenSlots, Working
<1> QED
  BY <1>6 DEF CycleStep, Cycle!Next

\* A thread that reads its protocol has an entry that was given away.
LEMMA PollBegins == ASSUME IInv, NEW w \in Slot, Poll(w) PROVE CycleStep
<1>1. PICK pc \in {"poll", "exited", "socket", "pollUdp", "loop"} :
        Goto(w, pc) /\ (pc = "socket" => status_tcp_udp[w] # 0)
  BY DEF Poll, Proceed
<1>2. wpc[w] \in {"loop", "poll", "pollUdp"} /\ status' = status
  BY DEF Poll, ownVars, tableVars
<1>3. CASE pc # "socket"
  BY <1>1, <1>2, <1>3, MoveCycle DEF Busy
<1>4. CASE pc = "socket"
  <2>1. wpc \in [Slot -> WorkerPc] /\ SessionMatchesEntry
    BY DEF IInv, TypeOK, PoolTypeOK, EntryInv
  <2>2. wpc'[w] = "socket" /\ \A v \in Slot \ {w} : wpc'[v] = wpc[v]
    BY <1>1, <1>4, <2>1 DEF Goto
  <2>3. w \in TakenSlots /\ w \notin Working
    BY <1>1, <1>2, <1>4, <2>1 DEF SessionMatchesEntry, TakenSlots, Working, Busy
  <2>4. Working' = Working \cup {w}
    BY <2>2 DEF Working, Busy
  <2>5. TakenSlots' = TakenSlots
    BY <1>2 DEF TakenSlots
  <2>6. Cycle!Begin(w)
    BY <2>3, <2>4, <2>5 DEF Cycle!Begin
  <2> QED
    BY <2>6 DEF CycleStep, Cycle!Next
<1> QED
  BY <1>3, <1>4

LEMMA ReleaseGivesBack == ASSUME IInv, NEW w \in Slot, Release(w) PROVE CycleStep
<1>1. wpc[w] = "release" /\ status' = [status EXCEPT ![w] = 0]
  BY DEF Release
<1>2. wpc \in [Slot -> WorkerPc] /\ status \in [Slot -> {0, 1}]
  BY DEF IInv, TypeOK, PoolTypeOK
<1>3. wpc'[w] \notin Busy /\ \A v \in Slot \ {w} : wpc'[v] = wpc[v]
  BY <1>2 DEF Release, Goto, Busy
<1>4. TakenSlots' = TakenSlots \ {w}
  BY <1>1, <1>2 DEF TakenSlots
<1>5. w \in Working /\ Working' = Working \ {w}
  BY <1>1, <1>3 DEF Working, Busy
<1>6. Cycle!GiveBack(w)
  BY <1>4, <1>5 DEF Cycle!GiveBack
<1> QED
  BY <1>6 DEF CycleStep, Cycle!Next

LEMMA WorkerCycle == ASSUME IInv, NEW w \in Slot, WorkerStep(w) PROVE CycleStep
<1>1. CASE OpenFails(w)
  BY <1>1, QuietCycle DEF OpenFails, Fail, ownVars, tableVars, serverVars, threadVars
<1>2. CASE Socket(w) \/ Bind(w) \/ Accept(w) \/ AcceptFails(w)
  <2>1. status' = status /\ wpc[w] \in Busy /\ \E pc \in Busy : Goto(w, pc)
    BY <1>2 DEF Socket, Bind, Accept, AcceptFails, Proceed, ownVars, tableVars, Busy
  <2> QED
    BY <2>1, MoveCycle
<1>3. CASE ServeTcp(w) \/ ServeUdp(w)
  <2>1. status' = status
    BY <1>3 DEF ServeTcp, ServeUdp, ownVars, tableVars
  <2>2. CallRecv(w) \/ RecvTcp(w) \/ RecvTcpEnd(w) \/ RecvUdp(w) \/ Send(w) \/ Close(w)
    BY <1>3 DEF ServeTcp, ServeUdp, SessionTcp, SessionUdp
  <2>3. wpc[w] \in Busy /\ \E pc \in Busy : Goto(w, pc)
    BY <2>2 DEF CallRecv, RecvTcp, RecvTcpEnd, RecvUdp, Send, Close, Proceed, Busy
  <2> QED
    BY <2>1, <2>3, MoveCycle
<1> QED
  BY <1>1, <1>2, <1>3, PollBegins, ReleaseGivesBack DEF WorkerStep

LEMMA NextCycle == IInv /\ [Next]_vars => CycleStep
<1> SUFFICES ASSUME IInv, [Next]_vars PROVE CycleStep
  OBVIOUS
<1>1. CASE MainStep
  <2>1. CASE ~Admit
    <3>1. UNCHANGED <<status, wpc>>
      BY <1>1, <2>1 DEF MainStep, MainLoop, Select, Check, Join, Return, Refuse, SendRedirect,
                        MainAcceptFails, Fail, ownVars, tableVars, serverVars, threadVars
    <3> QED
      BY <3>1, QuietCycle
  <2> QED
    BY <2>1, AdmitGives
<1>2. CASE Interrupt
  <2>1. status' = status
    BY <1>2 DEF Interrupt, ownVars, tableVars
  <2>2. wpc' = wpc \/ \E w \in Slot : wpc[w] \in {"recv", "accept"} /\ Goto(w, "close")
    BY <1>2 DEF Interrupt, InterruptMain, InterruptRunning, InterruptRecv, InterruptAccept,
                threadVars
  <2> QED
    BY <2>1, <2>2, QuietCycle, MoveCycle DEF Busy
<1>3. CASE (\E c \in Client : ClientKeeps) \/ UNCHANGED vars
  BY <1>3, QuietCycle DEF ClientKeeps, vars, serverVars, threadVars, ownVars, tableVars
<1> QED
  BY <1>1, <1>2, <1>3, WorkerCycle DEF Next

\* The table and the polling threads implement EntryCycle: an entry is given
\* away only while its thread is idle, and each time it is given the thread
\* works for it once and gives it back once, whatever the clients, Ctrl+C and
\* the other threads do (server.c:131-138, create_server.c:18, :87-92).
THEOREM ImplementsEntryCycle == Spec => CycleSpec
<1>1. Init => Cycle!Init
  BY DEF Init, ServerInit, Cycle!Init, TakenSlots, Working, Busy
<1>2. IInv /\ [Next]_vars => [Cycle!Next]_<<TakenSlots, Working>>
  BY NextCycle DEF CycleStep
<1> QED
  BY <1>1, <1>2, Invariance, PTL DEF Spec, CycleSpec, Cycle!Spec
=============================================================================
