---------------------------- MODULE StackServerProofs ----------------------------
(***************************************************************************)
(* The safety properties of StackServer hold for every number of clients,  *)
(* threads, elements of the stack, descriptors and interrupts, and the     *)
(* stack and the threads implement ClientStack.  That a redirected client  *)
(* is awaited needs clients that do not time out and enough descriptors.   *)
(* What the actions of CubeServer and the clients do to the types and to   *)
(* the sessions is in CubeServerProofs.                                    *)
(***************************************************************************)
EXTENDS StackServerProps, CubeServerProofs, WellFoundedInduction

-----------------------------------------------------------------------------
(* Sets of indices of stack_array. *)

\* Of the elements a thread has claimed there is a first one.
LEMMA LeastNatural ==
  ASSUME NEW S, S \subseteq Nat, S # {}
  PROVE  \E x \in S : \A y \in S : x <= y
<1>1. PICK x \in S : \A y \in S : ~ (<<y, x>> \in OpToRel(<, Nat))
  BY NatLessThanWellFounded, WFMin
<1>2. ASSUME NEW y \in S PROVE x <= y
  <2>1. x \in Nat /\ y \in Nat
    OBVIOUS
  <2>2. ~(y < x)
    BY <1>1, <2>1 DEF OpToRel
  <2> QED
    BY <2>1, <2>2
<1> QED
  BY <1>2

LEMMA IndexFinite ==
  /\ IsFiniteSet(StackIndex) /\ StackIndex \subseteq Nat
  /\ \A S \in SUBSET StackIndex : IsFiniteSet(S) /\ Cardinality(S) \in Nat
<1>1. IsFiniteSet(StackIndex) /\ StackIndex \subseteq Nat
  BY FS_Interval, StackAssumption DEF StackIndex
<1> QED
  BY <1>1, FS_Subset, FS_CardinalityType

LEMMA SlotFinite == \A S \in SUBSET Slot : IsFiniteSet(S) /\ Cardinality(S) \in Nat
<1>1. IsFiniteSet(Slot)
  BY FS_Interval, LengthAssumption DEF Slot
<1> QED
  BY <1>1, FS_Subset, FS_CardinalityType

\* Moving a set of indices down by n does not change its size.
LEMMA ShiftedDown ==
  ASSUME NEW n \in Nat, NEW S \in SUBSET StackIndex, \A i \in S : i >= n
  PROVE  Cardinality({i \in StackIndex : i + n \in S}) = Cardinality(S)
<1> DEFINE T == {i \in StackIndex : i + n \in S}
<1>1. IsFiniteSet(S) /\ IsFiniteSet(T) /\ StackIndex \subseteq Nat
  BY IndexFinite
<1> DEFINE f == [i \in T |-> i + n]
<1>2. f \in [T -> S]
  OBVIOUS
<1>3. \A i, j \in T : f[i] = f[j] => i = j
  BY <1>1
<1>4. ASSUME NEW s \in S PROVE \E i \in T : f[i] = s
  <2>1. s - n \in T
    <3>1. s \in Nat /\ s >= n /\ s - n \in Nat /\ s - n <= s /\ (s - n) + n = s
      BY <1>1
    <3> QED
      BY <3>1, StackAssumption DEF StackIndex
  <2>2. f[s - n] = s
    BY <1>1, <2>1
  <2> QED
    BY <2>1, <2>2
<1> HIDE DEF T, f
<1>5. ExistsBijection(T, S)
  <2>1. f \in Injection(T, S) /\ f \in Surjection(T, S)
    BY <1>2, <1>3, <1>4 DEF Injection, Surjection, IsInjective
  <2> QED
    BY <2>1 DEF ExistsBijection, Bijection
<1>6. Cardinality(S) = Cardinality(T)
  BY <1>1, <1>5, FS_Bijection
<1> QED
  BY <1>6 DEF T

-----------------------------------------------------------------------------
(* What each part of the invariant depends on. *)

\* The table part of the invariant: the stack and the threads' claims on it.
TableInv == ThreadClaims /\ SlotAccounting /\ StackFilled /\ ClaimOnStack

LEMMA StackKept == StackTypeOK /\ UNCHANGED <<mpc, wpc, stackVars>> => StackTypeOK'
  BY DEF StackTypeOK, stackVars

\* A client only adds itself to the queue of its protocol.
LEMMA QueueTyped ==
  ASSUME NEW c \in Client,
         mainq \in [{"tcp", "udp"} -> Seq(Client)],
         mainq["tcp"] \in Seq(TcpClient), mainq["udp"] \in Seq(UdpClient),
         \/ mainq' = mainq
         \/ mainq' = [mainq EXCEPT ![Proto(c)] = Append(@, c)]
  PROVE  mainq'["tcp"] \in Seq(TcpClient) /\ mainq'["udp"] \in Seq(UdpClient)
<1>1. CASE mainq' = mainq
  BY <1>1
<1>2. CASE c \in TcpClient /\ mainq' = [mainq EXCEPT ![Proto(c)] = Append(@, c)]
  <2>1. Append(mainq["tcp"], c) \in Seq(TcpClient)
    BY <1>2
  <2>2. mainq'["tcp"] = Append(mainq["tcp"], c) /\ mainq'["udp"] = mainq["udp"]
    BY <1>2 DEF Proto
  <2> QED
    BY <2>1, <2>2
<1>3. CASE c \in UdpClient /\ mainq' = [mainq EXCEPT ![Proto(c)] = Append(@, c)]
  <2>1. Append(mainq["udp"], c) \in Seq(UdpClient)
    BY <1>3
  <2>2. mainq'["udp"] = Append(mainq["udp"], c) /\ mainq'["tcp"] = mainq["tcp"]
    BY <1>3, ClientAssumption DEF Proto
  <2> QED
    BY <2>1, <2>2
<1> QED
  BY <1>1, <1>2, <1>3 DEF Client

LEMMA MainFrame ==
  ASSUME MainInv, ready \subseteq {"tcp", "udp"}, flag_client \in Int,
         UNCHANGED <<mpc, ready, mainq>>,
         flag_client' = flag_client \/ flag_client' = flag_client + 1
  PROVE  MainInv'
<1>1. mpc' = "admit" => flag_client' > 0
  BY DEF MainInv
<1> QED
  BY <1>1 DEF MainInv

\* A step seen from ClientStack.
StackStep == [Stack!Next]_<<Cardinality(Waiting), InSession, lost>>

\* ClientStack has a Cardinality of its own.
LEMMA SameCardinality == \A S : Stack!Cardinality(S) = Cardinality(S)
  BY DEF Stack!Cardinality, Cardinality

LEMMA QuietStack == UNCHANGED <<Waiting, InSession, lost>> => StackStep
  BY DEF StackStep

\* Steps that leave the stack alone, and in which threads only move between
\* the steps of a session or close their sockets.
SessionPc == {"session", "recv", "send", "close", "release"}

LEMMA TableFrame ==
  ASSUME TableInv, UNCHANGED <<flag_client, stackVars>>,
         \A w \in Slot : sock'[w] = sock[w] \/ sock'[w] = Closed,
         \A w \in Slot : \/ wpc'[w] = wpc[w]
                         \/ wpc[w] \in SessionPc /\ wpc'[w] \in SessionPc
                         \/ wpc[w] \in {"loop", "exited"} /\ wpc'[w] \in {"claim", "exited"}
  PROVE  TableInv' /\ StackStep
<1>1. InSession' = InSession
  BY DEF InSession, SessionPc
<1>2. UNCHANGED <<stack_array, cout_stack, wproto, lost>>
  BY DEF stackVars
<1>3. SlotAccounting' /\ StackFilled'
  BY <1>1, <1>2 DEF TableInv, SlotAccounting, StackFilled, Waiting, Filled
<1>4. ThreadClaims'
  BY <1>2 DEF TableInv, ThreadClaims, SessionPc
<1>5. ClaimOnStack'
  BY <1>2 DEF TableInv, ClaimOnStack, SessionPc
<1>6. StackStep
  BY <1>1, <1>2, QuietStack DEF Waiting
<1> QED
  BY <1>3, <1>4, <1>5, <1>6 DEF TableInv

LEMMA InitStackInv == Init => StackInv
<1> SUFFICES ASSUME Init PROVE StackInv
  OBVIOUS
<1> USE DEF Init, ServerInit
<1>1. \A i \in StackIndex : stack_array[i] = Blank
  OBVIOUS
<1>2. TypeOK
  <2>1. ServerTypeOK /\ ClientTypeOK
    BY ServerInitType
  <2>2. Blank \in Entry
    BY DEF Blank, Entry
  <2>3. StackTypeOK
    BY <2>2 DEF StackTypeOK, WorkerPc
  <2> QED
    BY <2>1, <2>3 DEF TypeOK
<1>3. MainInv
  BY DEF MainInv
<1>4. ThreadClaims /\ ClaimOnStack
  BY <1>1 DEF ThreadClaims, ClaimOnStack, Blank
<1>5. Waiting = {} /\ Filled = {} /\ InSession = {}
  BY <1>1 DEF Waiting, Filled, InSession, Blank
<1>6. SlotAccounting /\ StackFilled
  BY <1>1, <1>5, FS_EmptySet, LengthAssumption DEF SlotAccounting, StackFilled
<1>7. LiveInv
  BY InitSession
<1> QED
  BY <1>2, <1>3, <1>4, <1>6, <1>7 DEF StackInv, SessionInv

\* An element with an id is one of those in use, so it lies on the stack.
LEMMA ClaimedWaits ==
  ASSUME StackInv, NEW w \in Slot, wpc[w] \in {"open", "accept"}
  PROVE  \E i \in StackIndex : FirstClaimed(w, i) /\ i \in Waiting
<1> DEFINE S == {i \in StackIndex : stack_array[i].id = w}
<1>1. S # {} /\ S \subseteq Nat
  BY IndexFinite DEF StackInv, ClaimOnStack
<1>2. PICK i \in S : \A j \in S : i <= j
  BY <1>1, LeastNatural
<1>3. ASSUME NEW j \in StackIndex, j < i PROVE stack_array[j].id # w
  <2>1. i \in Nat /\ j \in Nat
    BY <1>1, IndexFinite
  <2> QED
    BY <1>2, <1>3, <2>1
<1>4. w # NoThread
  BY SlotFacts DEF NoThread
<1> QED
  BY <1>2, <1>3, <1>4 DEF FirstClaimed, Waiting, StackInv, ClaimOnStack

\* Only one element is the first a thread has claimed.
LEMMA OneFirst ==
  ASSUME NEW w, NEW i \in StackIndex, NEW j \in StackIndex,
         FirstClaimed(w, i), FirstClaimed(w, j)
  PROVE  i = j
<1>1. i \in Int /\ j \in Int
  BY IndexFinite
<1>2. ~(i < j) /\ ~(j < i)
  BY DEF FirstClaimed
<1> QED
  BY <1>1, <1>2

\* What the server makes of an element it stores, claims or serves.
LEMMA EntryFields ==
  ASSUME NEW r \in Entry
  PROVE  /\ r.status \in 0 .. 2 /\ r.status_tcp_udp \in 0 .. 2
         /\ r.fd_client \in TcpClient \cup {None} /\ r.id \in Slot \cup {NoThread}
         /\ DOMAIN r = {"status", "status_tcp_udp", "fd_client", "id"}
  BY DEF Entry

Served(r) == [r EXCEPT !.status = 2, !.id = NoThread]

LEMMA ServedEntry ==
  ASSUME NEW r \in Entry
  PROVE  Served(r) \in Entry /\ Served(r).status = 2 /\ Served(r).id = NoThread
<1>0. PICK e : e = [r EXCEPT !.status = 2, !.id = NoThread]
  OBVIOUS
<1>1. /\ e.status = 2 /\ e.id = NoThread
      /\ e.status_tcp_udp = r.status_tcp_udp /\ e.fd_client = r.fd_client
  BY <1>0, EntryFields
<1>2. e = [status |-> 2, status_tcp_udp |-> r.status_tcp_udp,
           fd_client |-> r.fd_client, id |-> NoThread]
  BY <1>0, <1>1, EntryFields
<1>3. e \in Entry
  BY <1>2, EntryFields DEF Entry
<1> QED
  BY <1>0, <1>1, <1>3 DEF Served

Claimed(r, w) == [r EXCEPT !.id = w]

LEMMA ClaimedEntry ==
  ASSUME NEW r \in Entry, NEW w \in Slot
  PROVE  /\ Claimed(r, w) \in Entry /\ Claimed(r, w).id = w
         /\ Claimed(r, w).status = r.status /\ Claimed(r, w).status_tcp_udp = r.status_tcp_udp
<1> DEFINE e == [r EXCEPT !.id = w]
<1>1. /\ e.status = r.status /\ e.id = w
      /\ e.status_tcp_udp = r.status_tcp_udp /\ e.fd_client = r.fd_client
  BY EntryFields
<1>2. e = [status |-> r.status, status_tcp_udp |-> r.status_tcp_udp,
           fd_client |-> r.fd_client, id |-> w]
  BY <1>1, EntryFields
<1>3. e \in Entry
  BY <1>2, EntryFields DEF Entry
<1> QED
  BY <1>1, <1>3 DEF Claimed

Stored(r, kind, fd) == [r EXCEPT !.status = 1, !.status_tcp_udp = kind,
                                 !.fd_client = IF kind = 1 THEN fd ELSE @]

LEMMA StoredEntry ==
  ASSUME NEW kind \in {1, 2}, NEW fd \in TcpClient \cup {None}
  PROVE  LET e == Stored(Blank, kind, fd)
         IN e \in Entry /\ e.status = 1 /\ e.status_tcp_udp = kind /\ e.id = NoThread
<1>0. PICK e : e = [Blank EXCEPT !.status = 1, !.status_tcp_udp = kind,
                               !.fd_client = IF kind = 1 THEN fd ELSE @]
  OBVIOUS
<1>1. /\ e.status = 1 /\ e.id = NoThread /\ e.status_tcp_udp = kind
      /\ e.fd_client = IF kind = 1 THEN fd ELSE None
  BY <1>0 DEF Blank
<1>2. e = [status |-> 1, status_tcp_udp |-> kind,
           fd_client |-> IF kind = 1 THEN fd ELSE None, id |-> NoThread]
  BY <1>0, <1>1 DEF Blank
<1>3. e \in Entry
  BY <1>2 DEF Entry
<1> QED
  BY <1>0, <1>1, <1>3 DEF Stored

\* A thread marks as served the element it claimed first, and begins a session.
LEMMA Marked ==
  ASSUME StackInv, NEW w \in Slot, wpc[w] \in {"open", "accept"}, MarkServed(w)
  PROVE  \E i \in Waiting :
           /\ stack_array[i].id = w
           /\ stack_array'[i] = Served(stack_array[i])
           /\ \A j \in StackIndex \ {i} : stack_array'[j] = stack_array[j]
           /\ stack_array' \in [StackIndex -> Entry]
<1>1. PICK i \in StackIndex : FirstClaimed(w, i) /\ i \in Waiting
  BY ClaimedWaits
<1>2. stack_array \in [StackIndex -> Entry]
  BY DEF StackInv, TypeOK, StackTypeOK
<1>3. stack_array'[i] = Served(stack_array[i])
  BY <1>1 DEF MarkServed, Served
<1>4. \A j \in StackIndex \ {i} : stack_array'[j] = stack_array[j]
  BY <1>1, OneFirst DEF MarkServed
<1>5. Served(stack_array[i]) \in Entry
  BY <1>2, ServedEntry
<1>6. stack_array' \in [StackIndex -> Entry]
  <2>1. DOMAIN stack_array' = StackIndex
    BY DEF MarkServed
  <2>2. \A j \in StackIndex : stack_array'[j] \in Entry
    BY <1>2, <1>3, <1>4, <1>5
  <2>3. stack_array' = [j \in StackIndex |-> stack_array'[j]]
    BY DEF MarkServed
  <2> QED
    BY <2>2, <2>3
<1> QED
  BY <1>1, <1>3, <1>4, <1>6 DEF FirstClaimed

\* A client leaves the stack and its thread begins the session: what is
\* counted of it moves from Waiting to InSession.
LEMMA BeginInv ==
  ASSUME StackInv, NEW w \in Slot, wpc[w] \in {"open", "accept"}, MarkServed(w),
         NEW pc \in {"session", "close"}, Goto(w, pc),
         UNCHANGED flag_client,
         \A v \in Slot \ {w} : sock'[v] = sock[v],
         sock'[w] = Bound(IF wproto[w] = 1 THEN "tcp" ELSE "udp", w)
  PROVE  /\ TableInv'
         /\ stack_array' \in [StackIndex -> Entry] /\ wpc' \in [Slot -> WorkerPc]
         /\ StackStep
<1> USE DEF StackInv
<1>1. PICK i \in Waiting :
        /\ stack_array[i].id = w
        /\ stack_array'[i] = Served(stack_array[i])
        /\ \A j \in StackIndex \ {i} : stack_array'[j] = stack_array[j]
        /\ stack_array' \in [StackIndex -> Entry]
  BY Marked
<1>2. stack_array \in [StackIndex -> Entry] /\ wpc \in [Slot -> WorkerPc] /\ flag_client \in Int
      /\ lost \in Nat /\ cout_stack \in Nat /\ i \in StackIndex
  BY DEF TypeOK, StackTypeOK, ServerTypeOK, MainTypeOK, Waiting
<1>3. UNCHANGED <<cout_stack, wproto, lost>>
  BY DEF MarkServed
<1>4. stack_array'[i].status = 2 /\ stack_array'[i].id = NoThread
  BY <1>1, <1>2, ServedEntry
<1>5. wpc'[w] = pc /\ (\A v \in Slot \ {w} : wpc'[v] = wpc[v]) /\ wpc' \in [Slot -> WorkerPc]
  BY <1>2 DEF Goto, WorkerPc
<1>6. w # NoThread
  BY SlotFacts DEF NoThread
<1>0. \A j \in StackIndex : j = i \/ stack_array'[j] = stack_array[j]
  BY <1>1
<1>7. Waiting' = Waiting \ {i}
  <2>1. \A j \in StackIndex : stack_array'[j].status = 1 <=> stack_array[j].status = 1 /\ j # i
    BY <1>0, <1>4
  <2> QED
    BY <2>1 DEF Waiting
<1>8. Filled' = Filled
  <2>1. stack_array[i].status = 1
    BY DEF Waiting
  <2>2. \A j \in StackIndex : stack_array'[j].status # 0 <=> stack_array[j].status # 0
    BY <1>0, <1>4, <2>1
  <2> QED
    BY <2>2 DEF Filled
<1>9. w \notin InSession /\ InSession' = InSession \cup {w}
  BY <1>5 DEF InSession
<1>10. Cardinality(Waiting)' = Cardinality(Waiting) - 1 /\ Cardinality(Waiting) \in Nat
  <2>1. IsFiniteSet(Waiting) /\ Cardinality(Waiting) \in Nat
    BY IndexFinite DEF Waiting
  <2> QED
    BY <1>7, <2>1, FS_RemoveElement
<1>11. Cardinality(InSession)' = Cardinality(InSession) + 1 /\ Cardinality(InSession) \in Nat
  <2>1. IsFiniteSet(InSession) /\ Cardinality(InSession) \in Nat
    BY SlotFinite DEF InSession
  <2> QED
    BY <1>9, <2>1, FS_AddElement
<1>12. SlotAccounting'
  BY <1>2, <1>3, <1>10, <1>11, LengthAssumption DEF SlotAccounting
<1>13. StackFilled'
  <2>1. stack_array[i] # Blank
    BY <1>1, <1>6 DEF Blank
  <2>2. \A j \in StackIndex : j >= cout_stack => j # i
    BY <2>1 DEF StackFilled
  <2> QED
    BY <1>1, <1>3, <1>8, <2>2 DEF StackFilled
<1>14. ThreadClaims'
  <2>1. \A j \in StackIndex : stack_array'[j].status = 1 => stack_array'[j].status_tcp_udp # 0
    BY <1>0, <1>4 DEF ThreadClaims
  <2>2. ASSUME NEW v \in Slot
        PROVE  /\ wpc'[v] \in {"loop", "claim", "exited"} <=> wproto'[v] = 0
               /\ wpc'[v] = "accept" => wproto'[v] = 1
               /\ sock'[v] # Closed => sock'[v] = Bound(IF wproto'[v] = 1 THEN "tcp" ELSE "udp", v)
    <3>1. CASE v = w
      BY <1>3, <1>5, <3>1 DEF ThreadClaims
    <3>2. CASE v # w
      BY <1>3, <1>5, <3>2 DEF ThreadClaims
    <3> QED
      BY <3>1, <3>2
  <2> QED
    BY <2>1, <2>2 DEF ThreadClaims
<1>15. ClaimOnStack'
  <2>1. \A j \in StackIndex : stack_array'[j].id # NoThread => stack_array'[j].status = 1
    BY <1>0, <1>4 DEF ClaimOnStack
  <2>2. ASSUME NEW v \in Slot, wpc'[v] \in {"open", "accept"}
        PROVE  wproto'[v] # 0 /\ \E j \in StackIndex : stack_array'[j].id = v
    <3>1. v # w /\ wpc[v] \in {"open", "accept"}
      BY <1>5, <2>2
    <3>2. PICK j \in StackIndex : stack_array[j].id = v
      BY <3>1 DEF ClaimOnStack
    <3>3. stack_array'[j].id = v
      BY <1>0, <1>1, <3>1, <3>2
    <3> QED
      BY <1>3, <3>1, <3>3 DEF ClaimOnStack
  <2> QED
    BY <2>1, <2>2 DEF ClaimOnStack
<1>16. Stack!Serve(w)
  <2>1. Cardinality(Waiting) # 0
    <3>1. IsFiniteSet(Waiting)
      BY IndexFinite DEF Waiting
    <3> QED
      BY <3>1, FS_EmptySet
  <2> QED
    BY <1>3, <1>9, <1>10, <2>1 DEF Stack!Serve
<1> QED
  BY <1>1, <1>5, <1>12, <1>13, <1>14, <1>15, <1>16 DEF TableInv, StackStep, Stack!Next

\* main() stores a client above those in use, or past the end.
LEMMA PushInv ==
  ASSUME StackInv, NEW kind \in {1, 2}, NEW fd \in TcpClient \cup {None}, Push(kind, fd),
         flag_client > 0, UNCHANGED <<wpc, wproto, sock>>
  PROVE  /\ TableInv'
         /\ stack_array' \in [StackIndex -> Entry] /\ cout_stack' \in Nat /\ lost' \in Nat
         /\ StackStep
<1> USE DEF StackInv
<1>1. stack_array \in [StackIndex -> Entry] /\ flag_client \in Int
      /\ lost \in Nat /\ cout_stack \in Nat
  BY DEF TypeOK, StackTypeOK, ServerTypeOK, MainTypeOK
<1>2. /\ \A i \in StackIndex : i # cout_stack => stack_array'[i] = stack_array[i]
      /\ cout_stack' = cout_stack + 1 /\ flag_client' = flag_client - 1
      /\ lost' = IF cout_stack \in StackIndex THEN lost ELSE lost + 1
  BY DEF Push
<1>3. InSession' = InSession /\ Cardinality(InSession) \in Nat
  BY SlotFinite DEF InSession
<1>4. /\ IsFiniteSet(Waiting) /\ Cardinality(Waiting) \in Nat
      /\ IsFiniteSet(Filled) /\ Cardinality(Filled) \in Nat
  BY IndexFinite DEF Waiting, Filled
<1>8. Stack!HasRoom
  BY <1>1, <1>3, <1>4, SameCardinality, LengthAssumption DEF Stack!HasRoom, SlotAccounting
<1>5. \A i \in StackIndex : i >= cout_stack' => i >= cout_stack /\ i # cout_stack
  BY <1>1, <1>2, IndexFinite
<1>6. CASE cout_stack \in StackIndex
  <2>1. stack_array[cout_stack] = Blank /\ Blank \in Entry
    BY <1>1, <1>6 DEF StackFilled, Blank, Entry
  <2>2. /\ stack_array'[cout_stack].status = 1 /\ stack_array'[cout_stack].status_tcp_udp = kind
        /\ stack_array'[cout_stack].id = NoThread /\ stack_array'[cout_stack] \in Entry
    <3>1. stack_array'[cout_stack] = Stored(Blank, kind, fd)
      BY <1>6, <2>1 DEF Push, Stored
    <3> QED
      BY <3>1, StoredEntry
  <2>3. stack_array' \in [StackIndex -> Entry]
    <3>1. stack_array' = [i \in StackIndex |-> stack_array'[i]]
      BY DEF Push
    <3>2. \A i \in StackIndex : stack_array'[i] \in Entry
      BY <1>1, <1>2, <2>2
    <3> QED
      BY <3>1, <3>2
  <2>4. /\ Waiting' = Waiting \cup {cout_stack} /\ cout_stack \notin Waiting
        /\ Filled' = Filled \cup {cout_stack} /\ cout_stack \notin Filled
    BY <1>2, <1>6, <2>1, <2>2 DEF Waiting, Filled, Blank
  <2>5. /\ Cardinality(Waiting)' = Cardinality(Waiting) + 1
        /\ Cardinality(Filled)' = Cardinality(Filled) + 1
    BY <1>4, <2>4, FS_AddElement
  <2>6. SlotAccounting'
    BY <1>1, <1>2, <1>3, <1>4, <1>6, <2>5, LengthAssumption DEF SlotAccounting
  <2>7. StackFilled'
    BY <1>1, <1>2, <1>4, <1>5, <1>6, <2>5 DEF StackFilled
  <2>8. ThreadClaims'
    BY <1>1, <1>2, <2>2 DEF ThreadClaims
  <2>9. ClaimOnStack'
    <3>1. \A i \in StackIndex : stack_array'[i].id = stack_array[i].id
      BY <1>2, <2>1, <2>2 DEF Blank
    <3> QED
      BY <1>2, <2>1, <2>2, <3>1 DEF ClaimOnStack, Blank
  <2>10. Stack!Admit
    BY <1>2, <1>3, <1>6, <1>8, <2>5 DEF Stack!Admit
  <2> QED
    BY <1>1, <1>2, <1>6, <2>3, <2>6, <2>7, <2>8, <2>9, <2>10 DEF TableInv, StackStep, Stack!Next
<1>7. CASE cout_stack \notin StackIndex
  <2>1. stack_array' = stack_array
    BY <1>1, <1>7 DEF Push
  <2>2. Waiting' = Waiting /\ Filled' = Filled
    BY <2>1 DEF Waiting, Filled
  <2>3. SlotAccounting'
    BY <1>1, <1>2, <1>3, <1>4, <1>7, <2>2, LengthAssumption DEF SlotAccounting
  <2>4. StackFilled'
    BY <1>1, <1>2, <1>4, <1>5, <1>7, <2>1, <2>2 DEF StackFilled
  <2>5. ThreadClaims' /\ ClaimOnStack'
    BY <2>1 DEF ThreadClaims, ClaimOnStack
  <2>6. Stack!Drop
    BY <1>2, <1>3, <1>7, <1>8, <2>2 DEF Stack!Drop
  <2> QED
    BY <1>1, <1>2, <1>7, <2>1, <2>3, <2>4, <2>5, <2>6 DEF TableInv, StackStep, Stack!Next
<1> QED
  BY <1>6, <1>7

-----------------------------------------------------------------------------
(* What each step does to the invariant: main(), *)

\* The server's end stops its sessions, and changes neither stack nor sockets.
LEMMA StopInv ==
  ASSUME StackInv, server' # "up", ServerTypeOK', ClientTypeOK',
         UNCHANGED <<mainq, sock, serverVars, stackVars>>
  PROVE  StackInv' /\ StackStep
<1> USE DEF StackInv
<1>1. UNCHANGED <<flag_client, mpc, ready, wpc>>
  BY DEF serverVars, mainVars, threadVars
<1>2. TypeOK'
  BY <1>1, StackKept DEF TypeOK
<1>3. MainInv'
  BY <1>1, MainFrame DEF TypeOK, ServerTypeOK, MainTypeOK
<1>4. TableInv' /\ StackStep
  BY <1>1, TableFrame DEF TableInv
<1> QED
  BY <1>2, <1>3, <1>4 DEF TableInv, SessionInv

\* main() takes a client: the queues keep their protocols.
LEMMA TakenTyped ==
  ASSUME SocketTypeOK(Slot), MainInv, TakeNext
  PROVE  /\ Head(mainq[Now]) \in Client
         /\ Now = "tcp" => Head(mainq[Now]) \in TcpClient
         /\ Now = "udp" => Head(mainq[Now]) \in UdpClient
         /\ mainq' \in [{"tcp", "udp"} -> Seq(Client)] /\ accepted' \subseteq Client
         /\ mainq'["tcp"] \in Seq(TcpClient) /\ mainq'["udp"] \in Seq(UdpClient)
         /\ \A p \in {"tcp", "udp"} : p # Now => mainq'[p] = mainq[p]
<1>1. /\ mainq \in [{"tcp", "udp"} -> Seq(Client)] /\ mainq[Now] # <<>>
      /\ mainq' = [mainq EXCEPT ![Now] = Tail(@)] /\ Now \in {"tcp", "udp"}
      /\ mainq["tcp"] \in Seq(TcpClient) /\ mainq["udp"] \in Seq(UdpClient)
  BY DEF TakeNext, Now, SocketTypeOK, MainInv
<1>2. Now = "tcp" => /\ Head(mainq["tcp"]) \in TcpClient /\ Tail(mainq["tcp"]) \in Seq(TcpClient)
                     /\ mainq'["tcp"] = Tail(mainq["tcp"]) /\ mainq'["udp"] = mainq["udp"]
  BY <1>1, QueueHead
<1>3. Now = "udp" => /\ Head(mainq["udp"]) \in UdpClient /\ Tail(mainq["udp"]) \in Seq(UdpClient)
                     /\ mainq'["udp"] = Tail(mainq["udp"]) /\ mainq'["tcp"] = mainq["tcp"]
  BY <1>1, QueueHead
<1> QED
  BY <1>1, <1>2, <1>3, TakeNextType

\* main() between the queues and the stack: what a branch leaves of MainInv.
LEMMA BranchInv ==
  ASSUME StackInv, mpc \in {"admit", "refuse"}, TakeNext, NextBranch("compact")
  PROVE  MainInv' /\ ready' \subseteq {"tcp", "udp"} /\ mpc' \in {"check", "compact"}
<1>1. ready \subseteq {"tcp", "udp"} /\ SocketTypeOK(Slot)
  BY DEF StackInv, TypeOK, ServerTypeOK, MainTypeOK
<1>2. ready' = ready \ {Now} /\ mpc' = IF ready' = {} THEN "compact" ELSE "check"
  BY DEF NextBranch
<1>3. \A p \in ready' : mainq'[p] # <<>>
  BY <1>1, <1>2, TakenTyped DEF StackInv, MainInv
<1> QED
  BY <1>1, <1>2, <1>3, TakenTyped DEF StackInv, MainInv

LEMMA AdmitInv == StackInv /\ (AdmitTcp \/ AdmitUdp) => StackInv' /\ StackStep
<1> SUFFICES ASSUME StackInv, AdmitTcp \/ AdmitUdp PROVE StackInv' /\ StackStep
  OBVIOUS
<1> USE DEF StackInv
<1>1. /\ server = "up" /\ mpc = "admit" /\ TakeNext /\ NextBranch("compact")
      /\ UNCHANGED <<server, sock, backlog, dgrams, conn, toSrv, toCli, clientVars,
                     flag, interrupts, locked, join, threadVars, wproto>>
  BY DEF AdmitTcp, AdmitUdp, Admitting
<1>2. PICK kind \in {1, 2}, fd \in TcpClient \cup {None} :
        Push(kind, fd) /\ client_udp' \in UdpClient \cup {None}
  BY <1>1, TakenTyped DEF AdmitTcp, AdmitUdp, Admitting, TypeOK, ServerTypeOK, StackTypeOK
<1>3. flag_client \in Int /\ flag_client > 0 /\ flag_client' = flag_client - 1
  BY <1>1, <1>2 DEF Push, MainInv, TypeOK, ServerTypeOK, MainTypeOK
<1>4. MainInv' /\ ready' \subseteq {"tcp", "udp"} /\ mpc' \in {"check", "compact"}
  BY <1>1, BranchInv
<1>5. /\ TableInv' /\ stack_array' \in [StackIndex -> Entry]
      /\ cout_stack' \in Nat /\ lost' \in Nat
      /\ StackStep
  BY <1>1, <1>2, <1>3, PushInv DEF threadVars
<1>6. TypeOK'
  <2>1. SocketTypeOK(Slot)'
    BY <1>1, TakenTyped DEF TypeOK, ServerTypeOK, SocketTypeOK
  <2>2. flag_client' \in Int
    BY <1>3
  <2>3. MainTypeOK' /\ ThreadTypeOK'
    BY <1>1, <1>4, <2>2, ThreadKept DEF TypeOK, ServerTypeOK, MainTypeOK, threadVars
  <2>4. StackTypeOK'
    BY <1>1, <1>2, <1>4, <1>5 DEF TypeOK, StackTypeOK, threadVars
  <2> QED
    BY <1>1, <2>1, <2>3, <2>4, ClientKept DEF TypeOK, ServerTypeOK
<1>7. SessionInv'
  BY <1>1, QuietInv DEF SessionInv, threadVars
<1> QED
  BY <1>4, <1>5, <1>6, <1>7 DEF TableInv

LEMMA RefuseInv == StackInv /\ (RefuseTcp \/ RefuseUdp) => StackInv' /\ StackStep
<1> SUFFICES ASSUME StackInv, RefuseTcp \/ RefuseUdp PROVE StackInv' /\ StackStep
  OBVIOUS
<1> USE DEF StackInv
<1>1. /\ Refuse("compact") /\ UNCHANGED <<stack_array, cout_stack, wproto, lost>>
      /\ server = "up" /\ mpc = "refuse" /\ TakeNext /\ NextBranch("compact")
      /\ SendMain(Head(mainq[Now]), Msg(LIMIT, 0))
      /\ UNCHANGED <<server, sock, backlog, dgrams, conn, toSrv, clientVars, flag,
                     interrupts, flag_client, locked, join, threadVars>>
  BY DEF RefuseTcp, RefuseUdp, Refuse, stackVars
<1>2. client_udp' \in UdpClient \cup {None}
  BY <1>1, TakenTyped DEF RefuseTcp, RefuseUdp, stackVars, TypeOK, ServerTypeOK, StackTypeOK
<1>3. MainInv' /\ mpc' \in {"check", "compact"}
  BY <1>1, BranchInv
<1>4. TypeOK'
  <2>1. ServerTypeOK' /\ ClientTypeOK'
    BY <1>1, MainType DEF TypeOK
  <2> QED
    BY <1>1, <1>2, <1>3, <2>1 DEF TypeOK, StackTypeOK, threadVars
<1>5. TableInv' /\ StackStep
  <2>1. UNCHANGED <<wpc, stack_array, cout_stack, wproto, lost, flag_client, sock>>
    BY <1>1 DEF threadVars
  <2>2. Waiting' = Waiting /\ Filled' = Filled /\ InSession' = InSession
    BY <2>1 DEF Waiting, Filled, InSession
  <2>3. ThreadClaims' /\ ClaimOnStack'
    BY <2>1 DEF ThreadClaims, ClaimOnStack
  <2>4. SlotAccounting' /\ StackFilled'
    BY <2>1, <2>2 DEF SlotAccounting, StackFilled
  <2> QED
    BY <2>1, <2>2, <2>3, <2>4, QuietStack DEF TableInv
<1>6. SessionInv'
  <2>1. \A c \in Client : toCli'[c] = toCli[c] \/ AtMain(c)
    BY <1>1 DEF SendMain, TypeOK, ServerTypeOK, SocketTypeOK
  <2> QED
    BY <1>1, <2>1, QuietInv DEF SessionInv, threadVars
<1> QED
  BY <1>3, <1>4, <1>5, <1>6 DEF TableInv

\* The steps of main() that touch neither the stack nor the queues.
LEMMA MainOnlyInv ==
  ASSUME StackInv, MainLoop \/ Select("compact") \/ Check \/ Join, UNCHANGED stackVars
  PROVE  StackInv' /\ StackStep
<1> USE DEF StackInv
<1>1. /\ server = "up" /\ mpc' \in {"loop", "select", "check", "admit", "refuse", "compact", "join"}
      /\ UNCHANGED <<netVars, clientVars, flag, flag_client, locked, threadVars>>
  BY DEF MainLoop, Select, Check, Join, TypeOK, StackTypeOK
<1>2. ServerTypeOK' /\ ClientTypeOK'
  BY MainType DEF TypeOK
<1>3. TypeOK'
  BY <1>1, <1>2 DEF TypeOK, StackTypeOK, stackVars, threadVars
<1>4. TableInv' /\ StackStep
  BY <1>1, TableFrame DEF TableInv, threadVars, netVars
<1>5. SessionInv'
  BY <1>1, QuietInv DEF SessionInv, threadVars, netVars
<1>6. MainInv'
  <2>1. ready \subseteq {"tcp", "udp"} /\ flag_client \in Int
    BY DEF TypeOK, ServerTypeOK, MainTypeOK
  <2>2. UNCHANGED <<mainq, flag_client>>
    BY <1>1 DEF netVars
  <2>3. CASE MainLoop \/ Join
    BY <2>2, <2>3 DEF MainLoop, Join, MainInv
  <2>4. CASE Select("compact")
    BY <2>2, <2>4 DEF Select, MainInv
  <2>5. CASE Check
    BY <2>1, <2>2, <2>5 DEF Check, MainInv
  <2> QED
    BY <2>3, <2>4, <2>5
<1> QED
  BY <1>3, <1>4, <1>5, <1>6 DEF TableInv

\* The elements move down by n, those served at the head leave.
LEMMA ShiftInv ==
  ASSUME StackInv, NEW n \in 0 .. LENGTH_STACK, ServedHead(n), Shift(n),
         UNCHANGED <<flag_client, wpc, wproto, sock, lost>>
  PROVE  /\ TableInv' /\ StackStep
         /\ stack_array' \in [StackIndex -> Entry] /\ cout_stack' \in Nat
<1> USE DEF StackInv
<1>1. stack_array \in [StackIndex -> Entry] /\ cout_stack \in Nat /\ lost \in Nat /\ n \in Nat
  BY StackAssumption DEF TypeOK, StackTypeOK
<1>2. /\ \A i \in StackIndex : i + n \in StackIndex => stack_array'[i] = stack_array[i + n]
      /\ \A i \in StackIndex : i + n \notin StackIndex => stack_array'[i] = Blank
      /\ cout_stack' = cout_stack - n
  BY DEF Shift
<1>3. \A i \in StackIndex : i < n => stack_array[i].status = 2
  BY <1>1, StackAssumption DEF ServedHead, StackIndex
<1>4. n <= cout_stack
  <2>1. CASE n = 0
    BY <1>1, <2>1
  <2>2. CASE n # 0
    <3>1. n - 1 \in StackIndex /\ n - 1 < n
      BY <1>1, <2>2, StackAssumption DEF StackIndex
    <3>2. stack_array[n - 1] # Blank
      BY <1>3, <3>1 DEF Blank
    <3>3. ~(n - 1 >= cout_stack)
      BY <3>1, <3>2 DEF StackFilled
    <3> QED
      BY <1>1, <3>3
  <2> QED
    BY <2>1, <2>2
<1>5. stack_array' \in [StackIndex -> Entry] /\ cout_stack' \in Nat
  <2>1. Blank \in Entry
    BY DEF Blank, Entry
  <2>2. cout_stack' \in Nat
    BY <1>1, <1>2, <1>4
  <2> QED
    BY <1>1, <2>1, <2>2 DEF Shift
<1>6. Waiting' = {i \in StackIndex : i + n \in Waiting} /\ \A i \in Waiting : i >= n
  <2>1. ASSUME NEW i \in StackIndex PROVE stack_array'[i].status = 1 <=> i + n \in Waiting
    BY <1>2 DEF Waiting, Blank
  <2>2. ASSUME NEW i \in Waiting PROVE i >= n
    <3>1. i \in StackIndex /\ stack_array[i].status = 1 /\ i \in Nat
      BY IndexFinite DEF Waiting
    <3> QED
      BY <1>1, <1>3, <3>1
  <2> QED
    BY <2>1, <2>2 DEF Waiting
<1>7. Cardinality(Waiting)' = Cardinality(Waiting)
  BY <1>1, <1>6, ShiftedDown DEF Waiting
<1>8. InSession' = InSession
  BY DEF InSession
<1>9. SlotAccounting'
  BY <1>7, <1>8 DEF SlotAccounting
<1>10. StackFilled'
  <2> DEFINE Rest == {i \in Filled : i >= n}
             Head0 == 0 .. n - 1
  <2>1. Filled' = {i \in StackIndex : i + n \in Rest}
    <3>1. ASSUME NEW i \in StackIndex PROVE stack_array'[i].status # 0 <=> i + n \in Filled
      BY <1>2 DEF Filled, Blank
    <3>2. \A i \in StackIndex : i + n >= n
      BY <1>1, IndexFinite
    <3> QED
      BY <3>1, <3>2 DEF Filled
  <2>2. Cardinality(Filled') = Cardinality(Rest)
    BY <1>1, <2>1, ShiftedDown DEF Filled
  <2>3. Head0 \subseteq Filled
    BY <1>1, <1>3, StackAssumption DEF Filled, StackIndex
  <2>4. Rest = Filled \ Head0
    <3>1. Filled \subseteq Nat
      BY IndexFinite DEF Filled
    <3>2. \A i \in Filled : i >= n <=> i \notin Head0
      BY <1>1, <3>1
    <3> QED
      BY <3>2
  <2>5. IsFiniteSet(Head0) /\ Cardinality(Head0) = n
    BY <1>1, FS_Interval
  <2>6. IsFiniteSet(Filled) /\ Cardinality(Filled) \in Nat
    BY IndexFinite DEF Filled
  <2>7. Filled \cap Head0 = Head0
    BY <2>3
  <2>8. Cardinality(Rest) = Cardinality(Filled) - Cardinality(Head0)
    BY <2>4, <2>6, <2>7, FS_Difference
  <2>9. Cardinality(Filled') = cout_stack' - lost'
    BY <1>1, <1>2, <2>2, <2>5, <2>6, <2>8 DEF StackFilled
  <2>10. ASSUME NEW i \in StackIndex, i >= cout_stack' PROVE stack_array'[i] = Blank
    <3>1. i \in Nat /\ i + n >= cout_stack
      BY <1>1, <1>2, <2>10, IndexFinite
    <3> QED
      BY <1>2, <3>1 DEF StackFilled
  <2> QED
    BY <2>9, <2>10 DEF StackFilled
<1>11. ThreadClaims'
  <2>1. \A i \in StackIndex : stack_array'[i].status = 1 => stack_array'[i].status_tcp_udp # 0
    BY <1>2 DEF ThreadClaims, Blank
  <2> QED
    BY <2>1 DEF ThreadClaims
<1>12. ClaimOnStack'
  <2>1. \A i \in StackIndex : stack_array'[i].id # NoThread => stack_array'[i].status = 1
    BY <1>2 DEF ClaimOnStack, Blank
  <2>2. ASSUME NEW w \in Slot, wpc'[w] \in {"open", "accept"}
        PROVE  wproto'[w] # 0 /\ \E i \in StackIndex : stack_array'[i].id = w
    <3>1. PICK i \in StackIndex : FirstClaimed(w, i) /\ i \in Waiting
      BY <2>2, ClaimedWaits
    <3>2. i >= n /\ i \in Nat /\ i <= LENGTH_STACK - 1
      BY <1>6, <3>1, StackAssumption DEF StackIndex
    <3>3. PICK j : j = i - n
      OBVIOUS
    <3>4. j \in StackIndex /\ j + n = i
      BY <1>1, <3>2, <3>3, StackAssumption DEF StackIndex
    <3>5. stack_array'[j].id = w
      BY <1>2, <3>1, <3>4 DEF FirstClaimed
    <3> QED
      BY <2>2, <3>4, <3>5 DEF ClaimOnStack
  <2> QED
    BY <2>1, <2>2 DEF ClaimOnStack
<1>13. StackStep
  BY <1>7, <1>8 DEF StackStep
<1> QED
  BY <1>5, <1>9, <1>10, <1>11, <1>12, <1>13 DEF TableInv

LEMMA CompactInv == StackInv /\ Compact => StackInv' /\ StackStep
<1> SUFFICES ASSUME StackInv, Compact PROVE StackInv' /\ StackStep
  OBVIOUS
<1> USE DEF StackInv
<1>1. /\ mpc' = "loop"
      /\ UNCHANGED <<netVars, clientVars, flag, interrupts, flag_client, locked, ready, join,
                     threadVars, client_udp, wproto, lost>>
  BY DEF Compact
<1>2. UNCHANGED <<sock, mainq, wpc, wpeer, wbuf>>
  BY <1>1 DEF threadVars, netVars
<1>3. /\ TableInv' /\ StackStep
      /\ stack_array' \in [StackIndex -> Entry] /\ cout_stack' \in Nat
  BY <1>1, <1>2, ShiftInv DEF Compact
<1>4. TypeOK'
  BY <1>1, <1>2, <1>3, NetKept, ThreadKept, ClientKept
     DEF TypeOK, ServerTypeOK, MainTypeOK, StackTypeOK
<1>5. MainInv'
  BY <1>1, <1>2 DEF MainInv
<1>6. SessionInv'
  BY <1>1, <1>2, QuietInv DEF SessionInv, netVars
<1> QED
  BY <1>3, <1>4, <1>5, <1>6 DEF TableInv

\* exit(EXIT_FAILURE) and the return of main().
LEMMA EndInv ==
  ASSUME StackInv, Fail \/ Return, UNCHANGED stackVars
  PROVE  StackInv' /\ StackStep
<1>1. ServerTypeOK' /\ ClientTypeOK'
  BY MainType DEF StackInv, TypeOK
<1>2. server' # "up" /\ UNCHANGED <<mainq, sock, serverVars, stackVars>>
  BY DEF Return, Fail
<1> QED
  BY <1>1, <1>2, StopInv

LEMMA MainStepInv == StackInv /\ MainStep => StackInv' /\ StackStep
<1> SUFFICES ASSUME StackInv, MainStep PROVE StackInv' /\ StackStep
  OBVIOUS
<1>1. CASE AdmitTcp \/ AdmitUdp \/ RefuseTcp \/ RefuseUdp \/ Compact
  BY <1>1, AdmitInv, RefuseInv, CompactInv
<1>2. CASE (MainLoop \/ Select("compact") \/ Check \/ Join) /\ UNCHANGED stackVars
  BY <1>2, MainOnlyInv
<1>3. CASE (Return \/ Fail) /\ UNCHANGED stackVars
  BY <1>3, EndInv
<1> QED
  BY <1>1, <1>2, <1>3 DEF MainStep, Turn, Shutdown, MainAcceptFails

-----------------------------------------------------------------------------
(* ... the threads, *)

\* A step of a thread leaves main() and the end of the stack alone.
LEMMA ThreadFrame ==
  ASSUME StackInv, server = "up",
         UNCHANGED <<server, mainq, mpc, ready, cout_stack, lost, client_udp>>,
         flag_client' = flag_client \/ flag_client' = flag_client + 1,
         ServerTypeOK', ClientTypeOK', wpc' \in [Slot -> WorkerPc],
         stack_array' \in [StackIndex -> Entry], wproto' \in [Slot -> 0 .. 2],
         TableInv', LiveInv'
  PROVE  StackInv'
<1> USE DEF StackInv
<1>1. TypeOK'
  BY DEF TypeOK, StackTypeOK
<1>2. MainInv'
  BY MainFrame DEF TypeOK, ServerTypeOK, MainTypeOK
<1> QED
  BY <1>1, <1>2 DEF SessionInv, TableInv

\* The same for a step that leaves the whole stack alone.
LEMMA QuietThreadInv ==
  ASSUME StackInv, server = "up", UNCHANGED <<server, mainq, mpc, ready, flag_client, stackVars>>,
         ServerTypeOK', ClientTypeOK', wpc' \in [Slot -> WorkerPc], LiveInv',
         \A w \in Slot : sock'[w] = sock[w] \/ sock'[w] = Closed,
         \A w \in Slot : \/ wpc'[w] = wpc[w]
                         \/ wpc[w] \in SessionPc /\ wpc'[w] \in SessionPc
                         \/ wpc[w] \in {"loop", "exited"} /\ wpc'[w] \in {"claim", "exited"}
  PROVE  StackInv' /\ StackStep
<1>1. TableInv' /\ StackStep
  BY TableFrame DEF StackInv, TableInv
<1>2. /\ stack_array' \in [StackIndex -> Entry] /\ wproto' \in [Slot -> 0 .. 2]
      /\ UNCHANGED <<cout_stack, lost, client_udp>>
  BY DEF stackVars, StackInv, TypeOK, StackTypeOK
<1> QED
  BY <1>1, <1>2, ThreadFrame

LEMMA LoopInv == ASSUME StackInv, NEW w \in Slot, Loop(w) PROVE StackInv' /\ StackStep
<1> USE DEF StackInv
<1>1. PICK pc \in {"claim", "exited"} : Proceed(w, pc)
  BY DEF Loop
<1>2. /\ server = "up" /\ wpc[w] = "loop" /\ Goto(w, pc)
      /\ UNCHANGED <<netVars, clientVars, flag, interrupts, mainVars, wpeer, wbuf, stackVars>>
  BY <1>1 DEF Loop, Proceed
<1>3. /\ wpc'[w] = pc /\ \A v \in Slot \ {w} : wpc'[v] = wpc[v]
      /\ wpc' \in [Slot -> WorkerPc]
  BY <1>2 DEF Goto, WorkerPc, TypeOK, StackTypeOK
<1>4. ServerTypeOK' /\ ClientTypeOK'
  BY <1>2, NetKept, MainKept, ThreadKept, ClientKept DEF TypeOK, ServerTypeOK
<1>5. LiveInv'
  BY <1>2, <1>3, QuietInv DEF SessionInv, netVars, OpenPc
<1> QED
  BY <1>2, <1>3, <1>4, <1>5, QuietThreadInv DEF netVars, mainVars

\* A thread writes its number into the elements nobody has claimed, and takes
\* the protocol of one of them.
LEMMA ClaimInv == ASSUME StackInv, NEW w \in Slot, Claim(w) PROVE StackInv' /\ StackStep
<1> USE DEF StackInv
<1>1. /\ stack_array \in [StackIndex -> Entry] /\ wproto \in [Slot -> 0 .. 2]
      /\ wpc \in [Slot -> WorkerPc]
  BY DEF TypeOK, StackTypeOK
<1>2. /\ wpc[w] = "claim" /\ UNCHANGED <<cout_stack, client_udp, lost>>
      /\ stack_array' = [i \in StackIndex |-> IF i \in Unclaimed THEN Claimed(stack_array[i], w)
                                                                 ELSE stack_array[i]]
      /\ Proceed(w, IF wproto'[w] = 0 THEN "loop" ELSE "open")
  BY DEF Claim, Claimed
<1>3. PICK pc \in {"loop", "open"} :
        /\ Proceed(w, pc) /\ (pc = "loop" <=> wproto'[w] = 0)
  BY <1>2
<1>4. /\ server = "up" /\ Goto(w, pc)
      /\ UNCHANGED <<netVars, clientVars, flag, interrupts, mainVars, wpeer, wbuf>>
  BY <1>3 DEF Proceed
<1>5. /\ wpc'[w] = pc /\ \A v \in Slot \ {w} : wpc'[v] = wpc[v]
      /\ wpc' \in [Slot -> WorkerPc]
  BY <1>1, <1>4 DEF Goto, WorkerPc
<1>6. /\ wproto[w] = 0 /\ sock[w] = Closed
  BY <1>2, <1>4 DEF ThreadClaims, SessionInv, LiveInv, ThreadInv, OpenPc
<1>7. /\ wproto' \in [Slot -> 0 .. 2] /\ \A v \in Slot \ {w} : wproto'[v] = wproto[v]
      /\ wproto'[w] = 0 \/ Unclaimed # {}
  <2>1. CASE UNCHANGED wproto
    BY <1>1, <1>6, <2>1
  <2>2. CASE \E i \in Unclaimed : wproto' = [wproto EXCEPT ![w] = stack_array[i].status_tcp_udp]
    <3>1. PICK i \in Unclaimed : wproto' = [wproto EXCEPT ![w] = stack_array[i].status_tcp_udp]
      BY <2>2
    <3>2. stack_array[i].status_tcp_udp \in 0 .. 2
      BY <1>1, EntryFields DEF Unclaimed
    <3> QED
      BY <1>1, <3>1, <3>2
  <2> QED
    BY <2>1, <2>2 DEF Claim
<1>8. ASSUME NEW i \in StackIndex
      PROVE  /\ stack_array'[i] \in Entry /\ stack_array'[i].status = stack_array[i].status
             /\ stack_array'[i].status_tcp_udp = stack_array[i].status_tcp_udp
             /\ i \in Unclaimed => stack_array'[i].id = w
             /\ i \notin Unclaimed => stack_array'[i] = stack_array[i]
  <2>1. CASE i \in Unclaimed
    BY <1>1, <1>2, <2>1, ClaimedEntry
  <2>2. CASE i \notin Unclaimed
    BY <1>1, <1>2, <2>2
  <2> QED
    BY <2>1, <2>2
<1>9. stack_array' \in [StackIndex -> Entry]
  <2>1. stack_array' = [i \in StackIndex |-> stack_array'[i]]
    BY <1>2
  <2>2. \A i \in StackIndex : stack_array'[i] \in Entry
    BY <1>8
  <2> QED
    BY <2>1, <2>2
<1>10. Waiting' = Waiting /\ Filled' = Filled /\ InSession' = InSession
  <2>1. Waiting' = Waiting /\ Filled' = Filled
    BY <1>8 DEF Waiting, Filled
  <2>2. InSession' = InSession
    BY <1>2, <1>5 DEF InSession
  <2> QED
    BY <2>1, <2>2
<1>11. SlotAccounting'
  BY <1>2, <1>4, <1>10 DEF SlotAccounting, mainVars
<1>12. StackFilled'
  <2>1. \A i \in StackIndex : stack_array[i] = Blank => i \notin Unclaimed
    BY DEF Unclaimed, Blank
  <2> QED
    BY <1>2, <1>8, <1>10, <2>1 DEF StackFilled
<1>13. ThreadClaims'
  <2>1. \A i \in StackIndex : stack_array'[i].status = 1 => stack_array'[i].status_tcp_udp # 0
    BY <1>8 DEF ThreadClaims
  <2>2. sock' = sock
    BY <1>4 DEF netVars
  <2>3. ASSUME NEW v \in Slot
        PROVE  /\ wpc'[v] \in {"loop", "claim", "exited"} <=> wproto'[v] = 0
               /\ wpc'[v] = "accept" => wproto'[v] = 1
               /\ sock'[v] # Closed => sock'[v] = Bound(IF wproto'[v] = 1 THEN "tcp" ELSE "udp", v)
    <3>1. CASE v = w
      BY <1>3, <1>5, <1>6, <2>2, <3>1
    <3>2. CASE v # w
      BY <1>5, <1>7, <2>2, <3>2 DEF ThreadClaims
    <3> QED
      BY <3>1, <3>2
  <2> QED
    BY <2>1, <2>3 DEF ThreadClaims
<1>14. ClaimOnStack'
  <2>1. \A i \in StackIndex : stack_array'[i].id # NoThread => stack_array'[i].status = 1
    BY <1>8 DEF ClaimOnStack, Unclaimed
  <2>2. ASSUME NEW v \in Slot, wpc'[v] \in {"open", "accept"}
        PROVE  wproto'[v] # 0 /\ \E i \in StackIndex : stack_array'[i].id = v
    <3>1. CASE v = w
      BY <1>3, <1>5, <1>7, <1>8, <2>2, <3>1 DEF Unclaimed
    <3>2. CASE v # w
      <4>1. wpc[v] \in {"open", "accept"} /\ wproto'[v] = wproto[v] /\ v # NoThread
        BY <1>5, <1>7, <2>2, <3>2, SlotFacts DEF NoThread
      <4>2. PICK i \in StackIndex : stack_array[i].id = v
        BY <4>1 DEF ClaimOnStack
      <4>3. stack_array'[i].id = v
        BY <1>8, <4>1, <4>2 DEF Unclaimed
      <4> QED
        BY <4>1, <4>3 DEF ClaimOnStack
    <3> QED
      BY <3>1, <3>2
  <2> QED
    BY <2>1, <2>2 DEF ClaimOnStack
<1>15. TableInv' /\ StackStep
  BY <1>2, <1>10, <1>11, <1>12, <1>13, <1>14, QuietStack DEF TableInv
<1>16. ServerTypeOK' /\ ClientTypeOK'
  BY <1>4, NetKept, MainKept, ThreadKept, ClientKept DEF TypeOK, ServerTypeOK
<1>17. LiveInv'
  BY <1>2, <1>4, <1>5, QuietInv DEF SessionInv, netVars, OpenPc
<1> QED
  BY <1>2, <1>4, <1>5, <1>7, <1>9, <1>15, <1>16, <1>17, ThreadFrame DEF netVars, mainVars

\* The redirect of a TCP client: the thread keeps its claim, and the mutex.
LEMMA OpenTcpInv == ASSUME StackInv, NEW w \in Slot, OpenTcp(w) PROVE StackInv' /\ StackStep
<1> USE DEF StackInv
<1>1. /\ server = "up" /\ wpc[w] = "open" /\ wproto[w] = 1 /\ ~PortInUse("tcp", w)
      /\ sock' = [sock EXCEPT ![w] = Bound("tcp", w)]
      /\ locked' = TRUE /\ Goto(w, "accept")
      /\ UNCHANGED <<server, mainq, accepted, backlog, dgrams, conn, toSrv, clientVars, flag,
                     interrupts, flag_client, mpc, ready, join, wpeer, wbuf, stackVars>>
  BY DEF OpenTcp, Opening
<1>2. PICK c : SendMain(c, Msg(REDIRECT, w))
  BY DEF OpenTcp
<1>3. wpc \in [Slot -> WorkerPc] /\ SocketTypeOK(Slot) /\ wproto \in [Slot -> 0 .. 2]
      /\ stack_array \in [StackIndex -> Entry]
  BY DEF TypeOK, StackTypeOK, ServerTypeOK
<1>4. /\ wpc'[w] = "accept" /\ \A v \in Slot \ {w} : wpc'[v] = wpc[v]
      /\ wpc' \in [Slot -> WorkerPc]
      /\ sock'[w] = Bound("tcp", w) /\ \A v \in Slot \ {w} : sock'[v] = sock[v]
  BY <1>1, <1>3 DEF Goto, WorkerPc, SocketTypeOK
<1>5. UNCHANGED <<stack_array, cout_stack, client_udp, wproto, lost>>
  BY <1>1 DEF stackVars
<1>6. ServerTypeOK' /\ ClientTypeOK'
  <2>1. Msg(REDIRECT, w) \in Message
    BY SlotFacts DEF Msg, Message, REDIRECT
  <2>2. toCli' \in [Client -> Seq(Message)]
    BY <1>2, <1>3, <2>1, SendType DEF SendMain, SocketTypeOK
  <2>3. SocketTypeOK(Slot)'
    BY <1>1, <1>3, <2>2 DEF SocketTypeOK, SocketState, Bound
  <2>4. MainTypeOK'
    BY <1>1 DEF TypeOK, ServerTypeOK, MainTypeOK
  <2> QED
    BY <1>1, <2>3, <2>4, ThreadKept, ClientKept DEF TypeOK, ServerTypeOK
<1>7. Waiting' = Waiting /\ Filled' = Filled /\ InSession' = InSession
  BY <1>1, <1>4, <1>5 DEF Waiting, Filled, InSession
<1>8. ThreadClaims'
  BY <1>1, <1>4, <1>5 DEF ThreadClaims
<1>9. ClaimOnStack'
  BY <1>1, <1>4, <1>5 DEF ClaimOnStack
<1>10. SlotAccounting' /\ StackFilled'
  BY <1>1, <1>5, <1>7 DEF SlotAccounting, StackFilled
<1>11. TableInv' /\ StackStep
  BY <1>5, <1>7, <1>8, <1>9, <1>10, QuietStack DEF TableInv
<1>12. LiveInv'
  <2>1. \A d \in Client : toCli'[d] = toCli[d] \/ AtMain(d)
    BY <1>2, <1>3 DEF SendMain, SocketTypeOK
  <2> QED
    BY <1>1, <1>3, <2>1, OpenInv DEF SessionInv, OpenPc, TypeOK
<1> QED
  BY <1>1, <1>3, <1>4, <1>5, <1>6, <1>11, <1>12, ThreadFrame

\* The redirect of a UDP client, which leaves the stack with it.
LEMMA OpenUdpInv == ASSUME StackInv, NEW w \in Slot, OpenUdp(w) PROVE StackInv' /\ StackStep
<1> USE DEF StackInv
<1>1. /\ server = "up" /\ wpc[w] = "open" /\ wproto[w] = 2 /\ ~PortInUse("udp", w)
      /\ sock' = [sock EXCEPT ![w] = Bound("udp", w)]
      /\ SendMain(client_udp, Msg(REDIRECT, w)) /\ MarkServed(w) /\ Goto(w, "session")
      /\ UNCHANGED <<server, mainq, accepted, backlog, dgrams, conn, toSrv, clientVars, flag,
                     interrupts, mainVars, wpeer, wbuf, cout_stack, client_udp, wproto, lost>>
  BY DEF OpenUdp, Opening, MarkServed
<1>2. wpc \in [Slot -> WorkerPc] /\ SocketTypeOK(Slot) /\ wproto \in [Slot -> 0 .. 2]
  BY DEF TypeOK, StackTypeOK, ServerTypeOK
<1>3. sock'[w] = Bound("udp", w) /\ \A v \in Slot \ {w} : sock'[v] = sock[v]
  BY <1>1, <1>2 DEF SocketTypeOK
<1>4. /\ TableInv' /\ StackStep
      /\ stack_array' \in [StackIndex -> Entry] /\ wpc' \in [Slot -> WorkerPc]
  <2>1. sock'[w] = Bound(IF wproto[w] = 1 THEN "tcp" ELSE "udp", w) /\ flag_client' = flag_client
    BY <1>1, <1>3 DEF mainVars
  <2> QED
    BY <1>1, <1>3, <2>1, BeginInv
<1>5. ServerTypeOK' /\ ClientTypeOK'
  <2>1. Msg(REDIRECT, w) \in Message
    BY SlotFacts DEF Msg, Message, REDIRECT
  <2>2. toCli' \in [Client -> Seq(Message)]
    BY <1>1, <1>2, <2>1, SendType DEF SendMain, SocketTypeOK
  <2>3. SocketTypeOK(Slot)'
    BY <1>1, <1>2, <2>2 DEF SocketTypeOK, SocketState, Bound
  <2> QED
    BY <1>1, <2>3, MainKept, ThreadKept, ClientKept DEF TypeOK, ServerTypeOK
<1>6. LiveInv'
  <2>1. \A d \in Client : toCli'[d] = toCli[d] \/ AtMain(d)
    BY <1>1, <1>2 DEF SendMain, SocketTypeOK
  <2> QED
    BY <1>1, <1>2, <2>1, OpenInv DEF SessionInv, OpenPc, TypeOK
<1> QED
  BY <1>1, <1>2, <1>4, <1>5, <1>6, ThreadFrame DEF mainVars

\* A TCP client leaves the stack when the thread has accepted it.
LEMMA AcceptClientInv == ASSUME StackInv, NEW w \in Slot, Accept(w) PROVE StackInv' /\ StackStep
<1> USE DEF StackInv
<1>1. /\ server = "up" /\ wpc[w] = "accept" /\ backlog[w] # <<>>
      /\ conn' = conn \cup {<<Head(backlog[w]), w>>}
      /\ wpeer' = [wpeer EXCEPT ![w] = Head(backlog[w])]
      /\ backlog' = [backlog EXCEPT ![w] = Tail(@)]
      /\ MarkServed(w) /\ locked' = FALSE /\ Goto(w, "session")
      /\ UNCHANGED <<server, mainq, accepted, sock, dgrams, toSrv, toCli, clientVars, flag,
                     interrupts, flag_client, mpc, ready, join, wbuf,
                     cout_stack, client_udp, wproto, lost>>
  BY DEF Accept, MarkServed
<1>2. wpc \in [Slot -> WorkerPc] /\ SocketTypeOK(Slot) /\ wproto \in [Slot -> 0 .. 2]
  BY DEF TypeOK, StackTypeOK, ServerTypeOK
<1>3. sock[w] = Bound(IF wproto[w] = 1 THEN "tcp" ELSE "udp", w)
  <2>1. sock[w] # Closed
    BY <1>1 DEF SessionInv, LiveInv, ThreadInv, OpenPc
  <2> QED
    BY <2>1 DEF ThreadClaims
<1>4. /\ TableInv' /\ StackStep
      /\ stack_array' \in [StackIndex -> Entry] /\ wpc' \in [Slot -> WorkerPc]
  BY <1>1, <1>3, BeginInv
<1>5. Head(backlog[w]) \in Client /\ Tail(backlog[w]) \in Seq(Client)
  BY <1>1, <1>2, QueueHead DEF SocketTypeOK
<1>6. ServerTypeOK' /\ ClientTypeOK'
  <2>1. SocketTypeOK(Slot)'
    <3>1. conn' \subseteq Client \X Slot
      BY <1>1, <1>2, <1>5 DEF SocketTypeOK
    <3>2. backlog' \in [Slot -> Seq(Client)]
      BY <1>1, <1>2, <1>5 DEF SocketTypeOK
    <3> QED
      BY <1>1, <1>2, <3>1, <3>2 DEF SocketTypeOK
  <2>2. ThreadTypeOK'
    BY <1>1, <1>5 DEF TypeOK, ServerTypeOK, ThreadTypeOK
  <2>3. MainTypeOK'
    BY <1>1 DEF TypeOK, ServerTypeOK, MainTypeOK
  <2> QED
    BY <1>1, <2>1, <2>2, <2>3, ClientKept DEF TypeOK, ServerTypeOK
<1>7. LiveInv'
  BY <1>1, <1>2, AcceptInv DEF SessionInv, TypeOK
<1> QED
  BY <1>1, <1>2, <1>4, <1>6, <1>7, ThreadFrame

\* accept() fails, for want of a descriptor or through Ctrl+C.
LEMMA AcceptErrorInv ==
  ASSUME StackInv, NEW w \in Slot, AcceptReturnsError(w), server = "up",
         Signal \/ UNCHANGED <<flag, interrupts>>
  PROVE  StackInv' /\ StackStep
<1> USE DEF StackInv
<1>1. /\ wpc[w] = "accept" /\ MarkServed(w) /\ locked' = FALSE /\ Goto(w, "close")
      /\ UNCHANGED <<netVars, clientVars, flag_client, mpc, ready, join, wpeer, wbuf,
                     cout_stack, client_udp, wproto, lost>>
  BY DEF AcceptReturnsError, MarkServed
<1>7. flag' = 1 => flag = 1
  BY DEF Signal
<1>2. wpc \in [Slot -> WorkerPc] /\ wproto \in [Slot -> 0 .. 2]
  BY DEF TypeOK, StackTypeOK
<1>3. sock[w] = Bound(IF wproto[w] = 1 THEN "tcp" ELSE "udp", w) /\ sock' = sock
  <2>1. sock[w] # Closed
    BY <1>1 DEF SessionInv, LiveInv, ThreadInv, OpenPc
  <2> QED
    BY <1>1, <2>1 DEF ThreadClaims, netVars
<1>4. /\ TableInv' /\ StackStep
      /\ stack_array' \in [StackIndex -> Entry] /\ wpc' \in [Slot -> WorkerPc]
  BY <1>1, <1>3, BeginInv
<1>5. ServerTypeOK' /\ ClientTypeOK'
  <2>1. MainTypeOK'
    BY <1>1, SignalType DEF TypeOK, ServerTypeOK, MainTypeOK
  <2> QED
    BY <1>1, <2>1, NetKept, ThreadKept, ClientKept DEF TypeOK, ServerTypeOK
<1>6. LiveInv'
  BY <1>1, <1>2, <1>7, MoveInv DEF SessionInv, netVars
<1> QED
  BY <1>1, <1>2, <1>4, <1>5, <1>6, ThreadFrame DEF netVars

\* Steps in which a thread moves on in its session and touches nothing else.
LEMMA ProceedInv ==
  ASSUME StackInv, NEW w \in Slot, NEW pc \in {"session", "recv", "close"},
         wpc[w] \in {"session", "recv"},
         pc = "close" => flag # 1 \/ cpc[wpeer[w]] = "done",
         Proceed(w, pc), UNCHANGED stackVars
  PROVE  StackInv' /\ StackStep
<1> USE DEF StackInv
<1>1. /\ server = "up" /\ Goto(w, pc)
      /\ UNCHANGED <<netVars, clientVars, flag, interrupts, mainVars, wpeer, wbuf>>
  BY DEF Proceed
<1>2. wpc \in [Slot -> WorkerPc]
  BY DEF TypeOK, StackTypeOK
<1>3. /\ wpc'[w] = pc /\ \A v \in Slot \ {w} : wpc'[v] = wpc[v]
      /\ wpc' \in [Slot -> WorkerPc]
  BY <1>1, <1>2 DEF Goto, WorkerPc
<1>4. ServerTypeOK' /\ ClientTypeOK'
  BY <1>1, NetKept, MainKept, ThreadKept, ClientKept DEF TypeOK, ServerTypeOK
<1>5. LiveInv'
  BY <1>1, <1>2, MoveInv DEF SessionInv, netVars
<1> QED
  BY <1>1, <1>3, <1>4, <1>5, QuietThreadInv DEF netVars, mainVars, SessionPc

\* Only a thread that serves a TCP client calls recv.
LEMMA TcpSession ==
  ASSUME StackInv, server = "up", NEW w \in Slot, wproto[w] = 1, wpc[w] \in InDialogue
  PROVE  sock[w].proto = "tcp" /\ wpeer[w] \in Client
<1> USE DEF StackInv
<1>1. sock[w] # Closed
  BY DEF SessionInv, LiveInv, ThreadInv, InDialogue, OpenPc
<1>2. sock[w].proto = "tcp"
  <2>1. sock[w] = Bound("tcp", w)
    BY <1>1 DEF ThreadClaims
  <2> QED
    BY <2>1 DEF Bound
<1>3. wpeer[w] # None /\ wpeer[w] \in Client \cup {None}
  BY <1>2 DEF SessionInv, LiveInv, ThreadInv, TypeOK, ServerTypeOK, ThreadTypeOK
<1> QED
  BY <1>2, <1>3

LEMMA ServeInv ==
  ASSUME StackInv, NEW w \in Slot, ServeTcp(w) \/ ServeUdp(w)
  PROVE  StackInv' /\ StackStep
<1> USE DEF StackInv
<1>1. UNCHANGED stackVars /\ (SessionTcp(w) \/ SessionUdp(w))
  BY DEF ServeTcp, ServeUdp
<1>2. wpc \in [Slot -> WorkerPc] /\ flag \in {0, 1} /\ SocketTypeOK(Slot)
  BY DEF TypeOK, StackTypeOK, ServerTypeOK, MainTypeOK
<1>3. CASE CallRecv(w)
  BY <1>1, <1>2, <1>3, ProceedInv DEF CallRecv
<1>4. CASE RecvTcpEnd(w)
  BY <1>1, <1>4, ProceedInv DEF RecvTcpEnd, StreamEnd
<1>5. CASE wproto[w] = 1 /\ RecvTcp(w)
  <2>1. sock[w].proto = "tcp" /\ wpeer[w] \in Client
    BY <1>5, TcpSession DEF RecvTcp, InDialogue
  <2>2. /\ server = "up" /\ wpc[w] = "recv" /\ Goto(w, "send")
        /\ UNCHANGED <<server, mainq, sock, mainVars>>
    BY <1>5 DEF RecvTcp
  <2>3. ServerTypeOK' /\ ClientTypeOK'
    BY <1>1, <2>1, SessionType DEF TypeOK
  <2>4. /\ wpc'[w] = "send" /\ \A v \in Slot \ {w} : wpc'[v] = wpc[v]
        /\ wpc' \in [Slot -> WorkerPc]
    BY <1>2, <2>2 DEF Goto, WorkerPc
  <2>5. LiveInv'
    BY <1>2, <1>5, <2>1, <2>2, RecvTcpInv DEF SessionInv, TypeOK
  <2> QED
    BY <1>1, <2>2, <2>3, <2>4, <2>5, QuietThreadInv DEF mainVars, SessionPc
<1>6. CASE RecvUdp(w) \/ Send(w)
  <2>1. /\ server = "up" /\ wpc[w] \in {"recv", "send"}
        /\ UNCHANGED <<server, mainq, sock, mainVars>>
    BY <1>6 DEF RecvUdp, Send
  <2>2. PICK pc \in {"send", "session", "close"} : Goto(w, pc)
    BY <1>6 DEF RecvUdp, Send
  <2>3. ~RecvTcp(w)
    <3>1. CASE Send(w)
      BY <3>1 DEF Send, RecvTcp
    <3>2. CASE RecvUdp(w)
      <4>1. dgrams[w] # <<>> /\ dgrams' = [dgrams EXCEPT ![w] = Tail(@)]
        BY <3>2 DEF RecvUdp
      <4>2. Len(Tail(dgrams[w])) = Len(dgrams[w]) - 1 /\ Len(dgrams[w]) \in Nat
        BY <1>2, <4>1, QueueHead DEF SocketTypeOK
      <4>3. dgrams'[w] # dgrams[w]
        <5>1. dgrams'[w] = Tail(dgrams[w])
          BY <1>2, <4>1 DEF SocketTypeOK
        <5>2. Len(Tail(dgrams[w])) # Len(dgrams[w])
          BY <4>2
        <5> QED
          BY <5>1, <5>2
      <4> QED
        BY <4>3 DEF RecvTcp
    <3> QED
      BY <1>6, <3>1, <3>2
  <2>4. ServerTypeOK' /\ ClientTypeOK'
    BY <1>1, <2>3, SessionType DEF TypeOK
  <2>5. /\ wpc'[w] = pc /\ \A v \in Slot \ {w} : wpc'[v] = wpc[v]
        /\ wpc' \in [Slot -> WorkerPc]
    BY <1>2, <2>2 DEF Goto, WorkerPc
  <2>6. LiveInv'
    BY <1>2, <1>6, <2>1, RecvUdpInv, SendInv DEF SessionInv, TypeOK
  <2> QED
    BY <1>1, <2>1, <2>4, <2>5, <2>6, QuietThreadInv DEF mainVars, SessionPc
<1>7. CASE Close(w)
  <2>1. /\ server = "up" /\ wpc[w] = "close" /\ Goto(w, "release")
        /\ sock' = [sock EXCEPT ![w] = Closed]
        /\ UNCHANGED <<server, mainq, mainVars>>
    BY <1>7 DEF Close
  <2>2. ServerTypeOK' /\ ClientTypeOK'
    BY <1>1, <2>1, SessionType DEF TypeOK, RecvTcp
  <2>3. /\ wpc'[w] = "release" /\ \A v \in Slot \ {w} : wpc'[v] = wpc[v]
        /\ wpc' \in [Slot -> WorkerPc]
    BY <1>2, <2>1 DEF Goto, WorkerPc
  <2>4. sock'[w] = Closed /\ \A v \in Slot \ {w} : sock'[v] = sock[v]
    BY <1>2, <2>1 DEF SocketTypeOK
  <2>5. LiveInv'
    BY <1>2, <1>7, <2>1, CloseInv DEF SessionInv, TypeOK
  <2> QED
    BY <1>1, <2>1, <2>2, <2>3, <2>4, <2>5, QuietThreadInv DEF mainVars, SessionPc
<1> QED
  BY <1>3, <1>4, <1>5, <1>6, <1>7 DEF ServeTcp, ServeUdp, SessionTcp, SessionUdp

\* The thread is done with its client, and looks for the next.
LEMMA ReleaseInv == ASSUME StackInv, NEW w \in Slot, Release(w) PROVE StackInv' /\ StackStep
<1> USE DEF StackInv
<1>1. /\ server = "up" /\ wpc[w] = "release" /\ flag_client' = flag_client + 1
      /\ wproto' = [wproto EXCEPT ![w] = 0]
      /\ Goto(w, "loop")
      /\ UNCHANGED <<netVars, clientVars, flag, interrupts, locked, mpc, ready, join, wpeer, wbuf,
                     stack_array, cout_stack, client_udp, lost>>
  BY DEF Release
<1>2. /\ wpc \in [Slot -> WorkerPc] /\ wproto \in [Slot -> 0 .. 2] /\ flag_client \in Int
      /\ stack_array \in [StackIndex -> Entry] /\ lost \in Nat /\ MainTypeOK
  BY DEF TypeOK, StackTypeOK, ServerTypeOK, MainTypeOK
<1>3. /\ wpc'[w] = "loop" /\ (\A v \in Slot \ {w} : wpc'[v] = wpc[v])
      /\ wpc' \in [Slot -> WorkerPc]
      /\ wproto'[w] = 0 /\ (\A v \in Slot \ {w} : wproto'[v] = wproto[v])
      /\ wproto' \in [Slot -> 0 .. 2]
  BY <1>1, <1>2 DEF Goto, WorkerPc
<1>4. sock[w] = Closed /\ sock' = sock
  BY <1>1 DEF SessionInv, LiveInv, ThreadInv, OpenPc, netVars
<1>5. ServerTypeOK' /\ ClientTypeOK'
  <2>1. flag_client' \in Int
    BY <1>1, <1>2
  <2>2. MainTypeOK'
    BY <1>1, <1>2, <2>1 DEF MainTypeOK
  <2> QED
    BY <1>1, <2>2, NetKept, ThreadKept, ClientKept DEF TypeOK, ServerTypeOK
<1>6. Waiting' = Waiting /\ Filled' = Filled
  BY <1>1 DEF Waiting, Filled
<1>7. w \in InSession /\ InSession' = InSession \ {w}
  BY <1>1, <1>3 DEF InSession
<1>8. SlotAccounting'
  <2>1. IsFiniteSet(InSession) /\ Cardinality(InSession) \in Nat /\ Cardinality(Waiting) \in Nat
    BY SlotFinite, IndexFinite DEF InSession, Waiting
  <2>2. Cardinality(InSession') = Cardinality(InSession) - 1
    BY <1>7, <2>1, FS_RemoveElement
  <2> QED
    BY <1>1, <1>2, <1>6, <2>1, <2>2, LengthAssumption DEF SlotAccounting
<1>9. StackFilled'
  BY <1>1, <1>6 DEF StackFilled
<1>10. ThreadClaims'
  <2>1. ASSUME NEW v \in Slot
        PROVE  /\ wpc'[v] \in {"loop", "claim", "exited"} <=> wproto'[v] = 0
               /\ wpc'[v] = "accept" => wproto'[v] = 1
               /\ sock'[v] # Closed => sock'[v] = Bound(IF wproto'[v] = 1 THEN "tcp" ELSE "udp", v)
    <3>1. CASE v = w
      BY <1>3, <1>4, <3>1
    <3>2. CASE v # w
      BY <1>3, <1>4, <3>2 DEF ThreadClaims
    <3> QED
      BY <3>1, <3>2
  <2> QED
    BY <1>1, <2>1 DEF ThreadClaims
<1>11. ClaimOnStack'
  BY <1>1, <1>3 DEF ClaimOnStack
<1>12. TableInv' /\ StackStep
  <2>1. Stack!Finish(w)
    BY <1>1, <1>6, <1>7 DEF Stack!Finish
  <2> QED
    BY <1>8, <1>9, <1>10, <1>11, <2>1 DEF TableInv, StackStep, Stack!Next
<1>13. LiveInv'
  BY <1>1, <1>3, QuietInv DEF SessionInv, OpenPc, netVars
<1> QED
  BY <1>1, <1>2, <1>3, <1>5, <1>12, <1>13, ThreadFrame DEF netVars

LEMMA WorkerStepInv ==
  ASSUME StackInv, NEW w \in Slot, WorkerStep(w)
  PROVE  StackInv' /\ StackStep
<1>1. CASE AcceptFails(w)
  BY <1>1, AcceptErrorInv DEF AcceptFails
<1>2. CASE OpenFails(w)
  BY <1>2, EndInv DEF OpenFails
<1> QED
  BY <1>1, <1>2, LoopInv, ClaimInv, OpenTcpInv, OpenUdpInv, AcceptClientInv, ServeInv, ReleaseInv
     DEF WorkerStep

-----------------------------------------------------------------------------
(* ... Ctrl+C and the clients. *)

LEMMA InterruptInv == StackInv /\ Interrupt => StackInv' /\ StackStep
<1> SUFFICES ASSUME StackInv, Interrupt PROVE StackInv' /\ StackStep
  OBVIOUS
<1>1. CASE \E w \in Slot : InterruptAccept(w)
  BY <1>1, AcceptErrorInv DEF InterruptAccept, Signal
<1>2. CASE /\ InterruptMain \/ InterruptRunning \/ \E w \in Slot : InterruptRecv(w)
           /\ UNCHANGED stackVars
  <2> USE DEF StackInv
  <2>1. /\ server = "up" /\ flag' = 0 /\ Signal
        /\ UNCHANGED <<netVars, clientVars, flag_client, locked, ready, join, wpeer, wbuf, stackVars>>
    BY <1>2 DEF InterruptMain, InterruptRunning, InterruptRecv, Signal, mainVars, threadVars
  <2>2. wpc \in [Slot -> WorkerPc]
    BY DEF TypeOK, StackTypeOK
  <2>3. ServerTypeOK' /\ ClientTypeOK'
    BY <1>2, InterruptType DEF TypeOK
  <2>4. mpc' = mpc \/ (mpc = "select" /\ mpc' = "loop")
    BY <1>2 DEF InterruptMain, InterruptRunning, InterruptRecv, mainVars
  <2>5. wpc' = wpc \/ \E w \in Slot : wpc[w] = "recv" /\ Goto(w, "close")
    BY <1>2 DEF InterruptMain, InterruptRunning, InterruptRecv, threadVars
  <2>6. wpc' \in [Slot -> WorkerPc]
        /\ \A w \in Slot : wpc'[w] = wpc[w] \/ (wpc[w] \in SessionPc /\ wpc'[w] \in SessionPc)
    BY <2>2, <2>5 DEF Goto, WorkerPc, SessionPc
  <2>7. TypeOK'
    BY <2>1, <2>3, <2>4, <2>6 DEF TypeOK, StackTypeOK, stackVars
  <2>8. MainInv'
    BY <2>1, <2>4 DEF MainInv, netVars
  <2>9. TableInv' /\ StackStep
    BY <2>1, <2>6, TableFrame DEF TableInv, netVars
  <2>10. LiveInv'
    <3>1. CASE wpc' = wpc
      BY <2>1, <3>1, QuietInv DEF SessionInv, netVars
    <3>2. CASE \E w \in Slot : wpc[w] = "recv" /\ Goto(w, "close")
      <4>1. PICK w \in Slot : wpc[w] = "recv" /\ Goto(w, "close")
        BY <3>2
      <4> QED
        BY <2>1, <2>2, <4>1, MoveInv DEF SessionInv, netVars
    <3> QED
      BY <2>5, <3>1, <3>2
  <2> QED
    BY <2>7, <2>8, <2>9, <2>10 DEF TableInv, SessionInv
<1> QED
  BY <1>1, <1>2 DEF Interrupt

LEMMA ClientsStepInv ==
  ASSUME StackInv, NEW c \in Client, ClientStep(c) \/ UserStep(c), ClientKeeps
  PROVE  StackInv' /\ StackStep
<1> USE DEF StackInv
<1>1. UNCHANGED <<flag, interrupts, flag_client, locked, mpc, ready, wpc, wpeer, wbuf,
                  serverVars, stackVars>>
  BY DEF ClientKeeps, serverVars, mainVars, threadVars
<1>2. /\ UNCHANGED <<server, sock>>
      /\ mainq'["tcp"] \in Seq(TcpClient) /\ mainq'["udp"] \in Seq(UdpClient)
      /\ \A p \in {"tcp", "udp"} : mainq[p] # <<>> => mainq'[p] # <<>>
  BY ClientFrame, QueueTyped DEF TypeOK, ServerTypeOK, SocketTypeOK, MainInv
<1>3. TypeOK'
  BY <1>1, ClientsType, StackKept DEF TypeOK
<1>4. MainInv'
  BY <1>1, <1>2 DEF MainInv, TypeOK, ServerTypeOK, MainTypeOK
<1>5. TableInv' /\ StackStep
  BY <1>1, <1>2, TableFrame DEF TableInv
<1>6. SessionInv'
  BY <1>1, <1>2, ClientsInv DEF SessionInv, TypeOK
<1> QED
  BY <1>3, <1>4, <1>5, <1>6 DEF TableInv

LEMMA StutterInv == StackInv /\ UNCHANGED vars => StackInv' /\ StackStep
<1> SUFFICES ASSUME StackInv, UNCHANGED vars PROVE StackInv' /\ StackStep
  OBVIOUS
<1> USE DEF StackInv
<1>1. UNCHANGED <<netVars, clientVars, serverVars, stackVars, flag, flag_client, locked, mpc,
                  ready, wpc, wpeer, wbuf>>
  BY DEF vars, serverVars, mainVars, threadVars
<1>2. TypeOK'
  BY <1>1, AllKept, StackKept DEF TypeOK
<1>3. MainInv'
  BY <1>1, MainFrame DEF TypeOK, ServerTypeOK, MainTypeOK, netVars
<1>4. TableInv' /\ StackStep
  BY <1>1, TableFrame DEF TableInv, netVars
<1>5. SessionInv'
  BY <1>1, QuietInv DEF SessionInv, netVars
<1> QED
  BY <1>2, <1>3, <1>4, <1>5 DEF TableInv

LEMMA NextStackInv == StackInv /\ [Next]_vars => StackInv' /\ StackStep
<1> SUFFICES ASSUME StackInv, [Next]_vars PROVE StackInv' /\ StackStep
  OBVIOUS
<1> QED
  BY MainStepInv, WorkerStepInv, InterruptInv, ClientsStepInv, StutterInv DEF Next

-----------------------------------------------------------------------------
(* The way of a TCP client from port 8080 to its thread: what RedirectInv   *)
(* depends on, part by part. *)

LEMMA MutexFrame ==
  ASSUME MutexInv, locked' = locked,
         \A w \in Slot : wpc'[w] = "accept" <=> wpc[w] = "accept"
  PROVE  MutexInv'
  BY DEF MutexInv

\* A client that comes to no new place; the queue may have moved up by m and
\* the stack down by n.
LEMMA VisitFrame ==
  ASSUME NEW c, VisitInv(c), NEW m \in Nat, NEW n \in Nat, StackIndex \subseteq Int,
         \A k \in Queue' : Queued(c, k)' => Queued(c, k + m),
         \A i \in StackIndex : Holds(c, i)' => Holds(c, i + n),
         cpc'[c] = "start" => cpc[c] = "start" /\ toCli'[c] = toCli[c]
  PROVE  VisitInv(c)' /\ (Absent(c) => Absent(c)')
<1>1. ASSUME NEW k \in Queue', NEW l \in Queue', Queued(c, k)', Queued(c, l)' PROVE k = l
  <2>1. k + m = l + m
    BY <1>1 DEF VisitInv, Queued
  <2>2. k \in Int /\ l \in Int
    BY <1>1 DEF Queue
  <2> QED
    BY <2>1, <2>2
<1>2. ASSUME NEW i \in StackIndex, NEW j \in StackIndex, Holds(c, i)', Holds(c, j)' PROVE i = j
  <2>1. i + n = j + n
    BY <1>2 DEF VisitInv, Holds
  <2>2. i \in Int /\ j \in Int
    OBVIOUS
  <2> QED
    BY <2>1, <2>2
<1>3. ASSUME NEW k \in Queue', NEW i \in StackIndex, Queued(c, k)' PROVE ~Holds(c, i)'
  BY <1>3 DEF VisitInv, Queued, Holds
<1>4. ASSUME Absent(c) PROVE Absent(c)'
  BY <1>4 DEF Absent, Queued, Holds
<1> QED
  BY <1>1, <1>2, <1>3, <1>4 DEF VisitInv

\* The places of the clients stay as they are.
LEMMA SamePlaces ==
  ASSUME NEW c, VisitInv(c), UNCHANGED <<mainq, stack_array>>,
         cpc'[c] = "start" => cpc[c] = "start" /\ toCli'[c] = toCli[c]
  PROVE  VisitInv(c)' /\ (Absent(c)' <=> Absent(c))
  BY DEF VisitInv, Absent, Queued, Holds, Queue

\* No connection, and none that waits, is new.
LEMMA ConnectFrame ==
  ASSUME ConnectInv, accepted' \subseteq TcpClient, conn' = conn,
         \A w \in Slot : backlog'[w] = backlog[w] \/ backlog'[w] = <<>>,
         \A c \in TcpClient : Before(c)' => Before(c)
  PROVE  ConnectInv'
<1>1. \A e \in conn : e[1] \in TcpClient /\ ~Before(e[1])'
  BY DEF ConnectInv
<1>2. \A w \in Slot : \A k \in Guests(w)' :
        k \in Guests(w) /\ backlog'[w][k] = backlog[w][k]
  BY DEF Guests
<1>3. ASSUME NEW w \in Slot, NEW k \in Guests(w)'
      PROVE  /\ backlog'[w][k] \in TcpClient
             /\ \A e \in conn : e[1] # backlog'[w][k]
             /\ \A v \in Slot : \A l \in Guests(v)' :
                  backlog'[v][l] = backlog'[w][k] => v = w /\ l = k
  <2>1. k \in Guests(w) /\ backlog'[w][k] = backlog[w][k]
    BY <1>2
  <2>2. \A v \in Slot : \A l \in Guests(v)' :
          backlog'[v][l] = backlog'[w][k] => v = w /\ l = k
    BY <1>2, <2>1 DEF ConnectInv
  <2> QED
    BY <2>1, <2>2 DEF ConnectInv
<1> QED
  BY <1>1, <1>3 DEF ConnectInv

\* The thread goes on waiting for its client while its claim stands.
LEMMA AwaitedFrame ==
  ASSUME NEW c, NEW w, AwaitedBy(c, w), stack_array' = stack_array, wpc'[w] = "accept"
  PROVE  AwaitedBy(c, w)'
  BY DEF AwaitedBy, FirstClaimed

\* While the mutex is free nobody is waited for, so nobody has been redirected.
LEMMA NobodyAwaited ==
  ASSUME MutexInv, ~locked
  PROVE  \A w \in Slot : wpc[w] # "accept" /\ \A c : ~AwaitedBy(c, w)
  BY DEF MutexInv, AwaitedBy

\* A step under the mutex that redirects nobody, and refuses at most a client
\* that leaves the queue.
LEMMA UnderMutex ==
  ASSUME AwaitInv, MutexInv, ~locked, UNCHANGED <<server, flag, cpc, cbuf>>,
         toCli \in [Client -> Seq(Message)],
         \A w \in Slot : wpc'[w] # "accept",
         \A c \in TcpClient : Absent(c) => Absent(c)',
         \A c \in TcpClient : AtMain(c) =>
           \/ toCli'[c] = toCli[c]
           \/ toCli'[c] = Append(toCli[c], Msg(LIMIT, 0)) /\ ~Absent(c) /\ Absent(c)'
  PROVE  AwaitInv'
<1> SUFFICES ASSUME server = "up", flag = 1 PROVE AwaitInv'
  BY DEF AwaitInv
<1>1. ASSUME NEW c \in TcpClient PROVE cpc[c] # "redirected"
  BY NobodyAwaited DEF AwaitInv
<1>2. ASSUME NEW c \in TcpClient, AtMain(c), toCli'[c] # <<>>
      PROVE  Head(toCli'[c]).sign = LIMIT /\ Absent(c)'
  <2>1. toCli[c] = <<>> \/ (Head(toCli[c]).sign = LIMIT /\ Absent(c))
    BY <1>2, NobodyAwaited DEF AwaitInv
  <2>2. CASE toCli'[c] = toCli[c]
    BY <1>2, <2>1, <2>2
  <2>3. CASE toCli'[c] = Append(toCli[c], Msg(LIMIT, 0)) /\ ~Absent(c) /\ Absent(c)'
    <3>1. toCli[c] = <<>>
      BY <2>1, <2>3
    <3>2. Head(toCli'[c]) = Msg(LIMIT, 0)
      BY <2>3, <3>1
    <3> QED
      BY <2>3, <3>2 DEF Msg
  <2> QED
    BY <1>2, <2>2, <2>3
<1> QED
  BY <1>1, <1>2 DEF AwaitInv, AtMain

\* A step that moves no client and no element, and in which nobody begins or
\* ends to wait in accept.
LEMMA QuietRedirect ==
  ASSUME RedirectInv, UNCHANGED <<mainq, accepted, conn, cpc, cbuf, stack_array, locked>>,
         server' = "up" => server = "up", flag' = 1 => flag = 1,
         \A w \in Slot : wpc'[w] = "accept" <=> wpc[w] = "accept",
         \A w \in Slot : backlog'[w] = backlog[w] \/ backlog'[w] = <<>>,
         \A c \in TcpClient : toCli'[c] = toCli[c] \/ AtSession(c) \/ cpc[c] = "done"
  PROVE  RedirectInv'
<1>1. MutexInv'
  BY MutexFrame DEF RedirectInv
<1>2. ASSUME NEW c \in TcpClient PROVE VisitInv(c)' /\ (Absent(c)' <=> Absent(c))
  BY <1>2, SamePlaces DEF RedirectInv, AtSession
<1>3. server' = "up" => ConnectInv'
  BY ConnectFrame DEF RedirectInv, ConnectInv, Before
<1>4. ASSUME AwaitInv PROVE AwaitInv'
  <2> SUFFICES ASSUME server' = "up", flag' = 1 PROVE AwaitInv'
    BY DEF AwaitInv
  <2>1. \A c, w : w \in Slot /\ AwaitedBy(c, w) => AwaitedBy(c, w)'
    BY AwaitedFrame DEF AwaitedBy
  <2>2. ASSUME NEW c \in TcpClient, AtMain(c)', toCli'[c] # <<>>
        PROVE  \/ Head(toCli'[c]).sign = LIMIT /\ Absent(c)'
               \/ \E w \in Slot : toCli'[c] = <<Msg(REDIRECT, w)>> /\ AwaitedBy(c, w)'
    <3>1. AtMain(c) /\ toCli'[c] = toCli[c]
      BY <2>2 DEF AtMain, AtSession
    <3> QED
      BY <1>2, <1>4, <2>1, <2>2, <3>1 DEF AwaitInv
  <2>3. ASSUME NEW c \in TcpClient, cpc'[c] = "redirected"
        PROVE  \E w \in Slot : cbuf'[c] = Msg(REDIRECT, w) /\ AwaitedBy(c, w)'
    BY <1>4, <2>1, <2>3 DEF AwaitInv
  <2>4. ASSUME NEW w \in Slot, wpc'[w] = "accept", NEW k \in Guests(w)'
        PROVE  AwaitedBy(backlog[w][k], w)' /\ backlog'[w][k] = backlog[w][k]
    <3>1. k \in Guests(w) /\ backlog'[w] = backlog[w]
      BY <2>4 DEF Guests
    <3>2. AwaitedBy(backlog[w][k], w)
      BY <1>4, <2>4, <3>1 DEF AwaitInv
    <3>3. \A d : AwaitedBy(d, w) => AwaitedBy(d, w)'
      BY <2>1
    <3> QED
      BY <3>1, <3>2, <2>4 DEF AwaitedBy, FirstClaimed
  <2> QED
    BY <2>2, <2>3, <2>4 DEF AwaitInv, AwaitedBy, FirstClaimed
<1> QED
  BY <1>1, <1>2, <1>3, <1>4 DEF RedirectInv

\* A locked section that moves elements or takes a client from a queue.
LEMMA LockedSection ==
  ASSUME RedirectInv, ~locked, server = "up", toCli \in [Client -> Seq(Message)],
         UNCHANGED <<server, flag, locked, cpc, cbuf, backlog, conn>>,
         accepted' \subseteq accepted \cup TcpClient,
         \A w \in Slot : wpc'[w] = "accept" <=> wpc[w] = "accept",
         \A c \in TcpClient : VisitInv(c)' /\ (Absent(c) => Absent(c)'),
         \A c \in TcpClient : AtMain(c) =>
           \/ toCli'[c] = toCli[c]
           \/ toCli'[c] = Append(toCli[c], Msg(LIMIT, 0)) /\ ~Absent(c) /\ Absent(c)'
  PROVE  RedirectInv'
<1>1. MutexInv'
  BY MutexFrame DEF RedirectInv
<1>2. ConnectInv'
  BY ConnectFrame DEF RedirectInv, ConnectInv, Before
<1>3. \A w \in Slot : wpc'[w] # "accept"
  BY NobodyAwaited DEF RedirectInv
<1>4. AwaitInv => AwaitInv'
  BY <1>3, UnderMutex DEF RedirectInv
<1> QED
  BY <1>1, <1>2, <1>4 DEF RedirectInv

-----------------------------------------------------------------------------
(* ... the steps of main() ... *)

\* After TakeNext everyone but the first in the queue is one place nearer.
LEMMA TakenQueue ==
  ASSUME StackInv, TakeNext
  PROVE  IF Now = "tcp"
         THEN /\ Head(mainq["tcp"]) \in TcpClient /\ Queued(Head(mainq["tcp"]), 1)
              /\ \A c : \A k \in Queue' : Queued(c, k)' => Queued(c, k + 1) /\ k + 1 # 1
         ELSE \A c : \A k \in Queue' : Queued(c, k)' => Queued(c, k + 0)
<1> USE DEF StackInv, TypeOK, ServerTypeOK
<1>1. CASE Now = "tcp"
  <2>1. /\ mainq["tcp"] \in Seq(TcpClient) /\ mainq["tcp"] # <<>>
        /\ mainq'["tcp"] = Tail(mainq["tcp"])
    BY <1>1 DEF TakeNext, MainInv, SocketTypeOK
  <2>2. /\ Head(mainq["tcp"]) \in TcpClient /\ Head(mainq["tcp"]) = mainq["tcp"][1]
        /\ Len(mainq["tcp"]) \in Nat /\ Len(mainq["tcp"]) > 0
        /\ \A k \in 1 .. Len(Tail(mainq["tcp"])) :
             /\ k + 1 \in 1 .. Len(mainq["tcp"]) /\ k + 1 # 1
             /\ Tail(mainq["tcp"])[k] = mainq["tcp"][k + 1]
    BY <2>1, QueueHead
  <2> QED
    BY <1>1, <2>1, <2>2 DEF Queued, Queue
<1>2. CASE Now # "tcp"
  <2>1. mainq'["tcp"] = mainq["tcp"]
    BY <1>2 DEF TakeNext, SocketTypeOK, Now
  <2>2. \A k \in Queue : k + 0 = k
    BY DEF Queue
  <2> QED
    BY <1>2, <2>1, <2>2 DEF Queued, Queue
<1> QED
  BY <1>1, <1>2

\* The element main() stores into was free.
LEMMA PushHolds ==
  ASSUME StackInv, NEW kind \in {1, 2}, NEW fd \in TcpClient \cup {None}, Push(kind, fd),
         kind = 2 => fd = None
  PROVE  \A c \in TcpClient, i \in StackIndex :
           Holds(c, i)' => Holds(c, i) \/ (i = cout_stack /\ kind = 1 /\ c = fd)
<1>1. ASSUME NEW c \in TcpClient, NEW i \in StackIndex, Holds(c, i)', i = cout_stack
      PROVE  kind = 1 /\ c = fd
  <2>1. stack_array[i] = Blank
    BY <1>1, IndexFinite DEF StackInv, StackFilled
  <2>2. stack_array'[i] = [Blank EXCEPT !.status = 1, !.status_tcp_udp = kind,
                                        !.fd_client = IF kind = 1 THEN fd ELSE @]
    BY <1>1, <2>1 DEF Push
  <2>3. c = IF kind = 1 THEN fd ELSE None
    BY <1>1, <2>2 DEF Holds, Blank
  <2> QED
    BY <2>3, ClientAssumption
<1>2. ASSUME NEW c \in TcpClient, NEW i \in StackIndex, Holds(c, i)', i # cout_stack
      PROVE  Holds(c, i)
  BY <1>2 DEF Push, Holds
<1> QED
  BY <1>1, <1>2

LEMMA AdmitRedirect ==
  ASSUME StackInv, RedirectInv, AdmitTcp \/ AdmitUdp
  PROVE  RedirectInv'
<1>1. /\ server = "up" /\ ~locked /\ TakeNext
      /\ UNCHANGED <<server, backlog, conn, toCli, clientVars, flag, locked, threadVars>>
  BY DEF AdmitTcp, AdmitUdp, Admitting
<1>2. toCli \in [Client -> Seq(Message)] /\ StackIndex \subseteq Int
  BY IndexFinite DEF StackInv, TypeOK, ServerTypeOK, SocketTypeOK
<1>3. accepted' \subseteq accepted \cup TcpClient
  BY <1>1, TakenQueue DEF TakeNext
<1>4. ASSUME NEW c \in TcpClient PROVE VisitInv(c)' /\ (Absent(c) => Absent(c)')
  <2>0. VisitInv(c) /\ UNCHANGED <<cpc, toCli>>
    BY <1>1 DEF RedirectInv, clientVars
  <2>1. CASE AdmitUdp
    <3>1. Now # "tcp" /\ Push(2, None)
      BY <2>1 DEF AdmitUdp, Admitting
    <3>2. \A k \in Queue' : Queued(c, k)' => Queued(c, k + 0)
      BY <1>1, <3>1, TakenQueue
    <3>3. \A i \in StackIndex : i + 0 = i
      BY <1>2
    <3>4. \A i \in StackIndex : Holds(c, i)' => Holds(c, i + 0)
      BY <3>1, <3>3, PushHolds
    <3> QED
      BY <1>2, <2>0, <3>2, <3>4, VisitFrame
  <2>2. CASE AdmitTcp
    <3> DEFINE h == Head(mainq["tcp"])
    <3>1. /\ Now = "tcp" /\ Push(1, h) /\ h \in TcpClient /\ Queued(h, 1)
          /\ \A d : \A k \in Queue' : Queued(d, k)' => Queued(d, k + 1) /\ k + 1 # 1
      BY <1>1, <2>2, TakenQueue DEF AdmitTcp, Admitting
    <3>2. \A d \in TcpClient, i \in StackIndex :
            Holds(d, i)' => Holds(d, i) \/ (i = cout_stack /\ d = h)
      BY <3>1, PushHolds
    <3>3. CASE c = h
      <4>1. \A k \in Queue' : ~Queued(c, k)'
        BY <2>0, <3>1, <3>3 DEF VisitInv, Queued
      <4>2. \A i \in StackIndex : ~Holds(c, i)
        BY <2>0, <3>1, <3>3 DEF VisitInv, Queued
      <4>3. cpc[c] # "start" /\ ~Absent(c)
        BY <2>0, <3>1, <3>3 DEF VisitInv, Absent, Queued
      <4>4. \A i \in StackIndex : Holds(c, i)' => i = cout_stack
        BY <3>2, <4>2
      <4> QED
        BY <2>0, <4>1, <4>3, <4>4 DEF VisitInv
    <3>4. CASE c # h
      <4>1. \A i \in StackIndex : i + 0 = i
        BY <1>2
      <4>2. \A i \in StackIndex : Holds(c, i)' => Holds(c, i + 0)
        BY <3>2, <3>4, <4>1
      <4> QED
        BY <1>2, <2>0, <3>1, <4>2, VisitFrame
    <3> QED
      BY <3>3, <3>4
  <2> QED
    BY <2>1, <2>2
<1> QED
  BY <1>1, <1>2, <1>3, <1>4, LockedSection DEF clientVars, threadVars

LEMMA RefuseRedirect ==
  ASSUME StackInv, RedirectInv, RefuseTcp \/ RefuseUdp
  PROVE  RedirectInv'
<1>1. /\ server = "up" /\ ~locked /\ TakeNext
      /\ SendMain(Head(mainq[Now]), Msg(LIMIT, 0))
      /\ UNCHANGED <<server, backlog, conn, clientVars, flag, locked, threadVars, stack_array>>
  BY DEF RefuseTcp, RefuseUdp, Refuse, stackVars
<1>2. toCli \in [Client -> Seq(Message)] /\ StackIndex \subseteq Int
  BY IndexFinite DEF StackInv, TypeOK, ServerTypeOK, SocketTypeOK
<1>3. accepted' \subseteq accepted \cup TcpClient
  BY <1>1, TakenQueue DEF TakeNext
<1>4. Now = "udp" => Head(mainq[Now]) \in UdpClient
  BY <1>1, TakenTyped DEF StackInv, TypeOK, ServerTypeOK
<1>5. ASSUME NEW c \in TcpClient
      PROVE  /\ VisitInv(c)' /\ (Absent(c) => Absent(c)')
             /\ AtMain(c) => \/ toCli'[c] = toCli[c]
                             \/ /\ toCli'[c] = Append(toCli[c], Msg(LIMIT, 0))
                                /\ ~Absent(c) /\ Absent(c)'
  <2>0. VisitInv(c) /\ UNCHANGED <<cpc, stack_array>> /\ c \in Client
    BY <1>1 DEF RedirectInv, clientVars, Client
  <2>1. cpc'[c] = "start" => cpc[c] = "start" /\ toCli'[c] = toCli[c]
    BY <1>1, <1>2, <2>0 DEF SendMain, AtMain
  <2>2. \A i \in StackIndex : i + 0 = i /\ (Holds(c, i)' => Holds(c, i + 0))
    BY <1>2, <2>0 DEF Holds
  <2>3. CASE Now = "udp"
    <3>1. \A k \in Queue' : Queued(c, k)' => Queued(c, k + 0)
      BY <1>1, <2>3, TakenQueue
    <3>2. toCli'[c] = toCli[c]
      BY <1>1, <1>2, <1>4, <2>0, <2>3, ClientAssumption DEF SendMain
    <3> QED
      BY <1>2, <2>0, <2>1, <2>2, <3>1, <3>2, VisitFrame
  <2>4. CASE Now = "tcp"
    <3> DEFINE h == Head(mainq["tcp"])
    <3>1. /\ h \in TcpClient /\ Queued(h, 1)
          /\ \A d : \A k \in Queue' : Queued(d, k)' => Queued(d, k + 1) /\ k + 1 # 1
      BY <1>1, <2>4, TakenQueue
    <3>2. VisitInv(c)' /\ (Absent(c) => Absent(c)')
      BY <1>2, <2>0, <2>1, <2>2, <3>1, VisitFrame
    <3>3. CASE c # h
      BY <1>1, <1>2, <2>0, <2>4, <3>2, <3>3 DEF SendMain
    <3>4. CASE c = h
      <4>1. (\A k \in Queue' : ~Queued(c, k)') /\ ~Absent(c)
        BY <2>0, <3>1, <3>4 DEF VisitInv, Queued, Absent
      <4>2. \A i \in StackIndex : ~Holds(c, i)'
        BY <2>0, <2>2, <3>1, <3>4 DEF VisitInv, Queued
      <4>3. Absent(c)'
        BY <4>1, <4>2 DEF Absent
      <4>4. AtMain(c) => toCli'[c] = Append(toCli[c], Msg(LIMIT, 0))
        BY <1>1, <1>2, <2>0, <2>4, <3>4 DEF SendMain
      <4> QED
        BY <3>2, <4>1, <4>3, <4>4
    <3> QED
      BY <3>3, <3>4
  <2> QED
    BY <2>3, <2>4 DEF Now
<1> QED
  BY <1>1, <1>2, <1>3, <1>5, LockedSection DEF clientVars, threadVars

\* Compaction moves the elements down, and forgets only served ones.
LEMMA CompactRedirect ==
  ASSUME StackInv, RedirectInv, Compact
  PROVE  RedirectInv'
<1>1. PICK n \in 0 .. LENGTH_STACK :
        /\ server = "up" /\ ~locked /\ Shift(n)
        /\ UNCHANGED <<netVars, clientVars, flag, locked, threadVars>>
  BY DEF Compact
<1>2. toCli \in [Client -> Seq(Message)] /\ StackIndex \subseteq Int /\ n \in Nat
  BY IndexFinite, StackAssumption DEF StackInv, TypeOK, ServerTypeOK, SocketTypeOK
<1>3. ASSUME NEW c \in TcpClient PROVE VisitInv(c)' /\ (Absent(c) => Absent(c)')
  <2>1. VisitInv(c) /\ UNCHANGED <<mainq, cpc, toCli>>
    BY <1>1 DEF RedirectInv, netVars, clientVars
  <2>2. \A k \in Queue' : Queued(c, k)' => Queued(c, k + 0)
    <3>1. \A k \in Queue : k + 0 = k
      BY DEF Queue
    <3> QED
      BY <2>1, <3>1 DEF Queued, Queue
  <2>3. ASSUME NEW i \in StackIndex, Holds(c, i)' PROVE Holds(c, i + n)
    <3>1. stack_array'[i] = IF i + n \in StackIndex THEN stack_array[i + n] ELSE Blank
      BY <1>1 DEF Shift
    <3>2. i + n \in StackIndex
      BY <2>3, <3>1 DEF Holds, Blank
    <3> QED
      BY <2>3, <3>1, <3>2 DEF Holds
  <2> QED
    BY <1>2, <2>1, <2>2, <2>3, VisitFrame
<1>4. accepted' \subseteq accepted \cup TcpClient
  BY <1>1 DEF netVars
<1> QED
  BY <1>1, <1>2, <1>3, <1>4, LockedSection DEF netVars, clientVars, threadVars

LEMMA MainStepRedirect ==
  ASSUME StackInv, RedirectInv, MainStep
  PROVE  RedirectInv'
<1>1. CASE Turn \/ Shutdown \/ MainAcceptFails
  <2>1. /\ UNCHANGED <<mainq, accepted, conn, backlog, toCli, cpc, cbuf, stack_array, locked,
                       flag, wpc>>
        /\ server' = "up" => server = "up"
    BY <1>1 DEF Turn, Shutdown, MainAcceptFails, MainLoop, Select, Check, Join, Return, Fail,
                netVars, clientVars, serverVars, mainVars, threadVars, stackVars
  <2> QED
    BY <2>1, QuietRedirect
<1> QED
  BY <1>1, AdmitRedirect, RefuseRedirect, CompactRedirect DEF MainStep

-----------------------------------------------------------------------------
(* ... of the threads ... *)

\* A locked section of a thread that waits for nobody.
LEMMA ThreadSection ==
  ASSUME StackInv, RedirectInv, ~locked, server = "up",
         UNCHANGED <<server, mainq, accepted, flag, locked, cpc, cbuf, backlog, conn>>,
         NEW w \in Slot, wpc[w] # "accept", NEW pc, Goto(w, pc), pc # "accept",
         \A c \in TcpClient, i \in StackIndex : Holds(c, i)' => Holds(c, i),
         \A c \in TcpClient : toCli'[c] = toCli[c]
  PROVE  RedirectInv'
<1>1. /\ toCli \in [Client -> Seq(Message)] /\ StackIndex \subseteq Int
      /\ wpc \in [Slot -> WorkerPc]
  BY IndexFinite DEF StackInv, TypeOK, ServerTypeOK, SocketTypeOK, StackTypeOK
<1>2. ASSUME NEW c \in TcpClient PROVE VisitInv(c)' /\ (Absent(c) => Absent(c)')
  <2>1. \A i \in StackIndex : i + 0 = i
    BY <1>1
  <2>2. \A k \in Queue' : Queued(c, k)' => Queued(c, k + 0)
    <3>1. \A k \in Queue : k + 0 = k
      BY DEF Queue
    <3> QED
      BY <3>1 DEF Queued, Queue
  <2> QED
    BY <1>1, <2>1, <2>2, VisitFrame DEF RedirectInv
<1>3. \A v \in Slot : wpc'[v] = "accept" <=> wpc[v] = "accept"
  BY <1>1 DEF Goto
<1> QED
  BY <1>1, <1>2, <1>3, LockedSection

LEMMA ClaimRedirect ==
  ASSUME StackInv, RedirectInv, NEW w \in Slot, Claim(w)
  PROVE  RedirectInv'
<1>1. PICK pc \in {"loop", "open"} :
        /\ server = "up" /\ ~locked /\ wpc[w] = "claim" /\ Goto(w, pc)
        /\ UNCHANGED <<server, mainq, accepted, flag, locked, cpc, cbuf, backlog, conn, toCli>>
  BY DEF Claim, Proceed, netVars, clientVars, mainVars
<1>2. ASSUME NEW c \in TcpClient, NEW i \in StackIndex, Holds(c, i)' PROVE Holds(c, i)
  <2>1. stack_array[i] \in Entry
    BY DEF StackInv, TypeOK, StackTypeOK
  <2>2. \/ stack_array'[i] = stack_array[i]
        \/ stack_array'[i] = [stack_array[i] EXCEPT !.id = w]
    BY DEF Claim
  <2> QED
    BY <1>2, <2>1, <2>2 DEF Holds, Entry
<1> QED
  BY <1>1, <1>2, ThreadSection

\* Nothing is put on the stack when a thread marks an element.
LEMMA MarkedHolds ==
  ASSUME StackInv, NEW w \in Slot, MarkServed(w)
  PROVE  \A c \in TcpClient, i \in StackIndex : Holds(c, i)' => Holds(c, i)
<1> SUFFICES ASSUME NEW c \in TcpClient, NEW i \in StackIndex, Holds(c, i)' PROVE Holds(c, i)
  OBVIOUS
<1>1. stack_array[i] \in Entry
  BY DEF StackInv, TypeOK, StackTypeOK
<1>2. stack_array'[i] = stack_array[i] \/ stack_array'[i] = Served(stack_array[i])
  BY DEF MarkServed, Served
<1>3. stack_array'[i].status # 2
  BY DEF Holds
<1> QED
  BY <1>1, <1>2, <1>3, ServedEntry DEF Holds

LEMMA OpenUdpRedirect ==
  ASSUME StackInv, RedirectInv, NEW w \in Slot, OpenUdp(w)
  PROVE  RedirectInv'
<1>1. /\ server = "up" /\ ~locked /\ wpc[w] = "open" /\ Goto(w, "session") /\ MarkServed(w)
      /\ SendMain(client_udp, Msg(REDIRECT, w))
      /\ UNCHANGED <<server, mainq, accepted, flag, locked, cpc, cbuf, backlog, conn>>
  BY DEF OpenUdp, Opening, clientVars, mainVars
<1>2. \A c \in TcpClient : toCli'[c] = toCli[c]
  <2>1. client_udp \notin TcpClient /\ toCli \in [Client -> Seq(Message)]
    BY ClientAssumption DEF StackInv, TypeOK, StackTypeOK, ServerTypeOK, SocketTypeOK
  <2> QED
    BY <1>1, <2>1 DEF SendMain, Client
<1> QED
  BY <1>1, <1>2, MarkedHolds, ThreadSection

\* The redirect goes to the client whose element is the first the thread
\* claimed: nothing waits for it yet, since it is on the stack and nobody else
\* awaits it.
LEMMA OpenTcpRedirect ==
  ASSUME StackInv, RedirectInv, NEW w \in Slot, OpenTcp(w)
  PROVE  RedirectInv'
<1> USE DEF StackInv
<1>1. /\ server = "up" /\ ~locked /\ locked' = TRUE /\ wpc[w] = "open" /\ Goto(w, "accept")
      /\ UNCHANGED <<server, mainq, accepted, flag, cpc, cbuf, backlog, conn, stack_array>>
  BY DEF OpenTcp, Opening, clientVars, stackVars
<1>2. PICK i \in StackIndex :
        /\ FirstClaimed(w, i) /\ stack_array[i].fd_client # None
        /\ SendMain(stack_array[i].fd_client, Msg(REDIRECT, w))
  BY DEF OpenTcp
<1> DEFINE h == stack_array[i].fd_client
<1>3. /\ toCli \in [Client -> Seq(Message)] /\ wpc \in [Slot -> WorkerPc]
      /\ stack_array[i] \in Entry
  BY DEF TypeOK, ServerTypeOK, SocketTypeOK, StackTypeOK
<1>4. h \in TcpClient /\ h \in Client /\ Holds(h, i)
  <2>1. stack_array[i].id = w /\ w # NoThread
    BY <1>2, SlotFacts DEF FirstClaimed, NoThread
  <2>2. stack_array[i].status = 1
    BY <2>1 DEF ClaimOnStack
  <2> QED
    BY <1>2, <1>3, <2>2, EntryFields DEF Holds, Client
<1>5. wpc'[w] = "accept" /\ \A v \in Slot \ {w} : wpc'[v] = wpc[v] /\ wpc[v] # "accept"
  BY <1>1, <1>3, NobodyAwaited DEF Goto, RedirectInv
<1>6. MutexInv'
  BY <1>1, <1>5 DEF MutexInv
<1>7. ASSUME NEW c \in TcpClient PROVE VisitInv(c)' /\ (Absent(c)' <=> Absent(c))
  <2>1. cpc'[c] = "start" => cpc[c] = "start" /\ toCli'[c] = toCli[c]
    BY <1>1, <1>2, <1>3 DEF SendMain, AtMain
  <2> QED
    BY <1>1, <2>1, SamePlaces DEF RedirectInv
<1>8. ConnectInv'
  BY <1>1, ConnectFrame DEF RedirectInv, ConnectInv, Before
<1>9. ASSUME AwaitInv PROVE AwaitInv'
  <2> SUFFICES ASSUME flag = 1 PROVE AwaitInv'
    BY <1>1 DEF AwaitInv
  <2>1. \A c \in TcpClient : c = h => AwaitedBy(c, w)'
    BY <1>1, <1>2, <1>5 DEF AwaitedBy, FirstClaimed
  <2>2. ASSUME NEW c \in TcpClient, AtMain(c)', toCli'[c] # <<>>
        PROVE  \/ Head(toCli'[c]).sign = LIMIT /\ Absent(c)'
               \/ toCli'[c] = <<Msg(REDIRECT, w)>> /\ AwaitedBy(c, w)'
    <3>1. AtMain(c) /\ (toCli[c] = <<>> \/ (Head(toCli[c]).sign = LIMIT /\ Absent(c)))
      BY <1>1, <1>9, <2>2, NobodyAwaited DEF AwaitInv, AtMain, RedirectInv
    <3>2. CASE c = h
      <4>1. toCli[c] = <<>>
        BY <1>4, <3>1, <3>2 DEF Absent
      <4>2. toCli'[c] = Append(toCli[c], Msg(REDIRECT, w))
        BY <1>2, <1>3, <1>4, <3>1, <3>2 DEF SendMain
      <4>3. toCli'[c] = <<Msg(REDIRECT, w)>>
        BY <4>1, <4>2
      <4> QED
        BY <2>1, <3>2, <4>3
    <3>3. CASE c # h
      <4>1. toCli'[c] = toCli[c]
        BY <1>2, <1>3, <3>3 DEF SendMain, Client
      <4> QED
        BY <1>7, <2>2, <3>1, <4>1
    <3> QED
      BY <3>2, <3>3
  <2>3. ASSUME NEW c \in TcpClient PROVE cpc'[c] # "redirected"
    BY <1>1, <1>9, NobodyAwaited DEF AwaitInv, RedirectInv
  <2>4. ASSUME NEW v \in Slot, wpc'[v] = "accept" PROVE Guests(v)' = {}
    <3>1. backlog'[v] = <<>>
      BY <1>1, <1>5, <2>4, ClosedEmpty DEF SessionInv, OpenPc
    <3> QED
      BY <3>1 DEF Guests
  <2> QED
    BY <2>2, <2>3, <2>4 DEF AwaitInv
<1> QED
  BY <1>1, <1>6, <1>7, <1>8, <1>9 DEF RedirectInv

\* The client that is accepted is the one whose element the thread marks.
LEMMA AcceptRedirect ==
  ASSUME StackInv, RedirectInv, NEW w \in Slot, Accept(w)
  PROVE  RedirectInv'
<1> USE DEF StackInv
<1> DEFINE h == Head(backlog[w])
<1>1. /\ server = "up" /\ wpc[w] = "accept" /\ backlog[w] # <<>>
      /\ conn' = conn \cup {<<h, w>>} /\ backlog' = [backlog EXCEPT ![w] = Tail(@)]
      /\ MarkServed(w) /\ locked' = FALSE /\ Goto(w, "session")
      /\ UNCHANGED <<server, mainq, accepted, toCli, cpc, cbuf, flag>>
  BY DEF Accept, clientVars
<1>2. /\ wpc \in [Slot -> WorkerPc] /\ backlog \in [Slot -> Seq(Client)]
      /\ StackIndex \subseteq Int
  BY IndexFinite DEF TypeOK, ServerTypeOK, SocketTypeOK, StackTypeOK
<1>3. /\ h \in Client /\ h = backlog[w][1] /\ 1 \in Guests(w)
      /\ \A k \in Guests(w)' : k + 1 \in Guests(w) /\ k + 1 # 1 /\ k \in Int
                               /\ backlog'[w][k] = backlog[w][k + 1]
  BY <1>1, <1>2, QueueHead DEF Guests
<1>4. \A v \in Slot \ {w} : backlog'[v] = backlog[v] /\ Guests(v)' = Guests(v)
  BY <1>1, <1>2 DEF Guests
<1>5. \A v \in Slot : wpc'[v] # "accept"
  BY <1>1, <1>2 DEF Goto, MutexInv, RedirectInv
<1>6. MutexInv'
  BY <1>1, <1>5 DEF MutexInv
<1>7. ASSUME NEW c \in TcpClient PROVE VisitInv(c)' /\ (Absent(c) => Absent(c)')
  <2>1. \A i \in StackIndex : i + 0 = i /\ (Holds(c, i)' => Holds(c, i + 0))
    BY <1>1, <1>2, MarkedHolds
  <2>2. \A k \in Queue' : Queued(c, k)' => Queued(c, k + 0)
    <3>1. \A k \in Queue : k + 0 = k
      BY DEF Queue
    <3> QED
      BY <1>1, <3>1 DEF Queued, Queue
  <2> QED
    BY <1>1, <1>2, <2>1, <2>2, VisitFrame DEF RedirectInv
<1>8. h \in TcpClient /\ ~Before(h) /\ \A e \in conn : e[1] # h
  <2>1. Reached(h, w)
    BY <1>3 DEF Reached, Guests
  <2> QED
    BY <1>1, <1>3, <2>1 DEF SessionInv, LiveInv, ClientInv, PlaceInv, RedirectInv, ConnectInv
<1>9. ConnectInv'
  <2>1. ConnectInv
    BY <1>1 DEF RedirectInv
  <2>2. \A e \in conn' : e[1] \in TcpClient /\ ~Before(e[1])'
    BY <1>1, <1>8, <2>1 DEF ConnectInv, Before
  <2>3. \A e, f \in conn' : e[1] = f[1] => e = f
    BY <1>1, <1>8, <2>1 DEF ConnectInv
  <2>4. ASSUME NEW v \in Slot, NEW k \in Guests(v)'
        PROVE  \E m \in Guests(v) : /\ backlog'[v][k] = backlog[v][m]
                                    /\ m = IF v = w THEN k + 1 ELSE k
                                    /\ v = w => m # 1
                                    /\ k \in Int
    <3>1. CASE v = w
      BY <1>3, <3>1
    <3>2. CASE v # w
      BY <1>4, <3>2 DEF Guests
    <3> QED
      BY <3>1, <3>2
  <2>5. ASSUME NEW v \in Slot, NEW k \in Guests(v)'
        PROVE  /\ backlog'[v][k] \in TcpClient
               /\ \A e \in conn' : e[1] # backlog'[v][k]
               /\ \A u \in Slot : \A l \in Guests(u)' :
                    backlog'[u][l] = backlog'[v][k] => u = v /\ l = k
    <3>1. PICK m \in Guests(v) : /\ backlog'[v][k] = backlog[v][m]
                                 /\ m = IF v = w THEN k + 1 ELSE k
                                 /\ v = w => m # 1
                                 /\ k \in Int
      BY <2>4, <2>5
    <3>2. backlog[v][m] # h
      BY <1>3, <2>1, <3>1 DEF ConnectInv
    <3>3. \A e \in conn' : e[1] # backlog'[v][k]
      <4>1. \A e \in conn : e[1] # backlog[v][m]
        BY <2>1, <3>1 DEF ConnectInv
      <4>2. \A e \in conn' : e \in conn \/ e[1] = h
        BY <1>1
      <4> QED
        BY <3>1, <3>2, <4>1, <4>2
    <3>4. ASSUME NEW u \in Slot, NEW l \in Guests(u)', backlog'[u][l] = backlog'[v][k]
          PROVE  u = v /\ l = k
      <4>1. PICK n \in Guests(u) : /\ backlog'[u][l] = backlog[u][n]
                                   /\ n = IF u = w THEN l + 1 ELSE l
                                   /\ l \in Int
        BY <2>4, <3>4
      <4>2. u = v /\ n = m
        BY <2>1, <3>1, <3>4, <4>1 DEF ConnectInv
      <4> QED
        BY <3>1, <4>1, <4>2
    <3> QED
      BY <2>1, <3>1, <3>3, <3>4 DEF ConnectInv
  <2> QED
    BY <1>1, <2>1, <2>2, <2>3, <2>5 DEF ConnectInv
<1>10. ASSUME AwaitInv PROVE AwaitInv'
  <2> SUFFICES ASSUME flag = 1 PROVE AwaitInv'
    BY <1>1 DEF AwaitInv
  <2>1. ASSUME NEW c, NEW v \in Slot, AwaitedBy(c, v) PROVE c = h
    <3>1. v = w
      BY <1>1, <2>1 DEF AwaitedBy, RedirectInv, MutexInv
    <3>2. AwaitedBy(h, w)
      BY <1>1, <1>3, <1>10 DEF AwaitInv
    <3> QED
      BY <2>1, <3>1, <3>2, OneFirst DEF AwaitedBy
  <2>2. ASSUME NEW c \in TcpClient, AtMain(c)', toCli'[c] # <<>>
        PROVE  Head(toCli'[c]).sign = LIMIT /\ Absent(c)'
    <3>1. \A v \in Slot : ~AwaitedBy(c, v)
      BY <1>1, <1>8, <2>1, <2>2 DEF AtMain, Before
    <3> QED
      BY <1>1, <1>7, <1>10, <2>2, <3>1 DEF AwaitInv, AtMain
  <2>3. ASSUME NEW c \in TcpClient PROVE cpc'[c] # "redirected"
    BY <1>1, <1>8, <1>10, <2>1 DEF AwaitInv, Before
  <2> QED
    BY <1>5, <2>2, <2>3 DEF AwaitInv
<1> QED
  BY <1>1, <1>6, <1>7, <1>9, <1>10 DEF RedirectInv

\* The server holds at most two connections of a TCP client, and a serving
\* socket of each thread: it closes none of the former (create_server.c).
LEMMA FewDescriptors ==
  ASSUME SocketTypeOK(Slot), ConnectInv
  PROVE  OpenFds \in Nat /\ OpenFds <= 2 * Cardinality(TcpClient) + LENGTH_CLIENT
<1>1. IsFiniteSet(TcpClient) /\ Cardinality(TcpClient) \in Nat
  BY ClientAssumption, FS_CardinalityType
<1>2. Cardinality(accepted) \in Nat /\ Cardinality(accepted) <= Cardinality(TcpClient)
  BY <1>1, FS_Subset, FS_CardinalityType DEF ConnectInv
<1>3. Cardinality(conn) \in Nat /\ Cardinality(conn) <= Cardinality(TcpClient)
  <2> DEFINE f == [e \in conn |-> e[1]]
  <2>1. f \in [conn -> TcpClient] /\ \A d, e \in conn : f[d] = f[e] => d = e
    BY DEF ConnectInv
  <2>2. f \in Injection(conn, TcpClient)
    BY <2>1 DEF Injection, IsInjective
  <2> QED
    BY <1>1, <2>2, FS_Injection, FS_CardinalityType
<1>4. LET S == {x \in DOMAIN sock : sock[x] # Closed}
      IN Cardinality(S) \in Nat /\ Cardinality(S) <= LENGTH_CLIENT
  <2> DEFINE S == {x \in DOMAIN sock : sock[x] # Closed}
  <2>1. S \subseteq Slot
    BY DEF SocketTypeOK
  <2>2. IsFiniteSet(Slot) /\ Cardinality(Slot) = LENGTH_CLIENT
    BY FS_Interval, LengthAssumption DEF Slot
  <2> QED
    BY <2>1, <2>2, FS_Subset, FS_CardinalityType
<1> QED
  BY <1>1, <1>2, <1>3, <1>4, LengthAssumption DEF OpenFds

\* accept() fails only after Ctrl+C, or if there are too few descriptors.
LEMMA AcceptErrorRedirect ==
  ASSUME StackInv, RedirectInv, NEW w \in Slot, AcceptReturnsError(w), server = "up",
         flag' = 0 \/ OpenFds >= FdLimit
  PROVE  RedirectInv'
<1> USE DEF StackInv
<1>1. /\ wpc[w] = "accept" /\ MarkServed(w) /\ locked' = FALSE /\ Goto(w, "close")
      /\ UNCHANGED <<server, mainq, accepted, conn, backlog, toCli, cpc, cbuf>>
  BY DEF AcceptReturnsError, netVars, clientVars
<1>2. /\ wpc \in [Slot -> WorkerPc] /\ StackIndex \subseteq Int /\ SocketTypeOK(Slot)
  BY IndexFinite DEF TypeOK, ServerTypeOK, StackTypeOK
<1>3. MutexInv'
  <2>1. \A v \in Slot : wpc'[v] # "accept"
    BY <1>1, <1>2 DEF Goto, MutexInv, RedirectInv
  <2> QED
    BY <1>1, <2>1 DEF MutexInv
<1>4. ASSUME NEW c \in TcpClient PROVE VisitInv(c)'
  <2>1. \A i \in StackIndex : i + 0 = i /\ (Holds(c, i)' => Holds(c, i + 0))
    BY <1>1, <1>2, MarkedHolds
  <2>2. \A k \in Queue' : Queued(c, k)' => Queued(c, k + 0)
    <3>1. \A k \in Queue : k + 0 = k
      BY DEF Queue
    <3> QED
      BY <1>1, <3>1 DEF Queued, Queue
  <2> QED
    BY <1>1, <1>2, <2>1, <2>2, VisitFrame DEF RedirectInv
<1>5. ConnectInv'
  BY <1>1, ConnectFrame DEF RedirectInv, ConnectInv, Before
<1>6. ASSUME Roomy PROVE AwaitInv'
  <2>1. OpenFds \in Int /\ OpenFds < FdLimit
    <3>1. Cardinality(TcpClient) \in Nat
      BY ClientAssumption, FS_CardinalityType
    <3>2. OpenFds \in Nat /\ OpenFds <= 2 * Cardinality(TcpClient) + LENGTH_CLIENT
      BY <1>2, FewDescriptors DEF RedirectInv
    <3> QED
      BY <1>6, <3>1, <3>2, LimitAssumption, LengthAssumption DEF Roomy
  <2> QED
    BY <2>1, LimitAssumption DEF AwaitInv
<1> QED
  BY <1>1, <1>3, <1>4, <1>5, <1>6 DEF RedirectInv

LEMMA WorkerStepRedirect ==
  ASSUME StackInv, RedirectInv, NEW w \in Slot, WorkerStep(w)
  PROVE  RedirectInv'
<1>0. wpc \in [Slot -> WorkerPc] /\ SocketTypeOK(Slot)
  BY DEF StackInv, TypeOK, StackTypeOK, ServerTypeOK
<1>1. CASE Loop(w) \/ Release(w) \/ OpenFails(w)
  <2>1. UNCHANGED <<mainq, accepted, conn, backlog, toCli, cpc, cbuf, stack_array, locked, flag>>
    BY <1>1 DEF Loop, Proceed, Release, OpenFails, Fail, netVars, clientVars, serverVars, mainVars,
                stackVars
  <2>2. server' = "up" => server = "up"
    BY <1>1 DEF Loop, Proceed, Release, OpenFails
  <2>3. \/ wpc' = wpc
        \/ wpc[w] # "accept" /\ \E pc \in {"claim", "exited", "loop"} : Goto(w, pc)
    BY <1>1 DEF Loop, Proceed, Release, OpenFails, Fail, serverVars, threadVars
  <2>4. \A v \in Slot : wpc'[v] = "accept" <=> wpc[v] = "accept"
    BY <1>0, <2>3 DEF Goto
  <2> QED
    BY <2>1, <2>2, <2>4, QuietRedirect
<1>2. CASE ServeTcp(w) \/ ServeUdp(w)
  <2>1. CallRecv(w) \/ RecvTcp(w) \/ RecvTcpEnd(w) \/ RecvUdp(w) \/ Send(w) \/ Close(w)
    BY <1>2 DEF ServeTcp, ServeUdp, SessionTcp, SessionUdp
  <2>2. /\ UNCHANGED <<server, mainq, accepted, conn, cpc, cbuf, stack_array, locked, flag>>
        /\ wpc[w] # "accept"
    BY <1>2, <2>1 DEF ServeTcp, ServeUdp, CallRecv, RecvTcp, RecvTcpEnd, RecvUdp, Send, Close,
                      Proceed, netVars, clientVars, mainVars, stackVars
  <2>3. \E pc \in SessionPc : Goto(w, pc)
    BY <2>1 DEF CallRecv, RecvTcp, RecvTcpEnd, RecvUdp, Send, Close, Proceed, SessionPc
  <2>4. \A v \in Slot : wpc'[v] = "accept" <=> wpc[v] = "accept"
    BY <1>0, <2>2, <2>3 DEF Goto, SessionPc
  <2>5. \A v \in Slot : backlog'[v] = backlog[v] \/ backlog'[v] = <<>>
    BY <1>0, <2>1 DEF SocketTypeOK, CallRecv, RecvTcp, RecvTcpEnd, RecvUdp, Send, Close,
                      Proceed, netVars
  <2>6. \A c \in TcpClient : toCli'[c] = toCli[c] \/ AtSession(c) \/ cpc[c] = "done"
    BY <1>0, <2>1 DEF SocketTypeOK, CallRecv, RecvTcp, RecvTcpEnd, RecvUdp, Send, Close,
                      SendClient, Proceed, netVars, Client
  <2> QED
    BY <2>2, <2>4, <2>5, <2>6, QuietRedirect
<1>3. CASE AcceptFails(w)
  BY <1>3, AcceptErrorRedirect DEF AcceptFails
<1> QED
  BY <1>1, <1>2, <1>3, ClaimRedirect, OpenTcpRedirect, OpenUdpRedirect, AcceptRedirect
     DEF WorkerStep

LEMMA InterruptRedirect ==
  ASSUME StackInv, RedirectInv, Interrupt
  PROVE  RedirectInv'
<1>1. CASE \E w \in Slot : InterruptAccept(w)
  BY <1>1, AcceptErrorRedirect DEF InterruptAccept, Signal
<1>2. CASE /\ InterruptMain \/ InterruptRunning \/ \E w \in Slot : InterruptRecv(w)
           /\ UNCHANGED stackVars
  <2>1. /\ UNCHANGED <<server, mainq, accepted, conn, backlog, toCli, cpc, cbuf, stack_array,
                       locked>>
        /\ flag' = 0
    BY <1>2 DEF InterruptMain, InterruptRunning, InterruptRecv, Signal, netVars, clientVars,
                mainVars, stackVars
  <2>2. wpc' = wpc \/ \E w \in Slot : wpc[w] = "recv" /\ Goto(w, "close")
    BY <1>2 DEF InterruptMain, InterruptRunning, InterruptRecv, threadVars
  <2>3. wpc \in [Slot -> WorkerPc]
    BY DEF StackInv, TypeOK, StackTypeOK
  <2>4. \A v \in Slot : wpc'[v] = "accept" <=> wpc[v] = "accept"
    BY <2>2, <2>3 DEF Goto
  <2> QED
    BY <2>1, <2>4, QuietRedirect
<1> QED
  BY <1>1, <1>2 DEF Interrupt

-----------------------------------------------------------------------------
(* ... and of the clients. *)

\* A client that neither starts nor connects joins no queue; it leaves await
\* with the message it received, unless its recv failed.
LEMMA ClientMoves ==
  ASSUME SocketTypeOK(Slot), ClientTypeOK, NEW c \in Client, ClientStep(c) \/ UserStep(c),
         ~StartTcp(c), ~ConnectSessionTcp(c)
  PROVE  /\ mainq'["tcp"] = mainq["tcp"] /\ backlog' = backlog
         /\ c \in TcpClient =>
              /\ cpc'[c] \notin {"start", "await"}
              /\ cpc'[c] = "redirected" =>
                   /\ cpc[c] = "await"
                   /\ \/ toCli[c] # <<>> /\ cbuf'[c] = Head(toCli[c]) /\ cbuf'[c].sign # LIMIT
                      \/ c \in Slow \/ server # "up"
<1>1. cpc \in [Client -> ClientPc] /\ cbuf \in [Client -> Message] /\ DOMAIN mainq = {"tcp", "udp"}
  BY DEF ClientTypeOK, SocketTypeOK
<1>2. ASSUME NEW pc, cpc' = [cpc EXCEPT ![c] = pc], pc \notin {"start", "await", "redirected"},
             UNCHANGED <<mainq, backlog>>
      PROVE  /\ mainq'["tcp"] = mainq["tcp"] /\ backlog' = backlog
             /\ cpc'[c] \notin {"start", "await", "redirected"}
  BY <1>1, <1>2
<1>3. ASSUME cpc' = cpc, cpc[c] = "probing", UNCHANGED <<mainq, backlog>>
      PROVE  /\ mainq'["tcp"] = mainq["tcp"] /\ backlog' = backlog
             /\ cpc'[c] \notin {"start", "await", "redirected"}
  BY <1>3
<1>4. CASE StartUdp(c)
  BY <1>1, <1>4, ClientAssumption DEF StartUdp
<1>5. ASSUME NEW m \in Message, Follow(c, m), UNCHANGED <<mainq, backlog>>
      PROVE  /\ mainq'["tcp"] = mainq["tcp"] /\ backlog' = backlog
             /\ cpc'[c] \notin {"start", "await"}
             /\ cpc'[c] = "redirected" => cbuf'[c] = m /\ m.sign # LIMIT
  BY <1>1, <1>5 DEF Follow, Ends
<1>6. CASE RecvRedirect(c)
  <2>1. Head(toCli[c]) \in Message
    BY <1>6, QueueHead DEF RecvRedirect, SocketTypeOK
  <2> QED
    BY <1>5, <1>6, <2>1 DEF RecvRedirect
<1>7. CASE RecvRedirectFails(c)
  <2>1. PICK g \in Garbage : Follow(c, IF c \in TcpClient THEN g ELSE Msg(PROBE, g.message))
    BY <1>7 DEF RecvRedirectFails
  <2>2. (IF c \in TcpClient THEN g ELSE Msg(PROBE, g.message)) \in Message
    BY DataAssumption DEF Message, Msg, PROBE
  <2> QED
    BY <1>5, <1>7, <2>1, <2>2 DEF RecvRedirectFails
<1>8. CASE ConnectSessionUdp(c)
  BY <1>2, <1>8 DEF ConnectSessionUdp
<1>9. CASE RecvProbeAck(c) \/ RecvAnswer(c) \/ RecvEofAsAnswer(c) \/ Ask(c) \/ Again(c)
  BY <1>2, <1>9 DEF RecvProbeAck, RecvAnswer, RecvEofAsAnswer, Ask, Again, netVars
<1>10. CASE RecvOtherAck(c) \/ ProbeTimesOut(c)
  BY <1>3, <1>10 DEF RecvOtherAck, ProbeTimesOut, netVars
<1>11. CASE ConnectSessionRefused(c) \/ ProbeGivesUp(c) \/ AnswerFails(c) \/ AskBroken(c)
            \/ Quit(c) \/ Kill(c)
  BY <1>2, <1>11 DEF ConnectSessionRefused, ProbeGivesUp, AnswerFails, AskBroken, Quit, Kill, Ends
<1> QED
  BY <1>4, <1>6, <1>7, <1>8, <1>9, <1>10, <1>11 DEF ClientStep, UserStep

\* The program asks once: it is then in one queue, and nothing was sent to it.
LEMMA StartRedirect ==
  ASSUME StackInv, RedirectInv, NEW c \in TcpClient, StartTcp(c), ClientKeeps
  PROVE  RedirectInv'
<1>1. /\ cpc[c] = "start" /\ cpc' = [cpc EXCEPT ![c] = "await"]
      /\ mainq' = [mainq EXCEPT !["tcp"] = Append(@, c)]
      /\ UNCHANGED <<server, accepted, backlog, conn, toCli, cbuf, stack_array, locked, flag, wpc>>
  BY DEF StartTcp, ClientKeeps, serverVars, mainVars, threadVars, stackVars
<1>2. /\ cpc \in [Client -> ClientPc] /\ mainq \in [{"tcp", "udp"} -> Seq(Client)]
      /\ StackIndex \subseteq Int /\ c \in Client
  BY IndexFinite DEF StackInv, TypeOK, ServerTypeOK, SocketTypeOK, ClientTypeOK, Client
<1>3. /\ cpc'[c] = "await" /\ \A d \in Client \ {c} : cpc'[d] = cpc[d]
      /\ mainq'["tcp"] = Append(mainq["tcp"], c) /\ mainq["tcp"] \in Seq(Client)
  BY <1>1, <1>2
<1>4. \A k \in Queue' : \/ k \in Queue /\ mainq'["tcp"][k] = mainq["tcp"][k] /\ k + 0 = k
                        \/ k = Len(mainq["tcp"]) + 1 /\ mainq'["tcp"][k] = c
  BY <1>3, AppendElements DEF Queue
<1>5. Absent(c) /\ toCli[c] = <<>>
  BY <1>1 DEF RedirectInv, VisitInv
<1>6. ASSUME NEW d \in TcpClient PROVE VisitInv(d)' /\ (d # c /\ Absent(d) => Absent(d)')
  <2>1. \A i \in StackIndex : i + 0 = i /\ (Holds(d, i)' <=> Holds(d, i))
    BY <1>1, <1>2 DEF Holds
  <2>2. CASE d = c
    <3>1. \A k \in Queue' : Queued(c, k)' => k = Len(mainq["tcp"]) + 1
      BY <1>4, <1>5 DEF Absent, Queued
    <3>2. \A i \in StackIndex : ~Holds(c, i)'
      BY <1>5, <2>1, <2>2 DEF Absent
    <3> QED
      BY <1>3, <2>2, <3>1, <3>2 DEF VisitInv
  <2>3. CASE d # c
    <3>1. \A k \in Queue' : Queued(d, k)' => Queued(d, k + 0)
      BY <1>4, <2>3 DEF Queued
    <3>2. cpc'[d] = "start" => cpc[d] = "start" /\ toCli'[d] = toCli[d]
      BY <1>1, <1>3, <2>3 DEF Client
    <3> QED
      BY <1>2, <2>1, <3>1, <3>2, VisitFrame DEF RedirectInv
  <2> QED
    BY <2>2, <2>3
<1>7. MutexInv'
  BY <1>1, MutexFrame DEF RedirectInv
<1>8. server = "up" => ConnectInv'
  <2>1. \A d \in TcpClient : Before(d)' => Before(d)
    BY <1>1, <1>3 DEF Before, Client
  <2> QED
    BY <1>1, <2>1, ConnectFrame DEF RedirectInv, ConnectInv
<1>9. ASSUME AwaitInv PROVE AwaitInv'
  <2> SUFFICES ASSUME server = "up", flag = 1 PROVE AwaitInv'
    BY <1>1 DEF AwaitInv
  <2>1. \A d, w : AwaitedBy(d, w)' <=> AwaitedBy(d, w)
    BY <1>1 DEF AwaitedBy, FirstClaimed
  <2>2. ASSUME NEW d \in TcpClient, AtMain(d)', toCli'[d] # <<>>
        PROVE  \/ Head(toCli'[d]).sign = LIMIT /\ Absent(d)'
               \/ \E w \in Slot : toCli'[d] = <<Msg(REDIRECT, w)>> /\ AwaitedBy(d, w)'
    <3>1. d # c /\ AtMain(d) /\ toCli[d] # <<>> /\ toCli' = toCli
      BY <1>1, <1>3, <1>5, <2>2 DEF AtMain, Client
    <3> QED
      BY <1>6, <1>9, <2>1, <3>1 DEF AwaitInv
  <2>3. ASSUME NEW d \in TcpClient, cpc'[d] = "redirected"
        PROVE  \E w \in Slot : cbuf'[d] = Msg(REDIRECT, w) /\ AwaitedBy(d, w)'
    <3>1. cpc[d] = "redirected" /\ cbuf' = cbuf
      BY <1>1, <1>3, <2>3 DEF Client
    <3> QED
      BY <1>9, <2>1, <3>1 DEF AwaitInv
  <2>4. ASSUME NEW w \in Slot, wpc'[w] = "accept", NEW k \in Guests(w)'
        PROVE  AwaitedBy(backlog[w][k], w)
    BY <1>1, <1>9, <2>4 DEF AwaitInv, Guests
  <2>5. ASSUME NEW w \in Slot, wpc'[w] = "accept"
        PROVE  \A k \in Guests(w)' : AwaitedBy(backlog[w][k], w)'
    BY <1>1, <2>4, <2>5 DEF AwaitedBy, FirstClaimed
  <2> QED
    BY <2>2, <2>3, <2>5 DEF AwaitInv
<1> QED
  BY <1>1, <1>6, <1>7, <1>8, <1>9 DEF RedirectInv


\* It comes to the port it was told, whose thread waits for it.
LEMMA ConnectRedirect ==
  ASSUME StackInv, RedirectInv, NEW c \in TcpClient, ConnectSessionTcp(c), ClientKeeps
  PROVE  RedirectInv'
<1> USE DEF StackInv
<1>1. PICK x \in Slot : /\ sock[x] = Bound("tcp", cbuf[c].message)
                        /\ backlog' = [backlog EXCEPT ![x] = Append(@, c)]
  BY DEF ConnectSessionTcp, SocketsAt, TypeOK, ServerTypeOK, SocketTypeOK
<1>2. /\ server = "up" /\ cpc[c] = "redirected" /\ cpc' = [cpc EXCEPT ![c] = "probing"]
      /\ cbuf' = [cbuf EXCEPT ![c] = FirstProbe(@)]
      /\ UNCHANGED <<server, mainq, accepted, conn, toCli, stack_array, locked, flag, wpc>>
  BY DEF ConnectSessionTcp, ClientKeeps, serverVars, mainVars, threadVars, stackVars
<1>3. /\ cpc \in [Client -> ClientPc] /\ cbuf \in [Client -> Message]
      /\ backlog \in [Slot -> Seq(Client)] /\ c \in Client /\ Before(c)
  BY <1>2 DEF TypeOK, ServerTypeOK, SocketTypeOK, ClientTypeOK, Client, Before
<1>4. /\ cpc'[c] = "probing" /\ \A d \in Client \ {c} : cpc'[d] = cpc[d] /\ cbuf'[d] = cbuf[d]
      /\ \A d \in Client : d # c \/ ~Before(d)'
  BY <1>2, <1>3 DEF Before
<1>5. /\ backlog'[x] = Append(backlog[x], c) /\ backlog[x] \in Seq(Client)
      /\ \A v \in Slot \ {x} : backlog'[v] = backlog[v]
  BY <1>1, <1>3
<1>6. ASSUME NEW v \in Slot, NEW k \in Guests(v)'
      PROVE  \/ k \in Guests(v) /\ backlog'[v][k] = backlog[v][k]
             \/ v = x /\ k = Len(backlog[x]) + 1 /\ backlog'[v][k] = c
  BY <1>5, <1>6, AppendElements DEF Guests
<1>7. /\ \A v \in Slot : \A k \in Guests(v) : backlog[v][k] # c
      /\ \A e \in conn : e[1] # c
  <2>1. \A v \in Slot : ~Reached(c, v)
    BY <1>2, <1>3 DEF SessionInv, LiveInv, ClientInv, PlaceInv
  <2> QED
    BY <1>2, <1>3, <2>1 DEF Reached, Guests, RedirectInv, ConnectInv
<1>8. MutexInv'
  BY <1>2, MutexFrame DEF RedirectInv
<1>9. ASSUME NEW d \in TcpClient PROVE VisitInv(d)' /\ (Absent(d)' <=> Absent(d))
  <2>1. cpc'[d] = "start" => cpc[d] = "start" /\ toCli'[d] = toCli[d]
    BY <1>2, <1>4 DEF Client
  <2> QED
    BY <1>2, <2>1, SamePlaces DEF RedirectInv
<1>10. ConnectInv'
  <2>1. ConnectInv
    BY <1>2 DEF RedirectInv
  <2>2. \A e \in conn : e[1] \in TcpClient /\ ~Before(e[1])'
    BY <1>3, <1>4, <2>1 DEF ConnectInv, Before, Client
  <2>3. ASSUME NEW v \in Slot, NEW k \in Guests(v)'
        PROVE  /\ backlog'[v][k] \in TcpClient
               /\ \A e \in conn : e[1] # backlog'[v][k]
               /\ \A u \in Slot : \A l \in Guests(u)' :
                    backlog'[u][l] = backlog'[v][k] => u = v /\ l = k
    <3>1. CASE k \in Guests(v) /\ backlog'[v][k] = backlog[v][k]
      BY <1>6, <1>7, <2>1, <3>1 DEF ConnectInv
    <3>2. CASE v = x /\ k = Len(backlog[x]) + 1 /\ backlog'[v][k] = c
      BY <1>6, <1>7, <3>2
    <3> QED
      BY <1>6, <2>3, <3>1, <3>2
  <2> QED
    BY <1>2, <2>1, <2>2, <2>3 DEF ConnectInv
<1>11. ASSUME AwaitInv PROVE AwaitInv'
  <2> SUFFICES ASSUME flag = 1 PROVE AwaitInv'
    BY <1>2 DEF AwaitInv
  <2>1. \A d, w : AwaitedBy(d, w)' <=> AwaitedBy(d, w)
    BY <1>2 DEF AwaitedBy, FirstClaimed
  <2>2. AwaitedBy(c, x)
    <3>1. PICK w \in Slot : cbuf[c] = Msg(REDIRECT, w) /\ AwaitedBy(c, w)
      BY <1>2, <1>11 DEF AwaitInv
    <3>2. sock[x] = Bound("tcp", w)
      BY <1>1, <3>1 DEF Msg
    <3>3. sock[x] # Closed
      BY <3>2 DEF Bound, Closed
    <3>4. sock[x] = Bound(IF wproto[x] = 1 THEN "tcp" ELSE "udp", x)
      BY <3>3 DEF ThreadClaims
    <3>5. x = w
      BY <3>2, <3>4 DEF Bound
    <3> QED
      BY <3>1, <3>5
  <2>3. ASSUME NEW d \in TcpClient, AtMain(d)', toCli'[d] # <<>>
        PROVE  \/ Head(toCli'[d]).sign = LIMIT /\ Absent(d)'
               \/ \E w \in Slot : toCli'[d] = <<Msg(REDIRECT, w)>> /\ AwaitedBy(d, w)'
    <3>1. d # c /\ AtMain(d) /\ toCli[d] # <<>> /\ toCli' = toCli
      BY <1>2, <1>4, <2>3 DEF AtMain, Client
    <3> QED
      BY <1>2, <1>9, <1>11, <2>1, <3>1 DEF AwaitInv
  <2>4. ASSUME NEW d \in TcpClient, cpc'[d] = "redirected"
        PROVE  \E w \in Slot : cbuf'[d] = Msg(REDIRECT, w) /\ AwaitedBy(d, w)'
    <3>1. cpc[d] = "redirected" /\ cbuf'[d] = cbuf[d]
      BY <1>4, <2>4 DEF Client
    <3> QED
      BY <1>2, <1>11, <2>1, <3>1 DEF AwaitInv
  <2>5. ASSUME NEW w \in Slot, wpc'[w] = "accept", NEW k \in Guests(w)'
        PROVE  AwaitedBy(backlog'[w][k], w)
    BY <1>2, <1>6, <1>11, <2>2, <2>5 DEF AwaitInv
  <2>6. ASSUME NEW w \in Slot, wpc'[w] = "accept"
        PROVE  \A k \in Guests(w)' : AwaitedBy(backlog[w][k], w)'
    BY <1>2, <2>5, <2>6 DEF AwaitedBy, FirstClaimed
  <2> QED
    BY <2>3, <2>4, <2>6 DEF AwaitInv
<1> QED
  BY <1>2, <1>8, <1>9, <1>10, <1>11 DEF RedirectInv

\* The other steps of a client.
LEMMA OtherClientRedirect ==
  ASSUME StackInv, RedirectInv, NEW c \in Client, ClientStep(c) \/ UserStep(c), ClientKeeps,
         ~StartTcp(c), ~ConnectSessionTcp(c)
  PROVE  RedirectInv'
<1>1. SocketTypeOK(Slot) /\ ClientTypeOK /\ StackIndex \subseteq Int
  BY IndexFinite DEF StackInv, TypeOK, ServerTypeOK
<1>2. UNCHANGED <<server, accepted, conn, stack_array, locked, flag, wpc>>
  BY <1>1, ClientFrame DEF ClientKeeps, serverVars, mainVars, threadVars, stackVars
<1>3. /\ mainq'["tcp"] = mainq["tcp"] /\ backlog' = backlog
      /\ c \in TcpClient =>
           /\ cpc'[c] \notin {"start", "await"}
           /\ cpc'[c] = "redirected" =>
                /\ cpc[c] = "await"
                /\ \/ toCli[c] # <<>> /\ cbuf'[c] = Head(toCli[c]) /\ cbuf'[c].sign # LIMIT
                   \/ c \in Slow \/ server # "up"
  BY <1>1, ClientMoves
<1>4. \A d \in Client \ {c} : cpc'[d] = cpc[d] /\ cbuf'[d] = cbuf[d] /\ toCli'[d] = toCli[d]
  BY <1>1, ClientAlone DEF OnlyItself
<1>5. MutexInv'
  BY <1>2, MutexFrame DEF RedirectInv
<1>6. ASSUME NEW d \in TcpClient PROVE VisitInv(d)' /\ (Absent(d) => Absent(d)')
  <2>1. cpc'[d] = "start" => cpc[d] = "start" /\ toCli'[d] = toCli[d]
    BY <1>3, <1>4 DEF Client
  <2>2. \A k \in Queue' : Queued(d, k)' => Queued(d, k + 0)
    <3>1. \A k \in Queue : k + 0 = k
      BY DEF Queue
    <3> QED
      BY <1>3, <3>1 DEF Queued, Queue
  <2>3. \A i \in StackIndex : Holds(d, i)' => Holds(d, i + 0)
    <3>1. \A i \in StackIndex : i + 0 = i
      BY <1>1
    <3> QED
      BY <1>2, <3>1 DEF Holds
  <2> QED
    BY <1>1, <2>1, <2>2, <2>3, VisitFrame DEF RedirectInv
<1>7. server = "up" => ConnectInv'
  <2>1. \A d \in TcpClient : Before(d)' => Before(d)
    BY <1>3, <1>4 DEF Before, Client
  <2> QED
    BY <1>2, <1>3, <2>1, ConnectFrame DEF RedirectInv, ConnectInv
<1>8. ASSUME AwaitInv, Punctual PROVE AwaitInv'
  <2> SUFFICES ASSUME server = "up", flag = 1 PROVE AwaitInv'
    BY <1>2 DEF AwaitInv
  <2>1. \A d, w : AwaitedBy(d, w)' <=> AwaitedBy(d, w)
    BY <1>2 DEF AwaitedBy, FirstClaimed
  <2>2. ASSUME NEW d \in TcpClient, AtMain(d)', toCli'[d] # <<>>
        PROVE  \/ Head(toCli'[d]).sign = LIMIT /\ Absent(d)'
               \/ \E w \in Slot : toCli'[d] = <<Msg(REDIRECT, w)>> /\ AwaitedBy(d, w)'
    <3>1. AtMain(d) /\ toCli'[d] = toCli[d]
      BY <1>3, <1>4, <2>2 DEF AtMain, Client
    <3> QED
      BY <1>6, <1>8, <2>1, <2>2, <3>1 DEF AwaitInv
  <2>3. ASSUME NEW d \in TcpClient, cpc'[d] = "redirected"
        PROVE  \E w \in Slot : cbuf'[d] = Msg(REDIRECT, w) /\ AwaitedBy(d, w)'
    <3>1. CASE d = c
      <4>1. /\ AtMain(c) /\ toCli[c] # <<>> /\ cbuf'[c] = Head(toCli[c])
            /\ Head(toCli[c]).sign # LIMIT
        BY <1>3, <1>8, <2>3, <3>1 DEF AtMain, Punctual
      <4>2. PICK w \in Slot : toCli[c] = <<Msg(REDIRECT, w)>> /\ AwaitedBy(c, w)
        BY <1>8, <3>1, <4>1 DEF AwaitInv
      <4>3. Head(toCli[c]) = Msg(REDIRECT, w)
        BY <4>2
      <4> QED
        BY <2>1, <3>1, <4>1, <4>2, <4>3
    <3>2. CASE d # c
      <4>1. cpc[d] = "redirected" /\ cbuf'[d] = cbuf[d]
        BY <1>4, <2>3, <3>2 DEF Client
      <4> QED
        BY <1>8, <2>1, <4>1 DEF AwaitInv
    <3> QED
      BY <3>1, <3>2
  <2>4. ASSUME NEW w \in Slot, wpc'[w] = "accept"
        PROVE  \A k \in Guests(w)' : AwaitedBy(backlog[w][k], w)'
    <3>1. \A k \in Guests(w) : AwaitedBy(backlog[w][k], w)
      BY <1>2, <1>8, <2>4 DEF AwaitInv
    <3> QED
      BY <1>2, <1>3, <3>1 DEF AwaitedBy, FirstClaimed, Guests
  <2> QED
    BY <2>2, <2>3, <2>4 DEF AwaitInv
<1> QED
  BY <1>2, <1>5, <1>6, <1>7, <1>8 DEF RedirectInv

LEMMA ClientsRedirect ==
  ASSUME StackInv, RedirectInv, NEW c \in Client, ClientStep(c) \/ UserStep(c), ClientKeeps
  PROVE  RedirectInv'
<1>1. CASE StartTcp(c)
  BY <1>1, StartRedirect DEF StartTcp
<1>2. CASE ConnectSessionTcp(c)
  BY <1>2, ConnectRedirect DEF ConnectSessionTcp
<1> QED
  BY <1>1, <1>2, OtherClientRedirect

-----------------------------------------------------------------------------
(* Both invariants together. *)

LEMMA InitRedirect == Init => RedirectInv
<1> SUFFICES ASSUME Init PROVE RedirectInv
  OBVIOUS
<1> USE DEF Init, ServerInit
<1>1. /\ \A w \in Slot : wpc[w] = "loop" /\ backlog[w] = <<>>
      /\ \A c \in Client : cpc[c] = "start" /\ toCli[c] = <<>>
      /\ mainq["tcp"] = <<>> /\ accepted = {} /\ conn = {} /\ ~locked
      /\ \A i \in StackIndex : stack_array[i] = Blank
  BY DEF ClientInit
<1>2. Queue = {} /\ \A w \in Slot : Guests(w) = {}
  BY <1>1 DEF Queue, Guests
<1>3. \A c : Absent(c) /\ \A i : ~Holds(c, i)
  BY <1>1, <1>2 DEF Absent, Queued, Holds, Blank
<1>4. \A c \in TcpClient : VisitInv(c)
  BY <1>1, <1>2, <1>3 DEF VisitInv, Client
<1>5. ConnectInv
  BY <1>1, <1>2 DEF ConnectInv
<1>6. AwaitInv
  BY <1>1, <1>2 DEF AwaitInv, Client
<1> QED
  BY <1>1, <1>4, <1>5, <1>6 DEF RedirectInv, MutexInv

LEMMA NextRedirect == StackInv /\ RedirectInv /\ [Next]_vars => RedirectInv'
<1> SUFFICES ASSUME StackInv, RedirectInv, [Next]_vars PROVE RedirectInv'
  OBVIOUS
<1>1. CASE UNCHANGED vars
  BY <1>1, QuietRedirect
     DEF vars, netVars, clientVars, serverVars, mainVars, threadVars, stackVars
<1> QED
  BY <1>1, MainStepRedirect, WorkerStepRedirect, InterruptRedirect, ClientsRedirect DEF Next

\* The invariant holds in every reachable state of the server.
THEOREM Invariance == Spec => []IInv
<1>1. Init => IInv
  BY InitStackInv, InitRedirect DEF IInv
<1>2. IInv /\ [Next]_vars => IInv'
  BY NextStackInv, NextRedirect DEF IInv
<1> QED
  BY <1>1, <1>2, PTL DEF Spec

-----------------------------------------------------------------------------
(* The properties *)

\* Every variable of the server, the network and the clients keeps its type:
\* what main() stores past the end of stack_array reaches no element of it.
THEOREM TypeCorrect == Spec => []TypeOK
<1>1. IInv => TypeOK
  BY DEF IInv, StackInv
<1> QED
  BY <1>1, Invariance, PTL

\* flag_client counts what is neither on the stack, nor served, nor lost,
\* whatever main(), the threads and Ctrl+C do in between (server.c:136, :168;
\* create_server.c:117, :209).
THEOREM CounterMatchesStack == Spec => []SlotAccounting
<1>1. IInv => SlotAccounting
  BY DEF IInv, StackInv
<1> QED
  BY <1>1, Invariance, PTL

\* main() pushes where the stack is free, and its compaction keeps cout_stack
\* and the elements together, in whatever order the threads serve them
\* (server.c:131-135, :184-194).
THEOREM StackIsFilled == Spec => []StackFilled
<1>1. IInv => StackFilled
  BY DEF IInv, StackInv
<1> QED
  BY <1>1, Invariance, PTL

\* A thread that comes to look for index_stack finds an element it claimed,
\* though main() compacts the stack between its locked sections
\* (create_server.c:33-39).
THEOREM ClaimsAreKept == Spec => []ClaimOnStack
<1>1. IInv => ClaimOnStack
  BY DEF IInv, StackInv
<1> QED
  BY <1>1, Invariance, PTL

\* A client in dialogue has a thread of its own, whatever main() did with the
\* other clients meanwhile.
THEOREM ClientsAreServed == Spec => []DialogueHasThread
<1>1. IInv => DialogueHasThread
  BY DialogueServed DEF IInv, StackInv, SessionInv, TypeOK, ServerTypeOK, DialogueHasThread, Talking, InDialogue
<1> QED
  BY <1>1, Invariance, PTL

\* A TCP client follows its redirect to the thread that waits for it in accept,
\* with the mutex, and comes before anybody else does (create_server.c:46-70):
\* if no recv of a TCP client times out, and the descriptors suffice.
THEOREM RedirectsAreAwaited ==
  ASSUME Punctual, Roomy PROVE Spec => []RedirectAwaited
<1>1. IInv => RedirectAwaited
  <2> SUFFICES ASSUME IInv, NEW c \in TcpClient, NEW w \in Slot, server = "up", flag = 1,
                      \/ cpc[c] = "await" /\ toCli[c] # <<>> /\ Head(toCli[c]) = Msg(REDIRECT, w)
                      \/ cpc[c] = "redirected" /\ cbuf[c] = Msg(REDIRECT, w)
               PROVE  wpc[w] = "accept" /\ locked /\ sock[w] = Bound("tcp", w)
    BY DEF RedirectAwaited
  <2> USE DEF IInv, StackInv, RedirectInv
  <2>1. AwaitInv
    OBVIOUS
  <2>2. PICK v \in Slot : AwaitedBy(c, v) /\ Msg(REDIRECT, v) = Msg(REDIRECT, w)
    <3>1. CASE cpc[c] = "redirected"
      BY <2>1, <3>1 DEF AwaitInv
    <3>2. CASE cpc[c] = "await" /\ toCli[c] # <<>> /\ Head(toCli[c]) = Msg(REDIRECT, w)
      <4>1. Head(toCli[c]).sign # LIMIT
        BY <3>2 DEF Msg, REDIRECT, LIMIT
      <4>2. PICK v \in Slot : toCli[c] = <<Msg(REDIRECT, v)>> /\ AwaitedBy(c, v)
        BY <2>1, <3>2, <4>1 DEF AwaitInv, AtMain
      <4>3. Head(toCli[c]) = Msg(REDIRECT, v)
        BY <4>2
      <4> QED
        BY <3>2, <4>2, <4>3
    <3> QED
      BY <3>1, <3>2
  <2>3. v = w /\ wpc[w] = "accept"
    BY <2>2 DEF AwaitedBy, Msg
  <2>4. sock[w] # Closed /\ wproto[w] = 1
    BY <2>3 DEF SessionInv, LiveInv, ThreadInv, OpenPc, ThreadClaims
  <2> QED
    BY <2>3, <2>4 DEF MutexInv, ThreadClaims
<1> QED
  BY <1>1, Invariance, PTL

\* The mutex, which a thread keeps from the redirect to the end of accept
\* (create_server.c:33-70), is held by one thread at a time, and by none that
\* has left that section by whatever way.
THEOREM OneThreadAccepts == Spec => []MutexInv
<1>1. IInv => MutexInv
  BY DEF IInv, RedirectInv
<1> QED
  BY <1>1, Invariance, PTL

\* The server never closes a connection of a TCP client, to port 8080 or to a
\* thread, and yet holds at most one of each (server.c:131, create_server.c:66):
\* as many descriptors as that, and one for each thread, always suffice.
THEOREM DescriptorsSuffice == Roomy => (Spec => [](server = "up" => OpenFds < FdLimit))
<1> SUFFICES ASSUME Roomy PROVE Spec => [](server = "up" => OpenFds < FdLimit)
  OBVIOUS
<1>1. IInv => (server = "up" => OpenFds < FdLimit)
  <2> SUFFICES ASSUME IInv, server = "up" PROVE OpenFds < FdLimit
    OBVIOUS
  <2>1. Cardinality(TcpClient) \in Nat
    BY ClientAssumption, FS_CardinalityType
  <2>2. OpenFds \in Nat /\ OpenFds <= 2 * Cardinality(TcpClient) + LENGTH_CLIENT
    BY FewDescriptors DEF IInv, StackInv, RedirectInv, TypeOK, ServerTypeOK
  <2> QED
    BY <2>1, <2>2, LimitAssumption, LengthAssumption DEF Roomy
<1> QED
  BY <1>1, Invariance, PTL

\* The stack, flag_client and the threads implement ClientStack: no client is
\* admitted without a place, served twice, or lost once it is on the stack.
THEOREM ImplementsClientStack == Spec => StackSpec
<1>1. Init => Stack!Init
  <2> SUFFICES ASSUME Init PROVE Stack!Init
    OBVIOUS
  <2>1. Waiting = {} /\ InSession = {} /\ lost = 0
    BY DEF Init, ServerInit, Waiting, InSession, Blank
  <2> QED
    BY <2>1, FS_EmptySet DEF Stack!Init
<1>2. IInv /\ [Next]_vars => [Stack!Next]_<<Cardinality(Waiting), InSession, lost>>
  BY NextStackInv DEF IInv, StackStep
<1> QED
  BY <1>1, <1>2, Invariance, PTL DEF Spec, StackSpec, Stack!Spec
=============================================================================
