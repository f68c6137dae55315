-------------------------------- MODULE SlotPool --------------------------------
(***************************************************************************)
(* What the table of ports promises, whatever threads, sockets and signals *)
(* do: an entry belongs to at most one client at a time, the first free    *)
(* entry is taken, no client is given two, and an entry that is given back *)
(* can be taken again.                                                     *)
(***************************************************************************)
EXTENDS Integers

CONSTANTS Slot, Client, None

VARIABLES
  owner,   \* owner[s]: the client entry s was given to, or None
  served   \* clients that were given an entry at some time

Init == /\ owner = [s \in Slot |-> None]
        /\ served = {}

Take(c) == /\ c \notin served
           /\ \E s \in Slot :
                /\ owner[s] = None
                /\ \A t \in Slot : t < s => owner[t] # None
                /\ owner' = [owner EXCEPT ![s] = c]
           /\ served' = served \cup {c}

GiveBack(s) == /\ owner[s] # None
               /\ owner' = [owner EXCEPT ![s] = None]
               /\ UNCHANGED served

Next == \/ \E c \in Client : Take(c)
        \/ \E s \in Slot : GiveBack(s)

Spec == Init /\ [][Next]_<<owner, served>>
=============================================================================
