------------------------------- MODULE EntryCycle -------------------------------
(***************************************************************************)
(* What an entry of ports_array goes through when every entry has a thread *)
(* of its own: it is given to a client while its thread is idle, its       *)
(* thread begins to work once, and gives it back when it is done.          *)
(***************************************************************************)
EXTENDS Integers

CONSTANT Slot

VARIABLES
  taken,    \* entries that were given to a client
  working   \* entries whose thread works for its client

Init == taken = {} /\ working = {}

Give(s) == /\ s \notin taken \cup working
           /\ \A t \in Slot : t < s => t \in taken
           /\ taken' = taken \cup {s}
           /\ UNCHANGED working

Begin(s) == /\ s \in taken \ working
            /\ working' = working \cup {s}
            /\ UNCHANGED taken

GiveBack(s) == /\ s \in working
               /\ taken' = taken \ {s}
               /\ working' = working \ {s}

Next == \E s \in Slot : Give(s) \/ Begin(s) \/ GiveBack(s)

Spec == Init /\ [][Next]_<<taken, working>>
=============================================================================
