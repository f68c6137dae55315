------------------------------ MODULE ClientStack ------------------------------
(***************************************************************************)
(* What the stack of clients promises, whatever the threads do with its    *)
(* elements: at most Capacity clients are in the server's hands, a client  *)
(* waits until a thread serves it, a thread serves one client at a time,   *)
(* and only a served client leaves.  A client may be dropped when it is    *)
(* stored; its place is then gone.                                         *)
(***************************************************************************)
EXTENDS Integers, FiniteSets

CONSTANTS Thread, Capacity

VARIABLES
  waiting,  \* number of clients on the stack that no thread serves yet
  serving,  \* threads with a client
  dropped   \* number of clients dropped

Init == waiting = 0 /\ serving = {} /\ dropped = 0

HasRoom == waiting + Cardinality(serving) + dropped < Capacity

Admit == HasRoom /\ waiting' = waiting + 1 /\ UNCHANGED <<serving, dropped>>

Drop == HasRoom /\ dropped' = dropped + 1 /\ UNCHANGED <<waiting, serving>>

Serve(w) == /\ waiting > 0 /\ w \notin serving
            /\ waiting' = waiting - 1
            /\ serving' = serving \cup {w}
            /\ UNCHANGED dropped

Finish(w) == /\ w \in serving
             /\ serving' = serving \ {w}
             /\ UNCHANGED <<waiting, dropped>>

Next == \/ Admit \/ Drop
        \/ \E w \in Thread : Serve(w) \/ Finish(w)

Spec == Init /\ [][Next]_<<waiting, serving, dropped>>
=============================================================================
