------------------------------- MODULE CubeProofs -------------------------------
(***************************************************************************)
(* Facts about the messages and about queues of them, which the proofs of  *)
(* all the servers with threads rest on.                                   *)
(***************************************************************************)
EXTENDS Cube, Sequences, TLAPS

\* The wrapped cube is an integer.
LEMMA Pow3Type == ASSUME NEW x \in Int PROVE Pow3(x) \in Int
<1>1. x * x * x \in Int
  OBVIOUS
<1>2. IntMax \in Nat
  BY IntMaxAssumption
<1> QED
  BY <1>1, <1>2 DEF Pow3, Wrap

\* A thread's reply is a message.
LEMMA ReplyType == ASSUME NEW m \in Message PROVE Reply(m) \in Message
<1>1. m.message \in Int /\ m.sign \in 0 .. 6
  BY DEF Message
<1>2. Pow3(m.message) \in Int
  BY <1>1, Pow3Type
<1> QED
  BY <1>1, <1>2 DEF Reply, Msg, Message, QUIT, QUIT_ACK, PROBE, PROBE_ACK

\* What a queue loses at its head, and what is left.
LEMMA QueueHead ==
  ASSUME NEW S, NEW q \in Seq(S), q # <<>>
  PROVE  /\ Head(q) \in S /\ Tail(q) \in Seq(S)
         /\ Len(q) \in Nat /\ Len(q) > 0 /\ Head(q) = q[1]
         /\ Len(Tail(q)) = Len(q) - 1
         /\ \A i \in 1 .. Len(Tail(q)) :
              i + 1 \in 1 .. Len(q) /\ i + 1 # 1 /\ Tail(q)[i] = q[i + 1]
<1>1. \A i \in 1 .. Len(Tail(q)) : i \in Nat /\ i >= 1 /\ i <= Len(q) - 1
  OBVIOUS
<1> QED
  BY <1>1

\* Nothing is left behind the only element.
LEMMA LastOne ==
  ASSUME NEW S, NEW q \in Seq(S), q # <<>>, Len(q) <= 1
  PROVE  Tail(q) = <<>>
<1> DEFINE t == Tail(q)
<1>1. t \in Seq(S) /\ Len(t) = Len(q) - 1 /\ Len(q) \in Nat /\ Len(q) > 0
  BY QueueHead
<1> HIDE DEF t
<1>2. Len(t) = 0
  BY <1>1
<1>3. t = <<>>
  BY <1>1, <1>2
<1> QED
  BY <1>3 DEF t

\* Elements of a sequence that something was appended to.
LEMMA AppendElements ==
  ASSUME NEW S, NEW q \in Seq(S), NEW e
  PROVE  /\ Len(Append(q, e)) = Len(q) + 1 /\ Len(q) \in Nat
         /\ Append(q, e)[Len(q) + 1] = e
         /\ \A i \in 1 .. Len(q) : Append(q, e)[i] = q[i]
  OBVIOUS
=============================================================================
