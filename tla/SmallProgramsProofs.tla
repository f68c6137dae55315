--------------------------- MODULE SmallProgramsProofs ---------------------------
(***************************************************************************)
(* The small programs, for any number of clients.  The checksum of a       *)
(* header is right for every header, however long, and every size of byte. *)
(* A raw client that is the first on its machine prints the square of what *)
(* it sent, while nobody else sends to its port: ChecksumInv, RawInv.  An  *)
(* echo client hears the two answers in their order, and without failure   *)
(* when it is alone with a server that listens: OrderInv says how far each *)
(* client and the server are with each other, AloneInv describes the whole *)
(* state of a conversation without a third party.                          *)
(***************************************************************************)
EXTENDS SmallPrograms, CubeProofs, SequenceTheorems, TLAPS

-----------------------------------------------------------------------------
(* The checksum: each fold takes dop_sum * (M - 1) from all_sum, so what is  *)
(* left differs from the sum of the words by a multiple of M - 1; when       *)
(* nothing is carried, all_sum is a word and its inverse is M - 1 - all_sum. *)

\* a and b differ by a multiple of M - 1.
Covers(a, b) == \E k \in Nat : a = b + k * (M - 1)

Inputs == /\ size_head \in Nat
          /\ header \in [0 .. size_head - 1 -> 0 .. Byte - 1]
          /\ sum \in [0 .. Words -> Nat]
          /\ SumOfWords

\* What my_checksum has computed, at each place.
Added == pc = "add" => i \in 0 .. size_head \div 2 /\ all_sum = sum[i]

Folded == pc = "fold" => /\ all_sum \in Nat
                         /\ dop_sum = all_sum \div M
                         /\ Covers(sum[Words], all_sum)

ChecksumInv == Inputs /\ pc \in {"add", "fold", "return"} /\ Added /\ Folded /\ ReceiverAccepts

-----------------------------------------------------------------------------
\* A word has at least four values, in the code 65536.
LEMMA WordSize == M \in Nat /\ M >= 4
<1>1. Byte \in Nat /\ Byte >= 2 BY ChecksumAssumption
<1>2. Byte * Byte >= 2 * 2 BY <1>1
<1> QED BY <1>1, <1>2 DEF M

\* What the shift and the mask of a sum leave: its carry and its low half.
LEMMA Halves ==
  ASSUME NEW a \in Nat
  PROVE  /\ a \div M \in Nat /\ a % M \in 0 .. M - 1
         /\ a = M * (a \div M) + (a % M)
<1>1. M \in Nat /\ M > 0 BY WordSize
<1> DEFINE m == M
<1>2. m \in Nat /\ m > 0 BY <1>1
<1> HIDE DEF m
<1>3. a \div m \in Nat /\ a % m \in 0 .. m - 1 /\ a = m * (a \div m) + (a % m)
  BY <1>2
<1> QED BY <1>3 DEF m

\* ~ of a sum without a carry, cut to an unsigned short.
LEMMA WordInverse ==
  ASSUME NEW a \in 0 .. M - 1
  PROVE  (-1 - a) % M = M - 1 - a
<1> DEFINE m == M
<1>1. m \in Nat /\ m > 0 /\ a \in 0 .. m - 1 BY WordSize
<1> HIDE DEF m
<1>2. -1 - a = m * (-1) + (m - 1 - a) BY <1>1
<1>3. (-1 - a) % m = m - 1 - a BY <1>1, <1>2
<1> QED BY <1>3 DEF m

\* A fold takes a multiple of M - 1 away.
LEMMA FoldCovers ==
  ASSUME NEW s \in Nat, NEW a \in Nat, Covers(s, a)
  PROVE  Covers(s, (a % M) + (a \div M))
<1> DEFINE m == M  d == a \div M  r == a % M
<1>1. m \in Nat /\ d \in Nat /\ r \in Nat /\ a = m * d + r BY WordSize, Halves
<1>2. PICK k \in Nat : s = a + k * (m - 1) BY DEF Covers
<1> HIDE DEF m, d, r
<1>3. k + d \in Nat BY <1>1
<1>4. (k + d) * (m - 1) = k * (m - 1) + (m * d - d) BY <1>1
<1>5. s = (r + d) + (k + d) * (m - 1) BY <1>1, <1>2, <1>4
<1> QED BY <1>3, <1>5 DEF Covers, m, d, r

\* A sum covered by a word and the inverse of the word make a multiple of
\* M - 1 that is not 0.
LEMMA InverseCompletes ==
  ASSUME NEW s \in Nat, NEW a \in 0 .. M - 1, Covers(s, a)
  PROVE  \E k \in 1 .. s + 1 : s + (M - 1 - a) = k * (M - 1)
<1> DEFINE q == M - 1
<1>1. q \in Nat /\ q >= 1 /\ a \in Nat BY WordSize
<1>2. PICK k \in Nat : s = a + k * q BY DEF Covers
<1> HIDE DEF q
<1>3. k * q >= k BY <1>1
<1>4. k + 1 \in 1 .. s + 1 BY <1>1, <1>2, <1>3
<1>5. s + (q - a) = (k + 1) * q BY <1>1, <1>2
<1> QED BY <1>4, <1>5 DEF q

-----------------------------------------------------------------------------
LEMMA ChecksumInitInv == Init => ChecksumInv
<1> SUFFICES ASSUME Init PROVE ChecksumInv OBVIOUS
<1>1. size_head \in Nat BY ChecksumAssumption DEF Init
<1>2. M - 1 \in Nat BY WordSize
<1>3. Words \in Nat BY <1>1 DEF Words
<1>4. Words * (M - 1) \in Nat BY <1>2, <1>3
<1>5. sum \in [0 .. Words -> Nat] BY <1>4 DEF Init
<1>6. Inputs BY <1>1, <1>5 DEF Init, Inputs
<1>7. Added BY <1>1 DEF Added, Init, Variables, SumOfWords
<1> QED BY <1>6, <1>7 DEF Init, ChecksumInv, Variables, Folded, ReceiverAccepts

\* The header does not change.
LEMMA SameInputs == ASSUME Inputs, UNCHANGED inputs PROVE Inputs' /\ Words' = Words
BY DEF Inputs, inputs, SumOfWords, Words, Word

LEMMA AddWordInv == ASSUME ChecksumInv, AddWord PROVE ChecksumInv'
<1>1. Inputs' /\ Words' = Words BY SameInputs DEF ChecksumInv, AddWord
<1>2. /\ pc = "add" /\ i \in 0 .. size_head \div 2 /\ i < size_head \div 2
      /\ all_sum = sum[i] /\ size_head \in Nat
  BY DEF ChecksumInv, AddWord, Added, Inputs
<1>3. i + 1 \in 0 .. size_head \div 2 BY <1>2
<1>4. i \in 0 .. Words - 1 BY <1>2 DEF Words
<1>5. sum[i + 1] = sum[i] + Word(i) BY <1>4 DEF ChecksumInv, Inputs, SumOfWords
<1>6. Added' BY <1>2, <1>3, <1>5 DEF Added, AddWord, inputs
<1> QED BY <1>1, <1>2, <1>6 DEF ChecksumInv, AddWord, Folded, ReceiverAccepts

LEMMA AddLastInv == ASSUME ChecksumInv, AddLast PROVE ChecksumInv'
<1>1. Inputs' /\ Words' = Words BY SameInputs DEF ChecksumInv, AddLast
<1>2. /\ pc = "add" /\ i = size_head \div 2 /\ all_sum = sum[i] /\ size_head \in Nat
  BY DEF ChecksumInv, AddLast, Added, Inputs
<1>3. all_sum' = sum[Words]
  <2>1. CASE size_head % 2 = 0
    <3>1. Words = i BY <1>2, <2>1 DEF Words
    <3> QED BY <1>2, <2>1, <3>1 DEF AddLast
  <2>2. CASE size_head % 2 # 0
    <3>1. Words = i + 1 /\ i \in 0 .. Words - 1 BY <1>2, <2>2 DEF Words
    <3>2. 2 * i = size_head - 1 BY <1>2, <2>2
    <3>3. Byte \in Nat BY ChecksumAssumption
    <3>4. header[size_head - 1] \in Nat BY <1>2, <3>2, <3>3 DEF ChecksumInv, Inputs
    <3>5. Byte * 0 = 0 BY <3>3
    <3>6. Word(i) = header[size_head - 1] BY <1>2, <3>2, <3>4, <3>5 DEF Word
    <3>7. sum[i + 1] = sum[i] + Word(i) BY <3>1 DEF ChecksumInv, Inputs, SumOfWords
    <3> QED BY <1>2, <2>2, <3>1, <3>6, <3>7 DEF AddLast
  <2> QED BY <2>1, <2>2
<1>4. Words \in 0 .. Words BY <1>2 DEF Words
<1>5. sum[Words] \in Nat BY <1>4 DEF ChecksumInv, Inputs
<1>6. Covers(sum[Words], sum[Words])
  <2>1. M - 1 \in Nat BY WordSize
  <2>2. sum[Words] = sum[Words] + 0 * (M - 1) BY <1>5, <2>1
  <2> QED BY <2>2 DEF Covers
<1>7. pc' = "fold" /\ dop_sum' = all_sum' \div M /\ UNCHANGED inputs BY DEF AddLast
<1>8. (sum[Words])' = sum[Words] BY <1>1, <1>7 DEF inputs
<1>9. Folded' BY <1>3, <1>5, <1>6, <1>7, <1>8 DEF Folded, Covers, M
<1> QED BY <1>1, <1>7, <1>9 DEF ChecksumInv, Added, ReceiverAccepts

LEMMA FoldInv == ASSUME ChecksumInv, Fold PROVE ChecksumInv'
<1>1. Inputs' /\ Words' = Words BY SameInputs DEF ChecksumInv, Fold
<1>2. /\ pc = "fold" /\ pc' = "fold" /\ all_sum \in Nat /\ dop_sum = all_sum \div M
      /\ Covers(sum[Words], all_sum) /\ UNCHANGED inputs
      /\ all_sum' = (all_sum % M) + dop_sum /\ dop_sum' = all_sum' \div M
  BY DEF ChecksumInv, Fold, Folded
<1>3. all_sum' \in Nat BY <1>2, Halves
<1>4. sum[Words] \in Nat BY DEF ChecksumInv, Inputs, Words
<1>5. Covers(sum[Words], all_sum') BY <1>2, <1>4, FoldCovers
<1>6. (sum[Words])' = sum[Words] BY <1>1, <1>2 DEF inputs
<1>7. Folded' BY <1>2, <1>3, <1>5, <1>6 DEF Folded, Covers, M
<1> QED BY <1>1, <1>2, <1>7 DEF ChecksumInv, Added, ReceiverAccepts

LEMMA InvertInv == ASSUME ChecksumInv, Invert PROVE ChecksumInv'
<1>1. Inputs' /\ Words' = Words BY SameInputs DEF ChecksumInv, Invert
<1>2. /\ pc' = "return" /\ all_sum \in Nat /\ all_sum \div M <= 0
      /\ Covers(sum[Words], all_sum) /\ UNCHANGED inputs
      /\ checksum' = (-1 - all_sum) % M
  BY DEF ChecksumInv, Invert, Folded
<1>3. all_sum \in 0 .. M - 1
  <2>1. all_sum \div M = 0 BY <1>2, Halves
  <2>2. M * 0 = 0 BY WordSize
  <2> QED BY <1>2, <2>1, <2>2, Halves, WordSize
<1>4. checksum' = M - 1 - all_sum BY <1>2, <1>3, WordInverse
<1>5. sum[Words] \in Nat BY DEF ChecksumInv, Inputs, Words
<1>6. \E k \in 1 .. sum[Words] + 1 : sum[Words] + (M - 1 - all_sum) = k * (M - 1)
  BY <1>2, <1>3, <1>5, InverseCompletes
<1>7. (sum[Words])' = sum[Words] BY <1>1, <1>2 DEF inputs
<1>8. checksum' \in 0 .. M - 1 BY <1>3, <1>4, WordSize
<1>9. ReceiverAccepts' BY <1>4, <1>6, <1>7, <1>8 DEF ReceiverAccepts, M
<1> QED BY <1>1, <1>2, <1>9 DEF ChecksumInv, Added, Folded

\* The checksum makes every receiver accept the header (client.c:129-152).
THEOREM ChecksumIsRight == Spec => []ReceiverAccepts
<1>1. ChecksumInv /\ [Next]_vars => ChecksumInv'
  <2> SUFFICES ASSUME ChecksumInv, [Next]_vars PROVE ChecksumInv' OBVIOUS
  <2>1. CASE AddWord BY <2>1, AddWordInv
  <2>2. CASE AddLast BY <2>2, AddLastInv
  <2>3. CASE Fold BY <2>3, FoldInv
  <2>4. CASE Invert BY <2>4, InvertInv
  <2>5. CASE UNCHANGED vars
    <3>1. Inputs' /\ Words' = Words BY <2>5, SameInputs DEF ChecksumInv, vars, inputs
    <3> QED BY <2>5, <3>1 DEF ChecksumInv, vars, inputs, Added, Folded, Covers, ReceiverAccepts, M
  <2> QED BY <2>1, <2>2, <2>3, <2>4, <2>5 DEF Next
<1>2. ChecksumInv => ReceiverAccepts BY DEF ChecksumInv
<1> QED BY ChecksumInitInv, <1>1, <1>2, PTL DEF Spec

-----------------------------------------------------------------------------
(* The raw sockets.  A client that is the first on its machine has at most   *)
(* one number on its way: waiting at the server, held by it, or answered.    *)

RawTypes ==
  /\ client \in [Client -> {"start", "ask", "recv", "more", "done"}]
  /\ message \in [Client -> Int] /\ answer \in [Client -> Int]
  /\ queue \in [Client -> Seq(Raw!Frame)]
  /\ inbox \in Seq(Int) /\ buffer \in Int /\ foreign \in BOOLEAN

First(c) == \A d \in Client \ {c} : client[d] = "start"

Square(c) == Raw!Wrap(message[c] * message[c])

\* Frame k of c's queue will be taken for the answer.
IsAnswer(c, k) == k \in 1 .. Len(queue[c]) /\ queue[c][k].port = "client"

NoAnswer(c) == \A k \in 1 .. Len(queue[c]) : ~IsAnswer(c, k)

Asked(c) ==
  /\ inbox # <<>> => inbox = <<message[c]>> /\ server # "send" /\ NoAnswer(c)
  /\ server = "send" => buffer = Square(c) /\ NoAnswer(c)
  /\ \A k, l \in 1 .. Len(queue[c]) : IsAnswer(c, k) /\ IsAnswer(c, l) =>
       k = l /\ queue[c][k].data = Square(c)

RawTurn(c) ==
  First(c) /\ ~foreign =>
    /\ client[c] \in {"start", "ask", "more"} =>
         inbox = <<>> /\ server # "send" /\ NoAnswer(c)
    /\ client[c] = "recv" => Asked(c)
    /\ client[c] = "more" => answer[c] = Square(c)

RawInv == RawTypes /\ \A c \in Client : RawTurn(c)

\* A product that does not fit in an int is still an int.
LEMMA WrapInt == \A x \in Int : Raw!Wrap(x) \in Int
  BY IntMaxAssumption DEF Raw!Wrap

\* What one more frame, or one less, makes of a queue.
LEMMA HearEffect ==
  ASSUME RawTypes, NEW S, NEW f \in Raw!Frame, Raw!Hear(S, f)
  PROVE  /\ queue' \in [Client -> Seq(Raw!Frame)]
         /\ \A c \in Client : queue'[c] = queue[c] \/ queue'[c] = Append(queue[c], f)
  BY DEF RawTypes, Raw!Hear

\* Nothing is on its way before the first number is sent.
LEMMA RawInitInv == Raw!Init \/ Raw!Off => RawInv
<1> SUFFICES ASSUME Raw!Init \/ Raw!Off PROVE RawInv
  OBVIOUS
<1>1. RawTypes
  <2>1. /\ inbox = <<>> /\ buffer = 0 /\ foreign = FALSE /\ queue = [c \in Client |-> <<>>]
        /\ message = [c \in Client |-> 0] /\ answer = [c \in Client |-> 0]
        /\ \/ client = [c \in Client |-> "start"]
           \/ client = [c \in Client |-> "done"]
    BY DEF Raw!Init, Raw!Off, Raw!Fresh
  <2>2. inbox \in Seq(Int) /\ buffer \in Int
    BY <2>1
  <2>3. queue \in [Client -> Seq(Raw!Frame)]
    BY <2>1
  <2> QED
    BY <2>1, <2>2, <2>3 DEF RawTypes
<1>2. ASSUME NEW c \in Client PROVE RawTurn(c)
  <2>1. queue[c] = <<>> /\ inbox = <<>> /\ server # "send" /\ client[c] \in {"start", "done"}
    BY DEF Raw!Init, Raw!Off, Raw!Fresh
  <2>2. NoAnswer(c)
    BY <2>1 DEF NoAnswer, IsAnswer
  <2> QED
    BY <2>1, <2>2 DEF RawTurn
<1> QED
  BY <1>1, <1>2 DEF RawInv

\* Every number read, multiplied or printed is an int.
LEMMA RawTypesNext == RawTypes /\ Raw!Next => RawTypes'
<1> SUFFICES ASSUME RawTypes, Raw!Next PROVE RawTypes'
  OBVIOUS
<1>1. CASE Raw!ServerLoop \/ Raw!Interrupt
  BY <1>1 DEF RawTypes, Raw!ServerLoop, Raw!Interrupt, Raw!clientVars
<1>2. CASE Raw!ServerRecv
  <2>1. Head(inbox) \in Int /\ Tail(inbox) \in Seq(Int)
    BY <1>2, QueueHead DEF RawTypes, Raw!ServerRecv
  <2>2. Head(inbox) * Head(inbox) \in Int
    BY <2>1
  <2> QED
    BY <1>2, <2>1, <2>2, WrapInt DEF RawTypes, Raw!ServerRecv, Raw!clientVars
<1>3. CASE Raw!ServerSend
  <2> DEFINE f == [port |-> "client", from |-> "server", data |-> buffer]
  <2>1. f \in Raw!Frame
    BY DEF RawTypes, Raw!Frame
  <2>2. queue' \in [Client -> Seq(Raw!Frame)]
    BY <1>3, <2>1, HearEffect DEF Raw!ServerSend, RawTypes
  <2> QED
    BY <1>3, <2>2 DEF RawTypes, Raw!ServerSend
<1>4. CASE Raw!Traffic
  <2>1. PICK f \in [port : {"other", "client"}, from : {"server", "other"}, data : {0}] :
          Raw!Hear(Client, f) /\ foreign' = (foreign \/ Raw!ForClient(f))
    BY <1>4 DEF Raw!Traffic
  <2>2. f \in Raw!Frame
    BY DEF Raw!Frame
  <2>3. queue' \in [Client -> Seq(Raw!Frame)]
    BY <2>1, <2>2, HearEffect
  <2>4. foreign' \in BOOLEAN
    BY <2>1 DEF Raw!ForClient, RawTypes
  <2> QED
    BY <1>4, <2>3, <2>4 DEF RawTypes, Raw!Traffic, Raw!serverVars
<1>5. ASSUME NEW c \in Client, Raw!Start(c) \/ Raw!Again(c) \/ Raw!End(c) PROVE RawTypes'
  <2>1. UNCHANGED <<message, answer, inbox, buffer, foreign>>
    BY <1>5 DEF Raw!Start, Raw!Again, Raw!End, Raw!serverVars
  <2>2. queue' \in [Client -> Seq(Raw!Frame)]
    <3>1. queue' = queue \/ queue' = [queue EXCEPT ![c] = <<>>]
      BY <1>5 DEF Raw!Start, Raw!Again, Raw!End
    <3>2. <<>> \in Seq(Raw!Frame)
      OBVIOUS
    <3> QED
      BY <3>1, <3>2 DEF RawTypes
  <2>3. client' \in [Client -> {"start", "ask", "recv", "more", "done"}]
    BY <1>5 DEF RawTypes, Raw!Start, Raw!Again, Raw!End
  <2> QED
    BY <2>1, <2>2, <2>3 DEF RawTypes
<1>6. ASSUME NEW c \in Client, Raw!Send(c) PROVE RawTypes'
  <2>1. PICK n \in RawNumber, S \in SUBSET Client :
          /\ message' = [message EXCEPT ![c] = n]
          /\ inbox' = inbox \/ inbox' = Append(inbox, n)
          /\ Raw!Hear(S, [port |-> "server", from |-> "server", data |-> n])
    BY <1>6 DEF Raw!Send
  <2>2. n \in Int /\ [port |-> "server", from |-> "server", data |-> n] \in Raw!Frame
    BY SmallAssumption DEF Raw!Frame
  <2>3. queue' \in [Client -> Seq(Raw!Frame)]
    BY <2>1, <2>2, HearEffect
  <2>4. inbox' \in Seq(Int)
    <3>1. inbox \in Seq(Int) /\ Append(inbox, n) \in Seq(Int)
      BY <2>2 DEF RawTypes
    <3> QED
      BY <2>1, <3>1
  <2>5. /\ message' \in [Client -> Int] /\ UNCHANGED <<answer, buffer, foreign>>
        /\ client' \in [Client -> {"start", "ask", "recv", "more", "done"}]
    BY <1>6, <2>1, <2>2 DEF RawTypes, Raw!Send
  <2> QED
    BY <2>3, <2>4, <2>5 DEF RawTypes
<1>7. ASSUME NEW c \in Client, Raw!Read(c) PROVE RawTypes'
  <2>1. Head(queue[c]) \in Raw!Frame /\ Tail(queue[c]) \in Seq(Raw!Frame)
    BY <1>7, QueueHead DEF RawTypes, Raw!Read
  <2>2. Head(queue[c]).data \in Int
    BY <2>1 DEF Raw!Frame
  <2>3. /\ client' = client \/ client' = [client EXCEPT ![c] = "more"]
        /\ answer' = answer \/ answer' = [answer EXCEPT ![c] = Head(queue[c]).data]
        /\ queue' = [queue EXCEPT ![c] = Tail(@)]
        /\ UNCHANGED <<message, inbox, buffer, foreign>>
    BY <1>7 DEF Raw!Read, Raw!serverVars
  <2> QED
    BY <2>1, <2>2, <2>3 DEF RawTypes
<1> QED
  BY <1>1, <1>2, <1>3, <1>4, <1>5, <1>6, <1>7
     DEF Raw!Next, Raw!ServerStep, Raw!ReadStep, Raw!ReadUdp, Raw!ReadIp, Raw!ReadEthernet

\* A client that starts is not the first any more, and none ever starts again.
LEMMA FirstStays ==
  ASSUME RawTypes, NEW c \in Client, First(c)', Raw!Next
  PROVE  /\ First(c)
         /\ \A d \in Client \ {c} : ~(Raw!Start(d) \/ Raw!Send(d) \/ Raw!ReadStep(d)
                                        \/ Raw!Again(d) \/ Raw!End(d))
<1>1. ASSUME NEW d \in Client, Raw!Start(d) \/ Raw!Send(d) \/ Raw!Again(d) \/ Raw!End(d)
      PROVE  client'[d] # "start" /\ \A e \in Client \ {d} : client'[e] = client[e]
  BY <1>1 DEF RawTypes, Raw!Start, Raw!Send, Raw!Again, Raw!End
<1>2. ASSUME NEW d \in Client, Raw!ReadStep(d)
      PROVE  client'[d] # "start" /\ \A e \in Client \ {d} : client'[e] = client[e]
  <2>1. client[d] = "recv" /\ (client' = client \/ client' = [client EXCEPT ![d] = "more"])
    BY <1>2 DEF Raw!ReadStep, Raw!ReadUdp, Raw!ReadIp, Raw!ReadEthernet, Raw!Read
  <2> QED
    BY <2>1 DEF RawTypes
<1>3. ASSUME Raw!ServerStep \/ Raw!Interrupt \/ Raw!Traffic PROVE client' = client
  BY <1>3 DEF Raw!ServerStep, Raw!ServerLoop, Raw!ServerRecv, Raw!ServerSend, Raw!Interrupt,
     Raw!Traffic, Raw!clientVars
<1>4. \A d \in Client \ {c} : client'[d] = "start"
  BY DEF First
<1>5. \A d \in Client \ {c} : ~(Raw!Start(d) \/ Raw!Send(d) \/ Raw!ReadStep(d)
                               \/ Raw!Again(d) \/ Raw!End(d))
  BY <1>1, <1>2, <1>4
<1>6. \A d \in Client \ {c} : client'[d] = client[d]
  BY <1>1, <1>2, <1>3, <1>5 DEF Raw!Next
<1> QED
  BY <1>4, <1>5, <1>6 DEF First

\* A frame for port 7564 that another program sent has come for good.
LEMMA ForeignStays == ASSUME Raw!Next, ~foreign' PROVE ~foreign
  BY DEF Raw!Next, Raw!ServerStep, Raw!ServerLoop, Raw!ServerRecv, Raw!ServerSend, Raw!Interrupt,
     Raw!Traffic, Raw!Start, Raw!Send, Raw!ReadStep, Raw!ReadUdp, Raw!ReadIp, Raw!ReadEthernet,
     Raw!Again, Raw!End, Raw!Read

\* A frame that is no answer changes nothing of what the client waits for.
LEMMA HearOther ==
  ASSUME RawTypes, NEW S, NEW f \in Raw!Frame, f.port # "client", Raw!Hear(S, f),
         NEW c \in Client
  PROVE  /\ \A k : IsAnswer(c, k)' => IsAnswer(c, k) /\ queue'[c][k] = queue[c][k]
         /\ NoAnswer(c) => NoAnswer(c)'
<1>1. queue[c] \in Seq(Raw!Frame)
  BY DEF RawTypes
<1>2. queue'[c] = queue[c] \/ queue'[c] = Append(queue[c], f)
  BY HearEffect
<1>3. /\ Len(Append(queue[c], f)) = Len(queue[c]) + 1 /\ Len(queue[c]) \in Nat
      /\ Append(queue[c], f)[Len(queue[c]) + 1] = f
      /\ \A k \in 1 .. Len(queue[c]) : Append(queue[c], f)[k] = queue[c][k]
  BY <1>1, AppendElements
<1>4. ASSUME NEW k, IsAnswer(c, k)' PROVE IsAnswer(c, k) /\ queue'[c][k] = queue[c][k]
  <2>1. CASE queue'[c] = queue[c]
    BY <1>4, <2>1 DEF IsAnswer
  <2>2. CASE queue'[c] = Append(queue[c], f)
    <3>1. k \in 1 .. Len(queue[c]) + 1 /\ queue'[c][k].port = "client"
      BY <1>3, <1>4, <2>2 DEF IsAnswer
    <3>2. k # Len(queue[c]) + 1
      BY <1>3, <2>2, <3>1
    <3>3. k \in 1 .. Len(queue[c])
      BY <1>3, <3>1, <3>2
    <3> QED
      BY <1>3, <2>2, <3>1, <3>3 DEF IsAnswer
  <2> QED
    BY <1>2, <2>1, <2>2
<1>5. NoAnswer(c) => NoAnswer(c)'
  BY <1>4 DEF NoAnswer, IsAnswer
<1> QED
  BY <1>4, <1>5

\* Who leaves the numbers alone, and brings no answer, leaves the turn alone.
LEMMA RawTurnFrame ==
  ASSUME RawTypes, NEW c \in Client, First(c), ~foreign, RawTurn(c),
         UNCHANGED <<client, message, answer, inbox>>,
         server' = "send" => server = "send",
         server = "send" => buffer' = buffer,
         \A k : IsAnswer(c, k)' => IsAnswer(c, k) /\ queue'[c][k] = queue[c][k]
  PROVE  RawTurn(c)'
<1>1. NoAnswer(c) => NoAnswer(c)'
  BY DEF NoAnswer, IsAnswer
<1>2. Square(c)' = Square(c)
  BY DEF Square
<1>3. Asked(c) => Asked(c)'
  <2> SUFFICES ASSUME Asked(c) PROVE Asked(c)'
    OBVIOUS
  <2>1. \A k, l : IsAnswer(c, k)' /\ IsAnswer(c, l)' => k = l /\ queue'[c][k].data = Square(c)'
    BY <1>2 DEF Asked, IsAnswer
  <2> QED
    BY <1>1, <1>2, <2>1 DEF Asked
<1> QED
  BY <1>1, <1>2, <1>3 DEF RawTurn

\* The answer comes to the client that waits for it.
LEMMA AnswerHeard ==
  ASSUME RawInv, NEW c \in Client, First(c), ~foreign, Raw!ServerSend
  PROVE  RawTurn(c)'
<1>0. /\ server = "send" /\ server' = "loop" /\ UNCHANGED <<client, message, answer, inbox>>
      /\ RawTurn(c) /\ queue[c] \in Seq(Raw!Frame)
  BY DEF Raw!ServerSend, RawInv, RawTypes
<1>1. CASE client[c] # "recv"
  BY <1>0, <1>1 DEF RawTurn, RawInv, RawTypes
<1>2. CASE client[c] = "recv"
  <2>1. /\ inbox = <<>> /\ buffer = Square(c) /\ NoAnswer(c)
    BY <1>0, <1>2 DEF RawTurn, Asked
  <2>2. PICK f \in Raw!Frame : f = [port |-> "client", from |-> "server", data |-> buffer]
    BY DEF RawInv, RawTypes, Raw!Frame
  <2>3. f.data = Square(c)
    BY <2>1, <2>2
  <2>4. queue'[c] = queue[c] \/ queue'[c] = Append(queue[c], f)
    BY <2>2, HearEffect DEF Raw!ServerSend, RawInv
  <2>5. /\ Len(Append(queue[c], f)) = Len(queue[c]) + 1 /\ Len(queue[c]) \in Nat
        /\ Append(queue[c], f)[Len(queue[c]) + 1] = f
        /\ \A k \in 1 .. Len(queue[c]) : Append(queue[c], f)[k] = queue[c][k]
    BY <1>0, AppendElements
  <2>6. ASSUME NEW k, IsAnswer(c, k)' PROVE k = Len(queue[c]) + 1 /\ queue'[c][k] = f
    <3>1. CASE queue'[c] = queue[c]
      BY <2>1, <2>6, <3>1 DEF IsAnswer, NoAnswer
    <3>2. CASE queue'[c] = Append(queue[c], f)
      <4>1. k \in 1 .. Len(queue[c]) + 1
        BY <2>5, <2>6, <3>2 DEF IsAnswer
      <4>2. ~(k \in 1 .. Len(queue[c]))
        BY <2>1, <2>5, <2>6, <3>2 DEF IsAnswer, NoAnswer
      <4>3. k = Len(queue[c]) + 1
        BY <2>5, <4>1, <4>2
      <4> QED
        BY <2>5, <3>2, <4>3
    <3> QED
      BY <2>4, <3>1, <3>2
  <2>7. Square(c)' = Square(c)
    BY <1>0 DEF Square
  <2>8. Asked(c)'
    BY <1>0, <2>1, <2>3, <2>6, <2>7 DEF Asked
  <2> QED
    BY <1>0, <1>2, <2>8 DEF RawTurn
<1> QED
  BY <1>1, <1>2

\* A frame is printed as the answer, or skipped.
LEMMA FrameRead ==
  ASSUME RawInv, NEW c \in Client, First(c), ~foreign, Raw!Read(c)
  PROVE  RawTurn(c)'
<1>0. /\ client[c] = "recv" /\ queue[c] # <<>> /\ queue[c] \in Seq(Raw!Frame) /\ Asked(c)
      /\ queue'[c] = Tail(queue[c]) /\ UNCHANGED <<message, server, buffer, inbox>>
  BY DEF Raw!Read, RawInv, RawTypes, RawTurn, Raw!serverVars
<1>1. PICK f : f = Head(queue[c])
  OBVIOUS
<1>2. /\ f = queue[c][1] /\ 1 \in 1 .. Len(queue[c])
      /\ \A k \in 1 .. Len(Tail(queue[c])) :
           k + 1 \in 1 .. Len(queue[c]) /\ k + 1 # 1 /\ Tail(queue[c])[k] = queue[c][k + 1]
  BY <1>0, <1>1, QueueHead
<1>3. ASSUME NEW k, IsAnswer(c, k)'
      PROVE  IsAnswer(c, k + 1) /\ k + 1 # 1 /\ queue'[c][k] = queue[c][k + 1] /\ k \in Int
  BY <1>0, <1>2, <1>3 DEF IsAnswer
<1>4. Square(c)' = Square(c)
  BY <1>0 DEF Square
<1>5. CASE f.port = "client"
  <2>1. IsAnswer(c, 1)
    BY <1>2, <1>5 DEF IsAnswer
  <2>2. inbox = <<>> /\ server # "send" /\ f.data = Square(c)
    BY <1>0, <1>2, <2>1 DEF Asked, NoAnswer
  <2>3. \A k : ~IsAnswer(c, k)'
    BY <1>0, <1>2, <1>3, <2>1 DEF Asked, IsAnswer
  <2>4. client'[c] = "more" /\ answer'[c] = f.data
    BY <1>1, <1>5 DEF Raw!Read, Raw!ForClient, RawInv, RawTypes
  <2> QED
    BY <1>0, <1>4, <2>2, <2>3, <2>4 DEF RawTurn, NoAnswer
<1>6. CASE f.port # "client"
  <2>1. client' = client
    BY <1>1, <1>6 DEF Raw!Read, Raw!ForClient
  <2>2. NoAnswer(c) => NoAnswer(c)'
    BY <1>3 DEF NoAnswer, IsAnswer
  <2>3. \A k, l : IsAnswer(c, k)' /\ IsAnswer(c, l)' => k = l /\ queue'[c][k].data = Square(c)'
    <3> SUFFICES ASSUME NEW k, NEW l, IsAnswer(c, k)', IsAnswer(c, l)'
                 PROVE  k = l /\ queue'[c][k].data = Square(c)'
      OBVIOUS
    <3>1. IsAnswer(c, k + 1) /\ IsAnswer(c, l + 1) /\ k \in Int /\ l \in Int
      BY <1>3
    <3>2. k + 1 = l + 1 /\ queue[c][k + 1].data = Square(c)
      BY <1>0, <3>1 DEF Asked, IsAnswer
    <3>3. k = l
      BY <3>1, <3>2
    <3> QED
      BY <1>3, <1>4, <3>2, <3>3
  <2>4. Asked(c)'
    BY <1>0, <1>4, <2>2, <2>3 DEF Asked
  <2> QED
    BY <1>0, <2>1, <2>4 DEF RawTurn
<1> QED
  BY <1>5, <1>6

\* One number at a time: sent, held by the server, answered, printed.
LEMMA RawTurnNext ==
  ASSUME RawInv, Raw!Next, NEW c \in Client
  PROVE  RawTurn(c)'
<1> SUFFICES ASSUME First(c)', ~foreign' PROVE RawTurn(c)'
  BY DEF RawTurn
<1>0. RawTypes /\ RawTurn(c)
  BY DEF RawInv
<1>1. First(c) /\ ~foreign
  BY <1>0, FirstStays, ForeignStays
<1>2. CASE Raw!ServerLoop \/ Raw!Interrupt
  <2>1. /\ UNCHANGED <<client, message, answer, inbox, queue, buffer>>
        /\ server' = "send" => server = "send"
    BY <1>2 DEF Raw!ServerLoop, Raw!Interrupt, Raw!clientVars
  <2>2. \A k : IsAnswer(c, k)' => IsAnswer(c, k) /\ queue'[c][k] = queue[c][k]
    BY <2>1 DEF IsAnswer
  <2> QED
    BY <1>0, <1>1, <2>1, <2>2, RawTurnFrame
<1>3. CASE Raw!Traffic
  <2>1. PICK f \in [port : {"other", "client"}, from : {"server", "other"}, data : {0}] :
          Raw!Hear(Client, f) /\ foreign' = (foreign \/ Raw!ForClient(f))
    BY <1>3 DEF Raw!Traffic
  <2>2. f \in Raw!Frame
    BY DEF Raw!Frame
  <2>3. f.port # "client"
    <3>1. ~(foreign \/ Raw!ForClient(f))
      BY <2>1, Zenon
    <3> QED
      BY <3>1 DEF Raw!ForClient
  <2>4. UNCHANGED <<client, message, answer, inbox, buffer, server>>
    BY <1>3 DEF Raw!Traffic, Raw!serverVars
  <2> QED
    BY <1>0, <1>1, <2>1, <2>2, <2>3, <2>4, HearOther, RawTurnFrame
<1>4. CASE Raw!ServerRecv
  <2>1. /\ inbox # <<>> /\ buffer' = Raw!Wrap(Head(inbox) * Head(inbox)) /\ inbox' = Tail(inbox)
        /\ server' = "send" /\ UNCHANGED <<client, message, answer, queue>>
    BY <1>4 DEF Raw!ServerRecv, Raw!clientVars
  <2>2. CASE client[c] = "recv"
    <3>1. inbox = <<message[c]>> /\ NoAnswer(c)
      BY <1>0, <1>1, <2>1, <2>2 DEF RawTurn, Asked
    <3>2. Head(inbox) = message[c] /\ Tail(inbox) = <<>>
      BY <3>1
    <3>3. inbox' = <<>> /\ buffer' = Square(c)' /\ NoAnswer(c)'
      BY <2>1, <3>1, <3>2 DEF Square, NoAnswer, IsAnswer
    <3> QED
      BY <2>1, <2>2, <3>3 DEF RawTurn, Asked, NoAnswer
  <2>3. CASE client[c] # "recv"
    BY <1>0, <1>1, <2>1, <2>3 DEF RawTurn, RawTypes
  <2> QED
    BY <2>2, <2>3
<1>5. CASE Raw!ServerSend
  BY <1>1, <1>5, AnswerHeard
<1>6. CASE Raw!Start(c) \/ Raw!Again(c)
  <2>1. /\ client[c] \in {"start", "more"} /\ client'[c] = "ask"
        /\ UNCHANGED <<inbox, server, queue>>
    BY <1>0, <1>6 DEF Raw!Start, Raw!Again, Raw!serverVars, RawTypes
  <2>2. NoAnswer(c)'
    BY <1>0, <1>1, <2>1 DEF RawTurn, NoAnswer, IsAnswer
  <2> QED
    BY <1>0, <1>1, <2>1, <2>2 DEF RawTurn
<1>7. CASE Raw!End(c)
  <2>1. client'[c] = "done"
    BY <1>0, <1>7 DEF Raw!End, RawTypes
  <2> QED
    BY <2>1 DEF RawTurn
<1>8. CASE Raw!Send(c)
  <2>1. PICK n \in RawNumber, S \in SUBSET Client :
          /\ message' = [message EXCEPT ![c] = n]
          /\ inbox' = inbox \/ inbox' = Append(inbox, n)
          /\ Raw!Hear(S, [port |-> "server", from |-> "server", data |-> n])
    BY <1>8 DEF Raw!Send
  <2>2. PICK f \in Raw!Frame : f = [port |-> "server", from |-> "server", data |-> n]
    BY SmallAssumption DEF Raw!Frame
  <2>3. f.port # "client" /\ Raw!Hear(S, f)
    BY <2>1, <2>2
  <2>4. client[c] = "ask" /\ client'[c] = "recv" /\ server' = server
    BY <1>0, <1>8 DEF Raw!Send, RawTypes
  <2>5. inbox = <<>> /\ server # "send" /\ NoAnswer(c)
    BY <1>0, <1>1, <2>4 DEF RawTurn
  <2>6. NoAnswer(c)'
    BY <1>0, <2>3, <2>5, HearOther
  <2>7. message'[c] = n
    BY <1>0, <2>1 DEF RawTypes
  <2>8. Append(<<>>, n) = <<n>>
    OBVIOUS
  <2>9. inbox' = <<>> \/ inbox' = <<message'[c]>>
    BY <2>1, <2>5, <2>7, <2>8
  <2>10. Asked(c)'
    BY <2>4, <2>5, <2>6, <2>9 DEF Asked, NoAnswer
  <2> QED
    BY <2>4, <2>10 DEF RawTurn
<1>9. CASE Raw!ReadStep(c)
  BY <1>1, <1>9, FrameRead DEF Raw!ReadStep, Raw!ReadUdp, Raw!ReadIp, Raw!ReadEthernet
<1> QED
  BY <1>0, <1>2, <1>3, <1>4, <1>5, <1>6, <1>7, <1>8, <1>9, FirstStays
     DEF Raw!Next, Raw!ServerStep

LEMMA RawNext == RawInv /\ Raw!Next => RawInv'
  BY RawTypesNext, RawTurnNext DEF RawInv

LEMMA RawFrame == RawInv /\ UNCHANGED rawVars => RawInv'
  BY DEF RawInv, RawTypes, RawTurn, First, Asked, NoAnswer, IsAnswer, Square, rawVars

-----------------------------------------------------------------------------
(* The echo pairs: what a client has heard and what is coming, against where *)
(* the server and the client are.                                            *)

Replies == {"hi", "yes"}
Requests == {"hello", "exit"}

EchoTypes ==
  /\ srv \in {"accept", "recv1", "send1", "recv2", "send2", "done", "failed"}
  /\ cli \in [Client -> {"off", "start", "bind", "send1", "recv1", "send2", "recv2", "refused",
                         "done", "failed"}]
  /\ peer \in Client \cup {Nobody}
  /\ heard \in [Client -> Seq(Replies)] /\ got \in [Client -> Seq(Replies)]
  /\ sent \in [Client -> Seq(Requests)]
  /\ Echo!Dgram => mail \in Seq([from : Client, msg : Requests])
  /\ Echo!Stream => mail \in Seq(Client)
  /\ path \in Client \cup {Nobody} /\ linked \subseteq Client
  /\ bound \in BOOLEAN

Silence(c) == heard[c] = <<>> /\ got[c] = <<>>
HiComes(c) == heard[c] = <<>> /\ got[c] = <<"hi">>
HiHeard(c) == heard[c] = <<"hi">> /\ got[c] = <<>>
YesComes(c) == heard[c] = <<"hi">> /\ got[c] = <<"yes">>
AllHeard(c) == heard[c] = <<"hi", "yes">> /\ got[c] = <<>>

\* How far the server is, and what it can have said so far.
HeardSoFar(c) ==
  /\ Silence(c) \/ HiComes(c) \/ HiHeard(c) \/ YesComes(c) \/ AllHeard(c)
  /\ srv \in {"accept", "recv1", "send1"} => Silence(c)
  /\ srv \in {"recv2", "send2"} => Silence(c) \/ HiComes(c) \/ HiHeard(c)
  /\ cli[c] \in {"start", "bind", "send1"} => Silence(c)

\* c waits for the answer to its second message.
Exiting(c) == cli[c] = "recv2" /\ HiHeard(c)

\* Datagrams: c has sent what the server has of it.
DgramInv(c) ==
  /\ \A k \in 1 .. Len(mail) : mail[k].from = c =>
       /\ cli[c] \notin {"start", "bind", "send1"}
       /\ mail[k].msg = "exit" => Echo!Gone(c) \/ Exiting(c)
  /\ cli[c] = "send2" => HiHeard(c)
  /\ Echo!Sending /\ peer = c =>
       /\ cli[c] \notin {"start", "bind", "send1"}
       /\ srv = "send2" => Echo!Gone(c) \/ Exiting(c)

\* Streams: what the server has not read yet, of a client it has not
\* accepted, or of the one it has.
Unserved(c) ==
  /\ Silence(c)
  /\ \/ cli[c] \in {"start", "send1"} /\ sent[c] = <<>>
     \/ cli[c] = "recv1" /\ sent[c] = <<"hello">>

Served(c) ==
  /\ srv = "recv1" => Unserved(c)
  /\ srv = "send1" => cli[c] = "recv1" /\ sent[c] = <<>> /\ Silence(c)
  /\ srv = "recv2" => \/ cli[c] = "recv1" /\ sent[c] = <<>> /\ HiComes(c)
                      \/ cli[c] = "send2" /\ sent[c] = <<>> /\ HiHeard(c)
                      \/ Exiting(c) /\ sent[c] = <<"exit">>
  /\ srv = "send2" => Exiting(c)

StreamInv(c) ==
  /\ cli[c] # "start" => c \in linked
  /\ \/ Echo!Gone(c)
     \/ srv # "accept" /\ peer = c /\ cli[c] # "start" /\ Served(c)
     \/ (srv = "accept" \/ peer # c) /\ Unserved(c)
  /\ srv # "accept" => peer # Nobody
  /\ \A k \in 1 .. Len(mail) : mail[k] = c => cli[c] # "start"

Order(c) == /\ HeardSoFar(c)
            /\ Echo!Dgram /\ Echo!Up => DgramInv(c)
            /\ Echo!Stream /\ Echo!Up /\ Echo!Listens => StreamInv(c)

\* A stream server that failed to listen, or to accept, answers nobody.
Unheard(c) == Echo!Stream /\ ~Echo!Listens =>
                Silence(c) /\ peer = Nobody /\ (bound \/ mail = <<>>)

OrderInv == program # "AF_Local_Sock_Dgram" => \A c \in Client : Order(c) /\ Unheard(c)

\* The conversation of a client that is alone with its server, over datagrams ...
DgramTalk(c) ==
  LET Hello == [from |-> c, msg |-> "hello"]
      Exit == [from |-> c, msg |-> "exit"]
  IN \/ /\ cli[c] \in {"start", "bind", "send1"} /\ Silence(c)
        /\ srv \in {"accept", "recv1"} /\ mail = <<>>
     \/ /\ cli[c] = "recv1"
        /\ \/ Silence(c) /\ srv \in {"accept", "recv1"} /\ mail = <<Hello>>
           \/ Silence(c) /\ srv = "send1" /\ peer = c /\ mail = <<>>
           \/ HiComes(c) /\ srv = "recv2" /\ mail = <<>>
     \/ cli[c] = "send2" /\ HiHeard(c) /\ srv = "recv2" /\ mail = <<>>
     \/ /\ cli[c] = "recv2"
        /\ \/ HiHeard(c) /\ srv = "recv2" /\ mail = <<Exit>>
           \/ HiHeard(c) /\ srv = "send2" /\ peer = c
           \/ YesComes(c) /\ srv = "done"
     \/ cli[c] = "done" /\ AllHeard(c) /\ srv = "done"

PathInv(c) == /\ path = IF Echo!Local /\ cli[c] \notin {"start", "bind"} THEN c ELSE Nobody
              /\ cli[c] = "bind" => Echo!Local

\* ... and over a stream.
StreamTalk(c) ==
  \/ cli[c] = "start" /\ Silence(c) /\ srv = "accept" /\ mail = <<>> /\ sent[c] = <<>>
  \/ /\ cli[c] # "start" /\ c \in linked
     /\ \/ srv = "accept" /\ mail = <<c>> /\ Unserved(c)
        \/ Echo!Up /\ srv # "accept" /\ peer = c /\ Served(c)
        \/ srv = "done" /\ cli[c] = "recv2" /\ YesComes(c)
        \/ srv = "done" /\ cli[c] = "done" /\ AllHeard(c)

AloneInv(c) ==
  Echo!Alone(c) /\ Echo!Listens =>
    /\ spoiled = {}
    /\ \/ cli[c] = "off" /\ srv = "done" /\ Silence(c)
       \/ Echo!Dgram /\ DgramTalk(c) /\ PathInv(c)
       \/ Echo!Stream /\ StreamTalk(c)

EchoInv == EchoTypes /\ OrderInv /\ \A c \in Client : AloneInv(c)

-----------------------------------------------------------------------------
\* Sequences of one element and of two.
LEMMA Singles ==
  /\ \A x : Head(<<x>>) = x /\ Tail(<<x>>) = <<>> /\ Append(<<>>, x) = <<x>> /\ <<x>> # <<>>
  /\ \A x, y : Append(<<x>>, y) = <<x, y>>
  /\ \A k : ~(k \in 1 .. Len(<<>>))
  /\ \A x, k : k \in 1 .. Len(<<x>>) => k = 1 /\ <<x>>[k] = x
<1>1. \A x : Head(<<x>>) = x /\ <<x>> # <<>>
  OBVIOUS
<1>2. ASSUME NEW x PROVE Tail(<<x>>) = <<>>
  <2> DEFINE q == Append(<<>>, x)
  <2>1. <<>> \in Seq({x})
    OBVIOUS
  <2>2. q \in Seq({x})
    BY <2>1
  <2>3. q = <<x>>
    OBVIOUS
  <2>4. Len(<<>>) = 0 /\ Len(q) = Len(<<>>) + 1
    BY <2>1
  <2> HIDE DEF q
  <2>5. q # <<>> /\ Len(q) <= 1
    BY <2>4
  <2>6. Tail(q) = <<>>
    BY <2>2, <2>5, LastOne
  <2> QED
    BY <2>3, <2>6
<1>3. \A x : Append(<<>>, x) = <<x>>
  OBVIOUS
<1>4. ASSUME NEW x, NEW y PROVE Append(<<x>>, y) = <<x, y>>
  <2> DEFINE S == {x, y}
  <2>1. x \in S /\ y \in S
    OBVIOUS
  <2> HIDE DEF S
  <2>2. <<x>> \in Seq(S) /\ <<x, y>> \in Seq(S)
    BY <2>1
  <2>3. Append(<<x>>, y) \in Seq(S)
    BY <2>1, <2>2
  <2>4. Len(<<x>>) = 1 /\ Len(<<x, y>>) = 2 /\ Len(Append(<<x>>, y)) = 2
    BY <2>1, <2>2
  <2>5. Append(<<x>>, y)[1] = x /\ Append(<<x>>, y)[2] = y
    BY <2>1, <2>2, <2>4, AppendElements
  <2>6. \A k \in 1 .. 2 : Append(<<x>>, y)[k] = <<x, y>>[k]
    BY <2>5
  <2> QED
    BY <2>2, <2>3, <2>4, <2>6, SeqEqual
<1>5. \A k : ~(k \in 1 .. Len(<<>>))
  OBVIOUS
<1>6. \A x, k : k \in 1 .. Len(<<x>>) => k = 1 /\ <<x>>[k] = x
  OBVIOUS
<1> QED
  BY <1>1, <1>2, <1>3, <1>4, <1>5, <1>6

\* The programs of a behaviour do not change.
LEMMA SameProgram ==
  ASSUME Echo!Next
  PROVE  /\ program' = program /\ (Echo!Dgram' <=> Echo!Dgram) /\ (Echo!Stream' <=> Echo!Stream)
         /\ (Echo!Local' <=> Echo!Local)
<1>1. program' = program
  BY DEF Echo!Next, Echo!ServerStep, Echo!AcceptFails, Echo!ClientStep, Echo!Accept,
     Echo!RecvFrom, Echo!SendTo, Echo!Recv, Echo!SendStream, Echo!Unlink, Echo!BindPath, Echo!ConnectInet,
     Echo!ConnectStream, Echo!SendDgram, Echo!SendBytes, Echo!Receive, Echo!ReceiveRefused,
     Echo!ReceiveNothing, Echo!Kill
<1> QED
  BY <1>1 DEF Echo!Dgram, Echo!Stream, Echo!Local

LEMMA OneKind == ~(Echo!Dgram /\ Echo!Stream)
  BY DEF Echo!Dgram, Echo!Stream

\* What has failed does not come back: accept is called once.
LEMMA ListensStays ==
  ASSUME Echo!Next, Echo!Listens'
  PROVE  Echo!Listens /\ ~Echo!AcceptFails /\ bound' = bound
<1>1. /\ (Echo!Stream' <=> Echo!Stream) /\ bound' = bound
      /\ ~Echo!Accept => peer' = peer \/ Echo!Dgram \/ Echo!AcceptFails
      /\ srv' = "accept" => srv = "accept"
  BY SameProgram DEF Echo!Next, Echo!ServerStep, Echo!ClientStep, Echo!Accept, Echo!AcceptFails,
     Echo!RecvFrom, Echo!SendTo, Echo!Recv, Echo!SendStream, Echo!Unlink, Echo!BindPath,
     Echo!ConnectInet, Echo!ConnectStream, Echo!SendDgram, Echo!SendBytes, Echo!Receive,
     Echo!ReceiveRefused, Echo!ReceiveNothing, Echo!Kill, Echo!srvVars, Echo!Sent
<1>2. ~Echo!AcceptFails
  BY <1>1 DEF Echo!AcceptFails, Echo!Listens
<1>3. Echo!Accept => srv = "accept"
  BY DEF Echo!Accept
<1> QED
  BY <1>1, <1>2, <1>3, OneKind DEF Echo!Listens

\* What an append and a removal do to a sequence.
LEMMA Typed ==
  ASSUME NEW S, NEW q \in Seq(S)
  PROVE  /\ \A e \in S : Append(q, e) \in Seq(S)
         /\ q # <<>> => Head(q) \in S /\ Tail(q) \in Seq(S)
  OBVIOUS

LEMMA EchoTypesNext == EchoTypes /\ Echo!Next => EchoTypes'
<1> SUFFICES ASSUME EchoTypes, Echo!Next PROVE EchoTypes'
  OBVIOUS
<1> USE SameProgram
<1>1. CASE Echo!Accept
  <2>1. CASE Echo!Dgram
    BY <1>1, <2>1, OneKind DEF Echo!Accept, Echo!cliVars, EchoTypes
  <2>2. CASE Echo!Stream
    <3>1. mail \in Seq(Client) /\ mail # <<>>
      BY <1>1, <2>2, OneKind DEF Echo!Accept, EchoTypes
    <3>2. Head(mail) \in Client /\ Tail(mail) \in Seq(Client)
      BY <3>1, Typed
    <3> QED
      BY <1>1, <2>2, <3>2, OneKind DEF Echo!Accept, Echo!cliVars, EchoTypes
  <2> QED
    BY <1>1, <2>1, <2>2 DEF Echo!Accept
<1>2. CASE Echo!RecvFrom
  <2> DEFINE D == [from : Client, msg : Requests]
  <2>1. mail \in Seq(D) /\ mail # <<>> /\ Echo!Dgram
    BY <1>2 DEF Echo!RecvFrom, EchoTypes
  <2>2. Head(mail) \in D /\ Tail(mail) \in Seq(D)
    BY <2>1, Typed
  <2>3. Head(mail).from \in Client
    BY <2>2
  <2>4. /\ peer' = Head(mail).from /\ mail' = Tail(mail)
        /\ UNCHANGED <<bound, sent, cli, got, path, linked, heard>>
        /\ srv' \in {"send1", "send2", "done"}
    BY <1>2 DEF Echo!RecvFrom, Echo!Receiving, Echo!cliVars
  <2> QED
    BY <2>1, <2>2, <2>3, <2>4, OneKind DEF EchoTypes
<1>3. CASE Echo!SendTo \/ Echo!SendStream
  <2>1. /\ UNCHANGED <<bound, mail, peer, sent, cli, path, linked, heard>>
        /\ srv' \in {"recv2", "done", "failed"}
        /\ \/ got' = got
           \/ \E a, w : got' = [got EXCEPT ![a] = Append(got[a], w)] /\ w \in Replies
    BY <1>3 DEF Echo!SendTo, Echo!SendStream, Echo!Sent, Echo!Answer, Echo!cliVars, Replies
  <2>2. \A a \in Client, w \in Replies : Append(got[a], w) \in Seq(Replies)
    BY Typed DEF EchoTypes
  <2>3. got' \in [Client -> Seq(Replies)]
    <3>1. CASE got' = got
      BY <3>1 DEF EchoTypes
    <3>2. ASSUME NEW a, NEW w \in Replies, got' = [got EXCEPT ![a] = Append(got[a], w)]
          PROVE  got' \in [Client -> Seq(Replies)]
      <4>1. got \in [Client -> Seq(Replies)] /\ (a \in Client => Append(got[a], w) \in Seq(Replies))
        BY <2>2 DEF EchoTypes
      <4> QED
        BY <3>2, <4>1
    <3> QED
      BY <2>1, <3>1, <3>2
  <2> QED
    BY <2>1, <2>3 DEF EchoTypes
<1>4. CASE Echo!Recv
  <2>1. /\ UNCHANGED <<bound, mail, peer, got, cli, path, linked, heard>>
        /\ srv' \in {"send1", "send2"}
        /\ \/ sent' = sent
           \/ sent[peer] # <<>> /\ sent' = [sent EXCEPT ![peer] = Tail(@)]
    BY <1>4 DEF Echo!Recv, Echo!cliVars
  <2>2. \A a \in Client : sent[a] # <<>> => Tail(sent[a]) \in Seq(Requests)
    BY Typed DEF EchoTypes
  <2>3. sent' \in [Client -> Seq(Requests)]
    BY <2>1, <2>2 DEF EchoTypes
  <2> QED
    BY <2>1, <2>3 DEF EchoTypes
<1>11. CASE Echo!AcceptFails
  BY <1>11 DEF Echo!AcceptFails, Echo!cliVars, EchoTypes
<1>5. ASSUME NEW c \in Client, Echo!Unlink(c) \/ Echo!BindPath(c) \/ Echo!ConnectInet(c)
      PROVE  EchoTypes'
  BY <1>5 DEF EchoTypes, Echo!Unlink, Echo!BindPath, Echo!ConnectInet, Echo!CliGoto, Echo!srvVars,
     Echo!cliVars
<1>6. ASSUME NEW c \in Client, Echo!ConnectStream(c) PROVE EchoTypes'
  <2>1. mail' \in Seq(Client) /\ Echo!Stream
    <3>1. Echo!Stream /\ mail \in Seq(Client)
      BY <1>6 DEF Echo!ConnectStream, EchoTypes
    <3>2. Append(mail, c) \in Seq(Client)
      BY <3>1, Typed
    <3> QED
      BY <1>6, <3>1, <3>2 DEF Echo!ConnectStream
  <2>2. /\ UNCHANGED <<bound, srv, peer, got, sent, path, heard>>
        /\ linked' \subseteq Client
        /\ cli' = [cli EXCEPT ![c] = "send1"]
    BY <1>6 DEF Echo!ConnectStream, EchoTypes, Echo!CliGoto
  <2> QED
    BY <2>1, <2>2, OneKind DEF EchoTypes
<1>7. ASSUME NEW c \in Client, Echo!SendDgram(c) PROVE EchoTypes'
  <2> DEFINE D == [from : Client, msg : Requests]
  <2>1. [from |-> c, msg |-> Echo!Text(c)] \in D
    BY DEF Echo!Text, Requests
  <2>2. mail \in Seq(D) /\ Echo!Dgram
    BY <1>7 DEF Echo!SendDgram, EchoTypes
  <2> HIDE DEF D
  <2>3. mail' \in Seq(D)
    BY <1>7, <2>1, <2>2, Typed DEF Echo!SendDgram
  <2>4. /\ UNCHANGED <<bound, srv, peer, sent, got, path, linked, heard>>
        /\ \E at \in {"recv1", "recv2", "failed", "refused"} : cli' = [cli EXCEPT ![c] = at]
    BY <1>7 DEF Echo!SendDgram, Echo!CliGoto, Echo!Waits, Echo!cliVars
  <2> QED
    BY <2>2, <2>3, <2>4, OneKind DEF EchoTypes, D
<1>8. ASSUME NEW c \in Client, Echo!SendBytes(c) PROVE EchoTypes'
  <2>1. Echo!Text(c) \in Requests
    BY DEF Echo!Text, Requests
  <2>2. /\ UNCHANGED <<bound, srv, peer, mail, got, path, linked, heard>>
        /\ sent' = sent \/ sent' = [sent EXCEPT ![c] = Append(@, Echo!Text(c))]
        /\ \E at \in {"recv1", "recv2", "failed"} : cli' = [cli EXCEPT ![c] = at]
    BY <1>8 DEF Echo!SendBytes, Echo!CliGoto, Echo!Waits, Echo!cliVars, Echo!srvVars
  <2>3. sent' \in [Client -> Seq(Requests)]
    <3>1. sent[c] \in Seq(Requests)
      BY DEF EchoTypes
    <3>2. Append(sent[c], Echo!Text(c)) \in Seq(Requests)
      BY <2>1, <3>1, Typed
    <3> QED
      BY <2>2, <3>2 DEF EchoTypes
  <2> QED
    BY <2>2, <2>3 DEF EchoTypes
<1>9. ASSUME NEW c \in Client, Echo!Receive(c) PROVE EchoTypes'
  <2>1. /\ UNCHANGED <<bound, srv, peer, mail, sent, path, linked>> /\ got[c] # <<>>
        /\ heard' = [heard EXCEPT ![c] = Append(@, Head(got[c]))]
        /\ got' = [got EXCEPT ![c] = Tail(@)]
        /\ \E at \in {"send2", "done"} : cli' = [cli EXCEPT ![c] = at]
    BY <1>9 DEF Echo!Receive, Echo!CliGoto, Echo!Heard, Echo!srvVars
  <2>2. Head(got[c]) \in Replies /\ Tail(got[c]) \in Seq(Replies)
    BY <2>1, Typed DEF EchoTypes
  <2>3. heard' \in [Client -> Seq(Replies)]
    BY <2>1, <2>2, Typed DEF EchoTypes
  <2>4. got' \in [Client -> Seq(Replies)]
    BY <2>1, <2>2 DEF EchoTypes
  <2> QED
    BY <2>1, <2>3, <2>4 DEF EchoTypes
<1>10. ASSUME NEW c \in Client, Echo!ReceiveRefused(c) \/ Echo!ReceiveNothing(c) \/ Echo!Kill(c)
       PROVE  EchoTypes'
  BY <1>10 DEF EchoTypes, Echo!ReceiveRefused, Echo!ReceiveNothing, Echo!Kill, Echo!CliGoto,
     Echo!Heard, Echo!srvVars, Echo!cliVars
<1> QED
  BY <1>1, <1>2, <1>3, <1>4, <1>5, <1>6, <1>7, <1>8, <1>9, <1>10, <1>11
     DEF Echo!Next, Echo!ServerStep, Echo!ClientStep

\* What another client does is no concern of c: it may have sent something.
LEMMA OrderOther ==
  ASSUME EchoTypes, NEW c \in Client, Order(c), Echo!Next,
         UNCHANGED <<bound, srv, peer>>,
         cli'[c] = cli[c], heard'[c] = heard[c], got'[c] = got[c], sent'[c] = sent[c],
         linked \subseteq linked',
         mail' = mail \/ \E e : /\ mail' = Append(mail, e)
                                /\ Echo!Dgram => e.from # c
                                /\ Echo!Stream => e # c
  PROVE  Order(c)'
<1>1. HeardSoFar(c)'
  BY DEF Order, HeardSoFar, Silence, HiComes, HiHeard, YesComes, AllHeard
<1>2. /\ (Echo!Dgram' <=> Echo!Dgram) /\ (Echo!Stream' <=> Echo!Stream) /\ (Echo!Up' <=> Echo!Up)
      /\ (Echo!Listens' <=> Echo!Listens)
  BY SameProgram DEF Echo!Up, Echo!Listens
<1>3. ASSUME NEW S, mail \in Seq(S)
      PROVE  \A k \in 1 .. Len(mail') : \/ k \in 1 .. Len(mail) /\ mail'[k] = mail[k]
                                       \/ /\ Echo!Dgram => mail'[k].from # c
                                          /\ Echo!Stream => mail'[k] # c
  <2>1. CASE mail' = mail
    BY <2>1
  <2>2. ASSUME NEW e, mail' = Append(mail, e), Echo!Dgram => e.from # c, Echo!Stream => e # c
        PROVE  \A k \in 1 .. Len(mail') : \/ k \in 1 .. Len(mail) /\ mail'[k] = mail[k]
                                         \/ /\ Echo!Dgram => mail'[k].from # c
                                            /\ Echo!Stream => mail'[k] # c
    <3>1. /\ Len(mail') = Len(mail) + 1 /\ Len(mail) \in Nat /\ mail'[Len(mail) + 1] = e
          /\ \A k \in 1 .. Len(mail) : mail'[k] = mail[k]
      BY <1>3, <2>2, AppendElements
    <3>2. \A k \in 1 .. Len(mail') : k \in 1 .. Len(mail) \/ k = Len(mail) + 1
      BY <3>1
    <3> QED
      BY <2>2, <3>1, <3>2
  <2> QED
    BY <2>1, <2>2
<1>4. ASSUME Echo!Dgram, Echo!Up PROVE DgramInv(c)'
  <2>1. DgramInv(c) /\ \E S : mail \in Seq(S)
    BY <1>4 DEF Order, EchoTypes
  <2>2. \A k \in 1 .. Len(mail') : mail'[k].from = c => k \in 1 .. Len(mail) /\ mail'[k] = mail[k]
    BY <1>3, <1>4, <2>1
  <2> QED
    BY <2>1, <2>2 DEF DgramInv, Exiting, HiHeard, Echo!Gone, Echo!Sending
<1>5. ASSUME Echo!Stream, Echo!Up, Echo!Listens PROVE StreamInv(c)'
  <2>1. StreamInv(c) /\ mail \in Seq(Client)
    BY <1>5 DEF Order, EchoTypes
  <2>2. \A k \in 1 .. Len(mail') : mail'[k] = c => k \in 1 .. Len(mail) /\ mail'[k] = mail[k]
    BY <1>3, <1>5, <2>1
  <2> QED
    BY <2>1, <2>2 DEF StreamInv, Served, Unserved, Exiting, Silence, HiComes, HiHeard, Echo!Gone
<1> QED
  BY <1>1, <1>2, <1>4, <1>5 DEF Order

-----------------------------------------------------------------------------
\* The server takes the first connection waiting ...
LEMMA AcceptOrder ==
  ASSUME EchoTypes, NEW c \in Client, Order(c), Echo!Accept,
         \A d \in Client : Order(d)
  PROVE  Order(c)'
<1>0. /\ srv = "accept" /\ srv' = "recv1"
      /\ UNCHANGED <<program, bound, sent, cli, got, heard, linked>>
  BY DEF Echo!Accept, Echo!cliVars
<1>1. (Echo!Dgram' <=> Echo!Dgram) /\ (Echo!Stream' <=> Echo!Stream) /\ Echo!Up
  BY <1>0 DEF Echo!Dgram, Echo!Stream, Echo!Up
<1>2. HeardSoFar(c)'
  BY <1>0 DEF Order, HeardSoFar, Silence, HiComes, HiHeard, YesComes, AllHeard
<1>3. ASSUME Echo!Dgram PROVE DgramInv(c)'
  <2>1. DgramInv(c) /\ mail' = mail
    BY <1>1, <1>3, OneKind DEF Order, Echo!Accept
  <2> QED
    BY <1>0, <2>1 DEF DgramInv, Exiting, HiHeard, Echo!Gone, Echo!Sending
<1>4. ASSUME Echo!Stream, Echo!Listens' PROVE StreamInv(c)'
  <2>1. /\ mail \in Seq(Client) /\ mail # <<>> /\ peer' = Head(mail) /\ mail' = Tail(mail)
    BY <1>4, OneKind DEF EchoTypes, Echo!Accept
  <2>2. /\ peer' \in Client /\ peer' = mail[1] /\ 1 \in 1 .. Len(mail)
        /\ \A k \in 1 .. Len(mail') : k + 1 \in 1 .. Len(mail) /\ mail'[k] = mail[k + 1]
    BY <2>1, QueueHead
  <2>3. StreamInv(c)
    BY <1>0, <1>1, <1>4 DEF Order, Echo!Listens
  <2>4. \A k \in 1 .. Len(mail') : mail'[k] = c => cli'[c] # "start"
    BY <1>0, <2>2, <2>3 DEF StreamInv
  <2>5. peer' = c => cli[c] # "start"
    BY <2>2, <2>3 DEF StreamInv
  <2>6. Unserved(c) => Unserved(c)'
    BY <1>0 DEF Unserved, Silence
  <2>7. Echo!Gone(c) \/ Unserved(c)
    BY <1>0, <2>3 DEF StreamInv
  <2>8. Unserved(c)' => Served(c)'
    BY <1>0 DEF Served
  <2>9. \/ Echo!Gone(c)'
        \/ peer' = c /\ cli'[c] # "start" /\ Served(c)'
        \/ peer' # c /\ Unserved(c)'
    BY <1>0, <2>5, <2>6, <2>7, <2>8 DEF Echo!Gone
  <2> QED
    BY <1>0, <2>2, <2>3, <2>4, <2>9, SmallAssumption DEF StreamInv
<1> QED
  BY <1>1, <1>2, <1>3, <1>4 DEF Order

\* ... the first datagram waiting ...
LEMMA RecvFromOrder ==
  ASSUME EchoTypes, NEW c \in Client, Order(c), Echo!RecvFrom
  PROVE  Order(c)'
<1>0. /\ Echo!Dgram /\ Echo!Dgram' /\ ~Echo!Stream' /\ Echo!Up
      /\ UNCHANGED <<sent, cli, got, heard, linked>>
      /\ mail # <<>> /\ peer' = Head(mail).from /\ mail' = Tail(mail)
      /\ \/ srv = "recv1" /\ srv' = "send1"
         \/ srv = "recv2" /\ srv' = "send2" /\ Head(mail).msg = "exit"
         \/ srv' = "done"
  BY OneKind DEF Echo!RecvFrom, Echo!Receiving, Echo!cliVars, Echo!Dgram, Echo!Stream, Echo!Up
<1>1. HeardSoFar(c)'
  BY <1>0 DEF Order, HeardSoFar, Silence, HiComes, HiHeard, YesComes, AllHeard
<1>2. ASSUME Echo!Up' PROVE DgramInv(c)'
  <2> DEFINE D == [from : Client, msg : Requests]
  <2>1. DgramInv(c) /\ mail \in Seq(D)
    BY <1>0 DEF Order, EchoTypes
  <2> HIDE DEF D
  <2>2. /\ Head(mail) = mail[1] /\ 1 \in 1 .. Len(mail)
        /\ \A k \in 1 .. Len(mail') : k + 1 \in 1 .. Len(mail) /\ mail'[k] = mail[k + 1]
    BY <1>0, <2>1, QueueHead
  <2>3. \A k \in 1 .. Len(mail') : mail'[k].from = c =>
           /\ cli'[c] \notin {"start", "bind", "send1"}
           /\ mail'[k].msg = "exit" => Echo!Gone(c)' \/ Exiting(c)'
    BY <1>0, <2>1, <2>2 DEF DgramInv, Exiting, HiHeard, Echo!Gone
  <2>4. peer' = c => /\ cli[c] \notin {"start", "bind", "send1"}
                     /\ srv' = "send2" => Echo!Gone(c) \/ Exiting(c)
    BY <1>0, <1>2, <2>1, <2>2 DEF DgramInv, Echo!Up
  <2> QED
    BY <1>0, <2>1, <2>3, <2>4 DEF DgramInv, Exiting, HiHeard, Echo!Gone
<1> QED
  BY <1>0, <1>1, <1>2 DEF Order

\* ... answers whom that was from ...
LEMMA SendToOrder ==
  ASSUME EchoTypes, NEW c \in Client, Order(c), Echo!SendTo, program # "AF_Local_Sock_Dgram"
  PROVE  Order(c)'
<1>0. /\ Echo!Dgram /\ Echo!Dgram' /\ ~Echo!Stream' /\ Echo!Up /\ Echo!Sending
      /\ UNCHANGED <<sent, cli, heard, linked, mail, peer>>
      /\ srv' = Echo!Sent
      /\ \/ got' = got
         \/ /\ Echo!Alive(peer) /\ peer # Nobody
            /\ got' = [got EXCEPT ![peer] = Append(@, Echo!Answer)]
  BY OneKind DEF Echo!SendTo, Echo!Sending, Echo!cliVars, Echo!Dgram, Echo!Stream, Echo!Local,
     Echo!Up, Echo!Addressee
<1>1. DgramInv(c) /\ HeardSoFar(c)
  BY <1>0 DEF Order
<1>2. \/ srv = "send1" /\ srv' = "recv2" /\ Echo!Answer = "hi"
      \/ srv = "send2" /\ srv' = "done" /\ Echo!Answer = "yes"
  BY <1>0 DEF Echo!Sending, Echo!Sent, Echo!Answer
<1>3. CASE got'[c] = got[c]
  BY <1>0, <1>1, <1>2, <1>3
     DEF Order, DgramInv, HeardSoFar, Silence, HiComes, HiHeard, YesComes, AllHeard, Exiting,
         Echo!Gone,
         Echo!Sending, Echo!Up
<1>4. CASE peer = c /\ Echo!Alive(c) /\ got'[c] = Append(got[c], Echo!Answer)
  <2>1. CASE srv = "send1"
    <3>1. Silence(c) /\ HiComes(c)' /\ ~Silence(c)' /\ srv' = "recv2"
      <4>1. Silence(c) /\ srv' = "recv2" /\ Echo!Answer = "hi"
        BY <1>1, <1>2, <2>1 DEF HeardSoFar
      <4>2. got'[c] = <<"hi">> /\ got'[c] # <<>>
        BY <1>4, <4>1, Singles DEF Silence
      <4> QED
        BY <1>0, <4>1, <4>2 DEF Silence, HiComes
    <3>2. ~HiHeard(c) /\ ~Exiting(c) /\ cli[c] \notin {"start", "bind", "send1", "send2"}
      BY <1>0, <1>1, <1>4, <2>1, <3>1, Singles DEF DgramInv, HiHeard, Silence, Exiting
    <3>3. \A k \in 1 .. Len(mail) : mail[k].from = c => mail[k].msg # "exit"
      BY <1>1, <1>4, <3>2 DEF DgramInv, Echo!Alive
    <3> QED
      BY <1>0, <1>1, <3>1, <3>2, <3>3 DEF Order, DgramInv, HeardSoFar, Echo!Sending
  <2>2. CASE srv = "send2"
    <3>1. Exiting(c) /\ YesComes(c)' /\ srv' = "done"
      BY <1>0, <1>1, <1>2, <1>4, <2>2, Singles
         DEF DgramInv, Exiting, HiHeard, YesComes, Echo!Alive
    <3> QED
      BY <1>0, <3>1 DEF Order, HeardSoFar, Exiting, Echo!Up
  <2> QED
    BY <1>2, <2>1, <2>2
<1> QED
  BY <1>0, <1>3, <1>4 DEF EchoTypes

\* ... or reads the accepted stream ...
LEMMA RecvOrder ==
  ASSUME EchoTypes, NEW c \in Client, Order(c), Unheard(c), Echo!Recv
  PROVE  Order(c)'
<1>0. /\ Echo!Stream /\ Echo!Stream' /\ ~Echo!Dgram' /\ Echo!Up
      /\ UNCHANGED <<bound, got, cli, heard, linked, mail, peer>>
      /\ \/ srv = "recv1" /\ srv' = "send1"
         \/ srv = "recv2" /\ srv' = "send2"
      /\ (Echo!Listens' <=> Echo!Listens)
      /\ \/ peer = Nobody /\ sent' = sent
         \/ sent[peer] # <<>> /\ sent' = [sent EXCEPT ![peer] = Tail(@)]
         \/ peer # Nobody /\ Echo!Gone(peer) /\ sent' = sent
  BY OneKind DEF Echo!Recv, Echo!Receiving, Echo!cliVars, Echo!Dgram, Echo!Stream, Echo!Up,
     Echo!Listens
<1>1. HeardSoFar(c) /\ (Echo!Listens => StreamInv(c))
  BY <1>0 DEF Order
<1>2. HeardSoFar(c)'
  BY <1>0, <1>1 DEF HeardSoFar, Silence, HiComes, HiHeard, YesComes, AllHeard
<1>6. CASE ~Echo!Listens
  BY <1>0, <1>2, <1>6 DEF Order
<1>3. CASE Echo!Listens /\ Echo!Gone(c)
  BY <1>0, <1>1, <1>2, <1>3 DEF Order, StreamInv, Echo!Gone
<1>4. CASE Echo!Listens /\ peer # c
  <2>1. sent'[c] = sent[c]
    BY <1>0, <1>4 DEF EchoTypes
  <2> QED
    BY <1>0, <1>1, <1>2, <1>4, <2>1 DEF Order, StreamInv, Unserved, Silence, Echo!Gone
<1>5. CASE Echo!Listens /\ peer = c /\ ~Echo!Gone(c)
  <2>1. Served(c) /\ cli[c] # "start" /\ c \in linked
    BY <1>0, <1>1, <1>5 DEF StreamInv
  <2>2. sent[c] # <<>> /\ sent'[c] = Tail(sent[c])
    BY <1>0, <1>5, SmallAssumption DEF EchoTypes
  <2>3. Served(c)'
    <3>1. CASE srv = "recv1"
      BY <1>0, <2>1, <2>2, <3>1, Singles DEF Served, Unserved, Silence
    <3>2. CASE srv = "recv2"
      BY <1>0, <2>1, <2>2, <3>2 DEF Served, Exiting, HiHeard
    <3> QED
      BY <1>0, <3>1, <3>2
  <2> QED
    BY <1>0, <1>1, <1>2, <1>5, <2>1, <2>3 DEF Order, StreamInv
<1> QED
  BY <1>3, <1>4, <1>5, <1>6

\* ... and answers on it.
LEMMA SendStreamOrder ==
  ASSUME EchoTypes, NEW c \in Client, Order(c), Unheard(c), Echo!SendStream
  PROVE  Order(c)'
<1>0. /\ Echo!Stream /\ Echo!Stream' /\ ~Echo!Dgram' /\ Echo!Up
      /\ UNCHANGED <<bound, sent, cli, heard, linked, mail, peer>>
      /\ \/ srv = "send1" /\ srv' \in {"recv2", "failed"} /\ Echo!Answer = "hi"
         \/ srv = "send2" /\ srv' \in {"done", "failed"} /\ Echo!Answer = "yes"
      /\ (Echo!Listens' <=> Echo!Listens)
      /\ \/ peer = Nobody /\ got' = got
         \/ Echo!Alive(peer) /\ got' = [got EXCEPT ![peer] = Append(@, Echo!Answer)]
         \/ peer # Nobody /\ Echo!Gone(peer) /\ got' = got
  BY OneKind DEF Echo!SendStream, Echo!Sending, Echo!cliVars, Echo!Dgram, Echo!Stream, Echo!Up,
     Echo!Sent, Echo!Answer, Echo!Listens
<1>1. HeardSoFar(c) /\ (Echo!Listens => StreamInv(c))
  BY <1>0 DEF Order
<1>4. CASE ~Echo!Listens
  <2>1. peer = Nobody /\ Silence(c)
    BY <1>0, <1>4 DEF Unheard
  <2>2. got' = got
    BY <1>0, <2>1, SmallAssumption DEF Echo!Alive, EchoTypes
  <2>3. HeardSoFar(c)'
    BY <1>0, <2>1, <2>2 DEF HeardSoFar, Silence
  <2> QED
    BY <1>0, <1>4, <2>3 DEF Order
<1>2. CASE Echo!Listens /\ (peer # c \/ Echo!Gone(c))
  <2>1. got'[c] = got[c]
    BY <1>0, <1>2 DEF EchoTypes, Echo!Alive
  <2>2. HeardSoFar(c)'
    BY <1>0, <1>1, <2>1 DEF HeardSoFar, Silence, HiComes, HiHeard, YesComes, AllHeard
  <2> QED
    BY <1>0, <1>1, <1>2, <2>1, <2>2 DEF Order, StreamInv, Unserved, Silence, Echo!Gone
<1>3. CASE Echo!Listens /\ peer = c /\ ~Echo!Gone(c)
  <2>1. Served(c) /\ cli[c] # "start" /\ c \in linked
    BY <1>0, <1>1, <1>3 DEF StreamInv
  <2>2. got'[c] = Append(got[c], Echo!Answer)
    BY <1>0, <1>3, SmallAssumption DEF EchoTypes
  <2>3. CASE srv = "send1"
    <3>1. HiComes(c)' /\ cli'[c] = "recv1" /\ sent'[c] = <<>> /\ srv' \in {"recv2", "failed"}
      BY <1>0, <2>1, <2>2, <2>3, Singles DEF Served, Silence, HiComes
    <3>2. HeardSoFar(c)'
      BY <3>1 DEF HeardSoFar
    <3> QED
      BY <1>0, <1>1, <1>3, <2>1, <3>1, <3>2 DEF Order, StreamInv, Served, Echo!Up
  <2>4. CASE srv = "send2"
    <3>1. YesComes(c)' /\ cli'[c] = "recv2" /\ srv' \in {"done", "failed"}
      BY <1>0, <2>1, <2>2, <2>4, Singles DEF Served, Exiting, HiHeard, YesComes
    <3> QED
      BY <1>0, <3>1 DEF Order, HeardSoFar, Echo!Up
  <2> QED
    BY <1>0, <2>3, <2>4
<1> QED
  BY <1>2, <1>3, <1>4

\* A step of client c itself: nothing of it can be heard, and the server has
\* not moved.
LEMMA StartsOrder ==
  ASSUME EchoTypes, NEW c \in Client, Order(c), program # "AF_Local_Sock_Dgram",
         Echo!BindPath(c) \/ Echo!ConnectInet(c) \/ Echo!ConnectStream(c)
  PROVE  Order(c)'
<1>0. /\ cli[c] \in {"start", "bind"} /\ cli'[c] \in {"send1", "failed"}
      /\ UNCHANGED <<program, bound, srv, peer, sent, got, heard>>
  BY DEF Echo!BindPath, Echo!ConnectInet, Echo!ConnectStream, EchoTypes, Echo!CliGoto,
     Echo!srvVars, Echo!cliVars
<1>1. /\ (Echo!Dgram' <=> Echo!Dgram) /\ (Echo!Stream' <=> Echo!Stream)
      /\ (Echo!Up' <=> Echo!Up) /\ (Echo!Sending' <=> Echo!Sending)
      /\ (Echo!Listens' <=> Echo!Listens)
  BY <1>0 DEF Echo!Dgram, Echo!Stream, Echo!Up, Echo!Sending, Echo!Listens
<1>2. HeardSoFar(c)'
  BY <1>0 DEF Order, HeardSoFar, Silence, HiComes, HiHeard, YesComes, AllHeard
<1>3. ASSUME Echo!Dgram, Echo!Up PROVE DgramInv(c)'
  <2>1. DgramInv(c) /\ mail' = mail
    BY <1>3, OneKind DEF Order, Echo!BindPath, Echo!ConnectInet, Echo!ConnectStream, Echo!srvVars
  <2> QED
    BY <1>0, <1>1, <2>1 DEF DgramInv
<1>4. ASSUME Echo!Stream, Echo!Up, Echo!Listens PROVE StreamInv(c)'
  <2>1. StreamInv(c) /\ mail \in Seq(Client)
    BY <1>4 DEF Order, EchoTypes
  <2>2. CASE cli'[c] = "failed"
    <3>1. Echo!BindPath(c) /\ cli[c] = "bind"
      BY <1>0, <2>2 DEF Echo!BindPath, Echo!ConnectInet, Echo!ConnectStream, Echo!CliGoto, EchoTypes
    <3> QED
      BY <1>4, <2>1, <3>1 DEF StreamInv, Unserved, Served, Exiting, Echo!Gone, Echo!Up, EchoTypes
  <2>3. CASE Echo!ConnectStream(c)
    <3>1. /\ cli[c] = "start" /\ cli'[c] = "send1" /\ linked' = linked \cup {c}
          /\ mail' = Append(mail, c)
      BY <1>4, <2>3 DEF Echo!ConnectStream, Echo!CliGoto, EchoTypes, Echo!Listens
    <3>2. (srv = "accept" \/ peer # c) /\ Unserved(c)
      BY <2>1, <3>1 DEF StreamInv, Echo!Gone
    <3>3. Unserved(c)'
      BY <1>0, <3>1, <3>2 DEF Unserved, Silence
    <3> QED
      BY <1>0, <2>1, <3>1, <3>2, <3>3 DEF StreamInv
  <2>4. CASE Echo!BindPath(c)
    <3>1. cli[c] = "bind"
      BY <2>4 DEF Echo!BindPath
    <3> QED
      BY <1>4, <2>1, <3>1 DEF StreamInv, Unserved, Served, Exiting, Echo!Gone, Echo!Up, EchoTypes
  <2>5. CASE Echo!ConnectInet(c)
    BY <1>4, <2>5 DEF Echo!ConnectInet, Echo!Stream
  <2> QED
    BY <2>3, <2>4, <2>5
<1> QED
  BY <1>1, <1>2, <1>3, <1>4 DEF Order

\* A client says "hello", and "exit" only when it has heard "hi" ...
LEMMA SendDgramOrder ==
  ASSUME EchoTypes, NEW c \in Client, Order(c), Echo!SendDgram(c)
  PROVE  Order(c)'
<1>0. /\ Echo!Dgram /\ Echo!Dgram' /\ ~Echo!Stream' /\ (Echo!Up' <=> Echo!Up)
      /\ UNCHANGED <<srv, peer, sent, got, heard>>
      /\ cli[c] \in {"send1", "send2"}
  BY OneKind DEF Echo!SendDgram, Echo!cliVars, Echo!Dgram, Echo!Stream, Echo!Up
<1>1. HeardSoFar(c)
  BY DEF Order
<1>2. /\ cli'[c] \in {"recv1", "recv2", "failed", "refused"}
      /\ Echo!Up => cli'[c] = Echo!Waits(c)
  BY DEF Echo!SendDgram, Echo!CliGoto, EchoTypes, Echo!Waits
<1>3. HeardSoFar(c)'
  BY <1>0, <1>1, <1>2 DEF HeardSoFar, Silence, HiComes, HiHeard, YesComes, AllHeard
<1>4. ASSUME Echo!Up PROVE DgramInv(c)'
  <2> DEFINE D == [from : Client, msg : Requests]
             e == [from |-> c, msg |-> Echo!Text(c)]
  <2>1. DgramInv(c) /\ mail \in Seq(D) /\ mail' = Append(mail, e)
    BY <1>0, <1>4 DEF Order, EchoTypes, Echo!SendDgram
  <2>2. e.msg = Echo!Text(c)
    OBVIOUS
  <2> HIDE DEF D, e
  <2>3. /\ Len(mail') = Len(mail) + 1 /\ Len(mail) \in Nat /\ mail'[Len(mail) + 1] = e
        /\ \A k \in 1 .. Len(mail) : mail'[k] = mail[k]
    BY <2>1, AppendElements
  <2>4. \A k \in 1 .. Len(mail') : k \in 1 .. Len(mail) \/ k = Len(mail) + 1
    BY <2>3
  <2>5. CASE cli[c] = "send1"
    <3>1. cli'[c] = "recv1" /\ Echo!Text(c) = "hello"
      BY <1>2, <1>4, <2>5 DEF Echo!Waits, Echo!Text
    <3>2. \A k \in 1 .. Len(mail) : mail[k].from # c
      BY <2>1, <2>5 DEF DgramInv
    <3>3. ~(Echo!Sending /\ peer = c)
      BY <2>1, <2>5 DEF DgramInv
    <3> QED
      BY <1>0, <2>2, <2>3, <2>4, <3>1, <3>2, <3>3 DEF DgramInv, Echo!Sending
  <2>6. CASE cli[c] = "send2"
    <3>1. cli'[c] = "recv2" /\ HiHeard(c)
      BY <1>2, <1>4, <2>1, <2>6 DEF Echo!Waits, DgramInv
    <3>2. Exiting(c)'
      BY <1>0, <3>1 DEF Exiting, HiHeard
    <3> QED
      BY <1>0, <3>1, <3>2 DEF DgramInv
  <2> QED
    BY <1>0, <2>5, <2>6
<1> QED
  BY <1>0, <1>3, <1>4 DEF Order

\* ... on a stream too.
LEMMA SendBytesOrder ==
  ASSUME EchoTypes, NEW c \in Client, Order(c), Echo!SendBytes(c)
  PROVE  Order(c)'
<1>0. /\ Echo!Stream /\ Echo!Stream' /\ ~Echo!Dgram' /\ (Echo!Up' <=> Echo!Up)
      /\ (Echo!Listens' <=> Echo!Listens)
      /\ UNCHANGED <<srv, peer, mail, got, heard, linked>>
      /\ cli[c] \in {"send1", "send2"}
  BY OneKind DEF Echo!SendBytes, Echo!cliVars, Echo!srvVars, Echo!Dgram, Echo!Stream, Echo!Up,
     Echo!Listens
<1>1. HeardSoFar(c)
  BY DEF Order
<1>2. cli'[c] \in {"recv1", "recv2", "failed"}
  BY DEF Echo!SendBytes, Echo!CliGoto, EchoTypes, Echo!Waits
<1>3. HeardSoFar(c)'
  BY <1>0, <1>1, <1>2 DEF HeardSoFar, Silence, HiComes, HiHeard, YesComes, AllHeard
<1>4. ASSUME Echo!Up, Echo!Listens PROVE StreamInv(c)'
  <2>1. StreamInv(c)
    BY <1>0, <1>4 DEF Order
  <2>2. c \in linked /\ ~Echo!Gone(c)
    BY <1>0, <2>1 DEF StreamInv, Echo!Gone
  <2>3. cli'[c] = Echo!Waits(c) /\ sent'[c] = Append(sent[c], Echo!Text(c))
    BY <1>4, <2>2 DEF Echo!SendBytes, Echo!CliGoto, EchoTypes
  <2>4. CASE cli[c] = "send1"
    <3>1. cli'[c] = "recv1" /\ Echo!Text(c) = "hello"
      BY <2>3, <2>4 DEF Echo!Waits, Echo!Text
    <3>2. /\ Unserved(c) /\ sent[c] = <<>>
          /\ srv # "accept" /\ peer = c => srv \notin {"send1", "recv2", "send2"}
      BY <1>4, <2>1, <2>2, <2>4 DEF StreamInv, Served, Unserved, Exiting, Echo!Up, EchoTypes
    <3>3. Unserved(c)'
      BY <1>0, <2>3, <3>1, <3>2, Singles DEF Unserved, Silence
    <3> QED
      BY <1>0, <2>1, <2>2, <3>1, <3>2, <3>3 DEF StreamInv, Served
  <2>5. CASE cli[c] = "send2"
    <3>1. cli'[c] = "recv2" /\ Echo!Text(c) = "exit"
      BY <2>3, <2>5 DEF Echo!Waits, Echo!Text
    <3>2. srv = "recv2" /\ peer = c /\ sent[c] = <<>> /\ HiHeard(c)
      BY <1>4, <2>1, <2>2, <2>5 DEF StreamInv, Served, Unserved, Exiting, Echo!Up, EchoTypes
    <3>3. Exiting(c)' /\ sent'[c] = <<"exit">>
      BY <1>0, <2>3, <3>1, <3>2, Singles DEF Exiting, HiHeard
    <3> QED
      BY <1>0, <2>1, <2>2, <3>1, <3>2, <3>3 DEF StreamInv, Served
  <2> QED
    BY <1>0, <2>4, <2>5
<1> QED
  BY <1>0, <1>3, <1>4 DEF Order

\* What it hears is what was coming.
LEMMA ReceiveOrder ==
  ASSUME EchoTypes, NEW c \in Client, Order(c), Echo!Receive(c)
  PROVE  Order(c)'
<1>0. /\ UNCHANGED <<program, bound, srv, peer, mail, sent, linked>>
      /\ got[c] # <<>> /\ cli[c] \in {"recv1", "recv2"} /\ cli'[c] = Echo!Heard(c)
      /\ heard'[c] = Append(heard[c], Head(got[c])) /\ got'[c] = Tail(got[c])
  BY DEF Echo!Receive, Echo!CliGoto, Echo!srvVars, EchoTypes
<1>1. /\ (Echo!Dgram' <=> Echo!Dgram) /\ (Echo!Stream' <=> Echo!Stream)
      /\ (Echo!Up' <=> Echo!Up) /\ (Echo!Sending' <=> Echo!Sending)
      /\ (Echo!Listens' <=> Echo!Listens)
  BY <1>0 DEF Echo!Dgram, Echo!Stream, Echo!Up, Echo!Sending, Echo!Listens
<1>2. /\ HiComes(c) \/ (YesComes(c) /\ ~HiComes(c))
      /\ ~Silence(c) /\ ~HiHeard(c) /\ ~Exiting(c) /\ ~Echo!Gone(c)
      /\ cli'[c] \in {"send2", "done"}
  <2>1. ~Silence(c) /\ ~HiHeard(c) /\ ~AllHeard(c)
    BY <1>0 DEF Silence, HiHeard, AllHeard
  <2>2. HiComes(c) \/ YesComes(c)
    BY <2>1 DEF Order, HeardSoFar
  <2>3. ~Exiting(c) /\ ~Echo!Gone(c) /\ cli'[c] \in {"send2", "done"}
    BY <1>0, <2>1 DEF Exiting, Echo!Gone, Echo!Heard
  <2> QED
    BY <2>1, <2>2, <2>3
<1>3. /\ HiComes(c) => HiHeard(c)'
      /\ YesComes(c) => AllHeard(c)'
  BY <1>0, Singles DEF HiComes, HiHeard, YesComes, AllHeard
<1>4. HeardSoFar(c)'
  <2>1. srv \notin {"accept", "recv1", "send1"} /\ (srv \in {"recv2", "send2"} => HiComes(c))
    BY <1>2 DEF Order, HeardSoFar
  <2> QED
    BY <1>0, <1>2, <1>3, <2>1 DEF HeardSoFar
<1>5. Echo!Up => srv \in {"recv2", "send2"} /\ HiComes(c) /\ HiHeard(c)'
  BY <1>2, <1>3 DEF Order, HeardSoFar, Echo!Up, EchoTypes
<1>6. ASSUME Echo!Dgram, Echo!Up PROVE DgramInv(c)'
  <2>1. DgramInv(c)
    BY <1>6 DEF Order
  <2>2. \A k \in 1 .. Len(mail) : mail[k].from = c => mail[k].msg # "exit"
    BY <1>2, <2>1 DEF DgramInv
  <2>3. ~(Echo!Sending /\ peer = c)
    BY <1>2, <1>5, <1>6, <2>1 DEF DgramInv, Echo!Sending
  <2> QED
    BY <1>0, <1>1, <1>2, <1>5, <1>6, <2>2, <2>3 DEF DgramInv
<1>7. ASSUME Echo!Stream, Echo!Up, Echo!Listens PROVE StreamInv(c)'
  <2>1. StreamInv(c)
    BY <1>7 DEF Order
  <2>2. /\ srv = "recv2" /\ peer = c /\ cli[c] = "recv1" /\ sent[c] = <<>> /\ c \in linked
    BY <1>0, <1>2, <1>5, <1>7, <2>1 DEF StreamInv, Served, Unserved
  <2>3. cli'[c] = "send2"
    BY <1>0, <2>2 DEF Echo!Heard
  <2> QED
    BY <1>0, <1>5, <1>7, <2>1, <2>2, <2>3 DEF StreamInv, Served
<1> QED
  BY <1>1, <1>4, <1>6, <1>7 DEF Order

\* A client that fails, or that outlives the server, says nothing more.
LEMMA EndsOrder ==
  ASSUME EchoTypes, NEW c \in Client, Order(c),
         Echo!ReceiveRefused(c) \/ Echo!ReceiveNothing(c) \/ Echo!Kill(c)
  PROVE  Order(c)'
<1>0. /\ UNCHANGED <<program, bound, srv, peer, mail, sent, got, heard, linked>>
      /\ cli[c] \notin {"start", "done", "failed"}
      /\ \/ cli'[c] = "failed"
         \/ /\ Echo!Stream /\ ~(c \in linked /\ Echo!Up) /\ cli[c] \in {"recv1", "recv2"}
            /\ cli'[c] \in {"send2", "done"}
  BY DEF Echo!ReceiveRefused, Echo!ReceiveNothing, Echo!Kill, Echo!CliGoto, Echo!srvVars,
     Echo!cliVars, EchoTypes, Echo!Alive, Echo!Gone, Echo!Heard
<1>1. /\ (Echo!Dgram' <=> Echo!Dgram) /\ (Echo!Stream' <=> Echo!Stream)
      /\ (Echo!Up' <=> Echo!Up) /\ (Echo!Sending' <=> Echo!Sending)
      /\ (Echo!Listens' <=> Echo!Listens)
  BY <1>0 DEF Echo!Dgram, Echo!Stream, Echo!Up, Echo!Sending, Echo!Listens
<1>2. HeardSoFar(c)'
  BY <1>0 DEF Order, HeardSoFar, Silence, HiComes, HiHeard, YesComes, AllHeard
<1>3. ASSUME Echo!Dgram, Echo!Up PROVE DgramInv(c)'
  <2>1. cli'[c] = "failed"
    BY <1>0, <1>3, OneKind
  <2> QED
    BY <1>0, <1>1, <2>1 DEF DgramInv, Echo!Gone
<1>4. ASSUME Echo!Stream, Echo!Up, Echo!Listens PROVE StreamInv(c)'
  <2>1. StreamInv(c)
    BY <1>4 DEF Order
  <2>2. cli'[c] = "failed"
    BY <1>0, <1>4, <2>1 DEF StreamInv
  <2> QED
    BY <1>0, <1>1, <2>1, <2>2 DEF StreamInv, Echo!Gone
<1> QED
  BY <1>1, <1>2, <1>3, <1>4 DEF Order

\* When accept fails nothing was heard yet, and nothing will be.
LEMMA AcceptFailsOrder ==
  ASSUME EchoTypes, NEW c \in Client, Order(c), Echo!AcceptFails
  PROVE  Order(c)'
<1>1. /\ Echo!Stream /\ ~Echo!Dgram' /\ ~Echo!Listens'
      /\ srv = "accept" /\ srv' = "recv1" /\ UNCHANGED <<cli, got, heard>>
  BY OneKind DEF Echo!AcceptFails, Echo!Stream, Echo!Dgram, Echo!Listens, Echo!cliVars
<1>2. HeardSoFar(c)'
  BY <1>1 DEF Order, HeardSoFar, Silence, HiComes, HiHeard, YesComes, AllHeard
<1> QED
  BY <1>1, <1>2 DEF Order

LEMMA UnheardNext ==
  ASSUME EchoTypes, NEW c \in Client, Order(c), Unheard(c), Echo!Next
  PROVE  Unheard(c)'
<1> SUFFICES ASSUME Echo!Stream', ~Echo!Listens'
             PROVE  (Silence(c) /\ peer = Nobody /\ (bound \/ mail = <<>>))'
  BY DEF Unheard
<1>1. Echo!Stream /\ ~Echo!Dgram
  BY SameProgram, OneKind
<1>2. CASE Echo!AcceptFails
  <2>1. /\ srv = "accept" /\ peer' = Nobody /\ UNCHANGED <<bound, mail, got, heard>>
    BY <1>2 DEF Echo!AcceptFails, Echo!cliVars
  <2>2. Silence(c)
    BY <2>1 DEF Order, HeardSoFar
  <2>3. bound \/ mail = <<>>
    BY <1>1 DEF Unheard, Echo!Listens
  <2> QED
    BY <2>1, <2>2, <2>3 DEF Silence
<1>3. CASE Echo!Accept
  <2>1. /\ srv = "accept" /\ mail # <<>> /\ peer' = Head(mail) /\ bound' = bound
        /\ mail \in Seq(Client)
    BY <1>1, <1>3 DEF Echo!Accept, EchoTypes
  <2>2. bound
    BY <1>1, <2>1 DEF Unheard, Echo!Listens
  <2>3. peer' # Nobody
    BY <2>1, QueueHead, SmallAssumption
  <2> QED
    BY <2>1, <2>2, <2>3 DEF Echo!Listens
<1>4. CASE ~Echo!AcceptFails /\ ~Echo!Accept
  <2>1. /\ UNCHANGED <<bound, peer>> /\ (srv = "accept" <=> srv' = "accept")
    BY <1>1, <1>4 DEF Echo!Next, Echo!ServerStep, Echo!ClientStep, Echo!RecvFrom, Echo!SendTo,
       Echo!Recv, Echo!SendStream, Echo!Receiving, Echo!Sending, Echo!Sent, Echo!Unlink,
       Echo!BindPath, Echo!ConnectInet, Echo!ConnectStream, Echo!SendDgram, Echo!SendBytes,
       Echo!Receive, Echo!ReceiveRefused, Echo!ReceiveNothing, Echo!Kill, Echo!srvVars
  <2>2. ~Echo!Listens
    BY <1>1, <2>1 DEF Echo!Listens
  <2>3. Silence(c) /\ peer = Nobody /\ (bound \/ mail = <<>>)
    BY <1>1, <2>2 DEF Unheard
  <2>4. ~bound => mail' = mail
    BY <1>1, <1>4 DEF Echo!Next, Echo!ServerStep, Echo!ClientStep, Echo!RecvFrom, Echo!SendTo,
       Echo!Recv, Echo!SendStream, Echo!Unlink,
       Echo!BindPath, Echo!ConnectInet, Echo!ConnectStream, Echo!SendDgram, Echo!SendBytes,
       Echo!Receive, Echo!ReceiveRefused, Echo!ReceiveNothing, Echo!Kill, Echo!srvVars
  <2>5. got'[c] = got[c] /\ heard'[c] = heard[c]
    <3>1. ASSUME NEW d \in Client, Echo!Receive(d) PROVE got'[c] = got[c] /\ heard'[c] = heard[c]
      BY <2>3, <3>1 DEF Echo!Receive, Silence, EchoTypes
    <3>2. CASE ~\E d \in Client : Echo!Receive(d)
      <4>1. got' = got /\ heard' = heard
        BY <1>1, <1>4, <2>3, <3>2, SmallAssumption
           DEF Echo!Next, Echo!ServerStep, Echo!ClientStep, Echo!RecvFrom, Echo!SendTo,
           Echo!Recv, Echo!SendStream, Echo!Unlink,
           Echo!BindPath, Echo!ConnectInet, Echo!ConnectStream, Echo!SendDgram, Echo!SendBytes,
           Echo!ReceiveRefused, Echo!ReceiveNothing, Echo!Kill, Echo!srvVars, Echo!cliVars
      <4> QED
        BY <4>1
    <3> QED
      BY <3>1, <3>2
  <2> QED
    BY <2>1, <2>3, <2>4, <2>5 DEF Silence
<1> QED
  BY <1>2, <1>3, <1>4

\* No step of anyone disturbs the order.
LEMMA OrderNext ==
  ASSUME EchoTypes, OrderInv, Echo!Next
  PROVE  OrderInv'
<1> SUFFICES ASSUME program # "AF_Local_Sock_Dgram", NEW c \in Client PROVE Order(c)' /\ Unheard(c)'
  BY SameProgram DEF OrderInv
<1>1. \A d \in Client : Order(d) /\ Unheard(d)
  BY DEF OrderInv
<1>2. ASSUME Echo!ServerStep PROVE Order(c)'
  BY <1>1, <1>2, AcceptOrder, RecvFromOrder, SendToOrder, RecvOrder, SendStreamOrder
     DEF Echo!ServerStep
<1>3. ASSUME \/ Echo!Unlink(c) \/ Echo!ConnectInet(c) \/ Echo!ConnectStream(c)
             \/ Echo!Kill(c) \/ Echo!ClientStep(c)
      PROVE  Order(c)'
  BY <1>1, <1>3, StartsOrder, SendDgramOrder, SendBytesOrder, ReceiveOrder, EndsOrder
     DEF Echo!ClientStep, Echo!Unlink
<1>4. ASSUME NEW d \in Client \ {c},
             \/ Echo!Unlink(d) \/ Echo!ConnectInet(d) \/ Echo!ConnectStream(d) \/ Echo!Kill(d)
             \/ Echo!ClientStep(d)
      PROVE  Order(c)'
  <2>1. /\ UNCHANGED <<bound, srv, peer>> /\ cli'[c] = cli[c] /\ linked \subseteq linked'
        /\ heard'[c] = heard[c] /\ got'[c] = got[c] /\ sent'[c] = sent[c]
    BY <1>4 DEF EchoTypes, Echo!Unlink, Echo!ConnectInet, Echo!ConnectStream, Echo!Kill,
       Echo!ClientStep, Echo!BindPath, Echo!SendDgram, Echo!SendBytes, Echo!Receive,
       Echo!ReceiveRefused, Echo!ReceiveNothing, Echo!CliGoto, Echo!srvVars, Echo!cliVars
  <2>2. \/ mail' = mail
        \/ Echo!Stream /\ mail' = Append(mail, d)
        \/ Echo!Dgram /\ mail' = Append(mail, [from |-> d, msg |-> Echo!Text(d)])
    BY <1>4 DEF Echo!Unlink, Echo!ConnectInet, Echo!ConnectStream, Echo!Kill,
       Echo!ClientStep, Echo!BindPath, Echo!SendDgram, Echo!SendBytes, Echo!Receive,
       Echo!ReceiveRefused, Echo!ReceiveNothing, Echo!srvVars
  <2>3. mail' = mail \/ \E e : /\ mail' = Append(mail, e)
                               /\ Echo!Dgram => e.from # c
                               /\ Echo!Stream => e # c
    <3>1. [from |-> d, msg |-> Echo!Text(d)].from # c
      BY <1>4
    <3> QED
      BY <2>2, <3>1, OneKind
  <2> QED
    BY <1>1, <2>1, <2>3, OrderOther
<1>5. ASSUME Echo!AcceptFails PROVE Order(c)'
  BY <1>1, <1>5, AcceptFailsOrder
<1>6. Unheard(c)'
  BY <1>1, UnheardNext
<1> QED
  BY <1>2, <1>3, <1>4, <1>5, <1>6 DEF Echo!Next

-----------------------------------------------------------------------------
\* The next step of a client that stays alone is its own or the server's, and
\* it was alone before.
LEMMA StaysAlone ==
  ASSUME EchoTypes, NEW c \in Client, Echo!Next, Echo!Alone(c)'
  PROVE  /\ Echo!Alone(c)
         /\ \/ Echo!ServerStep \/ Echo!AcceptFails
            \/ Echo!Unlink(c) \/ Echo!ConnectInet(c) \/ Echo!ConnectStream(c)
            \/ Echo!ClientStep(c)
<1>1. ASSUME NEW d \in Client,
             \/ Echo!Unlink(d) \/ Echo!ConnectInet(d) \/ Echo!ConnectStream(d) \/ Echo!Kill(d)
             \/ Echo!ClientStep(d)
      PROVE  cli'[d] # "start" /\ \A b \in Client \ {d} : cli'[b] = cli[b]
  <2>1. \E at : cli' = [cli EXCEPT ![d] = at] /\ at # "start"
    BY <1>1 DEF Echo!Unlink, Echo!ConnectInet, Echo!ConnectStream, Echo!Kill, Echo!ClientStep,
       Echo!BindPath, Echo!SendDgram, Echo!SendBytes, Echo!Receive, Echo!ReceiveRefused,
       Echo!ReceiveNothing, Echo!CliGoto, Echo!Waits, Echo!Heard
  <2> QED
    BY <2>1 DEF EchoTypes
<1>2. CASE Echo!ServerStep \/ Echo!AcceptFails
  <2>1. cli' = cli
    BY <1>2 DEF Echo!ServerStep, Echo!AcceptFails, Echo!Accept, Echo!RecvFrom, Echo!SendTo, Echo!Recv,
       Echo!SendStream
  <2> QED
    BY <1>2, <2>1 DEF Echo!Alone
<1>3. ASSUME NEW d \in Client,
             \/ Echo!Unlink(d) \/ Echo!ConnectInet(d) \/ Echo!ConnectStream(d) \/ Echo!Kill(d)
             \/ Echo!ClientStep(d)
      PROVE  /\ Echo!Alone(c)
             /\ \/ Echo!Unlink(c) \/ Echo!ConnectInet(c) \/ Echo!ConnectStream(c)
                \/ Echo!ClientStep(c)
  <2>1. d = c
    BY <1>1, <1>3 DEF Echo!Alone
  <2>2. Echo!Alone(c)
    BY <1>1, <1>3, <2>1 DEF Echo!Alone
  <2>3. ~Echo!Kill(c)
    BY DEF Echo!Alone, Echo!Kill
  <2> QED
    BY <1>3, <2>1, <2>2, <2>3
<1> QED
  BY <1>2, <1>3 DEF Echo!Next

\* Over datagrams: the server is where the client's last message puts it.
LEMMA DgramServes ==
  ASSUME EchoTypes, NEW c \in Client, spoiled = {}, Echo!Dgram, DgramTalk(c), PathInv(c),
         Echo!ServerStep
  PROVE  spoiled' = {} /\ DgramTalk(c)' /\ PathInv(c)'
<1> DEFINE Hello == [from |-> c, msg |-> "hello"]
           Exit == [from |-> c, msg |-> "exit"]
<1>1. /\ UNCHANGED <<program, cli, path, heard, spoiled>>
      /\ Echo!Accept \/ Echo!RecvFrom \/ Echo!SendTo
  BY OneKind DEF Echo!ServerStep, Echo!Accept, Echo!RecvFrom, Echo!SendTo, Echo!Recv,
     Echo!SendStream, Echo!cliVars
<1>2. PathInv(c)'
  BY <1>1 DEF PathInv, Echo!Local
<1>3. CASE Echo!Accept
  <2>1. srv = "accept" /\ srv' = "recv1" /\ UNCHANGED <<peer, mail, got>>
    BY <1>3, OneKind DEF Echo!Accept
  <2> QED
    BY <1>1, <1>2, <2>1 DEF DgramTalk, Silence
<1>4. CASE Echo!RecvFrom
  <2>1. /\ mail # <<>> /\ got' = got /\ peer' = Head(mail).from /\ mail' = Tail(mail)
        /\ srv = "recv1" => srv' = "send1"
        /\ srv = "recv2" /\ Head(mail).msg = "exit" => srv' = "send2"
        /\ srv \in {"recv1", "recv2"}
    BY <1>4 DEF Echo!RecvFrom, Echo!Receiving
  <2>2. \/ cli[c] = "recv1" /\ Silence(c) /\ srv = "recv1" /\ mail = <<Hello>>
        \/ cli[c] = "recv2" /\ HiHeard(c) /\ srv = "recv2" /\ mail = <<Exit>>
    BY <2>1 DEF DgramTalk
  <2>3. Head(<<Hello>>).from = c /\ Head(<<Exit>>).from = c /\ Head(<<Exit>>).msg = "exit"
        /\ Tail(<<Hello>>) = <<>>
    BY Singles
  <2>4. peer' = c /\ (srv = "recv1" => mail' = <<>>)
    BY <2>1, <2>2, <2>3
  <2>5. (srv = "recv1" => srv' = "send1") /\ (srv = "recv2" => srv' = "send2")
    BY <2>1, <2>2, <2>3
  <2> HIDE DEF Hello, Exit
  <2> QED
    BY <1>1, <1>2, <2>1, <2>2, <2>4, <2>5 DEF DgramTalk, Silence, HiHeard
<1>5. CASE Echo!SendTo
  <2>1. \/ cli[c] = "recv1" /\ Silence(c) /\ srv = "send1" /\ peer = c /\ mail = <<>>
        \/ cli[c] = "recv2" /\ HiHeard(c) /\ srv = "send2" /\ peer = c
    BY <1>5 DEF Echo!SendTo, Echo!Sending, DgramTalk
  <2>2. Echo!Addressee = c /\ Echo!Alive(c) /\ c # Nobody
    BY <2>1, SmallAssumption DEF Echo!Addressee, PathInv, Echo!Alive, Echo!Gone
  <2>3. got'[c] = Append(got[c], Echo!Answer) /\ srv' = Echo!Sent /\ mail' = mail
    BY <1>5, <2>2 DEF Echo!SendTo, EchoTypes
  <2>4. \/ cli[c] = "recv1" /\ HiComes(c)' /\ srv' = "recv2" /\ mail' = <<>>
        \/ cli[c] = "recv2" /\ YesComes(c)' /\ srv' = "done"
    BY <1>1, <2>1, <2>3, Singles DEF Echo!Answer, Echo!Sent, Silence, HiHeard, HiComes, YesComes
  <2> QED
    BY <1>1, <1>2, <2>4 DEF DgramTalk
<1> QED
  BY <1>1, <1>3, <1>4, <1>5

\* ... and the client goes on with what the server has said.
LEMMA DgramGoesOn ==
  ASSUME EchoTypes, NEW c \in Client, spoiled = {}, Echo!Dgram, DgramTalk(c), PathInv(c),
         \/ Echo!Unlink(c) \/ Echo!ConnectInet(c) \/ Echo!ConnectStream(c)
         \/ Echo!ClientStep(c)
  PROVE  spoiled' = {} /\ DgramTalk(c)' /\ PathInv(c)'
<1> DEFINE Hello == [from |-> c, msg |-> "hello"]
           Exit == [from |-> c, msg |-> "exit"]
<1>0. c # Nobody
  BY SmallAssumption
<1>1. CASE Echo!Unlink(c) \/ Echo!ConnectInet(c)
  <2>1. /\ UNCHANGED <<program, srv, mail, got, heard, spoiled>> /\ cli[c] = "start"
        /\ \/ Echo!Local /\ cli'[c] = "bind" /\ path' = Nobody
           \/ ~Echo!Local /\ cli'[c] = "send1" /\ path' = path
    BY <1>1 DEF Echo!Unlink, Echo!ConnectInet, Echo!srvVars, Echo!cliVars, Echo!CliGoto,
       EchoTypes, Echo!Local
  <2>2. PathInv(c)'
    BY <2>1 DEF PathInv, Echo!Local
  <2> QED
    BY <2>1, <2>2 DEF DgramTalk, Silence
<1>2. CASE Echo!BindPath(c)
  <2>1. cli[c] = "bind" /\ UNCHANGED <<program, srv, mail, got, heard, spoiled>>
    BY <1>2 DEF Echo!BindPath, Echo!srvVars
  <2>2. Silence(c) /\ srv \in {"accept", "recv1"} /\ mail = <<>>
    BY <2>1 DEF DgramTalk
  <2>3. path = Nobody /\ Echo!Up
    BY <2>1, <2>2 DEF PathInv, Echo!Up
  <2>4. cli'[c] = "send1" /\ path' = c
    BY <1>2, <2>3 DEF Echo!BindPath, Echo!CliGoto, EchoTypes
  <2> QED
    BY <2>1, <2>2, <2>4 DEF DgramTalk, PathInv, Echo!Local, Silence
<1>3. CASE Echo!SendDgram(c)
  <2>1. /\ UNCHANGED <<program, srv, path, got, heard, spoiled>>
        /\ cli[c] \in {"send1", "send2"}
    BY <1>3 DEF Echo!SendDgram, Echo!cliVars
  <2>2. /\ mail = <<>> /\ Echo!Up
        /\ cli[c] = "send1" => Silence(c) /\ srv \in {"accept", "recv1"}
        /\ cli[c] = "send2" => HiHeard(c) /\ srv = "recv2"
    BY <2>1 DEF DgramTalk, Echo!Up
  <2>3. /\ mail' = <<[from |-> c, msg |-> Echo!Text(c)]>>
        /\ cli'[c] = Echo!Waits(c)
    BY <1>3, <2>2, Singles DEF Echo!SendDgram, Echo!CliGoto, EchoTypes
  <2>4. PathInv(c)'
    BY <2>1, <2>3 DEF PathInv, Echo!Local, Echo!Waits
  <2> QED
    BY <2>1, <2>2, <2>3, <2>4 DEF DgramTalk, Echo!Waits, Echo!Text, Silence, HiHeard
<1>4. CASE Echo!Receive(c)
  <2>1. /\ UNCHANGED <<program, srv, peer, mail, path, spoiled>>
        /\ got[c] # <<>> /\ cli[c] \in {"recv1", "recv2"} /\ cli'[c] = Echo!Heard(c)
        /\ heard'[c] = Append(heard[c], Head(got[c])) /\ got'[c] = Tail(got[c])
    BY <1>4 DEF Echo!Receive, Echo!CliGoto, Echo!srvVars, EchoTypes
  <2>2. \/ cli[c] = "recv1" /\ HiComes(c) /\ srv = "recv2" /\ mail = <<>>
        \/ cli[c] = "recv2" /\ YesComes(c) /\ srv = "done"
    BY <2>1 DEF DgramTalk, Silence, HiHeard
  <2>3. /\ HiComes(c) => HiHeard(c)'
        /\ YesComes(c) => AllHeard(c)'
    BY <2>1, Singles DEF HiComes, HiHeard, YesComes, AllHeard
  <2>4. PathInv(c)'
    BY <2>1 DEF PathInv, Echo!Local, Echo!Heard
  <2> QED
    BY <2>1, <2>2, <2>3, <2>4 DEF DgramTalk, Echo!Heard
<1>5. ~(Echo!ConnectStream(c) \/ Echo!SendBytes(c) \/ Echo!ReceiveNothing(c))
  BY OneKind DEF Echo!ConnectStream, Echo!SendBytes, Echo!ReceiveNothing
<1>6. ~Echo!ReceiveRefused(c)
  BY DEF DgramTalk, Echo!ReceiveRefused
<1> QED
  BY <1>1, <1>2, <1>3, <1>4, <1>5, <1>6 DEF Echo!ClientStep

-----------------------------------------------------------------------------
\* Over a stream OrderInv already says how the client is served while the
\* server runs; it is left to show that it is the only one.
LEMMA StreamServes ==
  ASSUME EchoTypes, NEW c \in Client, spoiled = {}, Echo!Stream, StreamTalk(c), Order(c)',
         Echo!Stream', Echo!Listens', Echo!ServerStep
  PROVE  spoiled' = {} /\ StreamTalk(c)'
<1>1. /\ UNCHANGED <<program, cli, linked, heard>>
      /\ Echo!Accept \/ Echo!Recv \/ Echo!SendStream
  BY OneKind DEF Echo!ServerStep, Echo!Accept, Echo!RecvFrom, Echo!SendTo, Echo!Recv,
     Echo!SendStream, Echo!cliVars
<1>2. ASSUME Echo!Up', srv' # "accept", peer' = c, cli'[c] \notin {"start", "done", "failed"}
      PROVE  StreamTalk(c)'
  BY <1>2 DEF Order, StreamInv, Echo!Gone, StreamTalk
<1>3. CASE Echo!Accept
  <2>1. /\ srv = "accept" /\ srv' = "recv1" /\ mail # <<>> /\ peer' = Head(mail)
        /\ spoiled' = spoiled
    BY <1>3, OneKind DEF Echo!Accept
  <2>2. mail = <<c>> /\ Unserved(c)
    BY <2>1 DEF StreamTalk
  <2>3. cli[c] # "start"
    BY <2>1, <2>2, Singles DEF StreamTalk
  <2>4. peer' = c /\ Echo!Up' /\ cli'[c] \notin {"start", "done", "failed"}
    BY <1>1, <2>1, <2>2, <2>3, Singles DEF Unserved, Echo!Up
  <2> QED
    BY <1>1, <1>2, <2>1, <2>3, <2>4
<1>4. CASE Echo!Recv
  <2>1. srv \in {"recv1", "recv2"} /\ srv' \in {"send1", "send2"} /\ peer' = peer
    BY <1>4 DEF Echo!Recv, Echo!Receiving
  <2>2. peer = c /\ Served(c) /\ cli[c] # "start"
    BY <2>1 DEF StreamTalk
  <2>3. ~Echo!Gone(c)
    BY <2>1, <2>2 DEF Served, Unserved, Exiting, Echo!Gone
  <2>4. spoiled' = spoiled
    BY <1>4, <2>2, <2>3, SmallAssumption DEF Echo!Recv
  <2> QED
    BY <1>1, <1>2, <2>1, <2>2, <2>3, <2>4 DEF Echo!Up, Echo!Gone
<1>5. CASE Echo!SendStream
  <2>1. srv \in {"send1", "send2"} /\ peer' = peer /\ spoiled' = spoiled
    BY <1>5 DEF Echo!SendStream, Echo!Sending
  <2>2. peer = c /\ Served(c) /\ cli[c] # "start" /\ c \in linked
    BY <2>1 DEF StreamTalk
  <2>3. ~Echo!Gone(c)
    BY <2>1, <2>2 DEF Served, Exiting, Echo!Gone
  <2>4. srv' = Echo!Sent /\ got'[c] = Append(got[c], Echo!Answer)
    BY <1>5, <2>2, <2>3, SmallAssumption DEF Echo!SendStream, EchoTypes
  <2>5. CASE srv = "send1"
    BY <1>1, <1>2, <2>1, <2>2, <2>3, <2>4, <2>5 DEF Echo!Sent, Echo!Up, Echo!Gone
  <2>6. CASE srv = "send2"
    <3>1. srv' = "done" /\ cli'[c] = "recv2" /\ YesComes(c)'
      BY <1>1, <2>2, <2>4, <2>6, Singles DEF Echo!Sent, Echo!Answer, Served, Exiting, HiHeard,
         YesComes
    <3> QED
      BY <1>1, <2>1, <2>2, <3>1 DEF StreamTalk
  <2> QED
    BY <2>1, <2>5, <2>6
<1> QED
  BY <1>1, <1>3, <1>4, <1>5

LEMMA StreamGoesOn ==
  ASSUME EchoTypes, NEW c \in Client, spoiled = {}, Echo!Stream, StreamTalk(c), Order(c)',
         Echo!Stream', Echo!Listens', bound' = bound,
         \/ Echo!Unlink(c) \/ Echo!ConnectInet(c) \/ Echo!ConnectStream(c)
         \/ Echo!ClientStep(c)
  PROVE  spoiled' = {} /\ StreamTalk(c)'
<1>1. ~(Echo!Unlink(c) \/ Echo!ConnectInet(c) \/ Echo!SendDgram(c))
  BY OneKind DEF Echo!Unlink, Echo!ConnectInet, Echo!SendDgram, Echo!Stream
<1>2. ~(Echo!BindPath(c) \/ Echo!ReceiveRefused(c))
  BY DEF StreamTalk, Served, Unserved, Exiting, Echo!BindPath, Echo!ReceiveRefused, Echo!Up,
     EchoTypes
<1>3. ASSUME Echo!Up', srv' # "accept", peer' = c, cli'[c] \notin {"start", "done", "failed"}
      PROVE  StreamTalk(c)'
  BY <1>3 DEF Order, StreamInv, Echo!Gone, StreamTalk
<1>4. CASE Echo!ConnectStream(c)
  <2>1. /\ cli[c] = "start" /\ cli'[c] = "send1"
        /\ UNCHANGED <<srv, sent, got, heard, spoiled>>
    BY <1>4 DEF Echo!ConnectStream, Echo!CliGoto, EchoTypes
  <2>2. Silence(c) /\ srv = "accept" /\ mail = <<>> /\ sent[c] = <<>>
    BY <2>1 DEF StreamTalk
  <2>3. linked' = linked \cup {c} /\ mail' = <<c>>
    BY <1>4, <2>2, Singles DEF Echo!ConnectStream, Echo!Up, Echo!Listens
  <2>4. Unserved(c)'
    BY <2>1, <2>2 DEF Unserved, Silence
  <2> QED
    BY <2>1, <2>2, <2>3, <2>4 DEF StreamTalk
<1>5. CASE Echo!SendBytes(c)
  <2>1. /\ cli[c] \in {"send1", "send2"}
        /\ UNCHANGED <<srv, peer, mail, linked, got, heard, spoiled>>
    BY <1>5 DEF Echo!SendBytes, Echo!srvVars, Echo!cliVars
  <2>2. /\ c \in linked /\ Echo!Up
        /\ (srv = "accept" /\ mail = <<c>> /\ Unserved(c)) \/ (srv # "accept" /\ peer = c)
    BY <2>1 DEF StreamTalk, Echo!Up
  <2>3. sent'[c] = Append(sent[c], Echo!Text(c)) /\ cli'[c] = Echo!Waits(c)
    BY <1>5, <2>2 DEF Echo!SendBytes, Echo!CliGoto, EchoTypes
  <2>4. CASE srv = "accept"
    <3>1. cli[c] = "send1" /\ sent[c] = <<>> /\ Silence(c)
      BY <2>1, <2>2, <2>4 DEF Unserved
    <3>2. Unserved(c)' /\ cli'[c] = "recv1"
      BY <2>1, <2>3, <3>1, Singles DEF Unserved, Silence, Echo!Text, Echo!Waits
    <3> QED
      BY <2>1, <2>2, <2>4, <3>2 DEF StreamTalk
  <2>5. CASE srv # "accept"
    BY <1>3, <2>1, <2>2, <2>3, <2>5 DEF Echo!Waits, Echo!Up
  <2> QED
    BY <2>4, <2>5
<1>6. CASE Echo!Receive(c)
  <2>1. /\ UNCHANGED <<program, srv, peer, linked, spoiled>>
        /\ got[c] # <<>> /\ cli[c] \in {"recv1", "recv2"} /\ cli'[c] = Echo!Heard(c)
        /\ heard'[c] = Append(heard[c], Head(got[c])) /\ got'[c] = Tail(got[c])
    BY <1>6 DEF Echo!Receive, Echo!CliGoto, Echo!srvVars, EchoTypes
  <2>2. c \in linked
        /\ \/ cli[c] = "recv1" /\ Echo!Up /\ srv # "accept" /\ peer = c
           \/ cli[c] = "recv2" /\ YesComes(c) /\ srv = "done"
    BY <2>1 DEF StreamTalk, Unserved, Served, Exiting, Silence, HiHeard, Echo!Up, EchoTypes
  <2>3. YesComes(c) => AllHeard(c)'
    BY <2>1, Singles DEF YesComes, AllHeard
  <2>4. CASE cli[c] = "recv1"
    BY <1>3, <2>1, <2>2, <2>4 DEF Echo!Heard, Echo!Up
  <2>5. CASE cli[c] = "recv2"
    BY <2>1, <2>2, <2>3, <2>5 DEF Echo!Heard, StreamTalk
  <2> QED
    BY <2>1, <2>4, <2>5
<1>7. ~Echo!ReceiveNothing(c)
  BY DEF Echo!ReceiveNothing, StreamTalk, YesComes, Echo!Up
<1> QED
  BY <1>1, <1>2, <1>4, <1>5, <1>6, <1>7 DEF Echo!ClientStep

\* A client alone with its server stays where the two are meant to be.
LEMMA AloneNext ==
  ASSUME EchoTypes, OrderInv, NEW c \in Client, AloneInv(c), Echo!Next
  PROVE  AloneInv(c)'
<1> SUFFICES ASSUME Echo!Alone(c)', Echo!Listens'
             PROVE  /\ spoiled' = {}
                    /\ \/ (cli[c] = "off" /\ srv = "done" /\ Silence(c))'
                       \/ Echo!Dgram' /\ DgramTalk(c)' /\ PathInv(c)'
                       \/ Echo!Stream' /\ StreamTalk(c)'
  BY DEF AloneInv
<1>1. /\ Echo!Alone(c) /\ Echo!Listens /\ bound' = bound
      /\ \/ Echo!ServerStep
         \/ Echo!Unlink(c) \/ Echo!ConnectInet(c) \/ Echo!ConnectStream(c)
         \/ Echo!ClientStep(c)
  BY StaysAlone, ListensStays
<1>2. spoiled = {}
  BY <1>1 DEF AloneInv
<1>3. CASE cli[c] = "off" /\ srv = "done"
  BY <1>1, <1>3 DEF Echo!ServerStep, Echo!Accept, Echo!RecvFrom, Echo!SendTo, Echo!Recv,
     Echo!SendStream, Echo!Receiving, Echo!Sending, Echo!Unlink, Echo!ConnectInet,
     Echo!ConnectStream, Echo!ClientStep, Echo!BindPath, Echo!SendDgram, Echo!SendBytes,
     Echo!Receive, Echo!ReceiveRefused, Echo!ReceiveNothing
<1>4. CASE Echo!Dgram /\ DgramTalk(c) /\ PathInv(c)
  BY <1>1, <1>2, <1>4, SameProgram, DgramServes, DgramGoesOn
<1>5. CASE Echo!Stream /\ StreamTalk(c)
  <2>1. OrderInv' /\ Echo!Stream'
    BY <1>5, OrderNext, SameProgram
  <2>2. Order(c)'
    BY <2>1 DEF OrderInv, Echo!Stream
  <2> QED
    BY <1>1, <1>2, <1>5, <2>1, <2>2, StreamServes, StreamGoesOn
<1> QED
  BY <1>1, <1>3, <1>4, <1>5 DEF AloneInv

-----------------------------------------------------------------------------
\* Before anything has happened, or where the echo programs do not run.
LEMMA EchoInitInv == Echo!Init \/ Echo!Off => EchoInv
<1> SUFFICES ASSUME Echo!Init \/ Echo!Off PROVE EchoInv
  OBVIOUS
<1>1. /\ peer = Nobody /\ mail = <<>> /\ path = Nobody /\ linked = {} /\ spoiled = {}
      /\ sent = [c \in Client |-> <<>>] /\ got = [c \in Client |-> <<>>]
      /\ heard = [c \in Client |-> <<>>]
      /\ bound \in BOOLEAN
      /\ \/ srv = "accept" /\ cli = [c \in Client |-> "start"] /\ (Echo!Dgram \/ Echo!Stream)
         \/ srv = "failed" /\ cli = [c \in Client |-> "start"] /\ ~Echo!Listens
         \/ srv = "done" /\ cli = [c \in Client |-> "off"]
  BY DEF Echo!Init, Echo!Off, Echo!Fresh, Echo!EchoProgram, Echo!Dgram, Echo!Stream,
     Echo!Listens
<1>2. EchoTypes
  BY <1>1 DEF EchoTypes
<1>3. ASSUME NEW c \in Client PROVE Silence(c) /\ sent[c] = <<>>
  BY <1>1 DEF Silence
<1>4. ASSUME NEW c \in Client PROVE Order(c)
  <2>1. cli[c] = "start" \/ (srv = "done" /\ cli[c] = "off")
    BY <1>1
  <2>2. HeardSoFar(c)
    BY <1>3 DEF HeardSoFar
  <2>3. srv = "accept" => DgramInv(c) /\ StreamInv(c)
    BY <1>1, <1>3, Singles DEF DgramInv, StreamInv, Unserved, Echo!Sending
  <2> QED
    BY <1>1, <2>2, <2>3 DEF Order, Echo!Up
<1>6. ASSUME NEW c \in Client PROVE Unheard(c)
  BY <1>1, <1>3 DEF Unheard
<1>5. ASSUME NEW c \in Client PROVE AloneInv(c)
  BY <1>1, <1>3 DEF AloneInv, DgramTalk, PathInv, StreamTalk
<1> QED
  BY <1>2, <1>4, <1>5, <1>6 DEF EchoInv, OrderInv

LEMMA EchoNext == EchoInv /\ Echo!Next => EchoInv'
  BY EchoTypesNext, OrderNext, AloneNext DEF EchoInv

LEMMA EchoFrame == EchoInv /\ UNCHANGED <<program, echoVars>> => EchoInv'
<1> SUFFICES ASSUME EchoInv, UNCHANGED <<program, echoVars>> PROVE EchoInv'
  OBVIOUS
<1> USE DEF echoVars
<1>1. /\ EchoTypes'
      /\ (Echo!Dgram' <=> Echo!Dgram) /\ (Echo!Stream' <=> Echo!Stream)
      /\ (Echo!Local' <=> Echo!Local) /\ (Echo!Up' <=> Echo!Up)
      /\ (Echo!Listens' <=> Echo!Listens)
  BY DEF EchoInv, EchoTypes, Echo!Dgram, Echo!Stream, Echo!Local, Echo!Up,
     Echo!Listens
<1>2. ASSUME NEW c \in Client PROVE Served(c)' <=> Served(c)
  BY DEF Served, Unserved, Exiting, Silence, HiComes, HiHeard
<1>3. ASSUME NEW c \in Client PROVE Unserved(c)' <=> Unserved(c)
  BY DEF Unserved, Silence
<1>4. ASSUME NEW c \in Client, Order(c) PROVE Order(c)'
  <2>1. HeardSoFar(c) => HeardSoFar(c)'
    BY DEF HeardSoFar, Silence, HiComes, HiHeard, YesComes, AllHeard
  <2>2. DgramInv(c) => DgramInv(c)'
    BY DEF DgramInv, Exiting, HiHeard, Echo!Gone, Echo!Sending
  <2>3. StreamInv(c) => StreamInv(c)'
    BY <1>2, <1>3 DEF StreamInv, Echo!Gone
  <2> QED
    BY <1>1, <1>4, <2>1, <2>2, <2>3 DEF Order
<1>5. ASSUME NEW c \in Client, AloneInv(c) PROVE AloneInv(c)'
  <2>1. DgramTalk(c) => DgramTalk(c)'
    BY DEF DgramTalk, Silence, HiComes, HiHeard, YesComes, AllHeard
  <2>2. StreamTalk(c) => StreamTalk(c)'
    BY <1>1, <1>2, <1>3 DEF StreamTalk, Silence, YesComes, AllHeard
  <2>3. PathInv(c) => PathInv(c)'
    BY <1>1 DEF PathInv
  <2> QED
    BY <1>1, <1>5, <2>1, <2>2, <2>3 DEF AloneInv, Echo!Alone, Silence
<1>6. ASSUME NEW c \in Client, Unheard(c) PROVE Unheard(c)'
  BY <1>1, <1>6 DEF Unheard, Silence
<1> QED
  BY <1>1, <1>4, <1>5, <1>6 DEF EchoInv, OrderInv

\* What the two invariants say of the answers heard.
LEMMA EchoOrdered == EchoInv => EchoHeardInOrder
<1> SUFFICES ASSUME EchoInv PROVE Echo!HeardInOrder
  BY DEF EchoHeardInOrder
<1>1. ASSUME program # "AF_Local_Sock_Dgram", NEW c \in Client PROVE heard[c] \in Echo!InOrder
  BY <1>1 DEF EchoInv, OrderInv, Order, HeardSoFar, Silence, HiComes, HiHeard, YesComes, AllHeard,
     Echo!InOrder
<1>2. ASSUME NEW c \in Client, Echo!Alone(c), Echo!Listens, cli[c] # "start"
      PROVE  /\ heard[c] \in Echo!InOrder /\ spoiled = {}
             /\ cli[c] # "failed" /\ srv # "failed"
             /\ cli[c] = "done" => heard[c] = <<"hi", "yes">>
  <2>1. AloneInv(c) /\ EchoTypes
    BY DEF EchoInv
  <2>2. CASE cli[c] = "off" /\ srv = "done" /\ Silence(c)
    BY <1>2, <2>1, <2>2 DEF AloneInv, Silence, Echo!InOrder
  <2>3. CASE DgramTalk(c)
    BY <1>2, <2>1, <2>3 DEF AloneInv, DgramTalk, Silence, HiComes, HiHeard, YesComes, AllHeard,
       Echo!InOrder
  <2>4. CASE StreamTalk(c)
    BY <1>2, <2>1, <2>4 DEF AloneInv, StreamTalk, Served, Unserved, Exiting, Silence, HiComes,
       HiHeard, YesComes, AllHeard, Echo!InOrder, Echo!Up, EchoTypes
  <2> QED
    BY <1>2, <2>1, <2>2, <2>3, <2>4 DEF AloneInv
<1> QED
  BY <1>1, <1>2 DEF Echo!HeardInOrder

LEMMA RawSameProgram == Raw!Next => program' = program
  BY DEF Raw!Next, Raw!ServerStep, Raw!ServerLoop, Raw!ServerRecv, Raw!ServerSend, Raw!Interrupt,
     Raw!Traffic, Raw!Start, Raw!Send, Raw!ReadStep, Raw!ReadUdp, Raw!ReadIp, Raw!ReadEthernet,
     Raw!Again, Raw!End, Raw!Read

SmallInv == RawInv /\ EchoInv

LEMMA SmallInvAlways == SmallSpec => []SmallInv
<1>1. SmallInit => SmallInv
  BY RawInitInv, EchoInitInv DEF SmallInit, SmallInv
<1>2. SmallInv /\ [SmallNext]_allVars => SmallInv'
  <2> SUFFICES ASSUME SmallInv, [SmallNext]_allVars PROVE SmallInv'
    OBVIOUS
  <2>1. CASE Raw!Next /\ UNCHANGED <<echoVars, vars>>
    BY <2>1, RawNext, RawSameProgram, EchoFrame DEF SmallInv
  <2>2. CASE Echo!Next /\ UNCHANGED <<rawVars, vars>>
    BY <2>2, EchoNext, RawFrame DEF SmallInv
  <2>3. CASE UNCHANGED <<program, rawVars, echoVars>>
    BY <2>3, EchoFrame, RawFrame DEF SmallInv
  <2> QED
    BY <2>1, <2>2, <2>3 DEF SmallNext, allVars
<1> QED
  BY <1>1, <1>2, PTL DEF SmallSpec

\* A raw client that is the first on its machine prints the square of the
\* number it sent in every round, whatever frames for other ports its raw
\* socket reads and however many rounds and interrupts there are, until another
\* program sends to port 7564, the only thing it tests (UDP_RAW client.c:85-102).
THEOREM RawAnswersAreOwn == SmallSpec => []RawOwnAnswer
<1>1. RawInv => RawOwnAnswer
  BY DEF RawInv, RawTurn, First, Square, RawOwnAnswer, Raw!OwnAnswer
<1> QED
  BY <1>1, SmallInvAlways, PTL DEF SmallInv

\* An echo client hears "hi" and then "yes", although the server answers
\* whoever wrote last, and one alone with a server that listens hears both and
\* nobody fails: any number of clients, any of them killed at any time, and
\* bind, listen or accept failing unnoticed.
THEOREM EchoesInOrder == SmallSpec => []EchoHeardInOrder
  BY EchoOrdered, SmallInvAlways, PTL DEF SmallInv
=============================================================================
