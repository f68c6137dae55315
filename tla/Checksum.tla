-------------------------------- MODULE Checksum --------------------------------
(***************************************************************************)
(* my_checksum of UDP_RAW_ethernet/create/client.c, which fills in the     *)
(* checksum of the IP header: the 16-bit words are added, the carries are  *)
(* added to the low half until there are none, and the sum is inverted.    *)
(* UDP_RAW_IP leaves the same field to the kernel.                         *)
(***************************************************************************)
EXTENDS Integers

CONSTANTS
  Byte,       \* the values a byte takes, 256 in the code
  MaxSize     \* bound on size_head

ASSUME ChecksumAssumption == Byte \in Nat /\ Byte >= 2 /\ MaxSize \in Nat

M == Byte * Byte    \* the values of an unsigned short

VARIABLES
  size_head,   \* the bytes of the header
  header,      \* header[b]: its byte b
  sum,         \* what the code is to compute: sum[n] is the sum of the first n words
  pc,          \* where my_checksum is
  i,           \* the words added so far
  all_sum, dop_sum, checksum

vars == <<size_head, header, sum, pc, i, all_sum, dop_sum, checksum>>
inputs == <<size_head, header, sum>>

\* The word number n, low byte first; a last byte alone is a word.
Word(n) == header[2 * n] + Byte * (IF 2 * n + 1 < size_head THEN header[2 * n + 1] ELSE 0)

Words == (size_head + 1) \div 2

\* The sum of the words, one by one.
SumOfWords == sum[0] = 0 /\ \A n \in 0 .. Words - 1 : sum[n + 1] = sum[n] + Word(n)

Variables == i = 0 /\ all_sum = 0 /\ dop_sum = 0 /\ checksum = 0

Init == /\ size_head \in 0 .. MaxSize
        /\ header \in [0 .. size_head - 1 -> 0 .. Byte - 1]
        /\ sum \in [0 .. Words -> 0 .. Words * (M - 1)]
        /\ SumOfWords
        /\ Variables /\ pc = "add"

\* No header is summed at all.
Off == size_head = 0 /\ header = <<>> /\ sum = <<>> /\ Variables /\ pc = "off"

-----------------------------------------------------------------------------
\* for (i = 0; i < size_head / 2; i++)
AddWord ==
  /\ pc = "add" /\ i < size_head \div 2
  /\ all_sum' = all_sum + Word(i)
  /\ i' = i + 1
  /\ UNCHANGED <<inputs, pc, dop_sum, checksum>>

\* A byte left over; the first carry.
AddLast ==
  /\ pc = "add" /\ i >= size_head \div 2
  /\ all_sum' = IF size_head % 2 # 0 THEN all_sum + header[size_head - 1] ELSE all_sum
  /\ dop_sum' = all_sum' \div M
  /\ pc' = "fold"
  /\ UNCHANGED <<inputs, i, checksum>>

\* Bug: the carry of the carry is forgotten, `if' for `while'.
FoldOnce ==
  /\ pc = "fold" /\ dop_sum > 0
  /\ all_sum' = (all_sum % M) + dop_sum
  /\ dop_sum' = 0
  /\ UNCHANGED <<inputs, pc, i, checksum>>

\* while (dop_sum > 0)
Fold ==
  /\ pc = "fold" /\ dop_sum > 0
  /\ all_sum' = (all_sum % M) + dop_sum
  /\ dop_sum' = all_sum' \div M
  /\ UNCHANGED <<inputs, pc, i, checksum>>

\* (unsigned short) ~all_sum
Invert ==
  /\ pc = "fold" /\ dop_sum <= 0
  /\ checksum' = (-1 - all_sum) % M
  /\ pc' = "return"
  /\ UNCHANGED <<inputs, i, all_sum, dop_sum>>

Next == AddWord \/ AddLast \/ Fold \/ Invert

Spec == Init /\ [][Next]_vars

-----------------------------------------------------------------------------
\* A receiver accepts the header: with the checksum in its place the words add
\* up to a multiple of M - 1 which is not 0, so the one's complement sum is
\* all ones, whatever carries the additions made (client.c:129-152).
ReceiverAccepts ==
  pc = "return" =>
    /\ checksum \in 0 .. M - 1
    /\ \E k \in 1 .. sum[Words] + 1 : sum[Words] + checksum = k * (M - 1)
=============================================================================
