---------------------------------- MODULE Cube ----------------------------------
(***************************************************************************)
(* The message `sign` that all the servers with threads and their clients  *)
(* exchange, and what a server makes of it: the cube of a number.          *)
(***************************************************************************)
EXTENDS Integers

CONSTANT IntMax   \* INT_MAX of the C type int

ASSUME IntMaxAssumption == IntMax \in Nat \ {0}

(* The values of sign.sign. *)
DATA      == 0
QUIT      == 1
QUIT_ACK  == 2
PROBE     == 3
PROBE_ACK == 4
REDIRECT  == 5
LIMIT     == 6

Message == [sign : 0 .. 6, message : Int]

Msg(s, m) == [sign |-> s, message |-> m]

ZeroMsg == Msg(DATA, 0)

\* The int arithmetic of the build: two's complement, wrapping.
Wrap(x) == ((x + IntMax + 1) % (2 * IntMax + 2)) - (IntMax + 1)

Pow3(x) == Wrap(x * x * x)

\* What a worker thread makes of a request before it sends it back.
Reply(m) ==
  Msg(CASE m.sign = QUIT  -> QUIT_ACK
        [] m.sign = PROBE -> PROBE_ACK
        [] OTHER          -> m.sign,
      Pow3(m.message))
=============================================================================
