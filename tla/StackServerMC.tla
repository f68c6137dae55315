----------------------------- MODULE StackServerMC -----------------------------
(* Instances of StackServer for TLC. *)
EXTENDS StackServerProps

\* What an uninitialised buffer may hold: a probe for the port of thread 0,
\* or a port nobody serves.
MCGarbage == {Msg(PROBE, 0), Msg(DATA, LENGTH_CLIENT)}
=============================================================================
