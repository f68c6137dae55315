------------------------------ MODULE PoolServerMC ------------------------------
(* Instances of PoolServer for TLC. *)
EXTENDS PoolServerProps

\* What an uninitialised buffer may hold: a probe for the port of entry 0,
\* or a port nobody serves.
MCGarbage == {Msg(PROBE, 0), Msg(DATA, LENGTH_CLIENT)}
=============================================================================
