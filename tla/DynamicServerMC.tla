---------------------------- MODULE DynamicServerMC ----------------------------
(* Instances of DynamicServer for TLC. *)
EXTENDS DynamicServerProps, TLC

\* What an uninitialised buffer may hold: a probe for the port of entry 0,
\* a redirect to it, or a port nobody serves.
MCGarbage == {Msg(PROBE, 0), Msg(REDIRECT, 0), Msg(DATA, LENGTH_CLIENT)}

\* Two UDP clients differ in nothing but their name.
UdpSymmetry == Permutations(UdpClient)
=============================================================================
