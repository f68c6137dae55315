---------------------------- MODULE MultiplexServerMC ----------------------------
(* Instantiates MultiplexServer and its properties for TLC. *)
EXTENDS MultiplexServerProps, TLC

\* The UDP clients are alike in the runs that name neither in Slow or Killable.
UdpSymmetry == Permutations(UdpClient)
=============================================================================
