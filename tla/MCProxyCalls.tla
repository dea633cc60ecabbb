---------------------------- MODULE MCProxyCalls ----------------------------
(* ProxyCalls for TLC.                                                     *)
EXTENDS ProxyCalls, TLC

Symmetry == Permutations(Calls) \cup Permutations(Pages)
=============================================================================
