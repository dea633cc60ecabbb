--------------------------- MODULE MCHostLifecycle ---------------------------
(* One host, three runtimes, two control connections: a down, the up that     *)
(* follows it and one more start can overlap a Close, a crash and a restart.  *)
EXTENDS HostLifecycle, TLC

Symmetry == Permutations(Callers) \cup Permutations(Runtimes)
=============================================================================
