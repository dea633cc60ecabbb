---------------------------- MODULE MCBoundHosts ----------------------------
(***************************************************************************)
(* BoundHosts for TLC: a row w1 whose panes reach two hosts, and a row w2  *)
(* in which the session of one of them can be opened again.                *)
(***************************************************************************)
EXTENDS BoundHosts

CONSTANTS h1, h2, n1, w1, w2, left, right, t1, t2, t3

Target(h, n, w, slot, t) ==
  [host |-> h, name |-> n, row |-> w, pane |-> slot, paneId |-> t, grants |-> {}]

MCTargets ==
  {Target(h1, n1, w1, left, t1), Target(h2, n1, w1, right, t2),
   Target(h1, n1, w2, left, t3)}
=============================================================================
