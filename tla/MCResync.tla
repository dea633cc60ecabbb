------------------------------ MODULE MCResync ------------------------------
(* Small instances of Resync: every pane is on one row, p1 of host h1 and  *)
(* any other pane of the other host.                                       *)
EXTENDS Resync

CONSTANTS h1, p1, r1

MCHostOf == [p \in Panes |-> IF p = p1 THEN h1 ELSE CHOOSE h \in Hosts : h # h1]
MCRowOf == [p \in Panes |-> r1]
=============================================================================
