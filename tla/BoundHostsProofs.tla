-------------------------- MODULE BoundHostsProofs --------------------------
(***************************************************************************)
(* A proof about BoundHosts, for any clients, hosts, rows and bindings: a  *)
(* reload that nobody disturbs repairs what runs.                          *)
(***************************************************************************)
EXTENDS BoundHosts, TLAPS

ClientLabels ==
  {"idle", "bind", "load", "look", "stops", "starts", "up", "unbind"}

Types ==
  /\ db \subseteq Binding /\ events \subseteq Rows /\ up \subseteq Hosts
  /\ pc \in [Clients -> ClientLabels]
  /\ DOMAIN want = Clients
  /\ \A c \in Clients : pc[c] # "idle" => want[c] \in Binding
  /\ desired \in [Clients -> SUBSET Hosts] /\ todo \in [Clients -> SUBSET Hosts]
  /\ loop \in {"idle", "unbind", "check", "stop"}
  /\ loop = "unbind" => row \in Rows

\* How far an undisturbed reload has come: it stops what is not bound, and then
\* starts what is.
RepairInv ==
  \A c \in undisturbed :
    /\ c \in Clients
    /\ pc[c] \in {"look", "stops", "starts", "up"} => desired[c] = BoundHosts(db)
    /\ pc[c] = "stops" => up \subseteq desired[c] \cup todo[c]
    /\ pc[c] = "starts" =>
         /\ todo[c] \subseteq desired[c] /\ up \subseteq desired[c]
         /\ desired[c] \ (todo[c] \cup up) \subseteq excused
    /\ pc[c] = "up" => up \subseteq desired[c] /\ desired[c] \ up \subseteq excused

Inv == Types /\ RepairInv

\* An entry that is bound keeps its type, whatever grants it inherits.
LEMMA UpsertType ==
  ASSUME NEW d \in SUBSET Binding, NEW b \in Binding
  PROVE  upsert(d, b) \in SUBSET Binding
<1> DEFINE before == {a \in d : SameSession(a, b) /\ a.grants # {}}
           g == Inherited(d, b)
<1>1. before # {} => (CHOOSE a \in before : TRUE) \in before
  BY Zenon
<1>2. \A a \in before \cup {b} : a.grants \in SUBSET Grants
  BY DEF Binding
<1>3. g \in SUBSET Grants
  BY <1>1, <1>2 DEF Inherited
<1>4. upsert(d, b) = {a \in d : ~supersedes(b, a)} \cup {[b EXCEPT !.grants = g]}
  BY DEF upsert
<1> HIDE DEF g
<1>5. [b EXCEPT !.grants = g] \in Binding
  BY <1>3 DEF Binding
<1> QED BY <1>4, <1>5

LEMMA HostsOf ==
  ASSUME NEW d \in SUBSET Binding PROVE BoundHosts(d) \in SUBSET Hosts
BY DEF BoundHosts, Binding

LEMMA InitInv == Init => Inv
BY DEF Init, Inv, Types, RepairInv, ClientLabels

LEMMA ClientStep ==
  ASSUME Inv, NEW c \in Clients,
         Open(c) \/ EndCloses(c) \/ EndUnbinds(c) \/ StoreFails(c)
  PROVE  Inv'
<1> USE DEF Goto, DisturbOthers, Disturb, loopVars, ClientLabels
<1>t. Types /\ RepairInv
  BY DEF Inv
<1>1. CASE OpenBegin(c)
  <2>1. Types' BY <1>t, <1>1, TargetAssumption DEF OpenBegin, Types
  <2>2. RepairInv' BY <1>t, <1>1 DEF OpenBegin, Types, RepairInv
  <2> QED BY <2>1, <2>2 DEF Inv
<1>2. CASE OpenBind(c)
  <2>1. Types' BY <1>t, <1>2, UpsertType DEF OpenBind, Types
  <2>2. RepairInv' BY <1>t, <1>2 DEF OpenBind, Types, RepairInv
  <2> QED BY <2>1, <2>2 DEF Inv
<1>3. CASE ReloadLoad(c)
  <2>1. Types' BY <1>t, <1>3, HostsOf DEF ReloadLoad, Types
  <2>2. RepairInv' BY <1>t, <1>3 DEF ReloadLoad, Types, RepairInv
  <2> QED BY <2>1, <2>2 DEF Inv
<1>4. CASE ReloadLook(c)
  <2>1. Types' BY <1>t, <1>4 DEF ReloadLook, Types
  <2>2. RepairInv' BY <1>t, <1>4 DEF ReloadLook, Types, RepairInv
  <2> QED BY <2>1, <2>2 DEF Inv
<1>5. CASE ReloadStop(c)
  <2>1. Types' BY <1>t, <1>5 DEF ReloadStop, StopHost, Types
  <2>2. RepairInv' BY <1>t, <1>5 DEF ReloadStop, StopHost, Types, RepairInv
  <2> QED BY <2>1, <2>2 DEF Inv
<1>6. CASE ReloadStops(c)
  <2>1. Types' BY <1>t, <1>6 DEF ReloadStops, Types
  <2>2. RepairInv' BY <1>t, <1>6 DEF ReloadStops, Types, RepairInv
  <2> QED BY <2>1, <2>2 DEF Inv
<1>7. CASE ReloadStart(c)
  <2>1. PICK h \in todo[c] : StartHost(h) /\ todo' = [todo EXCEPT ![c] = @ \ {h}]
    BY <1>7 DEF ReloadStart
  <2>2. /\ pc[c] = "starts" /\ UNCHANGED <<db, pc, want, desired>>
        /\ UNCHANGED <<events, loop, row>> /\ undisturbed' = undisturbed \cap {c}
    BY <1>7 DEF ReloadStart
  <2>3. Types' BY <1>t, <2>1, <2>2 DEF StartHost, Types
  <2>4. todo'[c] = todo[c] \ {h}
    BY <1>t, <2>1 DEF Types
  <2>5. ASSUME c \in undisturbed
        PROVE  /\ todo'[c] \subseteq desired[c] /\ up' \subseteq desired[c]
               /\ desired[c] \ (todo'[c] \cup up') \subseteq excused'
    <3>1. /\ todo[c] \subseteq desired[c] /\ up \subseteq desired[c]
          /\ desired[c] \ (todo[c] \cup up) \subseteq excused
      BY <1>t, <2>2, <2>5 DEF RepairInv
    <3> QED BY <2>1, <2>4, <3>1 DEF StartHost
  <2>6. RepairInv' BY <1>t, <2>2, <2>5 DEF RepairInv
  <2> QED BY <2>3, <2>6 DEF Inv
<1>8. CASE ReloadDone(c)
  <2>1. Types' BY <1>t, <1>8 DEF ReloadDone, Types
  <2>2. RepairInv' BY <1>t, <1>8 DEF ReloadDone, Types, RepairInv
  <2> QED BY <2>1, <2>2 DEF Inv
<1>9. CASE OpenUp(c)
  <2>1. Types' BY <1>t, <1>9 DEF OpenUp, StartHost, Types, Binding
  <2>2. RepairInv' BY <1>9 DEF OpenUp, RepairInv
  <2> QED BY <2>1, <2>2 DEF Inv
<1>10. CASE OpenDies(c)
  <2>1. Types' BY <1>t, <1>10 DEF OpenDies, Types
  <2>2. RepairInv' BY <1>t, <1>10 DEF OpenDies, Types, RepairInv
  <2> QED BY <2>1, <2>2 DEF Inv
<1>11. CASE EndCloses(c)
  <2>1. PICK b \in db : /\ want' = [want EXCEPT ![c] = b]
                        /\ events' = events \cup {b.row}
    BY <1>11 DEF EndCloses
  <2>2. b \in Binding /\ b.row \in Rows
    BY <1>t DEF Types, Binding
  <2>3. Types' BY <1>t, <1>11, <2>1, <2>2 DEF EndCloses, Types
  <2>4. RepairInv' BY <1>t, <1>11 DEF EndCloses, Types, RepairInv
  <2> QED BY <2>3, <2>4 DEF Inv
<1>12. CASE EndUnbinds(c)
  <2>1. Types' BY <1>t, <1>12 DEF EndUnbinds, WithoutRow, Types
  <2>2. RepairInv' BY <1>t, <1>12 DEF EndUnbinds, Types, RepairInv
  <2> QED BY <2>1, <2>2 DEF Inv
<1>13. CASE StoreFails(c)
  <2>1. Types' BY <1>t, <1>13 DEF StoreFails, Types
  <2>2. RepairInv' BY <1>t, <1>13 DEF StoreFails, Types, RepairInv
  <2> QED BY <2>1, <2>2 DEF Inv
<1> QED
  BY <1>1, <1>2, <1>3, <1>4, <1>5, <1>6, <1>7, <1>8, <1>9, <1>10, <1>11, <1>12, <1>13
     DEF Open, Reload

LEMMA Step == Inv /\ [Next]_vars => Inv'
<1> SUFFICES ASSUME Inv, [Next]_vars PROVE Inv'
  OBVIOUS
<1> USE DEF Inv, Types, RepairInv, Disturb, clientVars, loopVars
<1>1. ASSUME NEW c \in Clients, Open(c) \/ EndCloses(c) \/ EndUnbinds(c) \/ StoreFails(c)
      PROVE  Inv'
  BY <1>1, ClientStep
<1>2. ASSUME NEW r \in Rows, UserCloses(r) PROVE Inv'
  BY <1>2 DEF UserCloses
<1>3. ASSUME NEW r \in Rows, LazyUnbind(r) PROVE Inv'
  BY <1>3 DEF LazyUnbind, WithoutRow
<1>4. ASSUME NEW h \in Hosts, Up(h) \/ Down(h) PROVE Inv'
  BY <1>4 DEF Up, Down, StartHost
<1>5. ASSUME NEW r \in Rows, ClosedRow(r) PROVE Inv'
  BY <1>5 DEF ClosedRow
<1>6. CASE ClosedRowUnbind \/ ClosedRowUnbindFails
  BY <1>6 DEF ClosedRowUnbind, ClosedRowUnbindFails, WithoutRow
<1>7. CASE ClosedRowCheck \/ ClosedRowCheckFails
  BY <1>7 DEF ClosedRowCheck, ClosedRowCheckFails
<1>8. CASE ClosedRowStop
  BY <1>8 DEF ClosedRowStop, StopHost
<1>9. CASE ClosedRowDone
  BY <1>9 DEF ClosedRowDone
<1>10. CASE UNCHANGED vars
  BY <1>10 DEF vars
<1> HIDE DEF Inv
<1> QED
  BY <1>1, <1>2, <1>3, <1>4, <1>5, <1>6, <1>7, <1>8, <1>9, <1>10 DEF Next, HandleClosedRow

LEMMA Always == Spec => []Inv
BY InitInv, Step, PTL DEF Spec

\* A reload-bindings that nobody disturbs leaves exactly the bound hosts running,
\* but for those that failed to start, for any number of hosts and clients and
\* whatever earlier races had left behind.
THEOREM ReloadMakesItRight == Spec => []ReloadRepairs
<1>1. Inv => ReloadRepairs
  BY DEF Inv, RepairInv, ReloadRepairs
<1> QED BY <1>1, Always, PTL
=============================================================================
