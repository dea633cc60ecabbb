------------------------------ MODULE Bindings ------------------------------
(***************************************************************************)
(* The binding database as its writers share it: `agr open`, the daemon    *)
(* and `agr end` are different processes, and every call of the store is   *)
(* one flock'd read, change and rename.  A call that fails, or a process   *)
(* that dies in it, leaves the file as it was.                             *)
(***************************************************************************)
EXTENDS BindingStore

VARIABLE db

Init == db = {}

Bind(next) == db' = upsert(db, next)

UnbindRow(row) == db' = WithoutRow(db, row)

AddGrant(host, name, grant) ==
  \E old \in db :
    /\ old.host = host /\ old.name = name
    /\ db' = EditGrants(db, old, old.grants \cup {grant})

DropGrant(host, name, grant) ==
  \E old \in db :
    /\ old.host = host /\ old.name = name
    /\ db' = EditGrants(db, old, old.grants \ {grant})

Next ==
  \/ \E next \in Binding : Bind(next)
  \/ \E row \in Rows : UnbindRow(row)
  \/ \E host \in Hosts, name \in Names, grant \in Grants :
       AddGrant(host, name, grant) \/ DropGrant(host, name, grant)

Spec == Init /\ [][Next]_db
-----------------------------------------------------------------------------
\* A remote session is bound to one pane at a time, so that a status event, a
\* proxy call or a grant for it has one place to go (ByHostName).
OneBindingPerSession ==
  \A a, b \in db : SameSession(a, b) => a = b

\* A pane shows one session: no two entries share a token, or a slot of a row,
\* and an entry without a token has its row for itself.
OneBindingPerPane ==
  \A a, b \in db : a # b =>
    /\ a.paneId # b.paneId \/ a.paneId = NoToken
    /\ a.row = b.row => a.paneId # NoToken /\ a.pane # b.pane

\* Whoever writes bindings.json, sessions and panes correspond one to one: a status
\* event goes to one pane, and a pane tells of one session (Store.Bind, supersedes).
BoundOnce == OneBindingPerSession /\ OneBindingPerPane
=============================================================================
