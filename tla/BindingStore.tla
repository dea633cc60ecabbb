---------------------------- MODULE BindingStore ----------------------------
(***************************************************************************)
(* The entries of bindings.json and what one locked call of the store does *)
(* to them.  The database is a set: its order only matters to a search     *)
(* that could find two entries, and OneBindingPerSession rules that out.   *)
(* No grants is the nil slice of the code.                                 *)
(***************************************************************************)
CONSTANTS
  Hosts, Names,    \* remote hosts and the session names on them
  Rows, Slots,     \* agterm rows and the pane slots of a row
  Tokens, NoToken, \* pane tokens, and the empty PaneID of an older agterm
  Grants           \* local panes a host may be granted

ASSUME TokenAssumption == NoToken \notin Tokens

Binding ==
  [row: Rows, paneId: Tokens \cup {NoToken}, pane: Slots, host: Hosts,
   name: Names, grants: SUBSET Grants]

SameSession(a, b) == a.host = b.host /\ a.name = b.name

\* Broken: an entry is replaced only by one for its session.
SupersedesSession(next, old) == SameSession(old, next)

\* Broken: the token is compared only within a row.
SupersedesInRow(next, old) ==
  \/ SameSession(old, next)
  \/ /\ old.row = next.row
     /\ \/ next.paneId = NoToken \/ old.paneId = NoToken
        \/ old.paneId = next.paneId \/ old.pane = next.pane

supersedes(next, old) ==
  \/ SameSession(old, next)
  \/ IF old.row # next.row
       THEN next.paneId # NoToken /\ old.paneId = next.paneId
       ELSE \/ next.paneId = NoToken \/ old.paneId = NoToken
            \/ old.paneId = next.paneId \/ old.pane = next.pane

\* A session that is attached again keeps its grants, unless it brings some.
Inherited(db, next) ==
  LET before == {b \in db : SameSession(b, next) /\ b.grants # {}} IN
  IF next.grants = {} /\ before # {}
    THEN (CHOOSE b \in before : TRUE).grants
    ELSE next.grants

upsert(db, next) ==
  {b \in db : ~supersedes(next, b)}
    \cup {[next EXCEPT !.grants = Inherited(db, next)]}

ForRow(db, row) == {b \in db : b.row = row}

ForHost(db, host) == {b \in db : b.host = host}

WithoutRow(db, row) == db \ ForRow(db, row)

\* Broken: a grant for a session that is gone makes an entry of its own.
EditOrCreate(db, old, grants) ==
  db \cup {[old EXCEPT !.grants = grants]}

\* editGrants on the entry old, found under the lock.
EditGrants(db, old, grants) ==
  (db \ {old}) \cup {[old EXCEPT !.grants = grants]}
=============================================================================
