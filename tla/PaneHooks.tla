----------------------------- MODULE PaneHooks ------------------------------
(***************************************************************************)
(* The pane.split hook of a row.  agterm reports a split as shown when it  *)
(* is made and again whenever it is shown after being hidden, and runs the *)
(* hook as a process of its own each time.  A hook reads the tree, claims  *)
(* the pane in the handled store under a lock, reads the bindings, asks    *)
(* the host for a directory and types `agr open` into the pane: the rest   *)
(* of the system moves between any two of these.                           *)
(***************************************************************************)
EXTENDS Bindings, Naturals

CONSTANTS
  Hooks,          \* the hooks that may run at once
  Host,           \* the host the rows are on
  RowOf, SlotOf,  \* where a pane is, for the one life it has
  ChildName       \* the name a side pane gets: `<name>-2`

ASSUME PlaceAssumption ==
  /\ RowOf \in [Tokens -> Rows] /\ SlotOf \in [Tokens -> Slots]
  /\ ChildName \in [Names -> Names]
  /\ Host \in Hosts

VARIABLES
  pane,    \* "unborn", "shown", "hidden" or "gone"
  due,     \* per row, the shown events whose hook has not started
  hook,    \* the hooks
  handled, \* the handled store: a claim is "none", "new" or, past pruneGrace, "old"
  typed    \* how many lines the hooks have typed into a pane

hooks == <<due, hook, handled, typed>>
panes == <<pane, hooks>>

IsLive(p) == pane[p] \in {"shown", "hidden"}

Live == {p \in Tokens : IsLive(p)}

At(row, slot) == {p \in Live : RowOf[p] = row /\ SlotOf[p] = slot}
-----------------------------------------------------------------------------
(* agterm                                                                  *)

\* A split is made in a row, or shown again.
ShowSplit(p) ==
  /\ SlotOf[p] = "right" /\ At(RowOf[p], "left") # {}
  /\ \/ pane[p] = "unborn" /\ At(RowOf[p], "right") = {}
     \/ pane[p] = "hidden"
  /\ pane' = [pane EXCEPT ![p] = "shown"]
  /\ due' = [due EXCEPT ![RowOf[p]] = @ + 1]
  /\ UNCHANGED <<hook, handled, typed>>

HideSplit(p) ==
  /\ SlotOf[p] = "right" /\ pane[p] = "shown"
  /\ pane' = [pane EXCEPT ![p] = "hidden"]
  /\ UNCHANGED hooks

NewRow(p) ==
  /\ SlotOf[p] = "left" /\ pane[p] = "unborn"
  /\ At(RowOf[p], "left") = {}
  /\ pane' = [pane EXCEPT ![p] = "shown"]
  /\ UNCHANGED hooks

PanesClose(closed) ==
  /\ closed # {} /\ closed \subseteq Live
  /\ pane' = [p \in Tokens |-> IF p \in closed THEN "gone" ELSE pane[p]]
  /\ UNCHANGED hooks
-----------------------------------------------------------------------------
(* The hook.                                                               *)

\* name is the session of the primary pane; knows, whether the host answered `cwd`.
NoHook ==
  [at |-> "idle", row |-> CHOOSE r \in Rows : TRUE, pane |-> NoToken, primary |-> NoToken,
   seen |-> {}, name |-> CHOOSE n \in Names : TRUE, knows |-> FALSE]

HookEnds(k) == hook' = [hook EXCEPT ![k] = NoHook]

\* paneHookTarget up to the claim: one read of the tree.
HookReads(k, row) ==
  /\ hook[k].at = "idle" /\ due[row] > 0
  /\ due' = [due EXCEPT ![row] = @ - 1]
  /\ LET right == {p \in At(row, "right") : pane[p] = "shown"} IN
     \/ right = {} /\ UNCHANGED hook
     \/ \E p \in right, q \in {NoToken} \cup At(row, "left") :
          /\ q = NoToken => At(row, "left") = {}
          /\ hook' = [hook EXCEPT ![k] = [NoHook EXCEPT
               !.at = "claim", !.row = row, !.pane = p, !.primary = q, !.seen = Live]]
  /\ UNCHANGED <<pane, handled, typed, db>>

\* Broken: a claim is dropped as soon as a snapshot lacks its pane.
PrunedAtOnce(claims, live) ==
  [p \in Tokens |-> IF p \notin live THEN "none" ELSE claims[p]]

Pruned(claims, live) ==
  [p \in Tokens |-> IF p \notin live /\ claims[p] = "old" THEN "none" ELSE claims[p]]

\* Store.Claim, under its lock.
HookClaims(k) ==
  /\ hook[k].at = "claim"
  /\ LET claims == Pruned(handled, hook[k].seen) IN
     IF claims[hook[k].pane] # "none"
       THEN handled' = claims /\ HookEnds(k)
       ELSE /\ handled' = [claims EXCEPT ![hook[k].pane] = "new"]
            /\ hook' = [hook EXCEPT ![k].at = "load"]
  /\ UNCHANGED <<pane, due, typed, db>>

\* A minute passes: no hook takes that long to its claim (pruneGrace).
ClaimAges(p) ==
  /\ handled[p] = "new"
  /\ \A k \in Hooks : hook[k].at # "claim"
  /\ handled' = [handled EXCEPT ![p] = "old"]
  /\ UNCHANGED <<pane, due, hook, typed, db>>

isPrimaryBinding(b, primary) ==
  IF b.paneId # NoToken /\ primary # NoToken THEN b.paneId = primary ELSE b.pane = "left"

\* The rest of paneHookTarget.
HookLoads(k) ==
  /\ hook[k].at = "load"
  /\ LET bound == ForRow(db, hook[k].row)
         primary == {b \in bound : isPrimaryBinding(b, hook[k].primary)} IN
     IF primary = {} \/ \E b \in bound : b.paneId = hook[k].pane
       THEN HookEnds(k)
       ELSE \E b \in primary :
              hook' = [hook EXCEPT ![k].at = "ask", ![k].name = b.name]
  /\ UNCHANGED <<pane, due, handled, typed, db>>

\* `agr cwd`: a host that does not answer it is told no parent either.
HookAsks(k) ==
  /\ hook[k].at = "ask"
  /\ \E knows \in BOOLEAN : hook' = [hook EXCEPT ![k].at = "type", ![k].knows = knows]
  /\ UNCHANGED <<pane, due, handled, typed, db>>

\* A pane that has gone by then makes the typing fail.
HookTypes(k) ==
  /\ hook[k].at = "type"
  /\ typed' = IF IsLive(hook[k].pane) THEN [typed EXCEPT ![hook[k].pane] = @ + 1] ELSE typed
  /\ HookEnds(k)
  /\ UNCHANGED <<pane, due, handled, db>>

HookStep(k) ==
  \/ \E row \in Rows : HookReads(k, row)
  \/ HookClaims(k) \/ HookLoads(k) \/ HookAsks(k) \/ HookTypes(k)

\* What the hook shares with the rest: agterm moves panes, and the bindings change.
Around ==
  \/ \E p \in Tokens : (ShowSplit(p) \/ HideSplit(p) \/ NewRow(p)) /\ UNCHANGED db
  \/ \E closed \in SUBSET Tokens : PanesClose(closed) /\ UNCHANGED db
  \/ Next /\ UNCHANGED panes

HooksInit ==
  /\ Init
  /\ pane \in [Tokens -> {"unborn", "shown"}]
  /\ due = [row \in Rows |-> 0]
  /\ hook = [k \in Hooks |-> NoHook]
  /\ handled = [p \in Tokens |-> "none"]
  /\ typed = [p \in Tokens |-> 0]

HooksNext ==
  \/ \E k \in Hooks : HookStep(k)
  \/ \E p \in Tokens : ClaimAges(p)
  \/ Around

HooksSpec == HooksInit /\ [][HooksNext]_<<panes, db>>
-----------------------------------------------------------------------------
\* However often a split is hidden and shown, and however its hooks overlap, the
\* remote command is typed into it once: by the second time the pane runs
\* something else (handled/store.go).
TypedOnce == \A p \in Tokens : typed[p] \in {0, 1}
=============================================================================
