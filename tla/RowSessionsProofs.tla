-------------------------- MODULE RowSessionsProofs --------------------------
(***************************************************************************)
(* Proofs about rows and sessions, for any rows, panes, hooks, calls and   *)
(* names and whatever the processes do in between: that the bindings are   *)
(* one to one whoever writes them (Bindings), that the hooks type into a   *)
(* pane once (PaneHooks), and then, of all of it together, that calls keep *)
(* their names apart and that a reap, and `agr end` with it, leave nothing *)
(* behind unnoticed.                                                       *)
(***************************************************************************)
EXTENDS RowSessions, SequenceTheorems, TLAPS

-----------------------------------------------------------------------------
(* The bindings.                                                           *)

\* Every entry is a binding.
TypeOK == db \subseteq Binding

\* Neither uniqueness needs the other; both need the entries to be records.
IInv == TypeOK /\ OneBindingPerSession /\ OneBindingPerPane

\* A binding whose grants are replaced differs in nothing else.
LEMMA WithGrants ==
  ASSUME NEW b \in Binding, NEW g \in SUBSET Grants
  PROVE  /\ [b EXCEPT !.grants = g] \in Binding
         /\ [b EXCEPT !.grants = g].row = b.row
         /\ [b EXCEPT !.grants = g].paneId = b.paneId
         /\ [b EXCEPT !.grants = g].pane = b.pane
         /\ [b EXCEPT !.grants = g].host = b.host
         /\ [b EXCEPT !.grants = g].name = b.name
BY DEF Binding

\* What a re-bound session inherits is a set of grants.
LEMMA InheritedType ==
  ASSUME db \subseteq Binding, NEW next \in Binding
  PROVE  Inherited(db, next) \in SUBSET Grants
<1> DEFINE before == {b \in db : SameSession(b, next) /\ b.grants # {}}
<1>1. before # {} => (CHOOSE b \in before : TRUE) \in before BY Zenon
<1>2. \A b \in before : b.grants \in SUBSET Grants BY DEF Binding
<1>3. next.grants \in SUBSET Grants BY DEF Binding
<1> QED BY <1>1, <1>2, <1>3 DEF Inherited

\* Binding a pane retires every entry that the new one could collide with.
LEMMA BindKeeps ==
  ASSUME IInv, NEW next \in Binding, Bind(next)
  PROVE  IInv'
<1> DEFINE new == [next EXCEPT !.grants = Inherited(db, next)]
           kept == {b \in db : ~supersedes(next, b)}
<1>1. db' = kept \cup {new} BY DEF Bind, upsert
<1>2. /\ new \in Binding
      /\ new.row = next.row /\ new.paneId = next.paneId
      /\ new.pane = next.pane /\ new.host = next.host /\ new.name = next.name
  BY InheritedType, WithGrants DEF IInv, TypeOK
<1>3. kept \subseteq db /\ \A b \in kept : ~supersedes(next, b) OBVIOUS
<1> HIDE DEF new, kept
<1>4. TypeOK' BY <1>1, <1>2, <1>3 DEF IInv, TypeOK
<1>5. OneBindingPerSession'
  BY <1>1, <1>2, <1>3 DEF IInv, OneBindingPerSession, supersedes, SameSession
<1>6. OneBindingPerPane'
  BY <1>1, <1>2, <1>3 DEF IInv, OneBindingPerPane, supersedes, SameSession
<1> QED BY <1>4, <1>5, <1>6 DEF IInv

\* Changing the grants of an entry moves it nowhere.
LEMMA EditKeeps ==
  ASSUME IInv, NEW old \in db, NEW g \in SUBSET Grants, db' = EditGrants(db, old, g)
  PROVE  IInv'
<1> DEFINE new == [old EXCEPT !.grants = g]
<1>1. db' = (db \ {old}) \cup {new} BY DEF EditGrants
<1>2. /\ new \in Binding
      /\ new.row = old.row /\ new.paneId = old.paneId
      /\ new.pane = old.pane /\ new.host = old.host /\ new.name = old.name
  BY WithGrants DEF IInv, TypeOK
<1> HIDE DEF new
<1>3. TypeOK' BY <1>1, <1>2 DEF IInv, TypeOK
<1>4. OneBindingPerSession'
  BY <1>1, <1>2 DEF IInv, OneBindingPerSession, SameSession
<1>5. OneBindingPerPane'
  BY <1>1, <1>2 DEF IInv, OneBindingPerPane
<1> QED BY <1>3, <1>4, <1>5 DEF IInv

\* All of it, in every reachable database.
LEMMA IInvAlways == Spec => []IInv
<1>1. Init => IInv
  BY DEF Init, IInv, TypeOK, OneBindingPerSession, OneBindingPerPane
<1>2. IInv /\ [Next]_db => IInv'
  <2> SUFFICES ASSUME IInv, [Next]_db PROVE IInv' OBVIOUS
  <2>1. CASE \E next \in Binding : Bind(next) BY <2>1, BindKeeps
  <2>2. CASE \E row \in Rows : UnbindRow(row)
    BY <2>2 DEF UnbindRow, WithoutRow, ForRow, IInv, TypeOK,
       OneBindingPerSession, OneBindingPerPane
  <2>3. CASE \E host \in Hosts, name \in Names, grant \in Grants :
               AddGrant(host, name, grant) \/ DropGrant(host, name, grant)
    <3>1. PICK old \in db, grant \in Grants :
            \/ db' = EditGrants(db, old, old.grants \cup {grant})
            \/ db' = EditGrants(db, old, old.grants \ {grant})
      BY <2>3 DEF AddGrant, DropGrant
    <3>2. old.grants \in SUBSET Grants BY DEF IInv, TypeOK, Binding
    <3>3. old.grants \cup {grant} \in SUBSET Grants
          /\ old.grants \ {grant} \in SUBSET Grants
      BY <3>2
    <3> QED BY <3>1, <3>3, EditKeeps
  <2>4. CASE UNCHANGED db
    BY <2>4 DEF IInv, TypeOK, OneBindingPerSession, OneBindingPerPane
  <2> QED BY <2>1, <2>2, <2>3, <2>4 DEF Next
<1> QED BY <1>1, <1>2, PTL DEF Spec

\* Whoever writes the database, a remote session has one binding at most.
THEOREM SessionsAreBoundOnce == Spec => []OneBindingPerSession
<1>1. IInv => OneBindingPerSession BY DEF IInv
<1> QED BY <1>1, IInvAlways, PTL

\* Whoever writes the database, a pane has one binding at most.
THEOREM PanesAreBoundOnce == Spec => []OneBindingPerPane
<1>1. IInv => OneBindingPerPane BY DEF IInv
<1> QED BY <1>1, IInvAlways, PTL

\* Whoever writes the database, sessions and panes are bound one to one.
THEOREM BindingsAreOneToOne == Spec => []BoundOnce
<1>1. IInv => BoundOnce BY DEF IInv, BoundOnce
<1> QED BY <1>1, IInvAlways, PTL
-----------------------------------------------------------------------------
(* The hooks.                                                              *)

Stages == {"idle", "claim", "load", "ask", "type"}

HookRecord ==
  [at: Stages, row: Rows \cup {CHOOSE r \in Rows : TRUE}, pane: Tokens \cup {NoToken},
   primary: Tokens \cup {NoToken}, seen: SUBSET Tokens,
   name: Names \cup {CHOOSE n \in Names : TRUE}, knows: BOOLEAN]

Types ==
  /\ pane \in [Tokens -> {"unborn", "shown", "hidden", "gone"}]
  /\ hook \in [Hooks -> HookRecord]
  /\ handled \in [Tokens -> {"none", "new", "old"}]
  /\ typed \in [Tokens -> {0, 1}]
  /\ \A k \in Hooks : hook[k].at # "idle" => hook[k].pane \in Tokens

\* The hook has claimed p and will type into it, or find that it need not.
Past(k, p) == hook[k].at \in {"load", "ask", "type"} /\ hook[k].pane = p

\* Nothing has happened to a pane that was not made yet.
Unborn ==
  \A p \in Tokens : pane[p] = "unborn" =>
    /\ typed[p] = 0 /\ handled[p] = "none"
    /\ \A k \in Hooks : hook[k].at # "idle" => hook[k].pane # p

\* A live pane that was typed into, or is about to be, is claimed.
Claimed ==
  \A p \in Tokens : IsLive(p) /\ handled[p] = "none" =>
    typed[p] = 0 /\ \A k \in Hooks : ~Past(k, p)

\* A live pane has one hook at most behind its claim, none once it is typed into.
OneHook ==
  \A p \in Tokens : IsLive(p) =>
    /\ \A k, l \in Hooks : Past(k, p) /\ Past(l, p) => k = l
    /\ \A k \in Hooks : Past(k, p) => typed[p] = 0

\* The snapshot of a hook that is about to prune has every live pane whose claim
\* is old: the grace of a claim outlives the snapshots taken before it.
Seen ==
  \A k \in Hooks, p \in Tokens :
    hook[k].at = "claim" /\ IsLive(p) /\ handled[p] = "old" => p \in hook[k].seen

Inv == Types /\ Unborn /\ Claimed /\ OneHook /\ Seen

LEMMA InitInv == HooksInit => Inv
BY PlaceAssumption, TokenAssumption
   DEF HooksInit, Inv, Types, Unborn, Claimed, OneHook, Seen, Past, NoHook, HookRecord, Stages,
       IsLive

\* What leaves hooks, claims and typed lines alone, and only makes panes live that
\* were not made yet, keeps the invariant.
LEMMA PanesMove ==
  ASSUME Inv, UNCHANGED <<hook, handled, typed>>,
         pane' \in [Tokens -> {"unborn", "shown", "hidden", "gone"}],
         \A p \in Tokens : pane'[p] = "unborn" => pane[p] = "unborn",
         \A p \in Tokens : IsLive(p)' => IsLive(p) \/ pane[p] = "unborn"
  PROVE  Inv'
<1>1. Types' BY DEF Inv, Types
<1>2. Unborn' BY DEF Inv, Unborn, Types
<1>3. ASSUME NEW p \in Tokens, IsLive(p)', ~IsLive(p)
      PROVE  /\ typed[p] = 0 /\ handled[p] = "none"
             /\ \A k \in Hooks : ~Past(k, p)
  BY <1>3 DEF Inv, Unborn, Past
<1>4. Claimed' BY <1>3 DEF Inv, Claimed, Past
<1>5. OneHook' BY <1>3 DEF Inv, OneHook, Past
<1>6. Seen' BY <1>3 DEF Inv, Seen
<1> QED BY <1>1, <1>2, <1>4, <1>5, <1>6 DEF Inv

LEMMA AroundInv == ASSUME Inv, Around PROVE Inv'
<1>1. ASSUME NEW p \in Tokens, ShowSplit(p) \/ HideSplit(p) \/ NewRow(p) PROVE Inv'
  <2>1. /\ UNCHANGED <<hook, handled, typed>>
        /\ pane[p] \in {"unborn", "hidden", "shown"}
        /\ \E s \in {"shown", "hidden"} : pane' = [pane EXCEPT ![p] = s]
    BY <1>1 DEF ShowSplit, HideSplit, NewRow, hooks
  <2>2. pane \in [Tokens -> {"unborn", "shown", "hidden", "gone"}] BY DEF Inv, Types
  <2> QED BY <2>1, <2>2, PanesMove DEF IsLive
<1>2. ASSUME NEW closed \in SUBSET Tokens, PanesClose(closed) PROVE Inv'
  <2>1. pane \in [Tokens -> {"unborn", "shown", "hidden", "gone"}] BY DEF Inv, Types
  <2> QED BY <1>2, <2>1, PanesMove DEF PanesClose, hooks, IsLive
<1>3. CASE Next /\ UNCHANGED panes
  <2>1. pane \in [Tokens -> {"unborn", "shown", "hidden", "gone"}] BY DEF Inv, Types
  <2> QED BY <1>3, <2>1, PanesMove DEF panes, hooks, IsLive
<1> QED BY <1>1, <1>2, <1>3 DEF Around

\* What a hook's step does to the hooks: k goes on with the pane it has, or ends.
LEMMA Resting ==
  ASSUME Inv, NEW k \in Hooks, NEW h \in HookRecord, hook' = [hook EXCEPT ![k] = h],
         h.at \in {"idle", "load", "ask", "type"},
         h.at # "idle" => h.pane = hook[k].pane /\ hook[k].at \in {"load", "ask", "type"},
         UNCHANGED <<pane, handled, typed>>
  PROVE  Inv'
<1>1. /\ hook'[k] = h /\ \A l \in Hooks : l # k => hook'[l] = hook[l]
      /\ hook' \in [Hooks -> HookRecord]
  BY DEF Inv, Types
<1>2. \A l \in Hooks, p \in Tokens : Past(l, p)' => Past(l, p)
  BY <1>1 DEF Past
<1>3. Types' BY <1>1 DEF Inv, Types
<1>4. Unborn' BY <1>1 DEF Inv, Unborn
<1>5. Claimed' BY <1>2 DEF Inv, Claimed, IsLive
<1>6. OneHook' BY <1>2 DEF Inv, OneHook, IsLive
<1>7. Seen' BY <1>1 DEF Inv, Seen, IsLive
<1> QED BY <1>3, <1>4, <1>5, <1>6, <1>7 DEF Inv

LEMMA NoHookIsOne == NoHook \in HookRecord /\ NoHook.at = "idle"
BY DEF NoHook, HookRecord, Stages

LEMMA ReadsInv == ASSUME Inv, NEW k \in Hooks, NEW row \in Rows, HookReads(k, row) PROVE Inv'
<1>0. UNCHANGED <<pane, handled, typed>> /\ hook[k].at = "idle" BY DEF HookReads
<1>1. CASE UNCHANGED hook
  BY <1>0, <1>1, PanesMove DEF Inv, Types, IsLive
<1>2. ASSUME NEW p \in At(row, "right"), NEW q \in {NoToken} \cup At(row, "left"),
             hook' = [hook EXCEPT ![k] = [NoHook EXCEPT
               !.at = "claim", !.row = row, !.pane = p, !.primary = q, !.seen = Live]]
      PROVE  Inv'
  <2> DEFINE h == [NoHook EXCEPT
               !.at = "claim", !.row = row, !.pane = p, !.primary = q, !.seen = Live]
  <2>1. p \in Tokens /\ IsLive(p) /\ q \in Tokens \cup {NoToken} /\ Live \subseteq Tokens
    BY DEF At, Live
  <2>2. h \in HookRecord /\ h.at = "claim" /\ h.pane = p /\ h.seen = Live
    BY <2>1 DEF NoHook, HookRecord, Stages
  <2>3. hook' = [hook EXCEPT ![k] = h] BY <1>2
  <2> HIDE DEF h
  <2>4. /\ hook'[k] = h /\ \A l \in Hooks : l # k => hook'[l] = hook[l]
        /\ hook' \in [Hooks -> HookRecord]
    BY <2>2, <2>3 DEF Inv, Types
  <2>5. \A l \in Hooks, x \in Tokens : Past(l, x)' => Past(l, x)
    BY <2>2, <2>4 DEF Past
  <2>6. Types' BY <1>0, <2>1, <2>2, <2>4 DEF Inv, Types
  <2>7. Unborn' BY <1>0, <2>1, <2>2, <2>4 DEF Inv, Unborn, IsLive
  <2>8. Claimed' BY <1>0, <2>5 DEF Inv, Claimed, IsLive
  <2>9. OneHook' BY <1>0, <2>5 DEF Inv, OneHook, IsLive
  <2>10. Seen' BY <1>0, <2>2, <2>4 DEF Inv, Seen, IsLive, Live
  <2> QED BY <2>6, <2>7, <2>8, <2>9, <2>10 DEF Inv
<1> QED BY <1>1, <1>2 DEF HookReads

LEMMA ClaimsInv == ASSUME Inv, NEW k \in Hooks, HookClaims(k) PROVE Inv'
<1> DEFINE p == hook[k].pane
           claims == Pruned(handled, hook[k].seen)
<1>1. UNCHANGED <<pane, typed>> /\ hook[k].at = "claim" /\ p \in Tokens
  BY DEF HookClaims, Inv, Types
<1>2. /\ claims \in [Tokens -> {"none", "new", "old"}]
      /\ \A x \in Tokens : IsLive(x) => claims[x] = handled[x]
      /\ \A x \in Tokens : claims[x] = handled[x] \/ claims[x] = "none"
  BY <1>1 DEF Inv, Types, Seen, Pruned
<1>3. CASE claims[p] # "none" /\ handled' = claims /\ HookEnds(k)
  <2>1. /\ hook' = [hook EXCEPT ![k] = NoHook] /\ handled' = claims
    BY <1>3 DEF HookEnds
  <2>2. /\ hook'[k] = NoHook /\ \A l \in Hooks : l # k => hook'[l] = hook[l]
        /\ hook' \in [Hooks -> HookRecord]
    BY <2>1, NoHookIsOne DEF Inv, Types
  <2>3. \A l \in Hooks, x \in Tokens : Past(l, x)' => Past(l, x)
    BY <2>2, NoHookIsOne DEF Past
  <2> HIDE DEF claims
  <2>4. Types' BY <1>1, <1>2, <2>1, <2>2, NoHookIsOne DEF Inv, Types
  <2>5. Unborn' BY <1>1, <1>2, <2>1, <2>2, NoHookIsOne DEF Inv, Unborn
  <2>6. Claimed' BY <1>1, <1>2, <2>1, <2>3 DEF Inv, Claimed, IsLive
  <2>7. OneHook' BY <1>1, <2>3 DEF Inv, OneHook, IsLive
  <2>8. Seen' BY <1>1, <1>2, <2>1, <2>2, NoHookIsOne DEF Inv, Seen, IsLive
  <2> QED BY <2>4, <2>5, <2>6, <2>7, <2>8 DEF Inv
<1>4. CASE /\ claims[p] = "none" /\ handled' = [claims EXCEPT ![p] = "new"]
           /\ hook' = [hook EXCEPT ![k].at = "load"]
  <2>1. hook[k] \in HookRecord BY DEF Inv, Types
  <2>2. /\ hook'[k] = [hook[k] EXCEPT !.at = "load"]
        /\ \A l \in Hooks : l # k => hook'[l] = hook[l]
    BY <1>4 DEF Inv, Types
  <2>3. /\ hook'[k] \in HookRecord /\ hook'[k].at = "load" /\ hook'[k].pane = p
    BY <2>1, <2>2 DEF HookRecord, Stages
  <2>4. hook' \in [Hooks -> HookRecord] BY <1>4, <2>2, <2>3 DEF Inv, Types
  <2> HIDE DEF claims
  <2>5. /\ handled' \in [Tokens -> {"none", "new", "old"}] /\ handled'[p] = "new"
        /\ \A x \in Tokens : x # p => handled'[x] = claims[x]
    BY <1>1, <1>2, <1>4
  <2>6. IsLive(p) => typed[p] = 0 /\ \A l \in Hooks : ~Past(l, p)
    BY <1>1, <1>2, <1>4 DEF Inv, Claimed
  <2>7. \A l \in Hooks, x \in Tokens : Past(l, x)' => Past(l, x) \/ (l = k /\ x = p)
    BY <2>2, <2>3 DEF Past
  <2>8. pane[p] # "unborn" BY <1>1 DEF Inv, Unborn
  <2> HIDE DEF p
  <2>9. Types' BY <1>1, <2>2, <2>3, <2>4, <2>5 DEF Inv, Types
  <2>10. Unborn'
    <3> SUFFICES ASSUME NEW x \in Tokens, pane'[x] = "unborn"
                 PROVE  /\ typed'[x] = 0 /\ handled'[x] = "none"
                        /\ \A l \in Hooks : hook'[l].at # "idle" => hook'[l].pane # x
      BY DEF Unborn
    <3>1. x # p /\ pane[x] = "unborn" BY <1>1, <2>8
    <3>2. typed'[x] = 0 BY <3>1, <1>1 DEF Inv, Unborn
    <3>3. handled'[x] = "none" BY <3>1, <1>2, <2>5 DEF Inv, Unborn
    <3>4. ASSUME NEW l \in Hooks, hook'[l].at # "idle" PROVE hook'[l].pane # x
      <4>1. CASE l = k BY <4>1, <3>1, <2>3
      <4>2. CASE l # k BY <4>2, <3>1, <3>4, <2>2 DEF Inv, Unborn
      <4> QED BY <4>1, <4>2
    <3> QED BY <3>2, <3>3, <3>4
  <2>11. Claimed' BY <1>1, <1>2, <2>5, <2>7 DEF Inv, Claimed, IsLive
  <2>12. OneHook' BY <1>1, <2>6, <2>7 DEF Inv, OneHook, IsLive
  <2>13. Seen' BY <1>1, <1>2, <2>2, <2>3, <2>5 DEF Inv, Seen, IsLive
  <2> QED BY <2>9, <2>10, <2>11, <2>12, <2>13 DEF Inv
<1> QED BY <1>3, <1>4 DEF HookClaims

LEMMA AgesInv == ASSUME Inv, NEW p \in Tokens, ClaimAges(p) PROVE Inv'
<1>1. /\ UNCHANGED <<pane, hook, typed>> /\ handled[p] = "new"
      /\ handled' = [handled EXCEPT ![p] = "old"]
      /\ \A k \in Hooks : hook[k].at # "claim"
  BY DEF ClaimAges
<1>2. /\ handled' \in [Tokens -> {"none", "new", "old"}]
      /\ \A x \in Tokens : handled'[x] = "none" <=> handled[x] = "none"
  BY <1>1 DEF Inv, Types
<1> QED BY <1>1, <1>2 DEF Inv, Types, Unborn, Claimed, OneHook, Seen, Past, IsLive

LEMMA TypesInv == ASSUME Inv, NEW k \in Hooks, HookTypes(k) PROVE Inv'
<1> DEFINE p == hook[k].pane
<1>1. /\ UNCHANGED <<pane, handled>> /\ hook[k].at = "type" /\ p \in Tokens
      /\ hook' = [hook EXCEPT ![k] = NoHook]
  BY DEF HookTypes, HookEnds, Inv, Types
<1>2. CASE ~IsLive(p)
  <2>1. UNCHANGED typed BY <1>2 DEF HookTypes
  <2> QED BY <1>1, <2>1, Resting, NoHookIsOne
<1>3. CASE IsLive(p)
  <2>1. typed' = [typed EXCEPT ![p] = @ + 1] BY <1>3 DEF HookTypes
  <2>2. typed[p] = 0 /\ handled[p] # "none" /\ pane[p] # "unborn"
        /\ \A l \in Hooks : Past(l, p) => l = k
    BY <1>1, <1>3 DEF Inv, OneHook, Claimed, Past, IsLive
  <2>3. /\ typed' \in [Tokens -> {0, 1}] /\ \A x \in Tokens : x # p => typed'[x] = typed[x]
    BY <2>1, <2>2, <1>1 DEF Inv, Types
  <2>4. /\ hook'[k] = NoHook /\ \A l \in Hooks : l # k => hook'[l] = hook[l]
        /\ hook' \in [Hooks -> HookRecord]
    BY <1>1, NoHookIsOne DEF Inv, Types
  <2>5. \A l \in Hooks, x \in Tokens : Past(l, x)' => Past(l, x) /\ x # p
    BY <2>2, <2>4, NoHookIsOne DEF Past
  <2> HIDE DEF p
  <2>6. Types' BY <1>1, <2>3, <2>4, NoHookIsOne DEF Inv, Types
  <2>7. Unborn' BY <1>1, <2>2, <2>3, <2>4, NoHookIsOne DEF Inv, Unborn
  <2>8. Claimed' BY <1>1, <2>2, <2>3, <2>5 DEF Inv, Claimed, IsLive
  <2>9. OneHook' BY <1>1, <2>3, <2>5 DEF Inv, OneHook, IsLive
  <2>10. Seen' BY <1>1, <2>4, NoHookIsOne DEF Inv, Seen, IsLive
  <2> QED BY <2>6, <2>7, <2>8, <2>9, <2>10 DEF Inv
<1> QED BY <1>2, <1>3

LEMMA StepInv == ASSUME Inv, TypeOK, NEW k \in Hooks, HookStep(k) PROVE Inv'
<1>0. hook[k] \in HookRecord BY DEF Inv, Types
<1>1. CASE \E row \in Rows : HookReads(k, row) BY <1>1, ReadsInv
<1>2. CASE HookClaims(k) BY <1>2, ClaimsInv
<1>3. CASE HookLoads(k)
  <2>1. UNCHANGED <<pane, handled, typed>> /\ hook[k].at = "load" BY <1>3 DEF HookLoads
  <2>2. CASE HookEnds(k) BY <2>1, <2>2, Resting, NoHookIsOne DEF HookEnds
  <2>3. ASSUME NEW b \in db, b.name \in Names,
               hook' = [hook EXCEPT ![k].at = "ask", ![k].name = b.name]
        PROVE  Inv'
    <3> DEFINE h == [hook[k] EXCEPT !.at = "ask", !.name = b.name]
    <3>1. h \in HookRecord /\ h.at = "ask" /\ h.pane = hook[k].pane
      BY <1>0, <2>3 DEF HookRecord, Stages
    <3>2. hook' = [hook EXCEPT ![k] = h] BY <2>3 DEF Inv, Types
    <3> HIDE DEF h
    <3> QED BY <2>1, <3>1, <3>2, Resting
  <2>4. \A b \in db : b.name \in Names BY DEF TypeOK, Binding
  <2> QED BY <1>3, <2>2, <2>3, <2>4 DEF HookLoads, ForRow
<1>4. CASE HookAsks(k)
  <2>1. PICK knows \in BOOLEAN : hook' = [hook EXCEPT ![k].at = "type", ![k].knows = knows]
    BY <1>4 DEF HookAsks
  <2> DEFINE h == [hook[k] EXCEPT !.at = "type", !.knows = knows]
  <2>2. h \in HookRecord /\ h.at = "type" /\ h.pane = hook[k].pane
    BY <1>0 DEF HookRecord, Stages
  <2>3. hook' = [hook EXCEPT ![k] = h] BY <2>1 DEF Inv, Types
  <2>4. UNCHANGED <<pane, handled, typed>> /\ hook[k].at = "ask" BY <1>4 DEF HookAsks
  <2> HIDE DEF h
  <2> QED BY <2>2, <2>3, <2>4, Resting
<1>5. CASE HookTypes(k) BY <1>5, TypesInv
<1> QED BY <1>1, <1>2, <1>3, <1>4, <1>5 DEF HookStep

LEMMA HooksKeep == ASSUME Inv, TypeOK, [HooksNext]_<<panes, db>> PROVE Inv'
<1>1. CASE UNCHANGED <<panes, db>>
  BY <1>1, PanesMove DEF panes, hooks, IsLive, Inv, Types
<1> QED BY <1>1, StepInv, AgesInv, AroundInv DEF HooksNext

\* No line is typed twice into a pane: for every set of rows, panes and hooks that
\* run at once, however the claims are pruned (Store.Claim, OnSplit).
THEOREM PanesAreTypedIntoOnce == HooksSpec => []TypedOnce
<1>0. HooksSpec => []TypeOK
  <2>1. HooksInit => Init BY DEF HooksInit
  <2>2. [HooksNext]_<<panes, db>> => [Next]_db
    BY DEF HooksNext, HookStep, HookReads, HookClaims, HookLoads, HookAsks, HookTypes,
           ClaimAges, Around, panes
  <2>3. IInv => TypeOK BY DEF IInv
  <2> QED BY <2>1, <2>2, <2>3, IInvAlways, PTL DEF HooksSpec, Spec
<1>2. Inv => TypedOnce BY DEF Inv, Types, TypedOnce
<1>3. Inv /\ TypeOK /\ [HooksNext]_<<panes, db>> => Inv' BY HooksKeep
<1> QED BY <1>0, <1>2, <1>3, InitInv, PTL DEF HooksSpec
-----------------------------------------------------------------------------
(* Rows and sessions: what is named, and by whom.                          *)

ConstantNames == Names \cup {NoName}

\* A session that has a parent is its side-pane session.
Child(n, parent) == parent \in Names => n = ChildName[parent]

Openings ==
  {o \in [at: {"none", "bind", "up", "ssh"}, name: ConstantNames, parent: ConstantNames] :
     o.at # "none" => o.name \in Names /\ Child(o.name, o.parent)}

Attaches ==
  {a \in [at: {"off", "has", "new", "label", "parent", "show", "exec", "on"},
          name: ConstantNames, parent: ConstantNames] :
     /\ a.at # "off" => a.name \in Names /\ Child(a.name, a.parent)
     /\ a.at = "parent" => a.parent \in Names}

Retries == {r \in [name: Names, parent: ConstantNames] : Child(r.name, r.parent)}

Calls ==
  {c \in [at: {"idle", "lock", "pick", "exec", "bind", "release", "end"},
          base: ConstantNames, wanted: ConstantNames, listed: SUBSET Names,
          name: ConstantNames, pane: Tokens \cup {NoToken}, bound: BOOLEAN] :
     /\ c.at \in {"lock", "pick"} => c.base \in Names
     /\ c.at \in {"exec", "bind", "release"} => c.name \in Names
     /\ c.at = "bind" => c.pane \in Tokens}

HookNames == \A k \in Hooks : hook[k].at \in {"ask", "type"} => hook[k].name \in Names

\* Every name that is about to be bound or started is one.
NameInv ==
  /\ open \in [Tokens -> Openings]
  /\ call \in [NewCalls -> Calls]
  /\ HookNames

\* The bindings, the panes and the names together.
MacInv == IInv /\ (\A b \in db : b.host = Host) /\ Inv /\ NameInv

LEMMA NoOpenIsOne == NoOpen \in Openings BY DEF NoOpen, Openings, ConstantNames

LEMMA OpeningIsOne ==
  ASSUME NEW n \in Names, NEW parent \in ConstantNames, Child(n, parent)
  PROVE  Opening(n, parent) \in Openings
BY DEF Opening, Openings, ConstantNames

LEMMA NoParent == NoName \in ConstantNames /\ \A n : Child(n, NoName)
BY NoNameAssumption DEF ConstantNames, Child

LEMMA BindingOfIsOne ==
  ASSUME NEW p \in Tokens, NEW n \in Names
  PROVE  BindingOf(p, n) \in Binding /\ BindingOf(p, n).host = Host
BY PlaceAssumption DEF BindingOf, Binding

\* What a step does to the `agr open` of a pane.
LEMMA OpenStep ==
  ASSUME MacInv, [RowsNext]_vars
  PROVE  open' \in [Tokens -> Openings]
<1> USE DEF mac
<1>0. open \in [Tokens -> Openings] BY DEF MacInv, NameInv
<1>1. ASSUME NEW p \in Tokens, NEW o \in Openings, open' = [open EXCEPT ![p] = o]
      PROVE  open' \in [Tokens -> Openings]
  BY <1>0, <1>1
<1>2. ASSUME NEW p \in Tokens, NEW at \in {"up", "ssh"}, open[p].at # "none",
             open' = [open EXCEPT ![p].at = at]
      PROVE  open' \in [Tokens -> Openings]
  <2> DEFINE o == [open[p] EXCEPT !.at = at]
  <2>1. open[p] \in Openings BY <1>0
  <2>2. o \in Openings BY <2>1, <1>2 DEF Openings
  <2>3. open' = [open EXCEPT ![p] = o] BY <1>0, <1>2
  <2> HIDE DEF o
  <2> QED BY <2>2, <2>3, <1>1
<1>3. ASSUME NEW p \in Tokens, PaneStep(p) PROVE open' \in [Tokens -> Openings]
  <2>1. ASSUME NEW n \in Typed, UserOpens(p, n) PROVE open' \in [Tokens -> Openings]
    <3>1. Opening(n, NoName) \in Openings BY NamesAssumption, NoParent, OpeningIsOne
    <3> QED BY <2>1, <3>1, <1>1 DEF UserOpens
  <2>2. CASE OpenBinds(p) BY <2>2, <1>2 DEF OpenBinds
  <2>3. CASE OpenAttaches(p) BY <2>3, <1>2 DEF OpenAttaches
  <2>4. CASE OpenFails(p) \/ OpenEnds(p) BY <2>4, <1>1, NoOpenIsOne DEF OpenFails, OpenEnds
  <2>5. CASE Detaches(p) \/ UserShows(p) \/ UserHides(p) \/ Ages(p)
    BY <2>5, <1>0 DEF Detaches, UserShows, UserHides, Ages
  <2> QED BY <1>3, <2>1, <2>2, <2>3, <2>4, <2>5 DEF PaneStep
<1>4. ASSUME NEW closed, Close(closed) PROVE open' \in [Tokens -> Openings]
  BY <1>0, <1>4, NoOpenIsOne DEF Close
<1>5. ASSUME NEW k \in Hooks, HookActs(k) PROVE open' \in [Tokens -> Openings]
  <2> DEFINE p == hook[k].pane
             n == hook[k].name
             o == Opening(ChildName[n], IF hook[k].knows THEN n ELSE NoName)
  <2>1. CASE hook[k].at = "type" /\ AtPrompt(p)
    <3>1. p \in Tokens BY <2>1 DEF MacInv, Inv, Types
    <3>2. n \in Names BY <2>1 DEF MacInv, NameInv, HookNames
    <3>3. ChildName[n] \in Names BY <3>2, PlaceAssumption
    <3>4. Child(ChildName[n], n) /\ n \in ConstantNames BY <3>2 DEF Child, ConstantNames
    <3>5. open' = [open EXCEPT ![p] = o] BY <1>5, <2>1 DEF HookActs
    <3>6. o \in Openings BY <3>3, <3>4, NoParent, OpeningIsOne
    <3> HIDE DEF o, p
    <3> QED BY <3>1, <3>5, <3>6, <1>1
  <2>2. CASE ~(hook[k].at = "type" /\ AtPrompt(p)) BY <1>0, <1>5, <2>2 DEF HookActs
  <2> QED BY <2>1, <2>2
<1>6. ASSUME NEW c \in NewCalls, CallStep(c) PROVE open' \in [Tokens -> Openings]
  <2>1. CASE CallMakesRow(c)
    <3>1. PICK p \in Tokens : open' = [open EXCEPT ![p] = Opening(call[c].name, NoName)]
      BY <2>1 DEF CallMakesRow
    <3>2. call[c].name \in Names
      BY <2>1 DEF CallMakesRow, MacInv, NameInv, Calls
    <3> QED BY <3>1, <3>2, <1>1, NoParent, OpeningIsOne
  <2>2. CASE ~CallMakesRow(c)
    BY <1>0, <1>6, <2>2 DEF CallStep, CallArrives, CallLists, CallRefused, CallPicks, CallCut,
       CallBinds, CallReleases
  <2> QED BY <2>1, <2>2
<1>7. CASE EndStep
  BY <1>0, <1>4, <1>7 DEF EndStep, EndAsks, EndAnswered, EndReaps, EndHears, EndCloses,
     CloseFails, EndUnbinds
<1>8. CASE \E closed : UserCloses(closed) BY <1>4, <1>8 DEF UserCloses
<1>9. CASE UNCHANGED open BY <1>0, <1>9
<1>10. [RowsNext]_vars =>
         \/ \E p \in Tokens : PaneStep(p)
         \/ \E closed : UserCloses(closed)
         \/ \E k \in Hooks : HookActs(k)
         \/ \E c \in NewCalls : CallStep(c)
         \/ EndStep \/ UNCHANGED open
  BY DEF RowsNext, vars, DaemonUnbinds, Grant, KillAsks, KillHears
<1> QED BY <1>3, <1>5, <1>6, <1>7, <1>8, <1>9, <1>10

\* What a step does to a `session new` call.
LEMMA PickedIsName ==
  ASSUME MacInv, NEW c \in NewCalls, call[c].at = "pick", NEW name \in Picks(c)
  PROVE  name \in Names /\ name \notin Taken(c)
<1> DEFINE base == IF call[c].wanted # NoName THEN call[c].wanted ELSE call[c].base
           names == <<base>> \o Generated[base]
<1>1. call[c] \in Calls BY DEF MacInv, NameInv
<1>2. base \in Names BY <1>1 DEF Calls, ConstantNames
<1>3. Generated[base] \in Seq(Names) BY <1>2, NamesAssumption
<1> HIDE DEF base
<1>4. names \in Seq(Names) BY <1>2, <1>3
<1>5. PICK i \in (IF call[c].wanted # NoName THEN 1 ELSE 2)..Len(names) :
        name = names[i] /\ names[i] \notin Taken(c)
  BY DEF Picks, base
<1> HIDE DEF names
<1>6. i \in 1..Len(names) BY <1>4, <1>5
<1> QED BY <1>4, <1>5, <1>6

LEMMA CallStepNames ==
  ASSUME MacInv, NEW c \in NewCalls, CallStep(c),
         \A n \in DOMAIN sess : n \in Names
  PROVE  \E r \in Calls : call' = [call EXCEPT ![c] = r]
<1>0. call \in [NewCalls -> Calls] /\ call[c] \in Calls BY DEF MacInv, NameInv
<1>1. CASE CallArrives(c)
  <2>1. PICK b \in ForHost(db, Host), wanted \in Wanted \cup {NoName} :
          call' = [call EXCEPT ![c].at = "lock", ![c].base = b.name, ![c].wanted = wanted]
    BY <1>1 DEF CallArrives
  <2> DEFINE r == [call[c] EXCEPT !.at = "lock", !.base = b.name, !.wanted = wanted]
  <2>2. b.name \in Names BY DEF MacInv, IInv, TypeOK, Binding, ForHost
  <2>3. wanted \in ConstantNames BY NamesAssumption DEF ConstantNames
  <2>4. r \in Calls BY <1>0, <2>2, <2>3 DEF Calls, ConstantNames
  <2>5. call' = [call EXCEPT ![c] = r] BY <1>0, <2>1
  <2> QED BY <2>4, <2>5
<1>2. CASE CallLists(c)
  <2>1. PICK listed \in {{}, OwnedNames} :
          call' = [call EXCEPT ![c].at = "pick", ![c].listed = listed]
    BY <1>2 DEF CallLists
  <2> DEFINE r == [call[c] EXCEPT !.at = "pick", !.listed = listed]
  <2>2. listed \in SUBSET Names BY DEF OwnedNames
  <2>3. call[c].at = "lock" BY <1>2 DEF CallLists
  <2>4. r \in Calls BY <1>0, <2>2, <2>3 DEF Calls
  <2>5. call' = [call EXCEPT ![c] = r] BY <1>0, <2>1
  <2> QED BY <2>4, <2>5
<1>3. ASSUME NEW at \in {"end", "release"}, call' = [call EXCEPT ![c].at = at],
             at = "release" => call[c].at \in {"exec", "bind"}
      PROVE  \E r \in Calls : call' = [call EXCEPT ![c] = r]
  <2> DEFINE r == [call[c] EXCEPT !.at = at]
  <2>1. r \in Calls BY <1>0, <1>3 DEF Calls
  <2>2. call' = [call EXCEPT ![c] = r] BY <1>0, <1>3
  <2> QED BY <2>1, <2>2
<1>4. CASE CallRefused(c) \/ CallCut(c) \/ CallReleases(c)
  BY <1>3, <1>4 DEF CallRefused, CallCut, CallReleases
<1>5. CASE CallPicks(c)
  <2>1. CASE call' = [call EXCEPT ![c].at = "end"] BY <2>1, <1>3
  <2>2. ASSUME NEW name \in Picks(c),
               call' = [call EXCEPT ![c].at = "exec", ![c].name = name]
        PROVE  \E r \in Calls : call' = [call EXCEPT ![c] = r]
    <3> DEFINE r == [call[c] EXCEPT !.at = "exec", !.name = name]
    <3>1. name \in Names BY <1>5, PickedIsName DEF CallPicks
    <3>2. r \in Calls BY <1>0, <3>1 DEF Calls, ConstantNames
    <3>3. call' = [call EXCEPT ![c] = r] BY <1>0, <2>2
    <3> QED BY <3>2, <3>3
  <2> QED BY <1>5, <2>1, <2>2 DEF CallPicks
<1>6. CASE CallMakesRow(c)
  <2>1. PICK p \in Tokens : call' = [call EXCEPT ![c].pane = p, ![c].at = "bind"]
    BY <1>6 DEF CallMakesRow
  <2> DEFINE r == [call[c] EXCEPT !.pane = p, !.at = "bind"]
  <2>2. call[c].at = "exec" BY <1>6 DEF CallMakesRow
  <2>3. r \in Calls BY <1>0, <2>2 DEF Calls
  <2>4. call' = [call EXCEPT ![c] = r] BY <1>0, <2>1
  <2> QED BY <2>3, <2>4
<1>7. CASE CallBinds(c)
  <2> DEFINE r == [call[c] EXCEPT !.at = "release", !.bound = IsLive(call[c].pane)]
  <2>1. call' = [call EXCEPT ![c].at = "release", ![c].bound = IsLive(call[c].pane)]
        /\ call[c].at = "bind"
    BY <1>7 DEF CallBinds
  <2>2. IsLive(call[c].pane) \in BOOLEAN BY DEF IsLive
  <2>3. r \in Calls BY <1>0, <2>1, <2>2 DEF Calls
  <2>4. call' = [call EXCEPT ![c] = r] BY <1>0, <2>1
  <2> QED BY <2>3, <2>4
<1> QED BY <1>1, <1>2, <1>4, <1>5, <1>6, <1>7 DEF CallStep

LEMMA HookNamesStep == ASSUME MacInv, [RowsNext]_vars PROVE HookNames'
<1> USE DEF mac
<1> SUFFICES ASSUME NEW k \in Hooks, hook'[k].at \in {"ask", "type"}
             PROVE  hook'[k].name \in Names
  BY DEF HookNames
<1>0. /\ hook \in [Hooks -> HookRecord] /\ hook[k] \in HookRecord
      /\ hook[k].at \in {"ask", "type"} => hook[k].name \in Names
  BY DEF MacInv, Inv, Types, NameInv, HookNames
<1>1. CASE hook'[k] = hook[k] BY <1>0, <1>1
<1>2. ASSUME NEW l \in Hooks, HookStep(l), l # k PROVE hook'[k] = hook[k]
  BY <1>0, <1>2 DEF HookStep, HookReads, HookClaims, HookLoads, HookAsks, HookTypes, HookEnds
<1>3. CASE HookStep(k)
  <2>1. ASSUME hook' = [hook EXCEPT ![k] = NoHook] PROVE FALSE
    BY <1>0, <2>1, NoHookIsOne
  <2>2. ASSUME NEW row \in Rows, HookReads(k, row) PROVE hook'[k] = hook[k]
    <3>1. \/ hook' = hook
          \/ \E p, q : hook' = [hook EXCEPT ![k] = [NoHook EXCEPT
               !.at = "claim", !.row = row, !.pane = p, !.primary = q, !.seen = Live]]
      BY <2>2 DEF HookReads
    <3>2. ASSUME NEW p, NEW q, hook' = [hook EXCEPT ![k] = [NoHook EXCEPT
               !.at = "claim", !.row = row, !.pane = p, !.primary = q, !.seen = Live]]
          PROVE  FALSE
      <4>1. hook'[k] = [NoHook EXCEPT
               !.at = "claim", !.row = row, !.pane = p, !.primary = q, !.seen = Live]
        BY <1>0, <3>2
      <4>2. hook'[k].at = "claim" BY <4>1 DEF NoHook
      <4> QED BY <4>2
    <3> QED BY <3>1, <3>2
  <2>3. CASE HookClaims(k)
    <3>1. hook' = [hook EXCEPT ![k].at = "load"] BY <2>1, <2>3 DEF HookClaims, HookEnds
    <3>2. hook'[k].at = "load" BY <1>0, <3>1 DEF HookRecord
    <3> QED BY <3>2
  <2>4. CASE HookLoads(k)
    <3>1. PICK b \in db : hook' = [hook EXCEPT ![k].at = "ask", ![k].name = b.name]
      BY <2>1, <2>4 DEF HookLoads, HookEnds, ForRow
    <3>2. b.name \in Names BY DEF MacInv, IInv, TypeOK, Binding
    <3>3. hook'[k].name = b.name BY <1>0, <3>1 DEF HookRecord
    <3> QED BY <3>2, <3>3
  <2>5. CASE HookAsks(k)
    <3>1. hook[k].at = "ask" /\ hook'[k].name = hook[k].name
      BY <2>5, <1>0 DEF HookAsks, HookRecord
    <3> QED BY <3>1, <1>0
  <2>6. CASE HookTypes(k) BY <2>1, <2>6 DEF HookTypes, HookEnds
  <2> QED BY <1>1, <1>3, <2>2, <2>3, <2>4, <2>5, <2>6 DEF HookStep
<1>4. UNCHANGED hook \/ \E l \in Hooks : HookStep(l)
  BY DEF RowsNext, vars, panes, hooks, PaneStep, UserOpens, OpenBinds, OpenAttaches, OpenFails,
     OpenEnds, Detaches, UserShows, UserHides, Ages, ShowSplit, HideSplit, ClaimAges, UserCloses,
     Close, PanesClose, HookActs, DaemonUnbinds, Grant, CallStep, CallArrives, CallLists,
     CallRefused, CallPicks, CallMakesRow, NewRow, CallCut, CallBinds, CallReleases, EndStep,
     EndAsks, EndAnswered, EndReaps, EndHears, EndCloses, CloseFails, EndUnbinds, KillAsks,
     KillHears
<1> QED BY <1>1, <1>2, <1>3, <1>4
\* To the hooks, the rest of the system is agterm and the writers of bindings.
LEMMA RowsAreHooks ==
  ASSUME MacInv, [RowsNext]_vars
  PROVE  [HooksNext]_<<panes, db>>
<1> USE DEF mac
<1>1. ASSUME UNCHANGED <<panes, db>> PROVE [HooksNext]_<<panes, db>> BY <1>1
<1>2. ASSUME Next, UNCHANGED panes PROVE HooksNext BY <1>2 DEF HooksNext, Around
<1>3. ASSUME NEW p \in Tokens, NEW n \in Names, Bind(BindingOf(p, n)) PROVE Next
  BY <1>3, BindingOfIsOne DEF Next
<1>4. ASSUME NEW closed, PanesClose(closed), UNCHANGED db PROVE HooksNext
  <2>1. closed \in SUBSET Tokens BY <1>4 DEF PanesClose, Live
  <2> QED BY <1>4, <2>1 DEF HooksNext, Around
<1>5. ASSUME NEW p \in Tokens, PaneStep(p) PROVE [HooksNext]_<<panes, db>>
  <2>1. CASE OpenBinds(p)
    <3>1. open[p] \in Openings BY DEF MacInv, NameInv
    <3>2. open[p].name \in Names BY <2>1, <3>1 DEF OpenBinds, Openings
    <3> QED BY <2>1, <3>2, <1>2, <1>3 DEF OpenBinds
  <2>2. CASE UserShows(p) \/ UserHides(p)
    BY <2>2 DEF UserShows, UserHides, HooksNext, Around
  <2>3. CASE Ages(p) BY <2>3 DEF Ages, HooksNext
  <2>4. CASE \/ \E n \in Typed : UserOpens(p, n)
             \/ OpenAttaches(p) \/ OpenFails(p) \/ OpenEnds(p) \/ Detaches(p)
    BY <2>4, <1>1 DEF UserOpens, OpenAttaches, OpenFails, OpenEnds, Detaches
  <2> QED BY <1>5, <2>1, <2>2, <2>3, <2>4 DEF PaneStep
<1>6. ASSUME NEW k \in Hooks, HookActs(k) PROVE HooksNext
  BY <1>6 DEF HookActs, HooksNext
<1>7. ASSUME NEW row \in Rows, DaemonUnbinds(row) PROVE HooksNext
  BY <1>7, <1>2 DEF DaemonUnbinds, Next
<1>8. ASSUME NEW n \in Names, NEW grant \in Grants, Grant(n, grant) PROVE HooksNext
  BY <1>8, <1>2, PlaceAssumption DEF Grant, Next
<1>9. ASSUME NEW c \in NewCalls, CallStep(c) PROVE [HooksNext]_<<panes, db>>
  <2>1. CASE CallMakesRow(c) BY <2>1 DEF CallMakesRow, HooksNext, Around
  <2>2. CASE CallBinds(c)
    <3>1. call[c] \in Calls BY DEF MacInv, NameInv
    <3>2. call[c].name \in Names /\ call[c].pane \in Tokens
      BY <2>2, <3>1 DEF CallBinds, Calls
    <3> QED BY <2>2, <3>2, <1>1, <1>2, <1>3 DEF CallBinds
  <2>3. CASE ~CallMakesRow(c) /\ ~CallBinds(c)
    BY <1>9, <2>3, <1>1 DEF CallStep, CallArrives, CallLists, CallRefused, CallPicks, CallCut,
       CallReleases
  <2> QED BY <2>1, <2>2, <2>3
<1>10. CASE EndStep
  <2>1. CASE EndUnbinds
    <3>1. ending.row \in Rows => Next BY <2>1 DEF EndUnbinds, Next
    <3>2. ending.row \notin Rows => UNCHANGED db
      <4>1. \A b \in db : b.row \in Rows BY DEF MacInv, IInv, TypeOK, Binding
      <4> QED BY <2>1, <4>1 DEF EndUnbinds, UnbindRow, WithoutRow, ForRow
    <3> QED BY <2>1, <3>1, <3>2, <1>1, <1>2 DEF EndUnbinds
  <2>2. CASE EndCloses BY <2>2, <1>1, <1>4 DEF EndCloses, Close
  <2>3. CASE ~EndUnbinds /\ ~EndCloses
    BY <1>10, <2>3, <1>1 DEF EndStep, EndAsks, EndAnswered, EndReaps, EndHears, CloseFails
  <2> QED BY <2>1, <2>2, <2>3
<1>11. ASSUME NEW closed, UserCloses(closed) PROVE HooksNext
  BY <1>11, <1>4 DEF UserCloses, Close
<1>12. CASE \/ RemoteStep /\ UNCHANGED <<panes, db, mac>>
            \/ \E n \in Typed : KillAsks(n)
            \/ KillHears \/ UNCHANGED vars
  BY <1>12, <1>1 DEF KillAsks, KillHears, vars
<1> QED BY <1>5, <1>6, <1>7, <1>8, <1>9, <1>10, <1>11, <1>12 DEF RowsNext

\* The store keeps the bindings one to one, and this host's.
LEMMA NextKeeps == ASSUME IInv, [Next]_db PROVE IInv'
<1>1. CASE \E next \in Binding : Bind(next) BY <1>1, BindKeeps
<1>2. CASE \E row \in Rows : UnbindRow(row)
  BY <1>2 DEF UnbindRow, WithoutRow, ForRow, IInv, TypeOK,
     OneBindingPerSession, OneBindingPerPane
<1>3. CASE \E host \in Hosts, name \in Names, grant \in Grants :
             AddGrant(host, name, grant) \/ DropGrant(host, name, grant)
  <2>1. PICK old \in db, grant \in Grants :
          \/ db' = EditGrants(db, old, old.grants \cup {grant})
          \/ db' = EditGrants(db, old, old.grants \ {grant})
    BY <1>3 DEF AddGrant, DropGrant
  <2>2. old.grants \in SUBSET Grants BY DEF IInv, TypeOK, Binding
  <2>3. old.grants \cup {grant} \in SUBSET Grants
        /\ old.grants \ {grant} \in SUBSET Grants
    BY <2>2
  <2> QED BY <2>1, <2>3, EditKeeps
<1>4. CASE UNCHANGED db
  BY <1>4 DEF IInv, TypeOK, OneBindingPerSession, OneBindingPerPane
<1> QED BY <1>1, <1>2, <1>3, <1>4 DEF Next

LEMMA HostStays ==
  ASSUME MacInv, [RowsNext]_vars PROVE \A b \in db' : b.host = Host
<1> USE DEF mac
<1>0. /\ \A b \in db : b.host = Host /\ b \in Binding
      /\ open \in [Tokens -> Openings] /\ call \in [NewCalls -> Calls]
  BY DEF MacInv, NameInv, IInv, TypeOK
<1>1. ASSUME NEW p \in Tokens, NEW n \in Names, Bind(BindingOf(p, n))
      PROVE  \A b \in db' : b.host = Host
  <2> DEFINE next == BindingOf(p, n)
  <2>1. next \in Binding /\ next.host = Host BY BindingOfIsOne
  <2>2. Inherited(db, next) \in SUBSET Grants
    BY <2>1, InheritedType DEF MacInv, IInv, TypeOK
  <2> HIDE DEF next
  <2>3. [next EXCEPT !.grants = Inherited(db, next)].host = Host
    BY <2>1, <2>2, WithGrants
  <2>4. db' \subseteq db \cup {[next EXCEPT !.grants = Inherited(db, next)]}
    BY <1>1 DEF Bind, upsert, next
  <2> QED BY <2>3, <2>4, <1>0
<1>2. ASSUME NEW p \in Tokens, OpenBinds(p) PROVE \A b \in db' : b.host = Host
  <2>1. open[p].name \in Names BY <1>0, <1>2 DEF OpenBinds, Openings
  <2> QED BY <1>1, <1>2, <2>1 DEF OpenBinds
<1>3. ASSUME NEW c \in NewCalls, CallBinds(c) PROVE \A b \in db' : b.host = Host
  <2>1. call[c] \in Calls BY <1>0
  <2>2. call[c].name \in Names /\ call[c].pane \in Tokens BY <2>1, <1>3 DEF CallBinds, Calls
  <2> QED BY <1>0, <1>1, <1>3, <2>2 DEF CallBinds
<1>4. ASSUME NEW row, UnbindRow(row) PROVE \A b \in db' : b.host = Host
  BY <1>0, <1>4 DEF UnbindRow, WithoutRow
<1>5. ASSUME NEW n \in Names, NEW grant \in Grants, Grant(n, grant)
      PROVE  \A b \in db' : b.host = Host
  <2>1. PICK old \in db :
          \/ db' = EditGrants(db, old, old.grants \cup {grant})
          \/ db' = EditGrants(db, old, old.grants \ {grant})
    BY <1>5 DEF Grant, AddGrant, DropGrant
  <2>2. old \in Binding /\ old.host = Host BY <1>0
  <2>3. \A g : [old EXCEPT !.grants = g].host = Host BY <2>2 DEF Binding
  <2> QED BY <2>1, <2>3, <1>0 DEF EditGrants
<1>6. CASE UNCHANGED db BY <1>0, <1>6
<1>7. \/ \E p \in Tokens : OpenBinds(p)
      \/ \E c \in NewCalls : CallBinds(c)
      \/ \E row : UnbindRow(row)
      \/ \E n \in Names, grant \in Grants : Grant(n, grant)
      \/ UNCHANGED db
  BY DEF RowsNext, vars, panes, hooks, PaneStep, UserOpens, OpenAttaches, OpenFails,
     OpenEnds, Detaches, UserShows, UserHides, Ages, ClaimAges, UserCloses,
     HookActs, HookStep, HookReads, HookClaims, HookLoads, HookAsks, HookTypes, DaemonUnbinds,
     CallStep, CallArrives, CallLists,
     CallRefused, CallPicks, CallMakesRow, CallCut, CallReleases, EndStep,
     EndAsks, EndAnswered, EndReaps, EndHears, EndCloses, CloseFails, EndUnbinds, KillAsks,
     KillHears
<1> QED BY <1>2, <1>3, <1>4, <1>5, <1>6, <1>7

LEMMA MacStep ==
  ASSUME MacInv, [RowsNext]_vars, \A n \in DOMAIN sess : n \in Names
  PROVE  MacInv'
<1>1. [HooksNext]_<<panes, db>> BY RowsAreHooks
<1>2. [Next]_db
  BY <1>1 DEF HooksNext, HookStep, HookReads, HookClaims, HookLoads, HookAsks, HookTypes,
         ClaimAges, Around, panes
<1>3. IInv' BY <1>2, NextKeeps DEF MacInv
<1>4. Inv' BY <1>1, HooksKeep DEF MacInv, IInv
<1>5. call' \in [NewCalls -> Calls]
  <2>1. call \in [NewCalls -> Calls] BY DEF MacInv, NameInv
  <2>2. ASSUME NEW c \in NewCalls, CallStep(c) PROVE call' \in [NewCalls -> Calls]
    BY <2>1, <2>2, CallStepNames
  <2>3. UNCHANGED call \/ \E c \in NewCalls : CallStep(c)
    BY DEF RowsNext, vars, mac, PaneStep, UserOpens, OpenBinds, OpenAttaches, OpenFails,
     OpenEnds, Detaches, UserShows, UserHides, Ages, UserCloses,
     HookActs, DaemonUnbinds, Grant, EndStep,
     EndAsks, EndAnswered, EndReaps, EndHears, EndCloses, CloseFails, EndUnbinds, KillAsks,
     KillHears
  <2> QED BY <2>1, <2>2, <2>3
<1>6. NameInv' BY <1>5, OpenStep, HookNamesStep DEF NameInv
<1> QED BY <1>3, <1>4, <1>6, HostStays DEF MacInv

LEMMA MacInit == RowsInit => MacInv
<1> SUFFICES ASSUME RowsInit PROVE MacInv OBVIOUS
<1>1. PICK s \in Scenarios :
       /\ db = s.db /\ pane = s.pane
       /\ open = [p \in Tokens |-> IF p \in s.on THEN [at |-> "ssh", name |-> s.show[p],
                                                       parent |-> NoName] ELSE NoOpen]
  BY DEF RowsInit
<1>2. /\ s.db \subseteq {b \in Binding : b.host = Host}
      /\ \A a, b \in s.db : a # b => ~supersedes(a, b)
      /\ s.pane \in [Tokens -> {"unborn", "shown", "hidden", "gone"}]
      /\ s.show \in [Tokens -> Names]
  BY ScenarioAssumption
<1>3. IInv
  BY <1>1, <1>2 DEF IInv, TypeOK, OneBindingPerSession, OneBindingPerPane, supersedes, SameSession
<1>4. \A b \in db : b.host = Host BY <1>1, <1>2
<1>5. /\ due = [row \in Rows |-> 0] /\ hook = [k \in Hooks |-> NoHook]
      /\ handled = [p \in Tokens |-> "none"] /\ typed = [p \in Tokens |-> 0]
      /\ call = [c \in NewCalls |-> NoCall]
  BY DEF RowsInit
<1>6. Inv
  BY <1>1, <1>2, <1>5, NoHookIsOne, PlaceAssumption, TokenAssumption
     DEF Inv, Types, Unborn, Claimed, OneHook, Seen, Past, IsLive
<1>7. open \in [Tokens -> Openings]
  <2>1. \A p \in Tokens : [at |-> "ssh", name |-> s.show[p], parent |-> NoName] \in Openings
    BY <1>2, NoParent DEF Openings, ConstantNames
  <2> QED BY <1>1, <2>1, NoOpenIsOne
<1>8. NoCall \in Calls BY DEF NoCall, Calls, ConstantNames
<1>9. HookNames BY <1>5, NoHookIsOne DEF HookNames
<1> QED BY <1>3, <1>4, <1>5, <1>6, <1>7, <1>8, <1>9 DEF MacInv, NameInv
-----------------------------------------------------------------------------
(* session new: the names of calls stay apart.                             *)

InFlight(c) == call[c].at \in {"exec", "bind", "release"}

\* A name is reserved from its choice on, by one call.
ReserveInv ==
  /\ \A c \in NewCalls : InFlight(c) => call[c].name \in reserved
  /\ \A c, d \in NewCalls : c # d /\ InFlight(c) /\ InFlight(d) => call[c].name # call[d].name

\* A call that goes on to `session new` has picked its name.
LEMMA Picking ==
  ASSUME MacInv, [RowsNext]_vars, NEW c \in NewCalls, call[c].at = "pick", call'[c].at = "exec"
  PROVE  CallPicks(c) /\ call'[c].name \in Picks(c)
<1>0. call \in [NewCalls -> Calls] /\ call[c] \in Calls BY DEF MacInv, NameInv
<1>1. PICK d \in NewCalls : CallStep(d)
  BY DEF RowsNext, vars, mac, PaneStep, UserOpens, OpenBinds, OpenAttaches, OpenFails,
     OpenEnds, Detaches, UserShows, UserHides, Ages, UserCloses,
     HookActs, DaemonUnbinds, Grant, EndStep,
     EndAsks, EndAnswered, EndReaps, EndHears, EndCloses, CloseFails, EndUnbinds, KillAsks,
     KillHears
<1>2. d = c
  BY <1>0, <1>1 DEF CallStep, CallArrives, CallLists, CallRefused, CallPicks, CallMakesRow,
     CallCut, CallBinds, CallReleases
<1>3. CallPicks(c)
  BY <1>0, <1>1, <1>2 DEF CallStep, CallArrives, CallLists, CallRefused, CallMakesRow,
     CallCut, CallBinds, CallReleases
<1>4. call' # [call EXCEPT ![c].at = "end"]
  <2>1. [call EXCEPT ![c].at = "end"][c].at = "end" BY <1>0 DEF Calls
  <2> QED BY <2>1
<1>5. PICK name \in Picks(c) : call' = [call EXCEPT ![c].at = "exec", ![c].name = name]
  BY <1>3, <1>4 DEF CallPicks
<1>6. call'[c].name = name BY <1>0, <1>5 DEF Calls
<1> QED BY <1>3, <1>5, <1>6

LEMMA ReserveStep == ASSUME MacInv, ReserveInv, [RowsNext]_vars PROVE ReserveInv'
<1>0. call \in [NewCalls -> Calls] BY DEF MacInv, NameInv
<1>1. CASE UNCHANGED <<call, reserved>> BY <1>1 DEF ReserveInv, InFlight
<1>2. ASSUME NEW c \in NewCalls, CallPicks(c) PROVE ReserveInv'
  <2>1. CASE call' = [call EXCEPT ![c].at = "end"] /\ UNCHANGED reserved
    <3>1. ~InFlight(c)' /\ \A d \in NewCalls : d # c => call'[d] = call[d]
      BY <1>0, <2>1 DEF Calls, InFlight
    <3> QED BY <3>1, <2>1 DEF ReserveInv, InFlight
  <2>2. ASSUME NEW name \in Picks(c),
               call' = [call EXCEPT ![c].at = "exec", ![c].name = name],
               reserved' = reserved \cup {name}
        PROVE  ReserveInv'
    <3>1. call'[c].name = name /\ \A d \in NewCalls : d # c => call'[d] = call[d]
      BY <1>0, <2>2 DEF Calls
    <3>2. name \notin reserved
      BY <1>2, PickedIsName DEF CallPicks, Taken
    <3>3. \A d \in NewCalls : d # c /\ InFlight(d) => call[d].name # name
      BY <3>2 DEF ReserveInv
    <3>4. ASSUME NEW d \in NewCalls, InFlight(d)' PROVE call'[d].name \in reserved'
      <4>1. CASE d = c BY <2>2, <3>1, <4>1
      <4>2. CASE d # c
        <5>1. call'[d] = call[d] BY <3>1, <4>2
        <5>2. InFlight(d) BY <3>4, <5>1 DEF InFlight
        <5>3. call[d].name \in reserved BY <5>2 DEF ReserveInv
        <5> QED BY <2>2, <5>1, <5>3
      <4> QED BY <4>1, <4>2
    <3>5. ASSUME NEW d \in NewCalls, NEW e \in NewCalls, d # e, InFlight(d)', InFlight(e)'
          PROVE  call'[d].name # call'[e].name
      <4>1. CASE d = c BY <3>1, <3>3, <3>5, <4>1 DEF InFlight
      <4>2. CASE e = c BY <3>1, <3>3, <3>5, <4>2 DEF InFlight
      <4>3. CASE d # c /\ e # c BY <3>1, <3>5, <4>3 DEF InFlight, ReserveInv
      <4> QED BY <4>1, <4>2, <4>3
    <3> QED BY <3>4, <3>5 DEF ReserveInv
  <2> QED BY <1>2, <2>1, <2>2 DEF CallPicks
<1>3. ASSUME NEW c \in NewCalls, CallReleases(c) PROVE ReserveInv'
  <2>1. /\ reserved' = reserved \ {call[c].name} /\ InFlight(c) /\ ~InFlight(c)'
        /\ \A d \in NewCalls : d # c => call'[d] = call[d]
    BY <1>0, <1>3 DEF CallReleases, Calls, InFlight
  <2> QED BY <2>1 DEF ReserveInv, InFlight
<1>4. ASSUME NEW c \in NewCalls,
             \/ CallArrives(c) \/ CallLists(c) \/ CallRefused(c) \/ CallMakesRow(c)
             \/ CallCut(c) \/ CallBinds(c)
      PROVE  ReserveInv'
  <2>1. UNCHANGED reserved
    BY <1>4 DEF CallArrives, CallLists, CallRefused, CallMakesRow, CallCut, CallBinds
  <2>2. \A d \in NewCalls : d # c => call'[d] = call[d]
    BY <1>0, <1>4 DEF CallArrives, CallLists, CallRefused, CallMakesRow, CallCut, CallBinds
  <2>3. InFlight(c)' => InFlight(c) /\ call'[c].name = call[c].name
    <3>0. call[c] \in Calls BY <1>0
    <3>1. CASE CallArrives(c) BY <1>0, <3>0, <3>1 DEF CallArrives, Calls, InFlight
    <3>2. CASE CallLists(c) \/ CallRefused(c)
      BY <1>0, <3>0, <3>2 DEF CallLists, CallRefused, Calls, InFlight
    <3>3. CASE CallMakesRow(c) BY <1>0, <3>0, <3>3 DEF CallMakesRow, Calls, InFlight
    <3>4. CASE CallCut(c) BY <1>0, <3>0, <3>4 DEF CallCut, Calls, InFlight
    <3>5. CASE CallBinds(c) BY <1>0, <3>0, <3>5 DEF CallBinds, Calls, InFlight
    <3> QED BY <1>4, <3>1, <3>2, <3>3, <3>4, <3>5
  <2> QED BY <2>1, <2>2, <2>3 DEF ReserveInv, InFlight
<1>5. UNCHANGED <<call, reserved>> \/ \E c \in NewCalls : CallStep(c)
  BY DEF RowsNext, vars, mac, PaneStep, UserOpens, OpenBinds, OpenAttaches, OpenFails,
     OpenEnds, Detaches, UserShows, UserHides, Ages, UserCloses,
     HookActs, DaemonUnbinds, Grant, EndStep,
     EndAsks, EndAnswered, EndReaps, EndHears, EndCloses, CloseFails, EndUnbinds, KillAsks,
     KillHears
<1> QED BY <1>1, <1>2, <1>3, <1>4, <1>5 DEF CallStep

\* What another call holds when a name is picked is taken: it is reserved, or bound
\* on this host.
LEMMA HeldIsTaken ==
  ASSUME MacInv, ReserveInv, NEW c \in NewCalls, NEW d \in NewCalls, Holds(d)
  PROVE  call[d].name \in Taken(c)
<1>1. CASE InFlight(d) BY <1>1 DEF ReserveInv, Taken
<1>2. CASE ~InFlight(d)
  <2>1. PICK b \in db : b.name = call[d].name BY <1>2 DEF Holds, InFlight
  <2>2. b \in ForHost(db, Host) BY DEF MacInv, ForHost
  <2> QED BY <2>1, <2>2 DEF Taken
<1> QED BY <1>1, <1>2
-----------------------------------------------------------------------------
(* The host's side: a session that is gone stays gone, and one that is     *)
(* recorded as a side pane's stays recorded.                               *)

\* No two names have side panes of one name: it is the name and `-2` (OnSplit).
ChildApart == \A m, n \in Names : ChildName[m] = ChildName[n] => m = n

SessInv ==
  /\ births \in Nat
  /\ DOMAIN sess \subseteq Names /\ sess \in [DOMAIN sess -> Session]
  /\ \A n \in DOMAIN sess : sess[n].no < births /\ Child(n, sess[n].parent)

AttInv == att \in [Tokens -> Attaches] /\ retry \subseteq Retries

\* A session there is after a step was there before, with all that was recorded of it,
\* or is a new one.
SessStep ==
  /\ births <= births'
  /\ \A n \in DOMAIN sess' :
       \/ /\ n \in DOMAIN sess /\ sess'[n].no = sess[n].no
          /\ sess[n].agr => sess'[n].agr
          /\ sess[n].parent \in Names /\ ChildApart => sess'[n].parent = sess[n].parent
       \/ births <= sess'[n].no

Tagged == Names \X Nat

Jobbed ==
  [at: {"idle", "state", "kids", "own", "kill", "rest", "done"}, name: ConstantNames,
   here: BOOLEAN, kids: SUBSET Names, code: {0, 1, 3}, link: {"up", "lost", "none"},
   mine: SUBSET Tagged, stuck: SUBSET Tagged]

\* Where two names can have side panes of one name nothing is said of a reap.
Settled(s) == Gone(s) \/ ~ChildApart

\* What a reap still has to take, at each point of it.
Left(r) ==
  /\ r.at \in {"state", "kids"} => \A s \in r.mine : Settled(s) \/ s[1] \in Children(r.name)
  /\ r.at \in {"own", "kill"} =>
       \A s \in r.mine : Settled(s) \/ s[1] \in r.kids \/ s[1] = r.name
  /\ r.at = "rest" => \A s \in r.mine \ r.stuck : Settled(s) \/ s[1] \in r.kids
  /\ r.at = "done" /\ r.code \in {0, 3} => \A s \in r.mine \ r.stuck : Settled(s)

OneJob(r) ==
  /\ r.at # "idle" => r.name \in Names
  /\ \A s \in r.mine : s[2] < births
  /\ Left(r)

\* Once a reap goes on without its named session, or ends well, that session is gone.
NamedGone(r, there) ==
  \/ r.at = "kids" /\ ~r.here
  \/ r.at = "rest"
  \/ r.at = "done" /\ r.code # 1
  => \A s \in there : s[1] = r.name => Gone(s)

Endings ==
  [at: {"idle", "asked", "reap", "wait", "unbind"}, row: Rows \cup {NoEnding.row},
   all: SUBSET Names, todo: SUBSET Names, there: SUBSET Tagged, failed: BOOLEAN]

\* What `agr end` was asked about is gone, or still to do, or it has failed.
EndInv ==
  /\ \A s \in ending.there : s[2] < births
  /\ ending.at = "asked" => \A s \in ending.there : s[1] \in ending.todo
  /\ ending.at \in {"reap", "wait"} /\ ~ending.failed =>
       \A s \in ending.there : Gone(s) \/ s[1] \in ending.todo
  /\ ending.at = "wait" =>
       /\ job[Ending].at # "idle" /\ job[Ending].link # "none"
       /\ NamedGone(job[Ending], ending.there)
  /\ ClosedMeansEnded

\* The three things that happen to a session: it is started, relabelled, or ends.
LEMMA StartKeeps ==
  ASSUME SessInv, NEW n \in Names, n \notin DOMAIN sess, NEW p \in Tokens, Starts(n, p)
  PROVE  SessInv' /\ SessStep
<1> DEFINE new == [agr |-> FALSE, parent |-> NoName, by |-> p, no |-> births]
<1>1. new \in Session BY DEF SessInv, Session
<1>2. births' = births + 1 /\ births \in Nat BY DEF Starts, SessInv
<1>3. sess' = [m \in DOMAIN sess \cup {n} |-> IF m = n THEN new ELSE sess[m]] BY DEF Starts
<1>4. DOMAIN sess' = DOMAIN sess \cup {n} BY <1>3
<1>5. sess'[n] = new /\ \A m \in DOMAIN sess : sess'[m] = sess[m] BY <1>3
<1>6. new.no = births /\ new.parent = NoName OBVIOUS
<1> HIDE DEF new
<1>7. \A m \in DOMAIN sess : sess[m] \in Session /\ sess[m].no \in Nat BY DEF SessInv, Session
<1>8. sess' \in [DOMAIN sess' -> Session] BY <1>1, <1>3, <1>4, <1>7
<1>9. ASSUME NEW m \in DOMAIN sess' PROVE sess'[m].no < births' /\ Child(m, sess'[m].parent)
  <2>1. CASE m = n BY <2>1, <1>2, <1>5, <1>6, NoParent
  <2>2. CASE m # n BY <2>2, <1>2, <1>4, <1>5, <1>7 DEF SessInv
  <2> QED BY <2>1, <2>2
<1>10. SessInv' BY <1>2, <1>4, <1>8, <1>9 DEF SessInv
<1>11. ASSUME NEW m \in DOMAIN sess'
       PROVE  \/ m \in DOMAIN sess /\ sess'[m] = sess[m]
              \/ births <= sess'[m].no
  BY <1>2, <1>4, <1>5, <1>6
<1>12. births <= births' BY <1>2
<1> QED BY <1>10, <1>11, <1>12 DEF SessStep

LEMMA RelabelKeeps ==
  ASSUME SessInv, NEW n \in DOMAIN sess, NEW r \in Session, sess' = [sess EXCEPT ![n] = r],
         UNCHANGED births, r.no = sess[n].no, sess[n].agr => r.agr,
         r.parent # sess[n].parent => Child(n, r.parent) /\ r.parent \in Names
  PROVE  SessInv' /\ SessStep
<1>1. births \in Nat /\ births' = births BY DEF SessInv
<1>2. DOMAIN sess' = DOMAIN sess OBVIOUS
<1>3. sess \in [DOMAIN sess -> Session] BY DEF SessInv
<1>4. sess'[n] = r /\ \A m \in DOMAIN sess : m # n => sess'[m] = sess[m] BY <1>3
<1>5. sess' \in [DOMAIN sess' -> Session] BY <1>2, <1>3
<1>6. Child(n, sess[n].parent) /\ sess[n].no < births BY DEF SessInv
<1>7. Child(n, r.parent) BY <1>6
<1>8. ASSUME NEW m \in DOMAIN sess' PROVE sess'[m].no < births' /\ Child(m, sess'[m].parent)
  BY <1>1, <1>2, <1>4, <1>6, <1>7 DEF SessInv
<1>9. SessInv' BY <1>1, <1>2, <1>5, <1>8 DEF SessInv
<1>10. sess[n].parent \in Names /\ ChildApart => r.parent = sess[n].parent
  BY <1>6, <1>7 DEF Child, ChildApart
<1>11. ASSUME NEW m \in DOMAIN sess'
       PROVE  /\ m \in DOMAIN sess /\ sess'[m].no = sess[m].no
              /\ sess[m].agr => sess'[m].agr
              /\ sess[m].parent \in Names /\ ChildApart => sess'[m].parent = sess[m].parent
  BY <1>2, <1>4, <1>10
<1>12. births <= births' BY <1>1
<1> QED BY <1>9, <1>11, <1>12 DEF SessStep

LEMMA SameKeeps == ASSUME SessInv, UNCHANGED <<sess, births>> PROVE SessInv' /\ SessStep
<1>1. births \in Nat BY DEF SessInv
<1>2. SessInv' BY DEF SessInv
<1> QED BY <1>1, <1>2 DEF SessStep

LEMMA KillKeeps ==
  ASSUME SessInv, NEW n, Killed(n), UNCHANGED births
  PROVE  SessInv' /\ SessStep /\ \A s : s[1] = n => Gone(s)'
<1>1. births \in Nat /\ births' = births BY DEF SessInv
<1>2. sess' = [m \in DOMAIN sess \ {n} |-> sess[m]] BY DEF Killed, Restrict
<1>3. DOMAIN sess' = DOMAIN sess \ {n} BY <1>2
<1>4. \A m \in DOMAIN sess' : m \in DOMAIN sess /\ sess'[m] = sess[m] BY <1>2, <1>3
<1>5. sess' \in [DOMAIN sess' -> Session] BY <1>2, <1>3 DEF SessInv
<1>6. SessInv' BY <1>1, <1>3, <1>4, <1>5 DEF SessInv
<1>7. SessStep BY <1>1, <1>4 DEF SessStep
<1>8. \A s : s[1] = n => Gone(s)' BY <1>3 DEF Gone, Running
<1> QED BY <1>6, <1>7, <1>8

LEMMA LabelKeeps ==
  ASSUME SessInv, NEW n \in Names, NEW parent \in ConstantNames, Child(n, parent),
         sess' = IF Running(n) THEN Labelled(n, parent) ELSE sess, UNCHANGED births
  PROVE  SessInv' /\ SessStep
<1>1. CASE ~Running(n) BY <1>1, SameKeeps
<1>2. CASE Running(n)
  <2> DEFINE r == [sess[n] EXCEPT !.agr = TRUE,
                                  !.parent = IF parent = NoName THEN @ ELSE parent]
  <2>1. n \in DOMAIN sess /\ sess \in [DOMAIN sess -> Session] BY <1>2 DEF Running, SessInv
  <2>2. sess[n] \in Session BY <2>1
  <2>3. /\ r \in Session /\ r.no = sess[n].no /\ r.agr
        /\ r.parent = IF parent = NoName THEN sess[n].parent ELSE parent
    BY <2>2 DEF Session, ConstantNames
  <2>4. sess' = [sess EXCEPT ![n] = r] BY <1>2, <2>1 DEF Labelled
  <2> HIDE DEF r
  <2> QED BY <2>1, <2>3, <2>4, RelabelKeeps DEF ConstantNames
<1> QED BY <1>1, <1>2

\* Every step keeps the sessions' numbers and the labels in order.
LEMMA SessKeeps == ASSUME SessInv, AttInv, [RowsNext]_vars PROVE SessInv' /\ SessStep
<1> USE DEF mac
<1>1. CASE UNCHANGED <<sess, births>> BY <1>1, SameKeeps
<1>2. ASSUME NEW p \in Tokens, NEW tty, AttachStep(p, tty) PROVE SessInv' /\ SessStep
  <2>0. att[p] \in Attaches BY DEF AttInv
  <2>1. CASE TmuxNew(p)
    <3>1. att[p].name \in Names BY <2>0, <2>1 DEF TmuxNew, Attaches
    <3> QED BY <2>1, <3>1, <1>1, StartKeeps DEF TmuxNew, Running
  <2>2. CASE TmuxLabel(p) /\ Running(att[p].name)
    <3> DEFINE n == att[p].name
               r == [sess[n] EXCEPT !.agr = TRUE]
    <3>1. n \in DOMAIN sess /\ sess \in [DOMAIN sess -> Session] BY <2>2 DEF Running, SessInv
    <3>2. sess[n] \in Session BY <3>1
    <3>3. r \in Session /\ r.no = sess[n].no /\ r.agr /\ r.parent = sess[n].parent
      BY <3>2 DEF Session
    <3>4. sess' = [sess EXCEPT ![n] = r] /\ UNCHANGED births BY <2>2, <3>1 DEF TmuxLabel
    <3> HIDE DEF r, n
    <3> QED BY <3>1, <3>3, <3>4, RelabelKeeps
  <2>3. CASE TmuxParent(p) /\ Running(att[p].name)
    <3> DEFINE n == att[p].name
               r == [sess[n] EXCEPT !.parent = att[p].parent]
    <3>1. n \in DOMAIN sess /\ sess \in [DOMAIN sess -> Session] BY <2>3 DEF Running, SessInv
    <3>2. sess[n] \in Session BY <3>1
    <3>3. att[p].parent \in Names /\ Child(n, att[p].parent)
      BY <2>0, <2>3 DEF TmuxParent, Attaches
    <3>4. r \in Session /\ r.no = sess[n].no /\ r.agr = sess[n].agr /\ r.parent = att[p].parent
      BY <3>2, <3>3 DEF Session, ConstantNames
    <3>5. sess' = [sess EXCEPT ![n] = r] /\ UNCHANGED births BY <2>3, <3>1 DEF TmuxParent
    <3> HIDE DEF r, n
    <3> QED BY <3>1, <3>3, <3>4, <3>5, RelabelKeeps
  <2>4. CASE ZmxLabel(p)
    <3>1. att[p].name \in Names /\ att[p].parent \in ConstantNames
          /\ Child(att[p].name, att[p].parent)
      BY <2>0, <2>4 DEF ZmxLabel, Attaches
    <3> QED BY <2>4, <3>1, LabelKeeps DEF ZmxLabel
  <2>5. CASE ZmxAttach(p, tty)
    <3>1. att[p].name \in Names BY <2>0, <2>5 DEF ZmxAttach, Attaches
    <3> QED BY <2>5, <3>1, <1>1, StartKeeps DEF ZmxAttach, Running
  <2>6. CASE \/ TmuxHas(p) \/ TmuxShow(p, tty)
             \/ TmuxLabel(p) /\ ~Running(att[p].name)
             \/ TmuxParent(p) /\ ~Running(att[p].name)
    BY <2>6, <1>1 DEF TmuxHas, TmuxShow, TmuxLabel, TmuxParent
  <2> QED BY <1>2, <2>1, <2>2, <2>3, <2>4, <2>5, <2>6 DEF AttachStep
<1>3. ASSUME NEW r \in retry, ZmxRetry(r) PROVE SessInv' /\ SessStep
  <2>1. r \in Retries BY DEF AttInv
  <2>2. r.name \in Names /\ r.parent \in ConstantNames /\ Child(r.name, r.parent)
    BY <2>1 DEF Retries
  <2> QED BY <1>3, <2>2, LabelKeeps DEF ZmxRetry
<1>4. ASSUME NEW j \in Jobs, ReapStep(j) PROVE SessInv' /\ SessStep
  <2>1. CASE \E n : Killed(n) /\ UNCHANGED births BY <2>1, KillKeeps
  <2> QED
    BY <1>1, <1>4, <2>1 DEF ReapStep, TmuxState, TmuxChildren, ZmxScan, QueryFails, IsOwned,
       KillNamed, KillFails, KillChild, ChildStuck, ReapEnds, LinkLost, Unheard
<1>5. ASSUME NEW n \in Names, SessionExits(n) PROVE SessInv' /\ SessStep
  BY <1>5, KillKeeps DEF SessionExits
<1>6. RemoteStep \/ UNCHANGED <<sess, births>>
  BY DEF RowsNext, vars, remote, PaneStep, UserOpens, OpenBinds, OpenAttaches, OpenFails,
     OpenEnds, Attach, Detaches, UserShows, UserHides, Ages, UserCloses, Close,
     HookActs, DaemonUnbinds, Grant, CallStep, CallArrives, CallLists,
     CallRefused, CallPicks, CallMakesRow, CallCut, CallBinds, CallReleases, EndStep, Reap,
     EndAsks, EndAnswered, EndReaps, EndHears, EndCloses, CloseFails, EndUnbinds, KillAsks,
     KillHears
<1> QED BY <1>1, <1>2, <1>3, <1>4, <1>5, <1>6 DEF RemoteStep

LEMMA OffIsOne == Off \in Attaches BY DEF Off, Attaches, ConstantNames

\* Every script that attaches, or labels in the background, has a name and a parent
\* that go together.
LEMMA AttKeeps == ASSUME MacInv, AttInv, [RowsNext]_vars PROVE AttInv'
<1> USE DEF mac
<1>0. att \in [Tokens -> Attaches] /\ retry \subseteq Retries /\ DOMAIN att = Tokens
  BY DEF AttInv
<1>1. CASE UNCHANGED <<att, retry>> BY <1>1 DEF AttInv
<1>2. ASSUME NEW p \in Tokens, NEW a \in Attaches, att' = [att EXCEPT ![p] = a]
      PROVE  att' \in [Tokens -> Attaches]
  BY <1>0, <1>2
<1>3. ASSUME NEW p \in Tokens, NEW at \in {"label", "new", "parent", "show", "exec", "on"},
             att[p].at # "off", at = "parent" => att[p].parent \in Names, GoesTo(p, at)
      PROVE  att' \in [Tokens -> Attaches]
  <2> DEFINE a == [att[p] EXCEPT !.at = at]
  <2>1. att[p] \in Attaches BY <1>0
  <2>2. a \in Attaches BY <2>1, <1>3 DEF Attaches
  <2>3. att' = [att EXCEPT ![p] = a] BY <1>0, <1>3 DEF GoesTo
  <2> HIDE DEF a
  <2> QED BY <2>2, <2>3, <1>2
<1>4. ASSUME NEW p \in Tokens, Ends(p) PROVE att' \in [Tokens -> Attaches]
  BY <1>4, <1>2, OffIsOne DEF Ends
<1>5. ASSUME NEW n, Killed(n) PROVE att' \in [Tokens -> Attaches]
  BY <1>0, <1>5, OffIsOne DEF Killed
<1>6. ASSUME NEW p \in Tokens, NEW tty, AttachStep(p, tty) PROVE AttInv'
  <2>0. att[p] \in Attaches BY <1>0
  <2>1. att[p].at = "label" /\ att[p].parent # NoName => att[p].parent \in Names
    BY <2>0 DEF Attaches, ConstantNames
  <2>2. CASE ZmxLabel(p)
    <3> DEFINE r == [name |-> att[p].name, parent |-> att[p].parent]
    <3>1. att[p].name \in Names /\ att[p].parent \in ConstantNames
          /\ Child(att[p].name, att[p].parent)
      BY <2>0, <2>2 DEF ZmxLabel, Attaches
    <3>2. r \in Retries BY <3>1 DEF Retries
    <3>3. retry' = retry \cup {r} BY <2>2 DEF ZmxLabel
    <3>4. att' \in [Tokens -> Attaches] BY <2>2, <1>3 DEF ZmxLabel
    <3> QED BY <1>0, <3>2, <3>3, <3>4 DEF AttInv
  <2>3. CASE TmuxHas(p) BY <2>3, <1>0, <1>3 DEF TmuxHas, AttInv
  <2>4. CASE TmuxNew(p) BY <2>4, <1>0, <1>3, <1>4 DEF TmuxNew, AttInv
  <2>5. CASE TmuxLabel(p) BY <2>5, <2>1, <1>0, <1>3, <1>4 DEF TmuxLabel, AttInv
  <2>6. CASE TmuxParent(p) BY <2>6, <1>0, <1>3, <1>4 DEF TmuxParent, AttInv
  <2>7. CASE TmuxShow(p, tty) BY <2>7, <1>0, <1>3, <1>4 DEF TmuxShow, AttInv
  <2>8. CASE ZmxAttach(p, tty) BY <2>8, <1>0, <1>3, <1>4 DEF ZmxAttach, AttInv
  <2> QED BY <1>6, <2>2, <2>3, <2>4, <2>5, <2>6, <2>7, <2>8 DEF AttachStep
<1>7. ASSUME NEW r \in retry, ZmxRetry(r) PROVE AttInv'
  BY <1>0, <1>7 DEF ZmxRetry, AttInv
<1>8. ASSUME NEW j \in Jobs, ReapStep(j) PROVE AttInv'
  <2>1. UNCHANGED retry
    BY <1>8 DEF ReapStep, TmuxState, TmuxChildren, ZmxScan, QueryFails, IsOwned,
       KillNamed, KillFails, KillChild, ChildStuck, ReapEnds, LinkLost, Unheard
  <2>2. UNCHANGED att \/ \E n : Killed(n)
    BY <1>8 DEF ReapStep, TmuxState, TmuxChildren, ZmxScan, QueryFails, IsOwned,
       KillNamed, KillFails, KillChild, ChildStuck, ReapEnds, LinkLost, Unheard
  <2> QED BY <1>0, <1>5, <2>1, <2>2 DEF AttInv
<1>9. ASSUME NEW n \in Names, SessionExits(n) PROVE AttInv'
  BY <1>0, <1>5, <1>9 DEF SessionExits, AttInv
<1>10. ASSUME NEW p \in Tokens, OpenAttaches(p) PROVE AttInv'
  <2> DEFINE a == [at |-> "has", name |-> open[p].name, parent |-> open[p].parent]
  <2>1. open[p] \in Openings /\ open[p].at = "up" BY <1>10 DEF OpenAttaches, MacInv, NameInv
  <2>2. a \in Attaches BY <2>1 DEF Openings, Attaches
  <2>3. att' = [att EXCEPT ![p] = a] BY <1>10 DEF OpenAttaches, Attach
  <2>4. UNCHANGED retry BY <1>10 DEF OpenAttaches, Attach
  <2> HIDE DEF a
  <2> QED BY <1>0, <1>2, <2>2, <2>3, <2>4 DEF AttInv
<1>11. ASSUME NEW p \in Tokens, Detaches(p) PROVE AttInv'
  BY <1>0, <1>4, <1>11 DEF Detaches, AttInv
<1>12. ASSUME NEW closed, Close(closed) PROVE AttInv'
  BY <1>0, <1>12, OffIsOne DEF Close, AttInv
<1>13. \/ RemoteStep
       \/ \E p \in Tokens : OpenAttaches(p) \/ Detaches(p)
       \/ \E closed : Close(closed)
       \/ UNCHANGED <<att, retry>>
  BY DEF RowsNext, vars, remote, PaneStep, UserOpens, OpenBinds, OpenFails,
     OpenEnds, UserShows, UserHides, Ages, UserCloses,
     HookActs, DaemonUnbinds, Grant, CallStep, CallArrives, CallLists,
     CallRefused, CallPicks, CallMakesRow, CallCut, CallBinds, CallReleases, EndStep, Reap,
     EndAsks, EndAnswered, EndReaps, EndHears, EndCloses, CloseFails, EndUnbinds, KillAsks,
     KillHears
<1> QED BY <1>1, <1>6, <1>7, <1>8, <1>9, <1>10, <1>11, <1>12, <1>13 DEF RemoteStep

LEMMA RemoteInit == RowsInit => SessInv /\ AttInv
<1> SUFFICES ASSUME RowsInit PROVE SessInv /\ AttInv OBVIOUS
<1>1. PICK s \in Scenarios :
       /\ sess = s.sess /\ births = s.births
       /\ att = [p \in Tokens |-> IF p \in s.on THEN [at |-> "on", name |-> s.show[p],
                                                      parent |-> NoName] ELSE Off]
  BY DEF RowsInit
<1>2. SessInv BY <1>1, ScenarioAssumption DEF SessInv, Child
<1>3. \A p \in Tokens : [at |-> "on", name |-> s.show[p], parent |-> NoName] \in Attaches
  BY ScenarioAssumption, NoParent DEF Attaches, ConstantNames
<1>4. AttInv BY <1>1, <1>3, OffIsOne DEF AttInv, RowsInit
<1> QED BY <1>2, <1>4

\* Bindings, panes, names and sessions: what every state satisfies.
AllInv == MacInv /\ SessInv /\ AttInv /\ ReserveInv

LEMMA AllKeeps == ASSUME AllInv, [RowsNext]_vars PROVE AllInv' /\ SessStep
BY MacStep, SessKeeps, AttKeeps, ReserveStep DEF AllInv, SessInv

LEMMA AllAlways == RowsSpec => []AllInv
<1>1. RowsInit => AllInv
  <2>1. RowsInit => ReserveInv BY DEF RowsInit, ReserveInv, InFlight, NoCall
  <2> QED BY <2>1, MacInit, RemoteInit DEF AllInv
<1>2. AllInv /\ [RowsNext]_vars => AllInv' BY AllKeeps
<1> QED BY <1>1, <1>2, PTL DEF RowsSpec

\* Whatever else goes on around them, the bindings stay one to one: the whole system
\* is, to the store, some of its writers.
THEOREM RowsBoundOnce == RowsSpec => []BoundOnce
<1>1. AllInv => BoundOnce BY DEF AllInv, MacInv, IInv, BoundOnce
<1> QED BY <1>1, AllAlways, PTL

\* No line is typed twice into a pane, in the whole system.
THEOREM RowsTypedOnce == RowsSpec => []TypedOnce
<1>1. AllInv => TypedOnce BY DEF AllInv, MacInv, Inv, Types, TypedOnce
<1> QED BY <1>1, AllAlways, PTL

\* The names of `session new` calls stay apart: for any number of calls, rows and
\* names, and whatever the user and the hooks bind in between (generateName, preBind).
THEOREM CallsNameApart == RowsSpec => NewNamesApart
<1>1. ASSUME AllInv, [RowsNext]_vars, NEW c \in NewCalls, NEW d \in NewCalls,
             call[c].at = "pick", call'[c].at = "exec", Holds(d)
      PROVE  call'[c].name # call[d].name
  <2>1. CallPicks(c) /\ call'[c].name \in Picks(c) BY <1>1, Picking DEF AllInv
  <2>2. call'[c].name \notin Taken(c) BY <1>1, <2>1, PickedIsName DEF AllInv
  <2>3. call[d].name \in Taken(c) BY <1>1, HeldIsTaken DEF AllInv
  <2> QED BY <2>2, <2>3
<1>2. AllInv /\ [RowsNext]_vars =>
        [\A c, d \in NewCalls :
           c # d /\ call[c].at = "pick" /\ call'[c].at = "exec" /\ Holds(d) =>
             call'[c].name # call[d].name]_vars
  BY <1>1
<1> QED BY <1>2, AllAlways, PTL DEF NewNamesApart, RowsSpec
-----------------------------------------------------------------------------
(* agr reap and agr end.                                                   *)

LEMMA GoneStays ==
  ASSUME SessInv, SessStep, NEW s, s[2] < births, s[2] \in Nat, Gone(s)
  PROVE  Gone(s)'
<1>1. births \in Nat BY DEF SessInv
<1> SUFFICES ASSUME s[1] \in DOMAIN sess', sess'[s[1]].no = s[2] PROVE FALSE
  BY DEF Gone, Running
<1>2. CASE births <= sess'[s[1]].no BY <1>1, <1>2
<1>3. CASE s[1] \in DOMAIN sess /\ sess'[s[1]].no = sess[s[1]].no
  BY <1>3 DEF Gone, Running
<1> QED BY <1>2, <1>3 DEF SessStep

\* A side pane's session that was recorded under a name is, unless it has ended.
LEMMA ChildStays ==
  ASSUME SessInv, SessStep, NEW s, s[2] < births, s[2] \in Nat, NEW n \in Names,
         s[1] \in Children(n)
  PROVE  Settled(s)' \/ s[1] \in Children(n)'
<1>1. births \in Nat BY DEF SessInv
<1>2. s[1] \in DOMAIN sess /\ sess[s[1]].agr /\ sess[s[1]].parent = n
  BY DEF Children, OwnedNames
<1> SUFFICES ASSUME s[1] \in DOMAIN sess', sess'[s[1]].no = s[2], ~Gone(s), ChildApart
             PROVE  s[1] \in Children(n)'
  BY GoneStays DEF Gone, Running, Settled
<1>3. CASE births <= sess'[s[1]].no BY <1>1, <1>3
<1>4. CASE /\ sess[s[1]].agr => sess'[s[1]].agr
           /\ sess[s[1]].parent \in Names /\ ChildApart => sess'[s[1]].parent = sess[s[1]].parent
  BY <1>2, <1>4 DEF Children, OwnedNames
<1> QED BY <1>3, <1>4 DEF SessStep

\* What others do to the sessions leaves a reap where it is.
LEMMA JobStays ==
  ASSUME SessInv, SessStep, NEW r \in Jobbed, OneJob(r), births' \in Nat
  PROVE  OneJob(r)'
<1>1. births \in Nat /\ births <= births' BY DEF SessInv, SessStep
<1>2. \A s \in r.mine : s[2] \in Nat /\ s[2] < births BY DEF OneJob, Jobbed, Tagged
<1>3. \A s \in r.mine : s[2] < births' BY <1>1, <1>2
<1>4. \A s \in r.mine : Settled(s) => Settled(s)' BY <1>2, GoneStays DEF Settled
<1>5. \A s \in r.mine : r.name \in Names /\ s[1] \in Children(r.name) =>
                          Settled(s)' \/ s[1] \in Children(r.name)'
  BY <1>2, ChildStays
<1>6. r.at # "idle" => r.name \in Names BY DEF OneJob
<1>7. Left(r)' BY <1>4, <1>5, <1>6 DEF OneJob, Left
<1> QED BY <1>3, <1>6, <1>7 DEF OneJob

LEMMA NoJobIsOne == NoJob \in Jobbed /\ NoJob.at = "idle" /\ NoJob.mine = {} /\ NoJob.link = "up"
BY DEF NoJob, Jobbed, ConstantNames

LEMMA ChildNames == ASSUME SessInv PROVE \A n : Children(n) \subseteq Names
BY DEF SessInv, Children, OwnedNames

\* Its answer: that it failed, or what the multiplexer's listing says.
LEMMA AnsweredIs ==
  ASSUME NEW o \in Jobbed, NEW j \in Jobs, o = job[j], job \in [Jobs -> Jobbed],
         NEW code \in {0, 1, 3}, job' = Answered(j, code)
  PROVE  \E r \in Jobbed :
           /\ job' = [job EXCEPT ![j] = r]
           /\ r = [o EXCEPT !.at = "done", !.code = code]
<1> DEFINE r == [o EXCEPT !.at = "done", !.code = code]
<1>1. r \in Jobbed BY DEF Jobbed
<1>2. job' = [job EXCEPT ![j] = r] BY DEF Answered
<1> QED BY <1>1, <1>2

LEMMA JudgedKeeps ==
  ASSUME NEW o \in Jobbed, NEW j \in Jobs, o = job[j], job \in [Jobs -> Jobbed],
         OneJob(o)', o.at # "idle", NEW here \in BOOLEAN, NEW kids \in SUBSET Names,
         \A s \in o.mine : Settled(s)' \/ s[1] \in kids \/ (here /\ s[1] = o.name),
         job' = Judged(j, here, kids)
  PROVE  \E r \in Jobbed : job' = [job EXCEPT ![j] = r] /\ OneJob(r)'
<1>0. o.name \in Names /\ \A s \in o.mine : s[2] < births' BY DEF OneJob
<1>1. CASE here
  <2> DEFINE r == [o EXCEPT !.at = "own", !.kids = kids]
  <2>1. r \in Jobbed /\ r.at = "own" /\ r.kids = kids /\ r.mine = o.mine /\ r.name = o.name
    BY DEF Jobbed
  <2>2. job' = [job EXCEPT ![j] = r] BY <1>1 DEF Judged
  <2> HIDE DEF r
  <2>4. PICK q \in Jobbed : q = r BY <2>1
  <2>5. q.at = "own" /\ q.kids = kids /\ q.mine = o.mine /\ q.name = o.name BY <2>1, <2>4
  <2>6. OneJob(q)' BY <1>0, <2>5 DEF OneJob, Left
  <2> QED BY <2>2, <2>4, <2>6
<1>2. CASE ~here /\ kids = {}
  <2>1. job' = Answered(j, 3) BY <1>2 DEF Judged
  <2>2. PICK r \in Jobbed :
          job' = [job EXCEPT ![j] = r] /\ r = [o EXCEPT !.at = "done", !.code = 3]
    BY <2>1, AnsweredIs
  <2>3. r.at = "done" /\ r.mine = o.mine /\ r.name = o.name BY <2>2 DEF Jobbed
  <2>4. OneJob(r)' BY <1>0, <1>2, <2>3 DEF OneJob, Left
  <2> QED BY <2>2, <2>4
<1>3. CASE ~here /\ kids # {}
  <2> DEFINE r == [o EXCEPT !.at = "rest", !.kids = kids]
  <2>1. r \in Jobbed /\ r.at = "rest" /\ r.kids = kids /\ r.mine = o.mine /\ r.name = o.name
    BY DEF Jobbed
  <2>2. job' = [job EXCEPT ![j] = r] BY <1>3 DEF Judged
  <2> HIDE DEF r
  <2>4. PICK q \in Jobbed : q = r BY <2>1
  <2>5. q.at = "rest" /\ q.kids = kids /\ q.mine = o.mine /\ q.name = o.name BY <2>1, <2>4
  <2>6. OneJob(q)' BY <1>0, <1>3, <2>5 DEF OneJob, Left
  <2> QED BY <2>2, <2>4, <2>6
<1> QED BY <1>1, <1>2, <1>3

LEMMA RunningIs == \A n : Running(n) \in BOOLEAN BY DEF Running

\* Each step of a reap.
LEMMA ReapKeeps ==
  ASSUME SessInv, SessInv', NEW j \in Jobs, NEW o \in Jobbed, o = job[j],
         job \in [Jobs -> Jobbed], OneJob(o)', ReapStep(j)
  PROVE  \E r \in Jobbed : job' = [job EXCEPT ![j] = r] /\ OneJob(r)'
<1>0. /\ o.at # "idle" => o.name \in Names
      /\ \A s \in o.mine : s \in Tagged /\ s[2] < births'
      /\ Left(o)'
  BY DEF OneJob, Jobbed
<1>1. ASSUME NEW r \in Jobbed, job' = [job EXCEPT ![j] = r], r.name = o.name, r.mine = o.mine,
             o.at # "idle", Left(r)'
      PROVE  \E q \in Jobbed : job' = [job EXCEPT ![j] = q] /\ OneJob(q)'
  <2>1. OneJob(r)' BY <1>0, <1>1 DEF OneJob
  <2> QED BY <1>1, <2>1
<1>2. CASE TmuxState(j)
  <2>1. PICK here \in BOOLEAN : here = Running(job[j].name) BY RunningIs
  <2> DEFINE r == [o EXCEPT !.at = "kids", !.here = here]
  <2>2. /\ r \in Jobbed /\ r.at = "kids" /\ r.name = o.name /\ r.mine = o.mine
        /\ o.at = "state"
    BY <1>2 DEF TmuxState, Jobbed
  <2>3. job' = [job EXCEPT ![j] = r] BY <1>2, <2>1 DEF TmuxState
  <2> HIDE DEF r
  <2>4. PICK q \in Jobbed : q = r BY <2>2
  <2>5. Left(q)' BY <1>0, <2>2, <2>4 DEF Left
  <2> QED BY <1>1, <2>2, <2>3, <2>4, <2>5
<1>3. CASE TmuxChildren(j)
  <2>1. PICK kids : kids = Children(o.name) OBVIOUS
  <2>2. kids \in SUBSET Names BY <2>1, ChildNames
  <2>3. UNCHANGED sess /\ o.at = "kids" /\ job' = Judged(j, o.here, kids)
    BY <1>3, <2>1 DEF TmuxChildren
  <2>4. \A s \in o.mine : Settled(s)' \/ s[1] \in kids
    BY <1>0, <2>1, <2>3 DEF Left, Children, OwnedNames
  <2>5. o.here \in BOOLEAN BY DEF Jobbed
  <2> QED BY <2>2, <2>3, <2>4, <2>5, JudgedKeeps
<1>4. CASE ZmxScan(j)
  <2>1. PICK kids : kids = Children(o.name) \ {o.name} OBVIOUS
  <2>2. PICK here \in BOOLEAN : here = Running(o.name) BY RunningIs
  <2>3. kids \in SUBSET Names BY <2>1, ChildNames
  <2>4. UNCHANGED sess /\ o.at = "state" /\ job' = Judged(j, here, kids)
    BY <1>4, <2>1, <2>2 DEF ZmxScan
  <2>5. \A s \in o.mine : Settled(s)' \/ s[1] \in Children(o.name)
    BY <1>0, <2>4 DEF Left, Children, OwnedNames
  <2>6. o.name \in Children(o.name) => here BY <2>2 DEF Children, OwnedNames, Running
  <2>7. \A s \in o.mine : Settled(s)' \/ s[1] \in kids \/ (here /\ s[1] = o.name)
    BY <2>1, <2>5, <2>6
  <2> QED BY <2>3, <2>4, <2>7, JudgedKeeps
<1>5. CASE job' = Answered(j, 1) /\ o.at # "idle"
  <2>1. PICK r \in Jobbed :
          job' = [job EXCEPT ![j] = r] /\ r = [o EXCEPT !.at = "done", !.code = 1]
    BY <1>5, AnsweredIs
  <2>2. r.at = "done" /\ r.code = 1 /\ r.mine = o.mine /\ r.name = o.name BY <2>1 DEF Jobbed
  <2>3. Left(r)' BY <2>2 DEF Left
  <2> QED BY <1>1, <1>5, <2>1, <2>2, <2>3
<1>6. CASE IsOwned(j)
  <2> DEFINE r == [o EXCEPT !.at = "kill"]
  <2>1. /\ r \in Jobbed /\ r.at = "kill" /\ r.name = o.name /\ r.mine = o.mine
        /\ r.kids = o.kids /\ o.at = "own"
    BY <1>6 DEF IsOwned, Jobbed
  <2>2. job' = Answered(j, 1) \/ job' = [job EXCEPT ![j] = r] BY <1>6 DEF IsOwned
  <2> HIDE DEF r
  <2>3. PICK q \in Jobbed : q = r BY <2>1
  <2>4. Left(q)' BY <1>0, <2>1, <2>3 DEF Left
  <2> QED BY <1>1, <1>5, <2>1, <2>2, <2>3, <2>4
<1>7. CASE KillNamed(j)
  <2> DEFINE r == [o EXCEPT !.at = "rest"]
  <2>1. /\ r \in Jobbed /\ r.at = "rest" /\ r.name = o.name /\ r.mine = o.mine
        /\ r.kids = o.kids /\ r.stuck = o.stuck /\ o.at = "kill"
    BY <1>7 DEF KillNamed, Jobbed
  <2>2. job' = [job EXCEPT ![j] = r] BY <1>7 DEF KillNamed
  <2> HIDE DEF r
  <2>3. PICK q \in Jobbed : q = r BY <2>1
  <2>4. \A s : s[1] = o.name => Settled(s)' BY <1>7, KillKeeps DEF KillNamed, Settled
  <2>5. Left(q)' BY <1>0, <2>1, <2>3, <2>4 DEF Left
  <2> QED BY <1>1, <2>1, <2>2, <2>3, <2>5
<1>8. CASE KillChild(j)
  <2>1. PICK c \in o.kids :
          /\ IF Running(c) THEN Killed(c) ELSE UNCHANGED <<sess, att>>
          /\ job' = [job EXCEPT ![j].kids = @ \ {c}]
    BY <1>8 DEF KillChild
  <2> DEFINE r == [o EXCEPT !.kids = @ \ {c}]
  <2>2. /\ r \in Jobbed /\ r.at = "rest" /\ r.name = o.name /\ r.mine = o.mine
        /\ r.kids = o.kids \ {c} /\ r.stuck = o.stuck /\ o.at = "rest"
    BY <1>8 DEF KillChild, Jobbed
  <2>3. job' = [job EXCEPT ![j] = r] BY <2>1
  <2> HIDE DEF r
  <2>4. PICK q \in Jobbed : q = r BY <2>2
  <2>5. \A s : s[1] = c => Settled(s)'
    <3>1. CASE Running(c) BY <1>8, <2>1, <3>1, KillKeeps DEF KillChild, Settled
    <3>2. CASE ~Running(c) BY <2>1, <3>2 DEF Gone, Running, Settled
    <3> QED BY <3>1, <3>2
  <2>6. Left(q)' BY <1>0, <2>2, <2>4, <2>5 DEF Left
  <2> QED BY <1>1, <2>2, <2>3, <2>4, <2>6
<1>9. CASE ChildStuck(j)
  <2>1. PICK c \in o.kids :
          /\ Running(c)
          /\ job' = [job EXCEPT ![j].kids = @ \ {c}, ![j].stuck = @ \cup Numbered({c})]
    BY <1>9 DEF ChildStuck
  <2>2. PICK them : them = Numbered({c}) OBVIOUS
  <2> DEFINE r == [o EXCEPT !.kids = @ \ {c}, !.stuck = @ \cup them]
  <2>3. them \in SUBSET Tagged
    BY <2>2 DEF Numbered, Tagged, SessInv, Session
  <2>4. /\ r \in Jobbed /\ r.at = "rest" /\ r.name = o.name /\ r.mine = o.mine
        /\ r.kids = o.kids \ {c} /\ r.stuck = o.stuck \cup them /\ o.at = "rest"
    BY <1>9, <2>3 DEF ChildStuck, Jobbed
  <2>5. job' = [job EXCEPT ![j] = r] BY <2>1, <2>2
  <2> HIDE DEF r
  <2>6. PICK q \in Jobbed : q = r BY <2>4
  <2>7. \A s \in Tagged : s[1] = c => Settled(s)' \/ s \in them
    BY <1>9, <2>2 DEF ChildStuck, Gone, Running, Numbered, Tagged, Settled
  <2>8. Left(q)' BY <1>0, <2>4, <2>6, <2>7 DEF Left
  <2> QED BY <1>1, <2>4, <2>5, <2>6, <2>8
<1>10. CASE ReapEnds(j)
  <2>1. PICK r \in Jobbed :
          job' = [job EXCEPT ![j] = r] /\ r = [o EXCEPT !.at = "done", !.code = 0]
    BY <1>10, AnsweredIs DEF ReapEnds
  <2>2. /\ r.at = "done" /\ r.mine = o.mine /\ r.name = o.name /\ r.stuck = o.stuck
        /\ o.at = "rest" /\ o.kids = {}
    BY <1>10, <2>1 DEF ReapEnds, Jobbed
  <2>3. Left(r)' BY <1>0, <2>2 DEF Left
  <2> QED BY <1>1, <2>1, <2>2, <2>3
<1>11. CASE LinkLost(j)
  <2> DEFINE r == [o EXCEPT !.link = "lost"]
  <2>1. /\ r \in Jobbed /\ r.at = o.at /\ r.name = o.name /\ r.mine = o.mine
        /\ r.kids = o.kids /\ r.stuck = o.stuck /\ r.code = o.code /\ o.at # "idle"
    BY <1>11 DEF LinkLost, Jobbed
  <2>2. job' = [job EXCEPT ![j] = r] BY <1>11 DEF LinkLost
  <2> HIDE DEF r
  <2>3. PICK q \in Jobbed : q = r BY <2>1
  <2>4. Left(q)' BY <1>0, <2>1, <2>3 DEF Left
  <2> QED BY <1>1, <2>1, <2>2, <2>3, <2>4
<1>12. CASE Unheard(j)
  <2>1. OneJob(NoJob)' BY NoJobIsOne DEF OneJob, Left
  <2> QED BY <1>12, <2>1, NoJobIsOne DEF Unheard
<1>13. QueryFails(j) \/ KillFails(j) => job' = Answered(j, 1) /\ o.at # "idle"
  BY DEF QueryFails, KillFails
<1> QED
  BY <1>2, <1>3, <1>4, <1>5, <1>6, <1>7, <1>8, <1>9, <1>10, <1>11, <1>12, <1>13 DEF ReapStep

JobTypes == job \in [Jobs -> Jobbed] /\ ending \in Endings

JobInv == \A j \in Jobs : OneJob(job[j])

\* Who moves reaps.
LEMMA JobSteps ==
  ASSUME [RowsNext]_vars
  PROVE  \/ UNCHANGED job
         \/ \E j \in Jobs : ReapStep(j)
         \/ EndReaps \/ EndHears \/ (\E n \in Typed : KillAsks(n)) \/ KillHears
<1>1. CASE RemoteStep
  BY <1>1 DEF RemoteStep, AttachStep, TmuxHas, TmuxNew, TmuxLabel, TmuxParent, TmuxShow,
     ZmxLabel, ZmxAttach, ZmxRetry, SessionExits
<1> QED
  BY <1>1 DEF RowsNext, vars, mac, remote, PaneStep, UserOpens, OpenBinds, OpenAttaches,
     OpenFails, OpenEnds, Attach, Detaches, UserShows, UserHides, Ages, UserCloses, Close,
     HookActs, DaemonUnbinds, Grant, CallStep, CallArrives, CallLists,
     CallRefused, CallPicks, CallMakesRow, CallCut, CallBinds, CallReleases, EndStep,
     EndAsks, EndAnswered, EndCloses, CloseFails, EndUnbinds

\* Which reap a step moves, and how, beside the script's own steps.
JobMove(j) ==
  \/ \E n \in Names : Reap(j, n)
  \/ job' = [job EXCEPT ![j] = NoJob]
  \/ job' = [job EXCEPT ![j].link = "none"]

LEMMA JobMoves ==
  ASSUME AllInv, JobTypes, [RowsNext]_vars
  PROVE  \/ UNCHANGED job
         \/ \E j \in Jobs : ReapStep(j)
         \/ \E j \in {Ending, Killing} : JobMove(j) /\ UNCHANGED <<sess, births>>
<1> USE DEF mac
<1>1. ASSUME NEW j \in {Ending, Killing}, JobMove(j), UNCHANGED <<sess, births>>
      PROVE  \E k \in {Ending, Killing} : JobMove(k) /\ UNCHANGED <<sess, births>>
  BY <1>1
<1>2. CASE EndReaps
  <2>1. PICK n \in ending.todo : Reap(Ending, n) BY <1>2 DEF EndReaps
  <2>2. n \in Names BY DEF JobTypes, Endings
  <2> QED BY <1>1, <2>1, <2>2 DEF JobMove, Reap
<1>3. CASE EndHears BY <1>1, <1>3 DEF EndHears, JobMove
<1>4. ASSUME NEW n \in Typed, KillAsks(n)
      PROVE \E j \in {Ending, Killing} : JobMove(j) /\ UNCHANGED <<sess, births>>
  <2>1. n \in Names BY NamesAssumption
  <2> QED BY <1>1, <1>4, <2>1 DEF KillAsks, JobMove, Reap
<1>5. CASE KillHears
  <2>1. CASE job[Killing].at = "done" BY <1>1, <1>5, <2>1 DEF KillHears, JobMove
  <2>2. CASE job[Killing].at # "done"
    <3>1. job' = [job EXCEPT ![Killing].link = "none"] BY <1>5, <2>2 DEF KillHears
    <3> QED BY <1>1, <1>5, <3>1 DEF KillHears, JobMove
  <2> QED BY <2>1, <2>2
<1>6. CASE \E k \in Jobs : ReapStep(k) BY <1>6
<1> QED BY <1>2, <1>3, <1>4, <1>5, <1>6, JobSteps

\* What such a move makes of a reap.
LEMMA MovedJob ==
  ASSUME AllInv, JobTypes, NEW j \in {Ending, Killing}, JobMove(j), UNCHANGED <<sess, births>>
  PROVE  \E r \in Jobbed : /\ job' = [job EXCEPT ![j] = r]
                           /\ OneJob(job[j]) => OneJob(r)'
<1>0. j \in Jobs /\ job \in [Jobs -> Jobbed] BY WhoAssumption DEF JobTypes
<1>1. PICK o \in Jobbed : o = job[j] BY <1>0
<1>2. ASSUME NEW n \in Names, Reap(j, n)
      PROVE  \E r \in Jobbed : job' = [job EXCEPT ![j] = r] /\ OneJob(r)'
  <2>1. PICK mine : mine = Numbered(Children(n)) OBVIOUS
  <2> DEFINE r == [NoJob EXCEPT !.at = "state", !.name = n, !.mine = mine]
  <2>2. SessInv BY DEF AllInv
  <2>3. mine \in SUBSET Tagged /\ \A s \in mine : s[2] < births /\ s[1] \in Children(n)
    BY <2>1, <2>2 DEF Numbered, Tagged, SessInv, Session
  <2>4. r \in Jobbed /\ r.at = "state" /\ r.name = n /\ r.mine = mine
    BY <2>3, NoJobIsOne DEF Jobbed, ConstantNames
  <2>5. job' = [job EXCEPT ![j] = r] BY <1>2, <2>1 DEF Reap
  <2> HIDE DEF r
  <2>6. PICK q \in Jobbed : q = r BY <2>4
  <2>7. \A s \in mine : s[2] < births' /\ s[1] \in Children(n)'
    BY <2>3 DEF Children, OwnedNames
  <2>8. OneJob(q)' BY <2>4, <2>6, <2>7 DEF OneJob, Left
  <2> QED BY <2>5, <2>6, <2>8
<1>3. CASE job' = [job EXCEPT ![j] = NoJob]
  <2>1. OneJob(NoJob)' BY NoJobIsOne DEF OneJob, Left
  <2> QED BY <1>3, <2>1, NoJobIsOne
<1>4. CASE job' = [job EXCEPT ![j].link = "none"]
  <2> DEFINE r == [o EXCEPT !.link = "none"]
  <2>1. /\ r \in Jobbed /\ r.at = o.at /\ r.name = o.name /\ r.mine = o.mine
        /\ r.kids = o.kids /\ r.stuck = o.stuck /\ r.code = o.code
    BY DEF Jobbed
  <2>2. job' = [job EXCEPT ![j] = r] BY <1>1, <1>4
  <2> HIDE DEF r
  <2>3. PICK q \in Jobbed : q = r BY <2>1
  <2>4. OneJob(o) => OneJob(o)'
    BY DEF OneJob, Left, Settled, Gone, Running, Children, OwnedNames
  <2>5. OneJob(o)' => OneJob(q)' BY <2>1, <2>3 DEF OneJob, Left
  <2>6. OneJob(job[j]) => OneJob(o) BY <1>1
  <2> QED BY <2>2, <2>3, <2>4, <2>5, <2>6
<1> QED BY <1>2, <1>3, <1>4 DEF JobMove

\* The scripts and the Mac keep the reaps well-formed.
LEMMA JobKeeps ==
  ASSUME AllInv, AllInv', SessStep, JobTypes, JobInv, [RowsNext]_vars
  PROVE  job' \in [Jobs -> Jobbed] /\ JobInv'
<1>0. job \in [Jobs -> Jobbed] /\ births' \in Nat BY DEF JobTypes, AllInv, SessInv
<1>1. ASSUME NEW k \in Jobs, UNCHANGED job[k] PROVE job'[k] \in Jobbed /\ OneJob(job[k])'
  <2>1. PICK o \in Jobbed : o = job[k] BY <1>0
  <2>2. OneJob(o) BY <2>1 DEF JobInv
  <2>3. OneJob(o)' BY <1>0, <2>2, JobStays DEF AllInv
  <2>4. job'[k] = o BY <1>1, <2>1
  <2> QED BY <2>3, <2>4
<1>2. ASSUME NEW j \in Jobs, NEW r \in Jobbed, job' = [job EXCEPT ![j] = r], OneJob(r)'
      PROVE  job' \in [Jobs -> Jobbed] /\ JobInv'
  <2>1. job' \in [Jobs -> Jobbed] BY <1>0, <1>2
  <2>2. job'[j] = r /\ \A k \in Jobs : k # j => job'[k] = job[k] BY <1>0, <1>2
  <2>3. ASSUME NEW k \in Jobs PROVE OneJob(job[k])'
    <3>1. CASE k = j BY <1>2, <2>2, <3>1
    <3>2. CASE k # j BY <1>1, <2>2, <3>2
    <3> QED BY <3>1, <3>2
  <2> QED BY <2>1, <2>3 DEF JobInv
<1>3. CASE UNCHANGED job BY <1>0, <1>1, <1>3 DEF JobInv
<1>4. ASSUME NEW j \in Jobs, ReapStep(j) PROVE job' \in [Jobs -> Jobbed] /\ JobInv'
  <2>1. PICK o \in Jobbed : o = job[j] BY <1>0
  <2>2. OneJob(o) BY <2>1 DEF JobInv
  <2>3. OneJob(o)' BY <1>0, <2>2, JobStays DEF AllInv
  <2> QED BY <1>0, <1>2, <1>4, <2>1, <2>3, ReapKeeps DEF AllInv
<1>5. ASSUME NEW j \in {Ending, Killing}, JobMove(j), UNCHANGED <<sess, births>>
      PROVE  job' \in [Jobs -> Jobbed] /\ JobInv'
  <2>1. OneJob(job[j]) /\ j \in Jobs BY WhoAssumption DEF JobInv
  <2> QED BY <1>2, <1>5, <2>1, MovedJob
<1> QED BY <1>3, <1>4, <1>5, JobMoves

\* What `agr end` was asked about and has ended, stays so.
LEMMA ThereStays ==
  ASSUME AllInv, AllInv', SessStep, JobTypes, EndInv
  PROVE  \A s \in ending.there :
           s \in Tagged /\ s[2] < births /\ s[2] < births' /\ (Gone(s) => Gone(s)')
<1>1. births \in Nat /\ births' \in Nat /\ births <= births'
  BY DEF AllInv, SessInv, SessStep
<1> SUFFICES ASSUME NEW s \in ending.there
             PROVE  s \in Tagged /\ s[2] < births /\ s[2] < births' /\ (Gone(s) => Gone(s)')
  OBVIOUS
<1>2. s \in Tagged BY DEF JobTypes, Endings
<1>3. s[2] \in Nat /\ s[2] < births BY <1>2 DEF EndInv, Tagged
<1>4. s[2] < births' BY <1>1, <1>3
<1>5. Gone(s) => Gone(s)' BY <1>3, GoneStays DEF AllInv
<1> QED BY <1>2, <1>3, <1>4, <1>5

\* The reap that `agr end` waits for passes its named session over only once that is
\* gone.
LEMMA NamedStep ==
  ASSUME AllInv, AllInv', SessStep, JobTypes, EndInv, UNCHANGED ending,
         ending.at = "wait", ReapStep(Ending)
  PROVE  /\ job'[Ending].at # "idle" /\ job'[Ending].link # "none"
         /\ NamedGone(job[Ending], ending.there)'
<1> DEFINE o == job[Ending]
           Stays == /\ o.at' # "idle" /\ o.link' # "none"
                    /\ NamedGone(o, ending.there)'
<1>0. Ending \in Jobs /\ job \in [Jobs -> Jobbed] /\ o \in Jobbed BY WhoAssumption DEF JobTypes
<1>1. /\ o.at # "idle" /\ o.link # "none" /\ NamedGone(o, ending.there)
      /\ \A s \in ending.there : Gone(s) => Gone(s)'
  BY ThereStays DEF EndInv
<1>2. CASE TmuxState(Ending)
  <2>1. o'.at = "kids" /\ o'.here = Running(o.name) /\ o'.name = o.name /\ o'.link = o.link
        /\ UNCHANGED sess
    BY <1>0, <1>2 DEF TmuxState, Jobbed
  <2>2. ~Running(o.name) => \A s : s[1] = o.name => Gone(s)' BY <2>1 DEF Gone, Running
  <2> QED BY <1>1, <2>1, <2>2 DEF NamedGone
<1>3. ASSUME NEW here, NEW kids, job' = Judged(Ending, here, kids),
             ~here => \A s \in ending.there : s[1] = o.name => Gone(s)'
      PROVE  Stays
  <2>1. o'.name = o.name /\ o'.link = o.link /\ o'.at \in {"own", "done", "rest"}
    BY <1>0, <1>3 DEF Judged, Answered, Jobbed
  <2>2. here => o'.at = "own" BY <1>0, <1>3 DEF Judged, Jobbed
  <2> QED BY <1>1, <1>3, <2>1, <2>2 DEF NamedGone
<1>4. CASE TmuxChildren(Ending)
  <2>1. o.at = "kids" /\ job' = Judged(Ending, o.here, Children(o.name)) BY <1>4 DEF TmuxChildren
  <2>2. ~o.here => \A s \in ending.there : s[1] = o.name => Gone(s)' BY <1>1, <2>1 DEF NamedGone
  <2> QED BY <1>3, <2>1, <2>2
<1>5. CASE ZmxScan(Ending)
  <2>1. UNCHANGED sess
        /\ job' = Judged(Ending, Running(o.name), Children(o.name) \ {o.name})
    BY <1>5 DEF ZmxScan
  <2>2. ~Running(o.name) => \A s : s[1] = o.name => Gone(s)' BY <2>1 DEF Gone, Running
  <2> QED BY <1>3, <2>1, <2>2
<1>6. CASE job' = Answered(Ending, 1)
  <2>1. o'.at = "done" /\ o'.code = 1 /\ o'.link = o.link BY <1>0, <1>6 DEF Answered, Jobbed
  <2> QED BY <1>1, <2>1 DEF NamedGone
<1>7. CASE IsOwned(Ending)
  <2>1. job' = Answered(Ending, 1) \/ (o'.at = "kill" /\ o'.link = o.link)
    BY <1>0, <1>7 DEF IsOwned, Jobbed
  <2> QED BY <1>1, <1>6, <2>1 DEF NamedGone
<1>8. CASE KillNamed(Ending)
  <2>1. o'.at = "rest" /\ o'.link = o.link /\ o'.name = o.name BY <1>0, <1>8 DEF KillNamed, Jobbed
  <2>2. \A s : s[1] = o.name => Gone(s)' BY <1>8, KillKeeps DEF KillNamed, AllInv
  <2> QED BY <1>1, <2>1, <2>2 DEF NamedGone
<1>9. CASE KillChild(Ending) \/ ChildStuck(Ending)
  <2>1. o.at = "rest" /\ o'.at = "rest" /\ o'.link = o.link /\ o'.name = o.name
    <3>1. o.at = "rest" BY <1>9 DEF KillChild, ChildStuck
    <3>2. CASE KillChild(Ending)
      <4>1. PICK c : job' = [job EXCEPT ![Ending].kids = @ \ {c}] BY <3>2 DEF KillChild
      <4> QED BY <1>0, <3>1, <4>1 DEF Jobbed
    <3>3. CASE ChildStuck(Ending)
      <4>1. PICK c : job' = [job EXCEPT ![Ending].kids = @ \ {c},
                                        ![Ending].stuck = @ \cup Numbered({c})]
        BY <3>3 DEF ChildStuck
      <4> QED BY <1>0, <3>1, <4>1 DEF Jobbed
    <3> QED BY <1>9, <3>2, <3>3
  <2> QED BY <1>1, <2>1 DEF NamedGone
<1>10. CASE ReapEnds(Ending)
  <2>1. o.at = "rest" /\ o'.at = "done" /\ o'.link = o.link /\ o'.name = o.name
    BY <1>0, <1>10 DEF ReapEnds, Answered, Jobbed
  <2> QED BY <1>1, <2>1 DEF NamedGone
<1>11. CASE LinkLost(Ending)
  <2>1. /\ o'.at = o.at /\ o'.here = o.here /\ o'.link = "lost" /\ o'.name = o.name
        /\ o'.code = o.code
    BY <1>0, <1>11 DEF LinkLost, Jobbed
  <2> QED BY <1>1, <2>1 DEF NamedGone
<1>12. QueryFails(Ending) \/ KillFails(Ending) => job' = Answered(Ending, 1)
  BY DEF QueryFails, KillFails
<1>13. ~Unheard(Ending) BY <1>1 DEF Unheard
<1> QED
  BY <1>2, <1>4, <1>5, <1>6, <1>7, <1>8, <1>9, <1>10, <1>11, <1>12, <1>13 DEF ReapStep

LEMMA ReapAlone ==
  ASSUME JobTypes, NEW j \in Jobs, NEW k \in Jobs, j # k, ReapStep(j)
  PROVE  job'[k] = job[k]
<1>0. job \in [Jobs -> Jobbed] BY DEF JobTypes
<1>1. CASE TmuxChildren(j) BY <1>0, <1>1 DEF TmuxChildren, Judged, Answered
<1>2. CASE ZmxScan(j) BY <1>0, <1>2 DEF ZmxScan, Judged, Answered
<1>3. CASE TmuxState(j) \/ KillNamed(j) \/ LinkLost(j) \/ Unheard(j)
  BY <1>0, <1>3 DEF TmuxState, KillNamed, LinkLost, Unheard
<1>4. CASE QueryFails(j) \/ IsOwned(j) \/ KillFails(j) \/ ReapEnds(j)
  BY <1>0, <1>4 DEF QueryFails, IsOwned, KillFails, ReapEnds, Answered
<1>5. CASE KillChild(j) BY <1>0, <1>5 DEF KillChild
<1>6. CASE ChildStuck(j) BY <1>0, <1>6 DEF ChildStuck
<1> QED BY <1>1, <1>2, <1>3, <1>4, <1>5, <1>6 DEF ReapStep

\* While `agr end` rests, what the scripts do keeps its account.
LEMMA EndStays ==
  ASSUME AllInv, AllInv', SessStep, JobTypes, EndInv, UNCHANGED ending, [RowsNext]_vars
  PROVE  EndInv'
<1> USE DEF mac
<1>1. \A s \in ending.there : s[2] < births' /\ (Gone(s) => Gone(s)') BY ThereStays
<1>2. job \in [Jobs -> Jobbed] /\ Ending \in Jobs /\ Killing # Ending
  BY WhoAssumption DEF JobTypes, Ending, Killing
<1>3. CASE ending.at = "wait"
  <2>1. CASE ReapStep(Ending) BY <1>1, <1>3, <2>1, NamedStep DEF EndInv, ClosedMeansEnded
  <2>2. CASE UNCHANGED job[Ending]
    <3>1. NamedGone(job[Ending], ending.there)'
      BY <1>1, <1>3, <2>2 DEF EndInv, NamedGone
    <3> QED BY <1>1, <1>3, <2>2, <3>1 DEF EndInv, ClosedMeansEnded
  <2>3. ASSUME NEW j \in Jobs, j # Ending, ReapStep(j) PROVE UNCHANGED job[Ending]
    BY <1>2, <2>3, ReapAlone
  <2>4. ASSUME NEW n \in Typed, KillAsks(n) PROVE UNCHANGED job[Ending]
    BY <1>2, <2>4 DEF KillAsks, Reap
  <2>5. ASSUME KillHears PROVE UNCHANGED job[Ending]
    <3>1. \E r : job' = [job EXCEPT ![Killing] = r] BY <2>5 DEF KillHears
    <3> QED BY <1>2, <3>1
  <2>6. ~EndReaps /\ ~EndHears
    <3>1. ending.at # "reap" /\ ending \in Endings BY <1>3 DEF JobTypes
    <3>2. ~EndReaps BY <3>1 DEF EndReaps
    <3>3. ~EndHears
      <4>1. ASSUME NEW fails, Reaped(fails) PROVE ending'.at = "reap"
        BY <3>1, <4>1 DEF Reaped, Endings
      <4> QED BY <3>1, <4>1 DEF EndHears
    <3> QED BY <3>2, <3>3
  <2> QED BY <2>1, <2>2, <2>3, <2>4, <2>5, <2>6, JobSteps
<1>4. CASE ending.at # "wait" BY <1>1, <1>4 DEF EndInv, ClosedMeansEnded
<1> QED BY <1>3, <1>4

LEMMA NoEndingIsOne == NoEnding \in Endings /\ NoEnding.at = "idle" /\ NoEnding.there = {}
BY DEF NoEnding, Endings

\* The steps of `agr end` itself.
LEMMA EndKeeps ==
  ASSUME AllInv, AllInv', SessStep, JobTypes, EndInv, EndStep
  PROVE  ending' \in Endings /\ EndInv'
<1> DEFINE Fine == ending' \in Endings /\ EndInv'
<1>0. /\ ending \in Endings /\ job \in [Jobs -> Jobbed] /\ Ending \in Jobs
      /\ \A s \in ending.there : s[2] < births' /\ (Gone(s) => Gone(s)')
  BY ThereStays, WhoAssumption DEF JobTypes
<1>1. CASE ending' = NoEnding BY <1>1, NoEndingIsOne DEF EndInv, ClosedMeansEnded
<1>2. ASSUME NEW row \in Rows, EndAsks(row) PROVE Fine
  <2> DEFINE names == {b.name : b \in ForRow(db, row)}
             r == [at |-> "asked", row |-> row, all |-> names, todo |-> names,
                   there |-> Numbered(names), failed |-> FALSE]
  <2>1. names \in SUBSET Names BY DEF AllInv, MacInv, IInv, TypeOK, Binding, ForRow
  <2>2. ending' = r /\ UNCHANGED <<sess, births>> BY <1>2 DEF EndAsks, remote
  <2>3. \A s \in Numbered(names) : s \in Tagged /\ s[1] \in names /\ s[2] < births
    BY <2>1 DEF Numbered, Tagged, AllInv, SessInv, Session
  <2> HIDE DEF names
  <2>4. r \in Endings BY <2>1, <2>3 DEF Endings
  <2>5. ending'.at = "asked" /\ ending'.there = Numbered(names) /\ ending'.todo = names
    BY <2>2
  <2> HIDE DEF r
  <2> QED BY <2>2, <2>3, <2>4, <2>5 DEF EndInv, ClosedMeansEnded
<1>3. CASE EndAnswered /\ ending' = [ending EXCEPT !.at = "reap"]
  <2>1. /\ ending' \in Endings /\ ending'.at = "reap" /\ ending'.there = ending.there
        /\ ending'.todo = ending.todo /\ ending.at = "asked"
    BY <1>0, <1>3 DEF EndAnswered, Endings
  <2> QED BY <1>0, <2>1 DEF EndInv, ClosedMeansEnded
<1>4. CASE EndReaps
  <2>1. PICK n \in ending.todo : Reap(Ending, n) BY <1>4 DEF EndReaps
  <2>2. /\ ending' \in Endings /\ ending'.at = "wait" /\ ending'.there = ending.there
        /\ ending'.todo = ending.todo /\ ending.at = "reap" /\ ending'.failed = ending.failed
    BY <1>0, <1>4 DEF EndReaps, Endings
  <2>3. job'[Ending].at = "state" /\ job'[Ending].link = "up"
    BY <1>0, <2>1 DEF Reap, NoJob
  <2>4. NamedGone(job[Ending], ending.there)' BY <2>3 DEF NamedGone
  <2> QED BY <1>0, <2>2, <2>3, <2>4 DEF EndInv, ClosedMeansEnded
<1>5. CASE EndHears
  <2>1. PICK n : n = job[Ending].name OBVIOUS
  <2>2. ASSUME NEW fails \in BOOLEAN, Reaped(fails), ending.at = "wait",
               ~fails => \A s \in ending.there : s[1] = n => Gone(s)'
        PROVE  Fine
    <3>1. /\ ending' \in Endings /\ ending'.at = "reap" /\ ending'.there = ending.there
          /\ ending'.todo = ending.todo \ {n}
          /\ ending'.failed = (ending.failed \/ fails)
      BY <1>0, <2>1, <2>2 DEF Reaped, Heard, Endings
    <3> QED BY <1>0, <2>2, <3>1 DEF EndInv, ClosedMeansEnded
  <2>3. UNCHANGED sess /\ ending.at = "wait" BY <1>5 DEF EndHears
  <2>4. CASE Reaped(TRUE) BY <2>2, <2>3, <2>4
  <2>5. CASE job[Ending].at = "done" /\ Reaped(job[Ending].code = 1)
    <3>1. PICK fails \in BOOLEAN : fails = (job[Ending].code = 1) OBVIOUS
    <3>2. ~fails => \A s \in ending.there : s[1] = n => Gone(s)
      BY <2>1, <2>3, <2>5, <3>1 DEF EndInv, NamedGone
    <3>3. \A s : Gone(s) => Gone(s)' BY <2>3 DEF Gone, Running
    <3> QED BY <2>2, <2>3, <2>5, <3>1, <3>2, <3>3
  <2> QED BY <1>5, <2>4, <2>5 DEF EndHears
<1>6. CASE EndCloses /\ ending' = [ending EXCEPT !.at = "unbind"] /\ ~ending.failed
  <2>1. /\ ending' \in Endings /\ ending'.at = "unbind" /\ ending'.there = ending.there
        /\ ending.at = "reap" /\ ending.todo = {} /\ ~ending.failed
    BY <1>0, <1>6 DEF EndCloses, Endings
  <2> QED BY <1>0, <2>1 DEF EndInv, ClosedMeansEnded
<1>7. EndStep =>
        \/ ending' = NoEnding
        \/ \E row \in Rows : EndAsks(row)
        \/ EndAnswered /\ ending' = [ending EXCEPT !.at = "reap"]
        \/ EndReaps \/ EndHears
        \/ EndCloses /\ ending' = [ending EXCEPT !.at = "unbind"] /\ ~ending.failed
  BY DEF EndStep, EndAnswered, EndCloses, CloseFails, EndUnbinds
<1> QED BY <1>1, <1>2, <1>3, <1>4, <1>5, <1>6, <1>7

LEMMA EndSteps == ASSUME [RowsNext]_vars PROVE EndStep \/ UNCHANGED ending
BY DEF RowsNext, vars, mac, PaneStep, UserOpens, OpenBinds, OpenAttaches, OpenFails, OpenEnds,
   Detaches, UserShows, UserHides, Ages, UserCloses, HookActs, DaemonUnbinds, Grant, CallStep,
   CallArrives, CallLists, CallRefused, CallPicks, CallMakesRow, CallCut, CallBinds,
   CallReleases, KillAsks, KillHears

\* Everything: the reaps and `agr end` on top.
EndAllInv == AllInv /\ JobTypes /\ JobInv /\ EndInv

LEMMA EndAllAlways == RowsSpec => []EndAllInv
<1>1. RowsInit => AllInv
  <2>1. RowsInit => ReserveInv BY DEF RowsInit, ReserveInv, InFlight, NoCall
  <2> QED BY <2>1, MacInit, RemoteInit DEF AllInv
<1>2. RowsInit => JobTypes /\ JobInv /\ EndInv
  <2> SUFFICES ASSUME RowsInit PROVE JobTypes /\ JobInv /\ EndInv OBVIOUS
  <2>1. job = [j \in Jobs |-> NoJob] /\ ending = NoEnding BY DEF RowsInit
  <2>2. JobTypes BY <2>1, NoJobIsOne, NoEndingIsOne DEF JobTypes
  <2>3. JobInv BY <2>1, NoJobIsOne DEF JobInv, OneJob, Left
  <2>4. EndInv BY <2>1, NoEndingIsOne DEF EndInv, ClosedMeansEnded
  <2> QED BY <2>2, <2>3, <2>4
<1>3. ASSUME EndAllInv, [RowsNext]_vars PROVE EndAllInv'
  <2>1. AllInv' /\ SessStep BY <1>3, AllKeeps DEF EndAllInv
  <2>2. job' \in [Jobs -> Jobbed] /\ JobInv' BY <1>3, <2>1, JobKeeps DEF EndAllInv
  <2>3. CASE EndStep BY <1>3, <2>1, <2>2, <2>3, EndKeeps DEF EndAllInv, JobTypes
  <2>4. CASE UNCHANGED ending
    BY <1>3, <2>1, <2>2, <2>4, EndStays DEF EndAllInv, JobTypes
  <2> QED BY <1>3, <2>3, <2>4, EndSteps
<1> QED BY <1>1, <1>2, <1>3, PTL DEF RowsSpec, EndAllInv

\* `agr end` closes a row only when the sessions that ran when it asked are gone: for
\* every host, however many rows and panes, and whatever else kills, starts and
\* relabels sessions meanwhile, with listings that fail, kills that do nothing and
\* connections that drop (end.go, tmux_reap, zmx_reap).
THEOREM EndLeavesNoneBehind == RowsSpec => []ClosedMeansEnded
<1>1. EndAllInv => ClosedMeansEnded BY DEF EndAllInv, EndInv
<1> QED BY <1>1, EndAllAlways, PTL

\* A reap that ends well has taken the side panes' sessions that were recorded when it
\* began, though scripts go on labelling and starting sessions all the while: as
\* long as no two names have side panes of one name (tmux_reap, zmx_reap).
THEOREM ReapsTakeChildren == ASSUME ChildApart PROVE RowsSpec => []ReapTakesChildren
<1>1. EndAllInv => ReapTakesChildren
  BY DEF EndAllInv, JobInv, OneJob, Left, Settled, ReapTakesChildren
<1> QED BY <1>1, EndAllAlways, PTL
=============================================================================
