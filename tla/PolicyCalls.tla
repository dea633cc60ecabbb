----------------------------- MODULE PolicyCalls -----------------------------
(***************************************************************************)
(* One proxied call on its way from the listener to agtermctl, while the   *)
(* user moves in agterm: panes are split, closed and swapped, programs     *)
(* start and end in them, `agr open` binds them.  The listener looks the   *)
(* caller up, the policy reads the tree and then the bindings, the user is *)
(* asked, the policy looks again, and agtermctl resolves the call on the   *)
(* rows it then has: each a step of its own.                               *)
(***************************************************************************)
EXTENDS ProxyPolicy

CONSTANTS
  Worlds,   \* what may be there at first: records [tree, db]
  Calls,    \* what a host may send: records [words, opts, self, clean]
  Host,     \* the host that sends it
  MaxMoves  \* bound: how often something moves in agterm or the bindings

ASSUME WorldsAssumption ==
  \A w \in Worlds : \A r \in DOMAIN w.tree : IsRow(w.tree[r])

VARIABLES
  tree, db,  \* agterm's rows, bindings.json
  moves,     \* how often they have moved
  pc, req,   \* the call: where it is, and the request with its caller
  seen, seenDb, \* the tree and the bindings of its last look
  decision, run, \* what Authorize said, and the call that runs
  toDrop,    \* grants of the caller that are still to be dropped
  asked,     \* the user's answer: "none", "once" or "pair"
  held       \* the panes that were the host's at some moment since the tree was read

world == <<tree, db, moves>>
look == <<seen, seenDb>>
call == <<pc, req, look, decision, run, toDrop, asked>>
vars == <<world, call, held>>

NoRun == [scope |-> "none", by |-> "none", targets |-> {}, cancel |-> {}]

Init ==
  /\ \E w \in Worlds : tree = w.tree /\ db = w.db
  /\ moves = 0
  /\ pc = "idle" /\ decision = refuse /\ run = NoRun
  /\ req \in {[caller |-> b, words |-> c.words, opts |-> c.opts, self |-> c.self,
               clean |-> c.clean] : b \in ForHost(db, Host), c \in Calls}
  /\ seen = tree /\ seenDb = db
  /\ toDrop = {} /\ asked = "none" /\ held = {}

\* The host's own pane: bound to it, and running `agr open` for that.
Owned(t, d, row, id) ==
  \E b \in d, k \in Sides \cap DOMAIN t[row].surf :
    /\ b.host = Host /\ b.row = row /\ b.paneId = id /\ t[row].surf[k].id = id
    /\ t[row].runs[k] \in {Open(Host, b.name), Open(Host, NoName)}

OwnedPanes(t, d) ==
  {<<b.row, b.paneId>> : b \in {c \in d : c.row \in DOMAIN t /\ Owned(t, d, c.row, c.paneId)}}

Goto(label) == pc' = label
-----------------------------------------------------------------------------
(* The call.                                                               *)

\* serveCtl: the listener looks the caller up by its session, and reads the
\* body.
Receive ==
  /\ pc = "idle"
  /\ seenDb' = db
  /\ \E b \in ForHost(db, Host) : SameSession(b, req.caller) /\ req' = [req EXCEPT !.caller = b]
  /\ Goto(IF NeedsTree(req) THEN "tree" ELSE "decide")
  /\ UNCHANGED <<world, seen, decision, run, toDrop, asked>>

\* A tree that cannot be read refuses the call.
ReadTree ==
  /\ pc = "tree"
  /\ \/ seen' = tree /\ Goto("decide")
     \/ UNCHANGED seen /\ Goto("done")
  /\ UNCHANGED <<world, req, seenDb, decision, run, toDrop, asked>>

\* Broken: the bindings are those the listener found the caller in.
DecideOnListed ==
  /\ pc = "decide"
  /\ decision' = Authorize(seen, seenDb, req)
  /\ toDrop' = {}
  /\ Goto("drop")
  /\ UNCHANGED <<world, req, look, run, asked>>

\* The bindings are read after the tree, and the two make the decision.
Decide ==
  /\ pc = "decide"
  /\ seenDb' = db
  /\ decision' = Authorize(seen, db, req)
  /\ toDrop' = IF NeedsTree(req)
                 THEN UNION {Drops(seen, b) : b \in current(db, req.caller)} ELSE {}
  /\ Goto("drop")
  /\ UNCHANGED <<world, req, seen, run, asked>>

\* DropGrant goes by the session's name.
Drop ==
  /\ pc = "drop" /\ toDrop # {}
  /\ \E g \in toDrop :
       /\ toDrop' = toDrop \ {g}
       /\ IF \E old \in db : SameSession(old, req.caller)
            THEN \E old \in db : SameSession(old, req.caller)
                                 /\ db' = EditGrants(db, old, old.grants \ {g})
            ELSE UNCHANGED db
  /\ UNCHANGED <<tree, moves, pc, req, look, decision, run, asked>>

Decided ==
  /\ pc = "drop" /\ toDrop = {}
  /\ Goto(CASE decision.verdict = "allow" -> "rewrite"
            [] decision.verdict = "ask" -> "ask"
            [] OTHER -> "done")
  /\ UNCHANGED <<world, req, look, decision, run, toDrop, asked>>

\* The user answers the dialog (ProxyCalls has its life).
Answer ==
  /\ pc = "ask"
  /\ \/ Goto("done") /\ UNCHANGED asked
     \/ Goto("look") /\ asked' \in {"once", "pair"}
  /\ UNCHANGED <<world, req, look, decision, run, toDrop>>

\* afterAnswer: CheckAgent on a fresh tree, and on the bindings of then.
LookAgain ==
  /\ pc = "look"
  /\ seen' = tree /\ Goto("check")
  /\ UNCHANGED <<world, req, seenDb, decision, run, toDrop, asked>>

\* Broken: the look before the question is good enough.
CheckSkipped ==
  /\ pc = "check"
  /\ Goto("rewrite")
  /\ UNCHANGED <<world, req, look, decision, run, toDrop, asked>>

Check ==
  /\ pc = "check"
  /\ seenDb' = db
  /\ IF \E t \in decision.targets : CheckAgent(seen, db, t)
       THEN Goto(IF asked = "pair" THEN "grant" ELSE "rewrite")
       ELSE Goto("done")
  /\ UNCHANGED <<world, req, seen, decision, run, toDrop, asked>>

\* AddGrant goes by the session's name; a session that is gone has no grant.
Grant ==
  /\ pc = "grant"
  /\ IF \E old \in db : SameSession(old, req.caller)
       THEN \E old \in db, t \in decision.targets :
              /\ SameSession(old, req.caller)
              /\ db' = EditGrants(db, old, old.grants \cup {[row |-> t.row, paneId |-> t.id]})
       ELSE UNCHANGED db
  /\ Goto("rewrite")
  /\ UNCHANGED <<tree, moves, req, look, decision, run, toDrop, asked>>

\* A restore needs the name its pane is bound to, from the bindings of now.
RewriteCall ==
  /\ pc = "rewrite"
  /\ \/ /\ \E sized \in BOOLEAN : run' = Rewrite(req, decision, sized)
        /\ \/ matchLeaf(req.words).path # <<"session", "restore">>
           \/ Positionals(matchLeaf(req.words), req.words) = <<>>
           \/ \A t \in decision.targets : \E b \in ForHost(db, Host) : b.paneId = t.id
        /\ Goto("exec")
     \/ UNCHANGED run /\ Goto("done")
  /\ UNCHANGED <<world, req, look, decision, toDrop, asked>>

\* agtermctl runs.  What it reaches is Touched(tree, run).
Exec ==
  /\ pc = "exec"
  /\ Goto("done")
  /\ UNCHANGED <<world, req, look, decision, run, toDrop, asked>>

Call ==
  \/ Receive \/ ReadTree \/ Decide \/ Drop \/ Decided \/ Answer \/ LookAgain \/ Check
  \/ Grant \/ RewriteCall \/ Exec
-----------------------------------------------------------------------------
(* agterm, the user and other agr processes.                               *)

Moves == moves' = moves + 1 /\ UNCHANGED call

\* Ids that something still names; agterm never gives one twice.
Ids(t) == UNION {{t[r].surf[k].id : k \in DOMAIN t[r].surf} : r \in DOMAIN t}
Named(d) == UNION {{b.paneId} \cup {g.paneId : g \in b.grants} : b \in d}
Known ==
  Ids(tree) \cup Ids(seen) \cup Named(db) \cup Named({req.caller})
    \cup {t.id : t \in decision.targets}

Row(surf, split, runs) == [surf |-> surf, split |-> split, runs |-> runs]

\* The other side of a split; a scratch terminal has none.
Other(k) == CASE k = "left" -> "right" [] k = "right" -> "left" [] OTHER -> k

\* A program ends or another starts: an agent, a shell after a detach, or
\* `agr open`, which binds its pane in a step of its own.
ProgramChanges(r, k) ==
  /\ k \in panes(tree[r])
  /\ \E p \in Programs \ {tree[r].runs[k]} :
       tree' = [tree EXCEPT ![r] = Row(tree[r].surf, tree[r].split,
                                       [tree[r].runs EXCEPT ![k] = p])]
  /\ Moves /\ UNCHANGED db

Binds(r, k) ==
  /\ k \in panes(tree[r]) /\ tree[r].runs[k].is = "open"
  /\ tree[r].surf[k].id # NoToken
  /\ \E n \in Names :
       /\ tree[r].runs[k].name \in {n, NoName}
       /\ db' = upsert(db, [row |-> r, paneId |-> tree[r].surf[k].id, pane |-> k,
                            host |-> tree[r].runs[k].host, name |-> n, grants |-> {}])
  /\ Moves /\ UNCHANGED tree

Splits(r, id) ==
  /\ ~tree[r].split /\ id \notin Known
  /\ tree' = [tree EXCEPT
       ![r] = Row([k \in DOMAIN tree[r].surf \cup {"right"} |->
                     IF k = "right" THEN [id |-> id, visible |-> TRUE] ELSE tree[r].surf[k]],
                  TRUE, [tree[r].runs EXCEPT !["right"] = Shell])]
  /\ Moves /\ UNCHANGED db

\* A pane of a split closes, and what is left is the left pane.
PaneCloses(r, k) ==
  /\ panes(tree[r]) = Sides /\ k \in Sides
  /\ tree' = [tree EXCEPT
       ![r] = Row([s \in DOMAIN tree[r].surf \ {"right"} |->
                     IF s = "left" THEN tree[r].surf[Other(k)] ELSE tree[r].surf[s]],
                  FALSE, [tree[r].runs EXCEPT !["left"] = tree[r].runs[Other(k)]])]
  /\ Moves /\ UNCHANGED db

\* `session swap`: the panes keep their ids and change sides.
Swaps(r) ==
  /\ panes(tree[r]) = Sides
  /\ tree' = [tree EXCEPT
       ![r] = Row([k \in DOMAIN tree[r].surf |-> tree[r].surf[Other(k)]], TRUE,
                  [k \in Sides |-> tree[r].runs[Other(k)]])]
  /\ Moves /\ UNCHANGED db

\* The row closes, and `agr end` or the daemon unbinds it.
RowCloses(r) ==
  /\ tree' = [q \in DOMAIN tree \ {r} |-> tree[q]]
  /\ Moves /\ UNCHANGED db

Unbinds(r) ==
  /\ r \notin DOMAIN tree /\ ForRow(db, r) # {}
  /\ db' = WithoutRow(db, r)
  /\ Moves /\ UNCHANGED tree

\* Followed while a call that depends on it is on its way.
World ==
  /\ moves < MaxMoves /\ pc \notin {"idle", "done"} /\ NeedsTree(req)
  /\ \/ \E r \in DOMAIN tree :
          \/ \E k \in Sides : ProgramChanges(r, k) \/ Binds(r, k) \/ PaneCloses(r, k)
          \/ \E id \in Tokens : Splits(r, id)
          \/ Swaps(r) \/ RowCloses(r)
     \/ \E r \in Rows : Unbinds(r)

\* held is history, kept from the look at the tree to the decision.
Watch ==
  held' = CASE pc = "tree" /\ pc' = "decide" -> OwnedPanes(tree, db)
            [] pc = "decide" /\ pc' = "decide" -> held \cup OwnedPanes(tree', db')
            [] OTHER -> held

Next == (Call \/ World) /\ Watch

Spec == Init /\ [][Next]_vars
-----------------------------------------------------------------------------
(* Properties.                                                             *)

\* A host reaches its own panes only: whatever agtermctl takes the call that is
\* about to run for, on the rows the decision was made on, is a pane of the
\* host, or the one pane a call that types was granted or allowed.
OwnPanesOnly ==
  pc = "exec" =>
    \A p \in Touched(seen, run) :
      \/ Owned(seen, seenDb, p[1], p[2])
      \/ decision.granted \/ asked # "none"

\* The tree is read before the bindings, and both may move in between.  Still
\* every pane that is reached as the host's own was that at one moment.
OwnedAtOnce ==
  pc = "exec" /\ ~decision.granted /\ asked = "none" => Touched(seen, run) \subseteq held

\* Text goes into a foreign pane only if at the last look an agent ran there,
\* nobody had bound it, and the user allowed this call or the caller's binding
\* of that moment held a grant for it.
TypesIntoAgent ==
  pc = "exec" /\ (decision.granted \/ asked # "none") =>
    \A p \in Touched(seen, run) :
      /\ \E t \in run.targets : p = <<t.row, t.id>> /\ CheckAgent(seen, seenDb, t)
      /\ asked # "none" \/
         \E b \in current(seenDb, req.caller) : [row |-> p[1], paneId |-> p[2]] \in b.grants

\* The call that undoes a blocking overlay reaches what the open covered: no
\* pane more, and none is left covered.
CancelUndoesOpen ==
  pc = "exec" /\ run.cancel # {} =>
    Touched(seen, [run EXCEPT !.targets = run.cancel]) = Touched(seen, run)

\* "write leaves need the pane attached; reads need it bound only" (leafSpec).  It
\* does not hold.
ReadsNeedBinding ==
  pc = "drop" /\ NeedsTree(req) /\ ~matchLeaf(req.words).write /\ req.opts = {} =>
    \A b \in current(seenDb, req.caller) :
      b.row \in DOMAIN seen /\ surfaceByID(seen[b.row], b.paneId) # {}
        => decision.verdict = "allow"

\* The call reaches on agterm's rows as they are what it was authorized for.  It
\* does not hold.
ReachesSamePanes == pc = "exec" => Touched(tree, run) \subseteq Touched(seen, run)
=============================================================================
