----------------------------- MODULE ProxyPolicy -----------------------------
(***************************************************************************)
(* Which agtermctl call of a host may run, on which panes, and as what it  *)
(* is executed.  Authorize reads a tree of agterm's rows and the bindings; *)
(* Rewrite turns the call it allowed into the one the daemon runs; Touched *)
(* says which panes that call reaches when agtermctl resolves it.          *)
(*                                                                         *)
(* A row is [surf, split, runs]: its surfaces by kind, each with the pane  *)
(* id it has (NoToken for none yet) and whether it is visible, and the     *)
(* program in its left and right pane.  A request is the leading words of  *)
(* its argv, its options as a set of pairs, and the header's own idea of   *)
(* the caller's row and pane, which may be stale.                          *)
(***************************************************************************)
EXTENDS BindingStore, Naturals, Sequences

CONSTANTS NoRow, NoName  \* no row in the header; `agr open` without a name

Sides == {"left", "right"}
Kinds == Sides \cup {"scratch"}

Open(host, name) == [is |-> "open", host |-> host, name |-> name]
Agent == [is |-> "agent"]
Shell == [is |-> "shell"]
Programs ==
  {Open(h, n) : h \in Hosts, n \in Names \cup {NoName}} \cup {Agent, Shell}

\* A surface whose process exited is not listed, and a split that is hidden
\* since a restart of agterm has no id; a right pane is there only with a split,
\* and two surfaces have two ids.
IsRow(row) ==
  /\ DOMAIN row.surf \subseteq Kinds
  /\ "right" \in DOMAIN row.surf => row.split
  /\ row.runs \in [Sides -> Programs]
  /\ \A j, k \in DOMAIN row.surf :
       row.surf[j].id = row.surf[k].id /\ row.surf[j].id # NoToken => j = k
-----------------------------------------------------------------------------
(* The allowlist.                                                          *)

Leaf(path, scope, write, by, opts, min, max) ==
  [path |-> path, scope |-> scope, write |-> write, by |-> by, opts |-> opts,
   min |-> min, max |-> max]

Unlimited == 99
paneOpts == {"target", "pane", "pane-id"}
hudOpts == {"plain"} \cup paneOpts

\* Options whose value only passes through are one, "plain".
allowlist == {
  Leaf(<<"version">>, "none", FALSE, "id", {}, 0, 0),
  Leaf(<<"help">>, "none", FALSE, "id", {}, 0, Unlimited),
  Leaf(<<"tree">>, "none", FALSE, "id", {}, 0, 0),
  Leaf(<<"events">>, "none", FALSE, "id", {"plain"}, 0, 0),
  Leaf(<<"session", "text">>, "pane", FALSE, "id", {"plain"} \cup paneOpts, 0, 0),
  Leaf(<<"session", "overlay", "result">>, "pane", FALSE, "side",
       {"plain", "block", "target", "pane"}, 0, 0),
  Leaf(<<"session", "overlay", "text">>, "pane", FALSE, "side",
       {"plain", "target", "pane"}, 0, 0),
  Leaf(<<"session", "type">>, "pane", TRUE, "id", {"stdin", "target", "pane-id"}, 0, 1),
  Leaf(<<"session", "status">>, "row", TRUE, "id", {"plain"} \cup paneOpts, 1, 1),
  Leaf(<<"session", "context">>, "row", TRUE, "id", {"plain", "target"}, 0, 1),
  Leaf(<<"session", "rename">>, "row", TRUE, "id", {"target"}, 1, 1),
  Leaf(<<"session", "hud">>, "row", TRUE, "id", hudOpts, 1, 1),
  Leaf(<<"session", "hud", "open">>, "row", TRUE, "id", hudOpts, 1, 1),
  Leaf(<<"session", "hud", "update">>, "row", TRUE, "id", hudOpts, 1, 1),
  Leaf(<<"session", "hud", "close">>, "row", TRUE, "id", paneOpts, 0, 0),
  Leaf(<<"session", "overlay", "open">>, "pane", TRUE, "side",
       {"html", "url", "js", "size", "plain", "block", "target", "pane", "follow"}, 0, 1),
  Leaf(<<"session", "overlay", "close">>, "pane", TRUE, "side", {"target", "pane"}, 0, 0),
  Leaf(<<"session", "overlay", "submit">>, "pane", TRUE, "side",
       {"plain", "target", "pane"}, 0, 0),
  Leaf(<<"session", "overlay", "resize">>, "row", TRUE, "id", {"plain", "target"}, 0, 0),
  Leaf(<<"session", "new">>, "none", FALSE, "id", {"plain", "command"}, 0, 0),
  Leaf(<<"session", "close">>, "row", TRUE, "id", {"target"}, 0, 0),
  Leaf(<<"session", "restore">>, "pane", TRUE, "id", {"plain"} \cup paneOpts, 0, 1),
  Leaf(<<"notify">>, "caller", TRUE, "id", {"plain", "target"}, 1, 1),
  Leaf(<<"session", "split", "visibility">>, "row", TRUE, "id", {"plain", "target"}, 1, 1)}

\* The first positional of a leaf that takes only some.
posAllowed(path) ==
  CASE path = <<"session", "status">> -> {"idle", "active", "completed", "blocked"}
    [] path = <<"session", "split", "visibility">> -> {"on", "off"}
    [] OTHER -> STRING

hasPrefix(words, path) ==
  Len(path) <= Len(words) /\ SubSeq(words, 1, Len(path)) = path

Matching(words) == {l \in allowlist : hasPrefix(words, l.path)}

\* The longest path wins: `session hud close` is not `session hud` with a message.
matchLeaf(words) ==
  CHOOSE l \in Matching(words) : \A m \in Matching(words) : Len(m.path) <= Len(l.path)

Positionals(leaf, words) == SubSeq(words, Len(leaf.path) + 1, Len(words))

universalOpts == {"window", "socket", "json", "help"}
Values(opts, name) == {o[2] : o \in {p \in opts : p[1] = name}}
Has(opts, name) == \E o \in opts : o[1] = name

\* An unknown option is refused, and a repeat of any but `session close --target`.
parseArgs(leaf, opts) ==
  /\ \A o \in opts : o[1] \in leaf.opts \cup universalOpts
  /\ \A o, p \in opts : o[1] = p[1] /\ o # p =>
       o[1] = "target" /\ leaf.path = <<"session", "close">>
  /\ Values(opts, "pane") \subseteq {"left", "right", "primary", "split"}

\* One source for an overlay; a URL is http(s), and runs no JavaScript.
checkOverlayOpen(opts, pos) ==
  /\ \/ Has(opts, "html") /\ ~Has(opts, "url") /\ pos = <<>>
     \/ ~Has(opts, "html") /\ Has(opts, "url") /\ pos = <<>>
     \/ ~Has(opts, "html") /\ ~Has(opts, "url") /\ pos # <<>>
  /\ Has(opts, "url") => Values(opts, "url") = {"http"} /\ ~Has(opts, "js")

\* "@0" is the one file the request sent; an empty value names nothing.
normalise(leaf, opts, pos) ==
  /\ leaf.min <= Len(pos) /\ Len(pos) <= leaf.max
  /\ pos # <<>> => pos[1] \in posAllowed(leaf.path)
  /\ leaf.path = <<"session", "overlay", "open">> => checkOverlayOpen(opts, pos)
  /\ \A o \in opts : o[1] \in paneOpts \cup {"command"} => o[2] # ""
  /\ Values(opts, "html") \subseteq {"@0"}
  /\ leaf.path \in {<<"session", "overlay", "open">>, <<"session", "restore">>}
       => pos # <<"">>
-----------------------------------------------------------------------------
(* What a host owns.  a is an authz: the call with the tree and the        *)
(* bindings it is judged by.                                               *)

panes(row) == DOMAIN row.surf \cap Sides

surfaceByID(row, id) == {k \in DOMAIN row.surf : row.surf[k].id = id}

\* Only a left or right pane has a program, the right one only of a split.
foreground(row, kind) ==
  IF kind = "left" \/ (kind = "right" /\ row.split) THEN row.runs[kind] ELSE Shell

\* Broken: a detached pane still counts, for its binding is still there.
AttachedIfBound(row, b) == surfaceByID(row, b.paneId) # {}

\* The pane of b still runs `agr open` for b.
attached(row, b) ==
  \E k \in surfaceByID(row, b.paneId) :
    foreground(row, k) \in {Open(b.host, b.name), Open(b.host, NoName)}

agentRunning(row, kind) == foreground(row, kind) = Agent

boundTo(a, id) == {b \in a.db : b.paneId = id /\ id # NoToken}

ownedBy(a, r, k) ==
  {b \in boundTo(a, a.tree[r].surf[k].id) : b.host = a.host /\ b.row = r}

checkOwned(a, r, k) == \E b \in ownedBy(a, r, k) : attached(a.tree[r], b)

\* Broken: a scratch terminal of the row is not looked at, nor a second pane.
WholeRowOnePane(a, r) == \E k \in panes(a.tree[r]) : checkOwned(a, r, k)

\* Every pane of the row is the host's, but for a split that is not there yet.
wholeRow(a, r) ==
  LET row == a.tree[r]
      shown == {k \in panes(row) : row.surf[k].id # NoToken \/ row.surf[k].visible}
  IN /\ DOMAIN row.surf \subseteq Sides
     /\ shown # {} /\ \A k \in shown : checkOwned(a, r, k)
-----------------------------------------------------------------------------
(* Rows and panes a call names.                                            *)

\* The header's own row stands for the caller's row, wherever that is now.
mapRow(a, raw) == IF raw = NoRow \/ raw = a.self.row THEN a.caller.row ELSE raw

targetRows(a) ==
  {mapRow(a, raw) : raw \in IF a.rows = {} THEN {NoRow} ELSE a.rows}

wantedId(a) ==
  IF a.self.pane # NoToken /\ a.pane = {a.self.pane} THEN {a.caller.paneId} ELSE a.pane

sideKind(side) == IF side \in {"right", "split"} THEN "right" ELSE "left"

Given(a) == a.pane # {} \/ a.side # {}

requestedPane(a, r) ==
  {k \in DOMAIN a.tree[r].surf :
     /\ a.pane # {} => wantedId(a) = {a.tree[r].surf[k].id}
     /\ \A side \in a.side : k = sideKind(side)}

\* The panes a call may mean; it is refused unless there is exactly one.
choosePane(a, r) ==
  LET row == a.tree[r] IN
  IF Given(a) THEN requestedPane(a, r)
  ELSE IF r = a.caller.row THEN surfaceByID(row, a.caller.paneId)
  ELSE IF \E k \in panes(row) : panes(row) = {k} THEN panes(row)
  ELSE {k \in panes(row) :
          \/ ownedBy(a, r, k) # {}
          \/ /\ a.leaf.path = <<"session", "type">>
             /\ boundTo(a, row.surf[k].id) = {} /\ agentRunning(row, k)}
-----------------------------------------------------------------------------
(* Decisions.                                                              *)

Target(row, id, side, whole) == [row |-> row, id |-> id, side |-> side, whole |-> whole]

Decision(verdict, targets, by, granted) ==
  [verdict |-> verdict, targets |-> targets, by |-> by, granted |-> granted]

refuse == Decision("refuse", {}, "none", FALSE)
Allow(targets, by) == Decision("allow", targets, by, FALSE)

\* notify: the caller's own row, from a pane that is attached.
callerScope(a) ==
  IF /\ a.caller.row \in DOMAIN a.tree
     /\ targetRows(a) = {a.caller.row}
     /\ \E k \in surfaceByID(a.tree[a.caller.row], a.caller.paneId) :
          checkOwned(a, a.caller.row, k)
    THEN Allow({Target(a.caller.row, NoToken, "none", FALSE)}, "none")
    ELSE refuse

rowScope(a) ==
  IF /\ \A r \in targetRows(a) : r \in DOMAIN a.tree /\ wholeRow(a, r)
     /\ Given(a) => \A r \in targetRows(a) : \E k \in Kinds : requestedPane(a, r) = {k}
    THEN Allow({Target(r, IF Given(a)
                            THEN a.tree[r].surf[CHOOSE k \in requestedPane(a, r) : TRUE].id
                            ELSE NoToken, "none", FALSE) : r \in targetRows(a)},
               IF Given(a) THEN "id" ELSE "none")
    ELSE refuse

\* The text comes from one place, and has no control or invisible characters.
typeText(a) == (a.stdin # (a.pos # <<>>)) /\ a.clean

\* Broken: a grant is enough, whatever runs in the pane by now.
TypeLocalGranted(a, r, k, target) ==
  LET id == a.tree[r].surf[k].id IN
  IF boundTo(a, id) # {} \/ ~typeText(a)
    THEN refuse
    ELSE IF [row |-> r, paneId |-> id] \in a.caller.grants
           THEN Decision("allow", {target}, "id", TRUE)
           ELSE Decision("ask", {target}, "id", FALSE)

typeLocal(a, r, k, target) ==
  LET id == a.tree[r].surf[k].id IN
  IF boundTo(a, id) # {} \/ ~agentRunning(a.tree[r], k) \/ ~typeText(a)
    THEN refuse
    ELSE IF [row |-> r, paneId |-> id] \in a.caller.grants
           THEN Decision("allow", {target}, "id", TRUE)
           ELSE Decision("ask", {target}, "id", FALSE)

paneTarget(a, r, k) ==
  Target(r, a.tree[r].surf[k].id,
         IF a.tree[r].split /\ k \in Sides THEN k ELSE "none",
         a.leaf.path = <<"session", "overlay", "open">> /\ wholeRow(a, r))

onePane(a, r, k) ==
  IF checkOwned(a, r, k) THEN Allow({paneTarget(a, r, k)}, a.leaf.by)
  ELSE IF boundTo(a, a.tree[r].surf[k].id) # {} \/ a.leaf.path # <<"session", "type">>
         THEN refuse
  ELSE typeLocal(a, r, k, paneTarget(a, r, k))

\* A call on a pane names one row.
paneScope(a) ==
  LET r == CHOOSE r \in targetRows(a) : TRUE IN
  IF r \in DOMAIN a.tree /\ \E k \in Kinds : choosePane(a, r) = {k}
    THEN onePane(a, r, CHOOSE k \in choosePane(a, r) : TRUE)
    ELSE refuse

\* The caller's binding as it is now: one that ended or was replaced takes its
\* grants with it.
current(db, caller) ==
  {b \in db : SameSession(b, caller) /\ b.row = caller.row /\ b.paneId = caller.paneId}

\* load: the grants whose pane or row the tree does not have.
Drops(tree, caller) ==
  {g \in caller.grants :
     g.row \notin DOMAIN tree \/ surfaceByID(tree[g.row], g.paneId) = {}}

\* The authz of a request that has passed the schema.
Authz(tree, db, req, caller) ==
  LET leaf == matchLeaf(req.words) IN
  [tree |-> tree, db |-> db, host |-> req.caller.host, self |-> req.self,
   caller |-> caller, leaf |-> leaf, pos |-> Positionals(leaf, req.words),
   rows |-> Values(req.opts, "target"), pane |-> Values(req.opts, "pane-id"),
   side |-> Values(req.opts, "pane"), stdin |-> Has(req.opts, "stdin"),
   clean |-> req.clean]

\* The call is one of the allowlist and follows its schema.
Accepted(req) ==
  /\ Matching(req.words) # {}
  /\ LET leaf == matchLeaf(req.words) IN
       /\ parseArgs(leaf, req.opts)
       /\ Has(req.opts, "help") \/ normalise(leaf, req.opts, Positionals(leaf, req.words))

NeedsTree(req) ==
  Accepted(req) /\ ~Has(req.opts, "help") /\ matchLeaf(req.words).scope # "none"

ByScope(a) ==
  CASE a.leaf.scope = "caller" -> callerScope(a)
    [] a.leaf.scope = "pane" -> paneScope(a)
    [] OTHER -> rowScope(a)

Authorize(tree, db, req) ==
  LET now == current(db, req.caller) IN
  IF ~Accepted(req) THEN refuse
  ELSE IF ~NeedsTree(req) THEN Allow({}, "none")
  ELSE IF now = {} THEN refuse
  ELSE ByScope(Authz(tree, db, req, CHOOSE b \in now : TRUE))

\* The program rule again, on a fresh tree and the bindings of now.
CheckAgent(tree, db, target) ==
  /\ \A b \in db : b.paneId # target.id
  /\ target.row \in DOMAIN tree
  /\ \E k \in surfaceByID(tree[target.row], target.id) :
       agentRunning(tree[target.row], k)
-----------------------------------------------------------------------------
(* What runs.                                                              *)

\* A size needs the whole row: the page then covers the row, at its own size or
\* the user's default one (sized).
sizePage(req, sized, target) ==
  IF /\ matchLeaf(req.words).path = <<"session", "overlay", "open">>
     /\ Has(req.opts, "html") \/ Has(req.opts, "url")
     /\ target.whole /\ (Has(req.opts, "size") \/ sized)
    THEN Target(target.row, target.id, "none", TRUE)
    ELSE target

\* Only a blocking overlay open has a call that undoes it.
Blocks(req) ==
  /\ matchLeaf(req.words).path = <<"session", "overlay", "open">>
  /\ Has(req.opts, "block")

\* Broken: the cancel is made for the call as it was authorized.
RewriteCancelsFirst(req, decision, sized) ==
  [scope |-> matchLeaf(req.words).scope, by |-> decision.by,
   targets |-> {sizePage(req, sized, t) : t \in decision.targets},
   cancel |-> IF Blocks(req) THEN decision.targets ELSE {}]

Rewrite(req, decision, sized) ==
  LET targets == {sizePage(req, sized, t) : t \in decision.targets} IN
  [scope |-> matchLeaf(req.words).scope, by |-> decision.by,
   targets |-> targets, cancel |-> IF Blocks(req) THEN targets ELSE {}]

\* agtermctl: --pane-id names a pane, --pane a side of the row, and a row
\* without either is all its panes.  A notification goes to no pane.
PanesOf(tree, by, t) ==
  IF t.row \notin DOMAIN tree THEN {}
  ELSE LET row == tree[t.row]
           kinds == IF by = "id" THEN surfaceByID(row, t.id)
                    ELSE IF by = "side" /\ t.side # "none"
                      THEN DOMAIN row.surf \cap {t.side}
                    ELSE panes(row)
       IN {row.surf[k].id : k \in kinds} \ {NoToken}

Touched(tree, run) ==
  IF run.scope = "caller" THEN {}
  ELSE UNION {{<<t.row, id>> : id \in PanesOf(tree, run.by, t)} : t \in run.targets}
=============================================================================
