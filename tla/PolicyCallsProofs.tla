-------------------------- MODULE PolicyCallsProofs --------------------------
(***************************************************************************)
(* For all worlds, calls and numbers of moves: a call that agtermctl is    *)
(* about to run reaches the panes of its host only, unless it types into   *)
(* the pane it was granted or allowed.  The first part is about the policy *)
(* alone, the second carries its result along the call.                    *)
(***************************************************************************)
EXTENDS PolicyCalls, TLAPS

RowsOK(t) == \A r \in DOMAIN t : IsRow(t[r])

\* Every leaf is a word of one, two or three, and names a pane by id or by side.
LEMMA LeafShape ==
  \A l \in allowlist :
    /\ Len(l.path) \in {1, 2, 3}
    /\ l.by \in {"id", "side"}
    /\ l.scope \in {"none", "caller", "pane", "row"}
BY DEF allowlist, Leaf

\* The longest path that a call starts with exists.
LEMMA MatchLeafExists ==
  ASSUME NEW words, Matching(words) # {}
  PROVE  matchLeaf(words) \in allowlist
<1> DEFINE S == Matching(words)
           n(l) == Len(l.path)
<1>1. \A l \in S : l \in allowlist /\ n(l) \in {1, 2, 3}
  BY LeafShape DEF Matching
<1>2. \E l \in S : \A m \in S : n(m) <= n(l)
  <2> HIDE DEF n, S
  <2>1. CASE \E l \in S : n(l) = 3
    BY <1>1, <2>1
  <2>2. CASE (\A l \in S : n(l) # 3) /\ \E l \in S : n(l) = 2
    BY <1>1, <2>2
  <2>3. CASE \A l \in S : n(l) # 3 /\ n(l) # 2
    <3>1. S # {}  BY DEF S
    <3> QED BY <1>1, <2>3, <3>1
  <2> QED BY <2>1, <2>2, <2>3
<1>3. matchLeaf(words) \in S
  BY <1>2 DEF matchLeaf
<1> QED BY <1>1, <1>3
-----------------------------------------------------------------------------
(* The policy.  a is an authz of a call of host, and Mine(a, r, id) says    *)
(* that the pane id of row r is the host's.                                *)

Mine(t, d, host, r, id) ==
  \E b \in d, k \in Sides \cap DOMAIN t[r].surf :
    /\ b.host = host /\ b.row = r /\ b.paneId = id /\ t[r].surf[k].id = id
    /\ t[r].runs[k] \in {Open(host, b.name), Open(host, NoName)}

\* What checkOwned accepts is a left or right pane with an id, bound to the row
\* and running `agr open`.
LEMMA CheckedIsMine ==
  ASSUME NEW a, NEW r \in DOMAIN a.tree, IsRow(a.tree[r]),
         NEW k \in DOMAIN a.tree[r].surf, checkOwned(a, r, k)
  PROVE  /\ k \in Sides
         /\ a.tree[r].surf[k].id # NoToken
         /\ Mine(a.tree, a.db, a.host, r, a.tree[r].surf[k].id)
<1> DEFINE row == a.tree[r]
           id == row.surf[k].id
<1>1. PICK b \in ownedBy(a, r, k) : attached(row, b)
  BY DEF checkOwned
<1>2. /\ b \in a.db /\ b.paneId = id /\ id # NoToken
      /\ b.host = a.host /\ b.row = r
  BY <1>1 DEF ownedBy, boundTo
<1>3. PICK j \in surfaceByID(row, b.paneId) :
             foreground(row, j) \in {Open(b.host, b.name), Open(b.host, NoName)}
  BY <1>1 DEF attached
<1>4. j \in DOMAIN row.surf /\ row.surf[j].id = id
  BY <1>2, <1>3 DEF surfaceByID
<1>5. j = k
  BY <1>2, <1>4 DEF IsRow
<1>6. j \in Sides /\ row.runs[j] \in {Open(b.host, b.name), Open(b.host, NoName)}
  <2>1. \A h, n : Shell # Open(h, n)
    BY DEF Shell, Open
  <2> QED BY <1>3, <2>1 DEF foreground, Sides
<1> QED BY <1>2, <1>4, <1>5, <1>6 DEF Mine

\* Of a row that is the host's as a whole, every pane that has an id is.
LEMMA WholeIsMine ==
  ASSUME NEW a, NEW r \in DOMAIN a.tree, IsRow(a.tree[r]), wholeRow(a, r),
         NEW k \in DOMAIN a.tree[r].surf, a.tree[r].surf[k].id # NoToken
  PROVE  Mine(a.tree, a.db, a.host, r, a.tree[r].surf[k].id)
<1>1. k \in panes(a.tree[r])
  BY DEF wholeRow, panes
<1>2. checkOwned(a, r, k)
  BY <1>1 DEF wholeRow
<1> QED BY <1>2, CheckedIsMine

\* The pane that is the host's is all that a call reaches with the target made
\* for it: by its id, by its side, or as the one pane of a row.
LEMMA PaneReach ==
  ASSUME NEW a, NEW r \in DOMAIN a.tree, IsRow(a.tree[r]),
         NEW k \in DOMAIN a.tree[r].surf, checkOwned(a, r, k),
         NEW by \in {"id", "side"},
         NEW side, NEW whole,
         \/ side = IF a.tree[r].split /\ k \in Sides THEN k ELSE "none"
         \/ side = "none" /\ wholeRow(a, r),
         NEW id \in PanesOf(a.tree, by, Target(r, a.tree[r].surf[k].id, side, whole))
  PROVE  Mine(a.tree, a.db, a.host, r, id)
<1> DEFINE row == a.tree[r]
           t == Target(r, row.surf[k].id, side, whole)
<1>1. /\ k \in Sides /\ row.surf[k].id # NoToken
      /\ Mine(a.tree, a.db, a.host, r, row.surf[k].id)
  BY CheckedIsMine
<1>2. t.row = r /\ t.id = row.surf[k].id /\ t.side = side
  BY DEF Target
<1> HIDE DEF t
<1>3. CASE by = "id"
  <2>1. id = row.surf[k].id
    BY <1>2, <1>3 DEF PanesOf, surfaceByID, t
  <2> QED BY <1>1, <2>1
<1>4. CASE by = "side" /\ side # "none"
  <2>1. side = k
    BY <1>4
  <2>2. id = row.surf[k].id
    BY <1>2, <1>4, <2>1 DEF PanesOf, t
  <2> QED BY <1>1, <2>2
<1>5. CASE by = "side" /\ side = "none"
  <2>1. PICK j \in panes(row) : id = row.surf[j].id /\ id # NoToken
    BY <1>2, <1>5 DEF PanesOf, t
  <2>2. CASE wholeRow(a, r)
    BY <2>1, <2>2, WholeIsMine DEF panes
  <2>3. CASE ~wholeRow(a, r)
    <3>1. ~row.split
      BY <1>1, <1>5, <2>3 DEF Sides
    <3>2. j = "left" /\ k = "left"
      BY <1>1, <2>1, <3>1 DEF panes, Sides, IsRow
    <3> QED BY <1>1, <2>1, <3>2
  <2> QED BY <2>2, <2>3
<1> QED BY <1>3, <1>4, <1>5

\* What a decision lets agtermctl reach is the host's, also when a page takes
\* the whole row.
Reaches(a, d) ==
  \A t \in d.targets :
    \A u \in {t} \cup (IF t.whole THEN {Target(t.row, t.id, "none", TRUE)} ELSE {}) :
      \A id \in PanesOf(a.tree, d.by, u) : Mine(a.tree, a.db, a.host, u.row, id)

\* A call on a pane, and a call on rows.
LEMMA PaneScopeReach ==
  ASSUME NEW a, RowsOK(a.tree), a.leaf \in allowlist,
         paneScope(a).verdict = "allow", ~paneScope(a).granted
  PROVE  Reaches(a, paneScope(a))
<1> DEFINE r == CHOOSE r \in targetRows(a) : TRUE
           k == CHOOSE k \in choosePane(a, r) : TRUE
           t == paneTarget(a, r, k)
<1>1. /\ r \in DOMAIN a.tree /\ \E j \in Kinds : choosePane(a, r) = {j}
      /\ paneScope(a) = onePane(a, r, k)
  BY DEF paneScope, refuse, Decision
<1>2. k \in DOMAIN a.tree[r].surf
  <2>1. k \in choosePane(a, r)
    BY <1>1
  <2>2. choosePane(a, r) \subseteq DOMAIN a.tree[r].surf
    BY DEF choosePane, requestedPane, surfaceByID, panes
  <2> QED BY <2>1, <2>2
<1> HIDE DEF r, k
<1>3. checkOwned(a, r, k) /\ onePane(a, r, k) = Allow({t}, a.leaf.by)
  <2>1. \/ checkOwned(a, r, k) /\ onePane(a, r, k) = Allow({t}, a.leaf.by)
        \/ onePane(a, r, k) = refuse
        \/ onePane(a, r, k) = typeLocal(a, r, k, t)
    BY DEF onePane
  <2>2. refuse.verdict # "allow"
    BY DEF refuse, Decision
  <2>3. typeLocal(a, r, k, t).verdict # "allow" \/ typeLocal(a, r, k, t).granted
    BY DEF typeLocal, refuse, Decision
  <2> QED BY <1>1, <2>1, <2>2, <2>3
<1>4. a.leaf.by \in {"id", "side"} /\ IsRow(a.tree[r])
  BY <1>1, LeafShape DEF RowsOK
<1>5. paneScope(a).targets = {t} /\ paneScope(a).by = a.leaf.by
  BY <1>1, <1>3 DEF Allow, Decision
<1>6. /\ t = Target(r, a.tree[r].surf[k].id, t.side, t.whole)
      /\ t.side = IF a.tree[r].split /\ k \in Sides THEN k ELSE "none"
      /\ t.whole => wholeRow(a, r)
      /\ t.row = r /\ t.id = a.tree[r].surf[k].id
  BY DEF paneTarget, Target
<1> HIDE DEF t
<1>7. \A id \in PanesOf(a.tree, a.leaf.by, t) : Mine(a.tree, a.db, a.host, t.row, id)
  BY <1>1, <1>2, <1>3, <1>4, <1>6, PaneReach
<1>8. ASSUME t.whole, NEW id \in PanesOf(a.tree, a.leaf.by, Target(t.row, t.id, "none", TRUE))
      PROVE  Mine(a.tree, a.db, a.host, t.row, id)
  BY <1>1, <1>2, <1>3, <1>4, <1>6, <1>8, PaneReach
<1>9. Target(t.row, t.id, "none", TRUE).row = t.row
  BY DEF Target
<1> QED BY <1>5, <1>7, <1>8, <1>9 DEF Reaches

LEMMA RowScopeReach ==
  ASSUME NEW a, RowsOK(a.tree), rowScope(a).verdict = "allow"
  PROVE  Reaches(a, rowScope(a))
<1>1. \A r \in targetRows(a) : r \in DOMAIN a.tree /\ wholeRow(a, r)
  BY DEF rowScope, refuse, Decision
<1>2. SUFFICES ASSUME NEW t \in rowScope(a).targets,
                      NEW id \in PanesOf(a.tree, rowScope(a).by, t)
               PROVE  Mine(a.tree, a.db, a.host, t.row, id)
  <2>1. \A t \in rowScope(a).targets : ~t.whole
    BY DEF rowScope, refuse, Allow, Decision, Target
  <2> QED BY <1>2, <2>1 DEF Reaches
<1>3. t.row \in targetRows(a)
  BY DEF rowScope, refuse, Allow, Decision, Target
<1>4. \E k \in DOMAIN a.tree[t.row].surf : id = a.tree[t.row].surf[k].id /\ id # NoToken
  BY <1>2 DEF PanesOf, surfaceByID, panes
<1> QED BY <1>1, <1>3, <1>4, WholeIsMine DEF RowsOK

\* The policy as a whole: what runs after Authorize allowed a call on a tree and
\* bindings reaches panes that are the host's by that tree and those bindings.
LEMMA AuthorizedReach ==
  ASSUME NEW t, RowsOK(t), NEW d, NEW r, NEW sized, r.caller.host = Host,
         Authorize(t, d, r).verdict = "allow", ~Authorize(t, d, r).granted,
         NEW p \in Touched(t, Rewrite(r, Authorize(t, d, r), sized))
  PROVE  Owned(t, d, p[1], p[2])
<1> DEFINE dec == Authorize(t, d, r)
           a == Authz(t, d, r, CHOOSE b \in current(d, r.caller) : TRUE)
           go == Rewrite(r, dec, sized)
           leaf == matchLeaf(r.words)
<1>1. /\ go.scope = leaf.scope /\ go.by = dec.by
      /\ go.targets = {sizePage(r, sized, u) : u \in dec.targets}
  BY DEF Rewrite
<1>2. /\ go.scope # "caller"
      /\ \E u \in go.targets : \E id \in PanesOf(t, go.by, u) : p = <<u.row, id>>
  BY DEF Touched
<1> HIDE DEF go
<1>3. PICK u \in dec.targets :
        \E id \in PanesOf(t, dec.by, sizePage(r, sized, u)) :
          p = <<sizePage(r, sized, u).row, id>>
  BY <1>1, <1>2
<1>4. NeedsTree(r) /\ dec = ByScope(a)
  <2>1. dec = refuse \/ dec = Allow({}, "none") \/ (NeedsTree(r) /\ dec = ByScope(a))
    <3> USE DEF Authorize
    <3>1. CASE ~Accepted(r)
      BY <3>1
    <3>2. CASE Accepted(r) /\ ~NeedsTree(r)
      BY <3>2
    <3>3. CASE Accepted(r) /\ NeedsTree(r)
      BY <3>3
    <3> QED BY <3>1, <3>2, <3>3
  <2>2. refuse.targets = {} /\ Allow({}, "none").targets = {}
    BY DEF refuse, Allow, Decision
  <2> QED BY <1>3, <2>1, <2>2
<1> HIDE DEF dec
<1>5. leaf \in allowlist /\ leaf.scope \in {"pane", "row"}
  <2>1. leaf \in allowlist /\ leaf.scope # "none"
    BY <1>4, MatchLeafExists DEF NeedsTree, Accepted
  <2> QED BY <1>1, <1>2, <2>1, LeafShape
<1>6. a.tree = t /\ a.db = d /\ a.host = Host /\ a.leaf = leaf
  BY DEF Authz
<1> HIDE DEF a, leaf
<1>7. dec.verdict = "allow" /\ ~dec.granted
  BY DEF dec
<1>8. Reaches(a, dec)
  <2>1. CASE leaf.scope = "pane"
    <3>1. dec = paneScope(a)
      BY <1>4, <1>6, <2>1 DEF ByScope
    <3> QED BY <1>5, <1>6, <1>7, <3>1, PaneScopeReach
  <2>2. CASE leaf.scope = "row"
    <3>1. dec = rowScope(a)
      BY <1>4, <1>6, <2>2 DEF ByScope
    <3> QED BY <1>6, <1>7, <3>1, RowScopeReach
  <2> QED BY <1>5, <2>1, <2>2
<1>9. /\ sizePage(r, sized, u) \in
           {u} \cup (IF u.whole THEN {Target(u.row, u.id, "none", TRUE)} ELSE {})
  BY DEF sizePage
<1>10. PICK id \in PanesOf(t, dec.by, sizePage(r, sized, u)) :
         p = <<sizePage(r, sized, u).row, id>>
  BY <1>3
<1>11. Mine(t, d, Host, sizePage(r, sized, u).row, id)
  BY <1>3, <1>6, <1>8, <1>9, <1>10 DEF Reaches
<1> QED BY <1>10, <1>11 DEF Mine, Owned
-----------------------------------------------------------------------------
(* Typing into a pane that is not the host's.                              *)

typing == <<"session", "type">>

\* `session type` acts on one pane, by its id, and is no overlay.
LEMMA TypeLeaf ==
  /\ \A l \in allowlist : l.path = typing => l.by = "id"
  /\ typing # <<"session", "overlay", "open">>
<1>1. \A l \in allowlist : l.path = typing => l.by = "id"
  <2>1. typing # <<"session", "overlay", "result">>
    BY DEF typing
  <2> QED BY <2>1 DEF allowlist, Leaf, typing
<1>2. typing # <<"session", "overlay", "open">>
  BY DEF typing
<1> QED BY <1>1, <1>2

\* A question, or a grant that is used, is about the one pane that the call
\* types into: nobody has bound it, and an agent runs in it.
LEMMA PaneScopeTypes ==
  ASSUME NEW a, a.leaf \in allowlist,
         paneScope(a).verdict = "ask" \/ paneScope(a).granted
  PROVE  /\ a.leaf.path = typing /\ paneScope(a).by = "id"
         /\ \E u : /\ paneScope(a).targets = {u} /\ u.row \in DOMAIN a.tree
                   /\ boundTo(a, u.id) = {}
                   /\ \E k \in surfaceByID(a.tree[u.row], u.id) :
                        agentRunning(a.tree[u.row], k)
                   /\ paneScope(a).granted =>
                        [row |-> u.row, paneId |-> u.id] \in a.caller.grants
<1> DEFINE r == CHOOSE r \in targetRows(a) : TRUE
           k == CHOOSE k \in choosePane(a, r) : TRUE
           u == paneTarget(a, r, k)
<1>1. refuse.verdict # "ask" /\ ~refuse.granted
  BY DEF refuse, Decision
<1>2. Allow({u}, a.leaf.by).verdict # "ask" /\ ~Allow({u}, a.leaf.by).granted
  BY DEF Allow, Decision
<1>3. /\ r \in DOMAIN a.tree /\ \E j \in Kinds : choosePane(a, r) = {j}
      /\ paneScope(a) = onePane(a, r, k)
  BY <1>1 DEF paneScope
<1>4. k \in DOMAIN a.tree[r].surf
  <2>1. k \in choosePane(a, r)
    BY <1>3
  <2>2. choosePane(a, r) \subseteq DOMAIN a.tree[r].surf
    BY DEF choosePane, requestedPane, surfaceByID, panes
  <2> QED BY <2>1, <2>2
<1>5. u.row = r /\ u.id = a.tree[r].surf[k].id
  BY DEF paneTarget, Target
<1> HIDE DEF r, k, u
<1>6. a.leaf.path = typing /\ paneScope(a) = typeLocal(a, r, k, u)
  BY <1>1, <1>2, <1>3 DEF onePane, typing, u
<1>7. /\ boundTo(a, u.id) = {} /\ agentRunning(a.tree[r], k)
      /\ \/ /\ [row |-> r, paneId |-> u.id] \in a.caller.grants
            /\ paneScope(a) = Decision("allow", {u}, "id", TRUE)
         \/ paneScope(a) = Decision("ask", {u}, "id", FALSE)
  BY <1>1, <1>5, <1>6 DEF typeLocal
<1>8. k \in surfaceByID(a.tree[r], u.id)
  BY <1>4, <1>5 DEF surfaceByID
<1>9. paneScope(a).targets = {u} /\ paneScope(a).by = "id"
  BY <1>7 DEF Decision
<1>10. paneScope(a).granted => [row |-> r, paneId |-> u.id] \in a.caller.grants
  BY <1>7 DEF Decision
<1> QED BY <1>3, <1>5, <1>6, <1>7, <1>8, <1>9, <1>10

\* The same of the policy as a whole.
LEMMA AuthorizedTypes ==
  ASSUME NEW t, NEW d, NEW r,
         Authorize(t, d, r).verdict = "ask" \/ Authorize(t, d, r).granted
  PROVE  /\ matchLeaf(r.words).path = typing
         /\ Authorize(t, d, r).by = "id"
         /\ \E u : /\ Authorize(t, d, r).targets = {u} /\ u.row \in DOMAIN t
                   /\ \A b \in d : u.id # NoToken => b.paneId # u.id
                   /\ \E k \in surfaceByID(t[u.row], u.id) : agentRunning(t[u.row], k)
                   /\ Authorize(t, d, r).granted =>
                        \E b \in current(d, r.caller) :
                          [row |-> u.row, paneId |-> u.id] \in b.grants
<1> DEFINE dec == Authorize(t, d, r)
           now == current(d, r.caller)
           caller == CHOOSE b \in now : TRUE
           a == Authz(t, d, r, caller)
<1>1. /\ refuse.verdict # "ask" /\ ~refuse.granted
      /\ \A x, by : Allow(x, by).verdict # "ask" /\ ~Allow(x, by).granted
  BY DEF refuse, Allow, Decision
<1>2. NeedsTree(r) /\ now # {} /\ dec = ByScope(a)
  <2> USE DEF Authorize
  <2>1. CASE ~Accepted(r)
    BY <1>1, <2>1
  <2>2. CASE Accepted(r) /\ ~NeedsTree(r)
    BY <1>1, <2>2
  <2>3. CASE Accepted(r) /\ NeedsTree(r) /\ now = {}
    BY <1>1, <2>3
  <2>4. CASE Accepted(r) /\ NeedsTree(r) /\ now # {}
    BY <2>4
  <2> QED BY <2>1, <2>2, <2>3, <2>4
<1>3. caller \in now
  BY <1>2
<1>4. /\ a.tree = t /\ a.db = d /\ a.caller = caller
      /\ a.leaf = matchLeaf(r.words)
  BY DEF Authz
<1>5. a.leaf \in allowlist
  BY <1>2, <1>4, MatchLeafExists DEF NeedsTree, Accepted
<1> HIDE DEF dec, now, caller, a
<1>6. dec.verdict = "ask" \/ dec.granted
  BY DEF dec
<1>7. dec = paneScope(a)
  <2>1. CASE a.leaf.scope = "caller"
    <3>1. dec = callerScope(a)
      BY <1>2, <2>1 DEF ByScope
    <3> QED BY <1>1, <1>6, <3>1 DEF callerScope
  <2>2. CASE a.leaf.scope = "pane"
    BY <1>2, <2>2 DEF ByScope
  <2>3. CASE a.leaf.scope \notin {"caller", "pane"}
    <3>1. dec = rowScope(a)
      BY <1>2, <2>3 DEF ByScope
    <3> QED BY <1>1, <1>6, <3>1 DEF rowScope
  <2> QED BY <2>1, <2>2, <2>3
<1>8. /\ a.leaf.path = typing /\ dec.by = "id"
      /\ \E u : /\ dec.targets = {u} /\ u.row \in DOMAIN t
                /\ boundTo(a, u.id) = {}
                /\ \E k \in surfaceByID(t[u.row], u.id) : agentRunning(t[u.row], k)
                /\ dec.granted => [row |-> u.row, paneId |-> u.id] \in caller.grants
  BY <1>4, <1>5, <1>6, <1>7, PaneScopeTypes
<1>9. \A id : boundTo(a, id) = {} /\ id # NoToken => \A b \in d : b.paneId # id
  BY <1>4 DEF boundTo
<1> QED BY <1>3, <1>4, <1>8, <1>9 DEF dec, now

\* What such a call reaches is its target.
LEMMA TypedReach ==
  ASSUME NEW t, NEW r, NEW dec, NEW sized, matchLeaf(r.words).path = typing,
         dec.by = "id", NEW p \in Touched(t, Rewrite(r, dec, sized))
  PROVE  \E u \in dec.targets :
           /\ u \in Rewrite(r, dec, sized).targets
           /\ p = <<u.row, u.id>> /\ u.id # NoToken
<1> DEFINE go == Rewrite(r, dec, sized)
<1>1. go.by = "id" /\ go.targets = {sizePage(r, sized, u) : u \in dec.targets}
  BY DEF Rewrite
<1> HIDE DEF go
<1>2. \A u : sizePage(r, sized, u) = u
  BY TypeLeaf DEF sizePage
<1>3. PICK u \in go.targets : \E id \in PanesOf(t, "id", u) : p = <<u.row, id>>
  BY <1>1 DEF Touched, go
<1>4. PICK id \in PanesOf(t, "id", u) : p = <<u.row, id>>
  BY <1>3
<1>5. id = u.id /\ id # NoToken
  BY <1>4 DEF PanesOf, surfaceByID
<1> QED BY <1>1, <1>2, <1>3, <1>4, <1>5 DEF go
-----------------------------------------------------------------------------
(* The call.                                                               *)

\* At exec the call is the rewriting of a decision, and unless the user was
\* asked that decision is the one for the tree and the bindings last seen.
Inv ==
  /\ RowsOK(tree) /\ RowsOK(seen)
  /\ "caller" \in DOMAIN req /\ req.caller.host = Host
  /\ pc \in {"idle", "tree", "decide", "drop", "ask"} => asked = "none"
  /\ pc \in {"look", "check", "grant"} => asked # "none"
  /\ pc = "drop" => decision = Authorize(seen, seenDb, req)
  /\ pc \in {"rewrite", "exec"} /\ asked = "none" =>
       decision = Authorize(seen, seenDb, req) /\ decision.verdict = "allow"
  /\ pc = "exec" => \E sized \in BOOLEAN : run = Rewrite(req, decision, sized)

\* The three facts that make Inv an invariant from which the property follows.
LEMMA InitInv == Init => Inv
<1> SUFFICES ASSUME Init PROVE Inv
  OBVIOUS
<1>1. pc = "idle" /\ asked = "none" /\ seen = tree
  BY DEF Init
<1>2. RowsOK(tree)
  BY WorldsAssumption DEF Init, RowsOK
<1>3. "caller" \in DOMAIN req /\ req.caller.host = Host
  BY DEF Init, ForHost
<1> QED BY <1>1, <1>2, <1>3 DEF Inv

\* The moves of agterm keep its rows rows.
LEMMA WorldRows ==
  ASSUME RowsOK(tree), World
  PROVE  RowsOK(tree') /\ UNCHANGED call
<1>1. UNCHANGED call
  BY DEF World, ProgramChanges, Binds, Splits, PaneCloses, Swaps, RowCloses, Unbinds, Moves
<1>2. ASSUME NEW r \in DOMAIN tree, NEW row, IsRow(row), tree' = [tree EXCEPT ![r] = row]
      PROVE  RowsOK(tree')
  BY <1>2 DEF RowsOK
<1>3. ASSUME NEW surf, NEW split, NEW runs
      PROVE  /\ Row(surf, split, runs).surf = surf
             /\ Row(surf, split, runs).split = split
             /\ Row(surf, split, runs).runs = runs
  BY DEF Row
<1>3a. ASSUME NEW surf, NEW split, NEW runs \in [Sides -> Programs],
              DOMAIN surf \subseteq Kinds,
              "right" \in DOMAIN surf => split = TRUE,
              \A j, k \in DOMAIN surf : surf[j].id = surf[k].id /\ surf[j].id # NoToken => j = k
       PROVE  IsRow(Row(surf, split, runs))
  <2> DEFINE row == Row(surf, split, runs)
  <2>1. /\ row.surf = surf /\ ("right" \in DOMAIN surf => row.split)
        /\ row.runs = runs
    BY <1>3a DEF Row
  <2> HIDE DEF row
  <2>2. IsRow(row)
    BY <1>3a, <2>1 DEF IsRow
  <2> QED BY <2>2 DEF row
<1>4. ASSUME NEW r \in DOMAIN tree, NEW k, ProgramChanges(r, k)
      PROVE  RowsOK(tree')
  <2>0. tree[r].runs \in [Sides -> Programs]
    BY DEF RowsOK, IsRow
  <2>1. PICK runs \in [Sides -> Programs] :
               tree' = [tree EXCEPT ![r] = Row(tree[r].surf, tree[r].split, runs)]
    BY <1>4, <2>0 DEF ProgramChanges
  <2>2. IsRow(Row(tree[r].surf, tree[r].split, runs))
    BY <1>3 DEF IsRow, RowsOK
  <2> QED BY <1>2, <2>1, <2>2
<1>5. ASSUME NEW r \in DOMAIN tree, NEW id, Splits(r, id)
      PROVE  RowsOK(tree')
  <2> DEFINE surf == [k \in DOMAIN tree[r].surf \cup {"right"} |->
                       IF k = "right" THEN [id |-> id, visible |-> TRUE] ELSE tree[r].surf[k]]
  <2>0. Shell \in Programs /\ tree[r].runs \in [Sides -> Programs]
    BY DEF Programs, RowsOK, IsRow
  <2>1. PICK runs \in [Sides -> Programs] : tree' = [tree EXCEPT ![r] = Row(surf, TRUE, runs)]
    BY <1>5, <2>0 DEF Splits
  <2>2. \A k \in DOMAIN tree[r].surf : tree[r].surf[k].id # id
    BY <1>5 DEF Splits, Known, Ids
  <2>3. surf["right"].id = id
    OBVIOUS
  <2>4. \A k \in DOMAIN tree[r].surf : k # "right" => surf[k] = tree[r].surf[k]
    OBVIOUS
  <2>5. DOMAIN surf = DOMAIN tree[r].surf \cup {"right"}
    OBVIOUS
  <2> HIDE DEF surf
  <2>6. IsRow(tree[r])
    BY DEF RowsOK
  <2>7. ASSUME NEW j \in DOMAIN surf, NEW k \in DOMAIN surf,
               surf[j].id = surf[k].id, surf[j].id # NoToken
        PROVE  j = k
    BY <2>2, <2>3, <2>4, <2>5, <2>6, <2>7 DEF IsRow
  <2>8. IsRow(Row(surf, TRUE, runs))
    BY <1>3a, <2>5, <2>6, <2>7 DEF IsRow, Kinds, Sides
  <2> QED BY <1>2, <2>1, <2>8
<1>6. ASSUME NEW r \in DOMAIN tree, NEW k, PaneCloses(r, k)
      PROVE  RowsOK(tree')
  <2> DEFINE surf == [s \in DOMAIN tree[r].surf \ {"right"} |->
                       IF s = "left" THEN tree[r].surf[Other(k)] ELSE tree[r].surf[s]]
  <2>0. Other(k) \in Sides /\ tree[r].runs \in [Sides -> Programs]
    BY <1>6 DEF PaneCloses, Other, Sides, RowsOK, IsRow
  <2>1. PICK runs \in [Sides -> Programs] : tree' = [tree EXCEPT ![r] = Row(surf, FALSE, runs)]
    BY <1>6, <2>0 DEF PaneCloses
  <2>2. Other(k) \in Sides /\ Sides \subseteq DOMAIN tree[r].surf
    BY <1>6 DEF PaneCloses, Other, Sides, panes
  <2>3. DOMAIN surf = DOMAIN tree[r].surf \ {"right"}
    OBVIOUS
  <2>4. "left" \in DOMAIN surf => surf["left"] = tree[r].surf[Other(k)]
    OBVIOUS
  <2>5. \A s \in DOMAIN surf : s # "left" => surf[s] = tree[r].surf[s]
    OBVIOUS
  <2> HIDE DEF surf
  <2>6. IsRow(tree[r])
    BY DEF RowsOK
  <2>7. ASSUME NEW i \in DOMAIN surf, NEW j \in DOMAIN surf,
               surf[i].id = surf[j].id, surf[i].id # NoToken
        PROVE  i = j
    BY <2>2, <2>3, <2>4, <2>5, <2>6, <2>7 DEF IsRow, Sides
  <2>8. IsRow(Row(surf, FALSE, runs))
    BY <1>3a, <2>3, <2>6, <2>7 DEF IsRow
  <2> QED BY <1>2, <2>1, <2>8
<1>7. ASSUME NEW r \in DOMAIN tree, Swaps(r)
      PROVE  RowsOK(tree')
  <2> DEFINE surf == [k \in DOMAIN tree[r].surf |-> tree[r].surf[Other(k)]]
  <2>0. /\ \A k \in Sides : Other(k) \in Sides
        /\ tree[r].runs \in [Sides -> Programs]
    BY DEF Other, Sides, RowsOK, IsRow
  <2>1. PICK runs \in [Sides -> Programs] : tree' = [tree EXCEPT ![r] = Row(surf, TRUE, runs)]
    BY <1>7, <2>0 DEF Swaps
  <2>2. Sides \subseteq DOMAIN tree[r].surf
    BY <1>7 DEF Swaps, panes
  <2>3. DOMAIN surf = DOMAIN tree[r].surf
    OBVIOUS
  <2>4. \A s \in DOMAIN surf : surf[s] = tree[r].surf[Other(s)] /\ Other(s) \in DOMAIN tree[r].surf
    BY <2>2 DEF Other, Sides
  <2>5. \A j, s \in DOMAIN surf : Other(j) = Other(s) => j = s
    BY DEF Other
  <2> HIDE DEF surf
  <2>6. IsRow(tree[r])
    BY DEF RowsOK
  <2>7. ASSUME NEW j \in DOMAIN surf, NEW k \in DOMAIN surf,
               surf[j].id = surf[k].id, surf[j].id # NoToken
        PROVE  j = k
    BY <2>3, <2>4, <2>5, <2>6, <2>7 DEF IsRow
  <2>8. IsRow(Row(surf, TRUE, runs))
    BY <1>3a, <2>3, <2>6, <2>7 DEF IsRow
  <2> QED BY <1>2, <2>1, <2>8
<1>8. ASSUME NEW r \in DOMAIN tree, RowCloses(r)
      PROVE  RowsOK(tree')
  BY <1>8 DEF RowCloses, RowsOK
<1>9. ASSUME UNCHANGED tree PROVE RowsOK(tree')
  BY <1>9 DEF RowsOK
<1> QED BY <1>1, <1>4, <1>5, <1>6, <1>7, <1>8, <1>9 DEF World, Binds, Unbinds

LEMMA StepInv == Inv /\ [Next]_vars => Inv'
<1> SUFFICES ASSUME Inv, [Next]_vars PROVE Inv'
  OBVIOUS
<1>1. CASE UNCHANGED vars
  BY <1>1 DEF vars, world, call, look, Inv, RowsOK
<1>2. CASE World
  <2>1. RowsOK(tree') /\ UNCHANGED call
    BY <1>2, WorldRows DEF Inv
  <2> QED BY <2>1 DEF Inv, call, look, RowsOK
<1>3. ASSUME UNCHANGED tree, seen' \in {seen, tree} PROVE RowsOK(tree') /\ RowsOK(seen')
  BY <1>3 DEF Inv, RowsOK
<1>4. CASE Receive
  <2>1. PICK b \in ForHost(db, Host) : req' = [req EXCEPT !.caller = b]
    BY <1>4 DEF Receive
  <2>2. "caller" \in DOMAIN req' /\ req'.caller.host = Host
    BY <2>1 DEF Inv, ForHost
  <2>3. UNCHANGED <<tree, seen, asked>> /\ pc = "idle" /\ pc' \in {"tree", "decide"}
    BY <1>4 DEF Receive, world, Goto
  <2> QED BY <1>3, <2>2, <2>3 DEF Inv
<1>5. CASE ReadTree
  <2>1. UNCHANGED <<tree, req, asked>> /\ pc = "tree" /\ pc' \in {"decide", "done"}
        /\ seen' \in {seen, tree}
    BY <1>5 DEF ReadTree, world, Goto
  <2> QED BY <1>3, <2>1 DEF Inv
<1>6. CASE Decide
  <2>1. UNCHANGED <<tree, seen, req, asked>> /\ pc = "decide" /\ pc' = "drop"
        /\ seenDb' = db /\ decision' = Authorize(seen, db, req)
    BY <1>6 DEF Decide, world, Goto
  <2> QED BY <1>3, <2>1 DEF Inv
<1>7. CASE Drop
  <2>1. UNCHANGED <<tree, seen, seenDb, req, pc, asked, decision, run>>
    BY <1>7 DEF Drop, look
  <2> QED BY <1>3, <2>1 DEF Inv
<1>8. CASE Decided
  <2>1. UNCHANGED <<tree, seen, seenDb, req, asked, decision>> /\ pc = "drop"
        /\ \/ pc' = "rewrite" /\ decision.verdict = "allow"
           \/ pc' \in {"ask", "done"}
    BY <1>8 DEF Decided, world, look, Goto
  <2> QED BY <1>3, <2>1 DEF Inv
<1>9. CASE Answer \/ LookAgain \/ Check
  <2>1. UNCHANGED <<tree, req>> /\ seen' \in {seen, tree}
        /\ \/ pc' = "done"
           \/ pc' \in {"look", "check", "grant", "rewrite"} /\ asked' # "none"
    BY <1>9 DEF Answer, LookAgain, Check, world, look, Goto, Inv
  <2> QED BY <1>3, <2>1 DEF Inv
<1>10. CASE Grant
  <2>1. UNCHANGED <<tree, seen, req, asked>> /\ pc = "grant" /\ pc' = "rewrite"
    BY <1>10 DEF Grant, look, Goto
  <2> QED BY <1>3, <2>1 DEF Inv
<1>11. CASE RewriteCall
  <2>1. UNCHANGED <<tree, seen, seenDb, req, decision, asked>> /\ pc = "rewrite"
        /\ \/ pc' = "done"
           \/ pc' = "exec" /\ \E sized \in BOOLEAN : run' = Rewrite(req, decision, sized)
    BY <1>11 DEF RewriteCall, world, look, Goto
  <2> QED BY <1>3, <2>1 DEF Inv
<1>12. CASE Exec
  <2>1. UNCHANGED <<tree, seen, req>> /\ pc' = "done"
    BY <1>12 DEF Exec, world, look, Goto
  <2> QED BY <1>3, <2>1 DEF Inv
<1> QED
  BY <1>1, <1>2, <1>4, <1>5, <1>6, <1>7, <1>8, <1>9, <1>10, <1>11, <1>12 DEF Next, Call

LEMMA InvHost == Inv => OwnPanesOnly
<1> SUFFICES ASSUME Inv, pc = "exec", NEW p \in Touched(seen, run),
                    ~decision.granted, asked = "none"
             PROVE  Owned(seen, seenDb, p[1], p[2])
  BY DEF OwnPanesOnly
<1>1. PICK sized \in BOOLEAN : run = Rewrite(req, decision, sized)
  BY DEF Inv
<1>2. /\ decision = Authorize(seen, seenDb, req) /\ decision.verdict = "allow"
      /\ RowsOK(seen) /\ req.caller.host = Host
  BY DEF Inv
<1> QED BY <1>1, <1>2, AuthorizedReach

\* A host reaches its own panes only, whatever moves while its call is judged
\* (policy.go, Authorize; rewrite.go, rewrite).
THEOREM HostReachesOwnPanes == Spec => []OwnPanesOnly
<1>1. Spec => []Inv
  BY InitInv, StepInv, PTL DEF Spec
<1> QED BY <1>1, InvHost, PTL

\* The call that undoes a blocking overlay covers what the open covers
\* (rewrite.go, overlayClose).
THEOREM CancelCoversOpen == Spec => []CancelUndoesOpen
<1>1. Inv => CancelUndoesOpen
  <2> SUFFICES ASSUME Inv, pc = "exec", run.cancel # {}
               PROVE  Touched(seen, [run EXCEPT !.targets = run.cancel]) = Touched(seen, run)
    BY DEF CancelUndoesOpen
  <2>1. PICK sized \in BOOLEAN : run = Rewrite(req, decision, sized)
    BY DEF Inv
  <2>2. run.cancel = run.targets
    BY <2>1 DEF Rewrite
  <2>3. [run EXCEPT !.targets = run.cancel] = run
    BY <2>1, <2>2 DEF Rewrite
  <2> QED BY <2>3
<1>2. Spec => []Inv
  BY InitInv, StepInv, PTL DEF Spec
<1> QED BY <1>1, <1>2, PTL
-----------------------------------------------------------------------------
(* Typing with consent.                                                    *)

\* The call types into one pane.
TypesIntoOne ==
  /\ matchLeaf(req.words).path = typing /\ decision.by = "id"
  /\ \E u : decision.targets = {u}

\* A call that the user is asked about types into one pane, and that pane has
\* passed the check on the tree and the bindings last seen before it goes on.
AskInv ==
  /\ pc \in {"ask", "look", "check", "grant"} => TypesIntoOne
  /\ pc \in {"rewrite", "exec"} /\ asked # "none" => TypesIntoOne
  /\ pc = "grant" \/ (pc \in {"rewrite", "exec"} /\ asked # "none") =>
       \A u \in decision.targets : CheckAgent(seen, seenDb, u)

\* Every step keeps it: a question is asked about such a call only, and the
\* check is the last look before the grant or the call.
LEMMA AskInvStep == Inv /\ AskInv /\ [Next]_vars => AskInv'
<1> SUFFICES ASSUME Inv, AskInv, [Next]_vars PROVE AskInv'
  OBVIOUS
<1>1. CASE UNCHANGED vars \/ World
  <2>1. UNCHANGED call
    BY <1>1 DEF vars, World, ProgramChanges, Binds, Splits, PaneCloses, Swaps,
         RowCloses, Unbinds, Moves
  <2> QED BY <2>1 DEF AskInv, TypesIntoOne, call, look
<1>2. CASE pc' \in {"idle", "tree", "decide", "drop", "done"}
  BY <1>2 DEF AskInv
<1>3. ASSUME UNCHANGED <<req, decision>> PROVE TypesIntoOne' = TypesIntoOne
  BY <1>3 DEF TypesIntoOne
<1>4. CASE Receive \/ ReadTree \/ Decide \/ Exec
  BY <1>2, <1>4 DEF Receive, ReadTree, Decide, Exec, Goto
<1>5. CASE Drop
  <2>1. UNCHANGED pc /\ pc = "drop"
    BY <1>5 DEF Drop
  <2> QED BY <1>2, <2>1
<1>6. CASE Decided
  <2>1. /\ UNCHANGED <<req, decision, asked>> /\ pc = "drop"
        /\ \/ pc' = "rewrite"
           \/ pc' = "ask" /\ decision.verdict = "ask"
           \/ pc' = "done"
    BY <1>6 DEF Decided, Goto, world, look
  <2>2. asked = "none" /\ decision = Authorize(seen, seenDb, req)
    BY <2>1 DEF Inv
  <2>3. decision.verdict = "ask" => TypesIntoOne
    <3> SUFFICES ASSUME decision.verdict = "ask" PROVE TypesIntoOne
      OBVIOUS
    <3>1. matchLeaf(req.words).path = typing /\ decision.by = "id"
      BY <2>2, AuthorizedTypes
    <3>2. \E u : decision.targets = {u}
      <4> DEFINE dec == Authorize(seen, seenDb, req)
      <4>1. PICK u : dec.targets = {u} /\ u.row \in DOMAIN seen
        BY <2>2, AuthorizedTypes
      <4> QED BY <2>2, <4>1
    <3> QED BY <3>1, <3>2 DEF TypesIntoOne
  <2> QED BY <1>3, <2>1, <2>2, <2>3 DEF AskInv
<1>7. CASE Answer \/ LookAgain
  <2>1. /\ UNCHANGED <<req, decision>> /\ pc \in {"ask", "look"}
        /\ pc' \in {"look", "check", "done"}
    BY <1>7 DEF Answer, LookAgain, Goto, world, look
  <2> QED BY <1>3, <2>1 DEF AskInv
<1>8. CASE Check
  <2>1. /\ UNCHANGED <<req, seen, decision>> /\ pc = "check" /\ seenDb' = db
        /\ \/ pc' = "done"
           \/ /\ pc' \in {"grant", "rewrite"}
              /\ \E u \in decision.targets : CheckAgent(seen, db, u)
    BY <1>8 DEF Check, Goto, world, look
  <2>2. TypesIntoOne
    BY <2>1 DEF AskInv
  <2>3. pc' # "done" => \A u \in decision.targets : CheckAgent(seen, db, u)
    BY <2>1, <2>2 DEF TypesIntoOne
  <2> QED BY <1>3, <2>1, <2>2, <2>3 DEF AskInv
<1>9. CASE Grant \/ RewriteCall
  <2>1. /\ UNCHANGED <<req, seen, seenDb, decision, asked>>
        /\ \/ pc = "grant" /\ pc' = "rewrite"
           \/ pc = "rewrite" /\ pc' \in {"exec", "done"}
    BY <1>9 DEF Grant, RewriteCall, Goto, world, look
  <2> QED BY <1>3, <2>1 DEF AskInv
<1> QED
  BY <1>1, <1>4, <1>5, <1>6, <1>7, <1>8, <1>9 DEF Next, Call

\* Text goes into a foreign pane only while an agent runs there that nobody has
\* bound, and with the user's word for it, whatever moves between the looks
\* (policy.go, typeLocal and CheckAgent; consent.go, afterAnswer).
THEOREM TypingIsVetted == Spec => []TypesIntoAgent
<1>1. Inv /\ AskInv => TypesIntoAgent
  <2> SUFFICES ASSUME Inv, AskInv, pc = "exec", decision.granted \/ asked # "none",
                      NEW p \in Touched(seen, run)
               PROVE  /\ \E t \in run.targets :
                           p = <<t.row, t.id>> /\ CheckAgent(seen, seenDb, t)
                      /\ \/ asked # "none"
                         \/ \E b \in current(seenDb, req.caller) :
                              [row |-> p[1], paneId |-> p[2]] \in b.grants
    BY DEF TypesIntoAgent
  <2>1. PICK sized \in BOOLEAN : run = Rewrite(req, decision, sized)
    BY DEF Inv
  <2>2. CASE asked # "none"
    <3>1. matchLeaf(req.words).path = typing /\ decision.by = "id"
      BY <2>2 DEF AskInv, TypesIntoOne
    <3>2. \E u \in decision.targets : u \in run.targets /\ p = <<u.row, u.id>>
      BY <2>1, <3>1, TypedReach
    <3> QED BY <2>2, <3>2 DEF AskInv
  <2>3. CASE asked = "none"
    <3>1. decision = Authorize(seen, seenDb, req) /\ decision.granted
      BY <2>3 DEF Inv
    <3>2. matchLeaf(req.words).path = typing /\ decision.by = "id"
      BY <3>1, AuthorizedTypes
    <3>3. PICK u : /\ decision.targets = {u} /\ u.row \in DOMAIN seen
                   /\ \A b \in seenDb : u.id # NoToken => b.paneId # u.id
                   /\ \E k \in surfaceByID(seen[u.row], u.id) : agentRunning(seen[u.row], k)
                   /\ \E b \in current(seenDb, req.caller) :
                        [row |-> u.row, paneId |-> u.id] \in b.grants
      BY <3>1, AuthorizedTypes
    <3>4. u \in run.targets /\ p = <<u.row, u.id>> /\ u.id # NoToken
      BY <2>1, <3>2, <3>3, TypedReach
    <3>5. CheckAgent(seen, seenDb, u)
      BY <3>3, <3>4 DEF CheckAgent
    <3>6. p[1] = u.row /\ p[2] = u.id
      BY <3>4
    <3> QED BY <3>3, <3>4, <3>5, <3>6
  <2> QED BY <2>2, <2>3
<1>2. Init => AskInv
  BY DEF Init, AskInv
<1> QED BY <1>1, <1>2, InitInv, StepInv, AskInvStep, PTL DEF Spec
-----------------------------------------------------------------------------
(* The panes that were the host's.                                         *)

\* What the host owns on the tree seen, by the bindings d, it owned at a moment
\* since that tree was read.
WasOwned(d) ==
  \A r \in DOMAIN seen : \A id : Owned(seen, d, r, id) => <<r, id>> \in held

\* Until the decision this is true of the bindings as they are, then of those it
\* was made on.
HeldInv ==
  /\ pc = "decide" /\ NeedsTree(req) => WasOwned(db)
  /\ pc \in {"drop", "rewrite", "exec"} /\ asked = "none" /\ NeedsTree(req) =>
       WasOwned(seenDb)

\* Owned depends on the bindings only through those it finds, and OwnedPanes
\* are the panes that are owned.
LEMMA OwnedPane ==
  ASSUME NEW t, NEW d, NEW r \in DOMAIN t, NEW id, Owned(t, d, r, id)
  PROVE  <<r, id>> \in OwnedPanes(t, d)
<1>1. PICK b \in d : b.row = r /\ b.paneId = id
  BY DEF Owned
<1> QED BY <1>1 DEF OwnedPanes

\* A binding that is made is the host's own at that moment.
LEMMA BindsOwns ==
  ASSUME RowsOK(tree), NEW q \in DOMAIN tree, NEW k \in Sides, Binds(q, k),
         NEW b \in db', b \notin db, b.host = Host
  PROVE  <<b.row, b.paneId>> \in OwnedPanes(tree', db')
<1> DEFINE prog == tree[q].runs[k]
           next(n) == [row |-> q, paneId |-> tree[q].surf[k].id, pane |-> k,
                       host |-> prog.host, name |-> n, grants |-> {}]
<1>1. PICK n \in Names : prog.name \in {n, NoName} /\ db' = upsert(db, next(n))
  BY DEF Binds
<1>2. b = [next(n) EXCEPT !.grants = Inherited(db, next(n))]
  BY <1>1 DEF upsert
<1>3. /\ b.row = q /\ b.paneId = tree[q].surf[k].id
      /\ b.host = prog.host /\ b.name = n
  BY <1>2
<1>4. prog \in Programs /\ prog.is = "open" /\ k \in DOMAIN tree[q].surf
  BY DEF Binds, RowsOK, IsRow, panes
<1> HIDE DEF prog, next
<1>5. prog = Open(prog.host, prog.name)
  BY <1>4 DEF Programs, Open, Agent, Shell
<1>6. prog \in {Open(Host, b.name), Open(Host, NoName)}
  BY <1>1, <1>3, <1>5
<1>7. UNCHANGED tree
  BY DEF Binds
<1>8. Owned(tree', db', b.row, b.paneId)
  BY <1>3, <1>4, <1>6, <1>7 DEF Owned, prog
<1>9. b.row \in DOMAIN tree'
  BY <1>3, <1>7
<1> QED BY <1>8, <1>9, OwnedPane

\* A move of agterm or the bindings while the decision is due.
LEMMA WorldHeld ==
  ASSUME RowsOK(tree), World, Watch, pc = "decide", WasOwned(db)
  PROVE  WasOwned(db)'
<1>1. UNCHANGED call /\ (pc' = "decide")
  BY DEF World, ProgramChanges, Binds, Splits, PaneCloses, Swaps, RowCloses,
     Unbinds, Moves, call
<1>2. held' = held \cup OwnedPanes(tree', db')
  BY <1>1 DEF Watch
<1>3. UNCHANGED seen
  BY <1>1 DEF call, look
<1>4. \A b \in db' : b \in db \/ b.host # Host
                       \/ <<b.row, b.paneId>> \in OwnedPanes(tree', db')
  <2>1. ASSUME NEW q \in DOMAIN tree, NEW k \in Sides, Binds(q, k)
        PROVE  \A b \in db' : b \in db \/ b.host # Host
                                \/ <<b.row, b.paneId>> \in OwnedPanes(tree', db')
    BY <2>1, BindsOwns
  <2>2. \/ \E q \in DOMAIN tree, k \in Sides : Binds(q, k)
        \/ UNCHANGED db
        \/ \E r \in Rows : db' = WithoutRow(db, r)
    BY DEF World, ProgramChanges, Splits, PaneCloses, Swaps, RowCloses, Unbinds
  <2>3. \A r : WithoutRow(db, r) \subseteq db
    BY DEF WithoutRow
  <2> QED BY <2>1, <2>2, <2>3
<1>5. ASSUME NEW r \in DOMAIN seen, NEW id, Owned(seen, db', r, id)
      PROVE  <<r, id>> \in held'
  <2>1. PICK b \in db', j \in Sides \cap DOMAIN seen[r].surf :
               /\ b.host = Host /\ b.row = r /\ b.paneId = id
               /\ seen[r].surf[j].id = id
               /\ seen[r].runs[j] \in {Open(Host, b.name), Open(Host, NoName)}
    BY <1>5 DEF Owned
  <2>2. CASE b \in db
    <3>1. Owned(seen, db, r, id)
      BY <2>1, <2>2 DEF Owned
    <3> QED BY <1>2, <3>1 DEF WasOwned
  <2>3. CASE b \notin db
    BY <1>2, <1>4, <2>1, <2>3
  <2> QED BY <2>2, <2>3
<1> QED BY <1>3, <1>5 DEF WasOwned

\* Every step keeps the panes that were the host's.
LEMMA HeldInvStep == Inv /\ HeldInv /\ [Next]_vars => HeldInv'
<1> SUFFICES ASSUME Inv, HeldInv, [Next]_vars PROVE HeldInv'
  OBVIOUS
<1>1. CASE UNCHANGED vars
  BY <1>1 DEF HeldInv, WasOwned, vars, world, call, look
<1>2. CASE Watch /\ pc' \notin {"decide", "drop", "rewrite", "exec"}
  BY <1>2 DEF HeldInv
<1>3. CASE World /\ Watch
  <2>1. UNCHANGED call
    BY <1>3 DEF World, ProgramChanges, Binds, Splits, PaneCloses, Swaps,
         RowCloses, Unbinds, Moves
  <2>2. UNCHANGED <<pc, req, seen, seenDb, asked>>
    BY <2>1 DEF call, look
  <2>3. CASE pc = "decide"
    <3>1. NeedsTree(req) => WasOwned(db)'
      BY <1>3, <2>3, WorldHeld DEF HeldInv, Inv
    <3> QED BY <2>2, <2>3, <3>1 DEF HeldInv
  <2>4. CASE pc # "decide"
    <3>1. UNCHANGED held
      BY <1>3, <2>2, <2>4 DEF Watch
    <3> QED BY <2>2, <2>4, <3>1 DEF HeldInv, WasOwned
  <2> QED BY <2>3, <2>4
<1>4. CASE Receive /\ Watch
  <2>1. pc' = "tree" \/ (pc' = "decide" /\ ~NeedsTree(req'))
    <3>1. PICK b \in ForHost(db, Host) : req' = [req EXCEPT !.caller = b]
      BY <1>4 DEF Receive
    <3>2. NeedsTree(req') <=> NeedsTree(req)
      <4>1. req'.words = req.words /\ req'.opts = req.opts
        BY <3>1
      <4> QED BY <4>1 DEF NeedsTree, Accepted
    <3>3. pc' = IF NeedsTree(req) THEN "tree" ELSE "decide"
      BY <1>4 DEF Receive, Goto
    <3> QED BY <3>2, <3>3
  <2> QED BY <2>1 DEF HeldInv
<1>5. CASE ReadTree /\ Watch
  <2>1. \/ pc' = "done"
        \/ /\ pc = "tree" /\ pc' = "decide" /\ seen' = tree
           /\ UNCHANGED <<tree, db>>
    BY <1>5 DEF ReadTree, Goto, world
  <2>2. CASE pc' = "decide"
    <3>1. held' = OwnedPanes(seen', db')
      BY <1>5, <2>1, <2>2 DEF Watch
    <3>2. WasOwned(db)'
      BY <3>1, OwnedPane DEF WasOwned
    <3> QED BY <2>2, <3>2 DEF HeldInv
  <2> QED BY <1>2, <1>5, <2>1, <2>2
<1>6. CASE Decide /\ Watch
  <2>1. /\ pc = "decide" /\ pc' = "drop" /\ seenDb' = db
        /\ UNCHANGED <<req, seen>>
    BY <1>6 DEF Decide, Goto, world
  <2>2. UNCHANGED held
    BY <1>6, <2>1 DEF Watch
  <2> QED BY <2>1, <2>2 DEF HeldInv, WasOwned
<1>7. CASE (Drop \/ Decided \/ RewriteCall) /\ Watch
  <2>1. /\ pc \in {"drop", "rewrite"} /\ pc' # "decide"
        /\ UNCHANGED <<req, seen, seenDb, asked>>
    BY <1>7 DEF Drop, Decided, RewriteCall, Goto, world, look
  <2>2. UNCHANGED held
    BY <1>7, <2>1 DEF Watch
  <2> QED BY <2>1, <2>2 DEF HeldInv, WasOwned
<1>8. CASE (Answer \/ LookAgain \/ Exec) /\ Watch
  <2>1. pc' \in {"look", "check", "done"}
    BY <1>8 DEF Answer, LookAgain, Exec, Goto
  <2> QED BY <2>1 DEF HeldInv
<1>9. CASE (Check \/ Grant) /\ Watch
  <2>1. /\ pc \in {"check", "grant"} /\ UNCHANGED asked
        /\ pc' \in {"grant", "rewrite", "done"}
    BY <1>9 DEF Check, Grant, Goto
  <2>2. asked' # "none"
    BY <2>1 DEF Inv
  <2> QED BY <2>1, <2>2 DEF HeldInv
<1> QED
  BY <1>1, <1>3, <1>4, <1>5, <1>6, <1>7, <1>8, <1>9 DEF Next, Call

\* A call that reaches a pane needs the tree.
LEMMA ReachNeedsTree ==
  ASSUME NEW t, NEW d, NEW r, NEW sized,
         NEW p \in Touched(t, Rewrite(r, Authorize(t, d, r), sized))
  PROVE  NeedsTree(r) /\ p = <<p[1], p[2]>> /\ p[1] \in DOMAIN t
<1> DEFINE dec == Authorize(t, d, r)
           go == Rewrite(r, dec, sized)
<1>1. go.targets = {sizePage(r, sized, u) : u \in dec.targets}
  BY DEF Rewrite
<1> HIDE DEF go
<1>2. PICK u \in go.targets : \E id \in PanesOf(t, go.by, u) : p = <<u.row, id>>
  BY DEF Touched, go
<1>3. u.row \in DOMAIN t
  BY <1>2 DEF PanesOf
<1>4. NeedsTree(r)
  <2>1. refuse.targets = {} /\ Allow({}, "none").targets = {}
    BY DEF refuse, Allow, Decision
  <2>2. ~NeedsTree(r) => dec.targets = {}
    BY <2>1 DEF Authorize
  <2> QED BY <1>1, <1>2, <2>2
<1> QED BY <1>2, <1>3, <1>4

\* Every pane a call reaches as the host's own was that at one moment between
\* the look at the tree and the look at the bindings (policy.go, load).
THEOREM ReachedWasOwned == Spec => []OwnedAtOnce
<1>1. Inv /\ HeldInv => OwnedAtOnce
  <2> SUFFICES ASSUME Inv, HeldInv, pc = "exec", ~decision.granted, asked = "none",
                      NEW p \in Touched(seen, run)
               PROVE  p \in held
    BY DEF OwnedAtOnce
  <2>1. PICK sized \in BOOLEAN : run = Rewrite(req, decision, sized)
    BY DEF Inv
  <2>2. decision = Authorize(seen, seenDb, req)
    BY DEF Inv
  <2>3. NeedsTree(req) /\ p = <<p[1], p[2]>> /\ p[1] \in DOMAIN seen
    BY <2>1, <2>2, ReachNeedsTree
  <2>4. Owned(seen, seenDb, p[1], p[2])
    BY InvHost DEF OwnPanesOnly
  <2> QED BY <2>3, <2>4 DEF HeldInv, WasOwned
<1>2. Init => HeldInv
  BY DEF Init, HeldInv
<1> QED BY <1>1, <1>2, InitInv, StepInv, HeldInvStep, PTL DEF Spec
=============================================================================
