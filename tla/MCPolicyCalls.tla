---------------------------- MODULE MCPolicyCalls ----------------------------
(***************************************************************************)
(* PolicyCalls for TLC: five worlds of two rows, and one call of each kind *)
(* that the policy treats differently.                                     *)
(***************************************************************************)
EXTENDS PolicyCalls

CONSTANTS h1, h2, n1, n2, w1, w2, p1, p2, p3, p4

MCGrants == [row : {w2}, paneId : {p2}]

Surf(id) == [id |-> id, visible |-> TRUE]
One(id, program) ==
  [surf |-> [k \in {"left"} |-> Surf(id)], split |-> FALSE,
   runs |-> [k \in Sides |-> IF k = "left" THEN program ELSE Shell]]
Two(left, l, right, r) ==
  [surf |-> [k \in Sides |-> Surf(IF k = "left" THEN left ELSE right)], split |-> TRUE,
   runs |-> [k \in Sides |-> IF k = "left" THEN l ELSE r]]
Scratch(id, program, scratch) ==
  [One(id, program) EXCEPT !.surf =
     [k \in {"left", "scratch"} |-> Surf(IF k = "left" THEN id ELSE scratch)]]
Hidden(id, program) ==
  [One(id, program) EXCEPT !.split = TRUE, !.surf =
     [k \in Sides |-> IF k = "left" THEN Surf(id) ELSE [id |-> NoToken, visible |-> FALSE]]]

Rowed(a, b) == [r \in {w1, w2} |-> IF r = w1 THEN a ELSE b]
Bound(h, n, w, slot, id, grants) ==
  [host |-> h, name |-> n, row |-> w, pane |-> slot, paneId |-> id, grants |-> grants]

\* A caller with a grant for an agent next to a pane of its own; a row of two
\* panes of the host and a detached one; a scratch; a split that is hidden; a pane in which another
\* host's session is about to be bound.
MCWorlds == {
  [tree |-> Rowed(One(p1, Open(h1, n1)), Two(p2, Agent, p3, Open(h1, n2))),
   db |-> {Bound(h1, n1, w1, "left", p1, MCGrants), Bound(h1, n2, w2, "right", p3, {})}],
  [tree |-> Rowed(One(p3, Open(h1, n1)),
                  Two(p1, Open(h1, n2), p2, Open(h1, NoName))),
   db |-> {Bound(h1, n1, w1, "left", p3, {}), Bound(h1, n2, w2, "left", p1, {}),
           Bound(h2, n1, w2, "right", p2, {})}],
  [tree |-> Rowed(One(p1, Open(h1, n1)), Scratch(p2, Agent, p3)),
   db |-> {Bound(h1, n1, w1, "left", p1, {}), Bound(h1, n2, w2, "right", p4, {})}],
  [tree |-> Rowed(Hidden(p1, Open(h1, n1)), One(p2, Shell)),
   db |-> {Bound(h1, n1, w1, "left", p1, {}), Bound(h1, n2, w2, "left", p2, {})}],
  [tree |-> Rowed(One(p1, Open(h1, n1)), One(p2, Open(h2, n1))),
   db |-> {Bound(h1, n1, w1, "left", p1, {}), Bound(h1, n2, w2, "left", p2, {})}]}

Msg(words, opts) ==
  [words |-> words, opts |-> opts, self |-> [row |-> NoRow, pane |-> NoToken], clean |-> TRUE]
Overlay == <<"session", "overlay", "open">>
t2 == <<"target", w2>>

MCCalls == {
  Msg(<<"tree">>, {}), Msg(<<"window", "list">>, {}),
  Msg(<<"session", "text">>, {<<"nope", "">>}), Msg(<<"session", "text">>, {<<"help", "">>}),
  Msg(<<"notify", "m">>, {}), Msg(<<"notify", "m">>, {t2}),
  Msg(<<"session", "text">>, {}), Msg(<<"session", "text">>, {t2}),
  Msg(<<"session", "text">>, {t2, <<"pane", "right">>}),
  Msg(<<"session", "overlay", "text">>, {t2, <<"pane", "left">>}),
  Msg(<<"session", "type", "x">>, {t2}),
  Msg(<<"session", "type", "x">>, {t2, <<"pane-id", p2>>}),
  [Msg(<<"session", "type", "x">>, {t2}) EXCEPT !.clean = FALSE],
  [Msg(<<"session", "type">>, {<<"stdin", "">>, t2}) EXCEPT !.self.row = w2],
  [Msg(<<"session", "text">>, {t2, <<"pane-id", p4>>}) EXCEPT !.self.pane = p4],
  Msg(<<"session", "status", "active">>, {t2, <<"pane", "split">>}),
  Msg(<<"session", "hud", "close">>, {t2}), Msg(<<"session", "hud", "note">>, {}),
  Msg(Overlay, {t2, <<"html", "@0">>, <<"block", "">>, <<"pane", "left">>}),
  Msg(Overlay, {<<"url", "http">>, <<"size", "">>, <<"block", "">>, <<"pane", "left">>}),
  Msg(Overlay, {<<"url", "http">>, <<"html", "@0">>}),
  Msg(Overlay \o <<"top">>, {t2, <<"pane", "right">>, <<"block", "">>}),
  Msg(<<"session", "close">>, {t2, <<"target", w1>>}),
  Msg(<<"session", "rename", "x">>, {t2, <<"target", w1>>}),
  Msg(<<"session", "restore", "top">>, {t2, <<"pane", "right">>}),
  Msg(<<"session", "restore">>, {})}
=============================================================================
