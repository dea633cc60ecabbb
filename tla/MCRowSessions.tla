--------------------------- MODULE MCRowSessions ----------------------------
(* RowSessions for TLC: a row on the session work that can be split, a     *)
(* second row beside it, and room for the rows the host makes.             *)
EXTENDS RowSessions, TLC

MCNames == {"work", "work-2", "work-3", "job", "job-2"}
MCRowOf == ("p1" :> "w1") @@ ("p2" :> "w1") @@ ("q1" :> "w2") @@ ("q2" :> "w2") @@ ("r1" :> "w3")
MCSlotOf == [p \in Tokens |-> IF p \in {"p2", "q2"} THEN "right" ELSE "left"]
MCChildName ==
  [n \in MCNames |-> IF n = "work" THEN "work-2" ELSE IF n = "job" THEN "job-2" ELSE "work-3"]
MCGenerated ==
  [n \in MCNames |-> IF n = "work" THEN <<"work-2", "work-3">>
                     ELSE IF n = "job" THEN <<"job-2">> ELSE <<>>]

Never ==
  [open |-> 0, show |-> 0, close |-> 0, new |-> 0, end |-> 0, kill |-> 0, exit |-> 0,
   detach |-> 0, glitch |-> 0, stuck |-> 0, cut |-> 0,
   grant |-> 0]

\* A session that runs: started in pane p, with number i.
Runs(agr, parent, p, i) == [agr |-> agr, parent |-> parent, by |-> p, no |-> i]

\* p1 shows work; the panes in shells are at a prompt, those in unborn can still come.
AtWork(m, shells, unborn, may) ==
  [mux |-> m, sess |-> "work" :> Runs(TRUE, NoName, "p1", 0), births |-> 1,
   db |-> {BindingOf("p1", "work")},
   pane |-> [p \in Tokens |->
     IF p \in {"p1"} \cup shells THEN "shown" ELSE IF p \in unborn THEN "unborn" ELSE "gone"],
   on |-> {"p1"}, show |-> [p \in Tokens |-> "work"], left |-> may]

\* The same with a side pane that ran in it, and perhaps without work itself.
WithChild(m, both, may) ==
  LET child == "work-2" :> Runs(TRUE, "work", "p2", 1)
      at == AtWork(m, {}, {}, may) IN
  [at EXCEPT !.sess = IF both THEN @ @@ child ELSE child,
             !.births = 2, !.on = IF both THEN @ ELSE {}]

MCScenarios ==
  { AtWork("tmux", {}, {"p2"}, [Never EXCEPT !.show = 2, !.end = 1, !.glitch = 1]),
    AtWork("tmux", {}, {"p2"}, [Never EXCEPT !.show = 1, !.end = 1, !.detach = 1, !.exit = 1]),
    AtWork("zmx", {}, {"p2"}, [Never EXCEPT !.show = 1, !.end = 1, !.cut = 1]),
    AtWork("tmux", {"q1"}, {}, [Never EXCEPT !.open = 2, !.end = 1, !.kill = 1]),
    AtWork("tmux", {}, {"p2"}, [Never EXCEPT !.show = 1, !.close = 1]),
    AtWork("tmux", {"q1"}, {}, [Never EXCEPT !.open = 2, !.detach = 1, !.grant = 2]),
    AtWork("zmx", {"q1"}, {}, [Never EXCEPT !.open = 1, !.exit = 1]),
    AtWork("tmux", {}, {"q1"}, [Never EXCEPT !.new = 1, !.glitch = 1]),
    AtWork("tmux", {"q1"}, {"p2", "q2"}, [Never EXCEPT !.show = 3]),
    AtWork("tmux", {}, {"q1", "r1"}, [Never EXCEPT !.new = 2, !.cut = 1, !.close = 1]),
    WithChild("tmux", FALSE, [Never EXCEPT !.kill = 1, !.end = 1, !.glitch = 1]),
    WithChild("tmux", TRUE, [Never EXCEPT !.kill = 1, !.end = 1, !.stuck = 1]),
    WithChild("zmx", TRUE, [Never EXCEPT !.kill = 1, !.end = 1, !.glitch = 1]) }

\* The user has a session of their own on the host, named work-2.
MCForeign ==
  LET at == AtWork("tmux", {}, {"q1"}, [Never EXCEPT !.new = 1]) IN
  {[at EXCEPT !.sess = @ @@ ("work-2" :> Runs(FALSE, NoName, NoToken, 1)), !.births = 2]}

\* The host has made a row of its own on work-2 when the first row is split.
MCNeighbour ==
  LET at == AtWork("tmux", {"q1"}, {"p2"}, [Never EXCEPT !.show = 1, !.end = 1]) IN
  {[at EXCEPT !.sess = @ @@ ("work-2" :> Runs(TRUE, NoName, "q1", 1)), !.births = 2,
              !.db = @ \cup {BindingOf("q1", "work-2")},
              !.on = {"p1", "q1"}, !.show = [@ EXCEPT !["q1"] = "work-2"]]}

\* A split, and somebody who types, or ends the row, in a hurry.
MCHurry == {AtWork("tmux", {}, {"p2"}, [Never EXCEPT !.show = 1, !.open = 1, !.end = 1])}

MCStuck == {WithChild("tmux", TRUE, [Never EXCEPT !.kill = 1, !.stuck = 1])}
=============================================================================
