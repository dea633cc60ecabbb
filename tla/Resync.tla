------------------------------- MODULE Resync -------------------------------
(***************************************************************************)
(* What the daemon does when a bridge changes state: the watcher of each   *)
(* host (hostStateChanged), the recovery after agterm was away             *)
(* (resyncAll), and the resync they share, which runs beside the relayed   *)
(* events it may overtake.  A finish is shown once: leftUp, on disk, tells *)
(* the finishes shown before a bridge went down from the ones missed.      *)
(*                                                                         *)
(* The supervisor is reduced to what its changes say (see Supervisor), and *)
(* a start and a stop of a host to what a watcher sees of them (see        *)
(* HostLifecycle).  The agents, their hooks, ssh, the network, agterm and  *)
(* the user are the environment.  No row closes here (see BoundHosts).     *)
(***************************************************************************)
EXTENDS Integers, Sequences

CONSTANTS
  Hosts,
  Panes,         \* the bindings: panes, each of a row and a host
  RowOf, HostOf, \* functions over Panes
  Recovery,      \* the goroutine of recoverAgterm
  Slack,         \* leftUpSlack, in ticks of the clock
  LinkSurvives,  \* may a tunnel, or its dialing, outlive an outage?
  SlowDials,     \* may ssh dial for longer than connectionPromotionDelay?
  SshHangs,      \* may an ssh caught by an outage wait for ever?
  QuitsAgain,    \* may agterm quit while the recovery resyncs the hosts?
  MaxTime,       \* bounds: the clock, how far a supervisor gets ahead of its
  MaxChanges,    \* watcher, and how often the environment acts
  MaxLevels, MaxOutages, MaxQuits, MaxStops, MaxKills

ASSUME PaneAssumption ==
  /\ HostOf \in [Panes -> Hosts] /\ DOMAIN RowOf = Panes
  /\ \A h \in Hosts : \E p \in Panes : HostOf[p] = h
  /\ Recovery \notin Hosts
ASSUME TimeAssumption == Slack \in Nat /\ MaxTime \in Nat
ASSUME SwitchAssumption == {LinkSurvives, SlowDials, SshHangs, QuitsAgain} \subseteq BOOLEAN

VARIABLES
  now, left,   \* the clock; what is left of the bounds on the environment
  level,       \* what the host's multiplexer records: the last level and its time
  relay,       \* the hook's message on its way to the Mac
  missed,      \* the last level has not reached agterm: its message was lost
  shown, seen, \* the level agterm shows; the last finish the user has visited
  hud,         \* the rows that show a reconnecting HUD
  agterm,      \* agterm runs
  net,         \* the network to a host works
  link,        \* the tunnel's ssh: "none", "dialing", "forwarded", "dead"
  bridge,      \* the supervisor's state
  changes,     \* its channel; "after" is the quitUp of that moment
  quitUp,      \* when a bridge last left "up"; a kill, or a stop that
               \* overtakes the watcher, forgets what was not recorded
  down,        \* a bridge that was up is lost, and the host was not stopped
  phase,       \* the runtime: "off", "on", "marking" (stopHost), "canceled"
  reported,    \* runtime.state
  leftUp,      \* the file markLeftUp writes, 0: there is none
  job,         \* what each watcher, and the recovery, is doing
  queue        \* the hosts resyncAll has still to look at

Threads == Hosts \cup {Recovery}
Rows == {RowOf[p] : p \in Panes}
States == {"down", "connecting", "up"}

paneVars == <<level, relay, missed, shown, seen>>
linkVars == <<link, bridge, changes, quitUp, down>>
hostVars == <<phase, reported, leftUp>>
vars == <<now, left, paneVars, hud, agterm, net, linkVars, hostVars, job, queue>>

NoLevel == [state |-> "none", at |-> 0, no |-> 0]
Idle == [pc |-> "idle", host |-> CHOOSE h \in Hosts : TRUE, rows |-> {},
         got |-> <<>>, read |-> 0, pushes |-> {}, since |-> 0]

Init ==
  /\ now = 1
  /\ left = [levels |-> MaxLevels, outages |-> MaxOutages, quits |-> MaxQuits,
             stops |-> MaxStops, kills |-> MaxKills]
  /\ level = [p \in Panes |-> NoLevel] /\ relay = [p \in Panes |-> NoLevel]
  /\ missed = [p \in Panes |-> FALSE]
  /\ shown = [p \in Panes |-> NoLevel] /\ seen = [p \in Panes |-> 0]
  /\ hud = {} /\ agterm = TRUE
  /\ net = [h \in Hosts |-> TRUE]
  /\ link = [h \in Hosts |-> "none"] /\ bridge = [h \in Hosts |-> "down"]
  /\ changes = [h \in Hosts |-> <<>>]
  /\ quitUp = [h \in Hosts |-> 0] /\ down = [h \in Hosts |-> FALSE]
  /\ phase = [h \in Hosts |-> "on"] /\ reported = [h \in Hosts |-> "down"]
  /\ leftUp = [h \in Hosts |-> 0]
  /\ job = [t \in Threads |-> Idle] /\ queue = {}
-----------------------------------------------------------------------------
(* Helpers.                                                                *)

PanesOf(h) == {p \in Panes : HostOf[p] = h}
boundRows(h) == {RowOf[p] : p \in PanesOf(h)}

Spend(what) == left[what] > 0 /\ left' = [left EXCEPT ![what] = @ - 1]

\* A host's context is canceled: what its watcher calls fails.
Canceled(t) == t \in Hosts /\ phase[t] = "canceled"

\* A handler has ended: a watcher waits, resyncAll goes to the next host.
Done(t) == job' = [job EXCEPT ![t] = [Idle EXCEPT
                     !.pc = IF t = Recovery THEN "next" ELSE "idle"]]

\* setState, with a channel that has room (see Supervisor).
SetState(h, s) ==
  /\ Len(changes[h]) < MaxChanges
  /\ bridge' = [bridge EXCEPT ![h] = s]
  /\ changes' = IF s = bridge[h] THEN changes ELSE
                [changes EXCEPT ![h] = Append(@, [state |-> s, after |-> quitUp[h]])]
  /\ quitUp' = IF bridge[h] = "up" /\ s # "up" /\ phase[h] # "canceled"
                 THEN [quitUp EXCEPT ![h] = now] ELSE quitUp
  /\ down' = [down EXCEPT ![h] =
                IF s = "up" THEN FALSE ELSE @ \/ (bridge[h] = "up" /\ phase[h] = "on")]

\* finishedSince: the age was taken on the host when it read the level.
finishedSince(at, read, mark) == now - (read - at) >= mark - Slack

\* Broken: the slack is added to the record.
markLeftUpLate(h) == leftUp' = [leftUp EXCEPT ![h] = now + Slack]

markLeftUp(h) == leftUp' = [leftUp EXCEPT ![h] = now]

\* Does a resync of h push this level?
Pushes(h, l, read) ==
  /\ l.state # "none"
  /\ \/ l.state # "completed"
     \/ leftUp[h] = 0 \/ phase[h] = "off"
     \/ finishedSince(l.at, read, leftUp[h])
-----------------------------------------------------------------------------
(* The watcher: watchHostStates and hostStateChanged.                      *)

Resyncs(h, c) == [Idle EXCEPT !.pc = "close", !.host = h, !.rows = boundRows(h),
                              !.since = c.after]
Reconnects(h) == [Idle EXCEPT !.pc = "open", !.host = h, !.rows = boundRows(h)]

\* Broken: only a bridge that was down is resynced, not one that was connecting.
HandlerFromDown(h, c) ==
  CASE c.state = "up" /\ reported[h] = "down" -> Resyncs(h, c)
    [] c.state = "down" /\ reported[h] = "up" -> Reconnects(h)
    [] OTHER -> Idle

\* Broken: the previous state is read after it was overwritten.
HandlerNoPrevious(h, c) ==
  CASE c.state = "up" -> Resyncs(h, c)
    [] c.state = "down" /\ reported'[h] = "up" -> Reconnects(h)
    [] OTHER -> Idle

\* What a change calls for; "connecting" is reported and calls for nothing.
Handler(h, c) ==
  CASE c.state = "up" -> Resyncs(h, c)
    [] c.state = "down" /\ reported[h] = "up" -> Reconnects(h)
    [] OTHER -> Idle

\* runtime.state under d.mu, then markLeftUp, then what the change calls for.
hostStateChanged(h) ==
  /\ phase[h] # "off" /\ job[h].pc = "idle" /\ changes[h] # <<>>
  /\ changes' = [changes EXCEPT ![h] = Tail(@)]
  /\ LET c == Head(changes[h]) IN
       \/ c.state = reported[h] /\ UNCHANGED <<reported, leftUp, job>>
       \/ /\ c.state # reported[h]
          /\ reported' = [reported EXCEPT ![h] = c.state]
          /\ IF reported[h] = "up" THEN markLeftUp(h) ELSE UNCHANGED leftUp
          /\ job' = [job EXCEPT ![h] = Handler(h, c)]
  /\ UNCHANGED <<now, left, paneVars, hud, agterm, net, link, bridge, quitUp, down,
                 phase, queue>>
-----------------------------------------------------------------------------
(* showReconnecting and resyncHost, by a watcher or by the recovery.       *)

showReconnecting(t) ==
  /\ job[t].pc = "open"
  /\ \E r \in job[t].rows :
       /\ hud' = IF agterm /\ ~Canceled(t) THEN hud \cup {r} ELSE hud
       /\ IF job[t].rows = {r} THEN Done(t)
          ELSE job' = [job EXCEPT ![t].rows = @ \ {r}]
  /\ UNCHANGED <<now, left, paneVars, agterm, net, linkVars, hostVars, queue>>

resyncHuds(t) ==
  /\ job[t].pc = "close"
  /\ \E r \in job[t].rows :
       /\ hud' = IF agterm /\ ~Canceled(t) THEN hud \ {r} ELSE hud
       /\ job' = [job EXCEPT ![t].rows = @ \ {r},
                             ![t].pc = IF job[t].rows = {r} THEN "ask" ELSE "close"]
  /\ UNCHANGED <<now, left, paneVars, agterm, net, linkVars, hostVars, queue>>

\* `agr sessions` runs on the host.
Sessions(t) ==
  /\ job[t].pc = "ask" /\ net[job[t].host] /\ ~Canceled(t)
  /\ job' = [job EXCEPT ![t].pc = "answer", ![t].read = now,
                        ![t].got = [p \in PanesOf(job[t].host) |-> level[p]]]
  /\ UNCHANGED <<now, left, paneVars, hud, agterm, net, linkVars, hostVars, queue>>

\* Its ssh fails, or is killed with the context: nothing retries it.
SessionsFails(t) ==
  /\ job[t].pc \in {"ask", "answer", "hung"}
  /\ Canceled(t) \/ (job[t].pc # "hung" /\ ~net[job[t].host])
  /\ Done(t)
  /\ UNCHANGED <<now, left, paneVars, hud, agterm, net, linkVars, hostVars, queue>>

\* No ServerAliveInterval: an answer that can no longer come is waited for.
SessionsHangs(t) ==
  /\ SshHangs /\ job[t].pc \in {"ask", "answer"} /\ ~net[job[t].host]
  /\ job' = [job EXCEPT ![t].pc = "hung"]
  /\ UNCHANGED <<now, left, paneVars, hud, agterm, net, linkVars, hostVars, queue>>

\* The answer is back: which of the levels are to be pushed.
resyncDecides(t) ==
  /\ job[t].pc = "answer"
  /\ LET got == job[t].got IN
       job' = [job EXCEPT ![t].pc = "push", ![t].pushes =
                 {p \in DOMAIN got : Pushes(job[t].host, got[p], job[t].read)}]
  /\ UNCHANGED <<now, left, paneVars, hud, agterm, net, linkVars, hostVars, queue>>

\* beginAgtermRecovery, when agterm refuses a connection.
Recovers(jobs) ==
  IF agterm \/ jobs[Recovery].pc # "idle" THEN jobs
  ELSE [jobs EXCEPT ![Recovery].pc = "wait"]

Show(p, l) == shown' = IF agterm THEN [shown EXCEPT ![p] = l] ELSE shown

resyncPush(t) ==
  /\ job[t].pc = "push"
  /\ \E p \in job[t].pushes :
       LET l == job[t].got[p]
           rest == [job EXCEPT ![t].pushes = @ \ {p}]
       IN IF Canceled(t) THEN job' = rest /\ UNCHANGED <<shown, missed>>
          ELSE /\ Show(p, l)
               /\ missed' = [missed EXCEPT ![p] = @ /\ ~(agterm /\ l.no = level[p].no)]
               /\ job' = Recovers(rest)
  /\ UNCHANGED <<now, left, level, relay, seen, hud, agterm, net, linkVars, hostVars,
                 queue>>

resyncDone(t) ==
  /\ job[t].pc = "push" /\ job[t].pushes = {}
  /\ Done(t)
  /\ UNCHANGED <<now, left, paneVars, hud, agterm, net, linkVars, hostVars, queue>>
-----------------------------------------------------------------------------
(* recoverAgterm and resyncAll.                                            *)

\* The event loop's subscription is refused too.
beginAgtermRecovery ==
  /\ ~agterm /\ job[Recovery].pc = "idle"
  /\ job' = Recovers(job)
  /\ UNCHANGED <<now, left, paneVars, hud, agterm, net, linkVars, hostVars, queue>>

\* The handshake works: the hosts, under d.mu.
resyncAll ==
  /\ job[Recovery].pc = "wait" /\ agterm
  /\ queue' = {h \in Hosts : phase[h] # "off"}
  /\ job' = [job EXCEPT ![Recovery].pc = "next"]
  /\ UNCHANGED <<now, left, paneVars, hud, agterm, net, linkVars, hostVars>>

\* The state of the next of them, under d.mu.
resyncNext ==
  /\ job[Recovery].pc = "next" /\ queue # {}
  /\ \E h \in queue :
       /\ queue' = queue \ {h}
       /\ job' = IF phase[h] = "off" THEN job
                 ELSE [job EXCEPT ![Recovery] = [Idle EXCEPT
                         !.pc = IF reported[h] = "up" THEN "close" ELSE "open",
                         !.host = h, !.rows = boundRows(h), !.since = quitUp[h]]]
  /\ UNCHANGED <<now, left, paneVars, hud, agterm, net, linkVars, hostVars>>

recoveryEnds ==
  /\ job[Recovery].pc = "next" /\ queue = {}
  /\ job' = [job EXCEPT ![Recovery] = Idle]
  /\ UNCHANGED <<now, left, paneVars, hud, agterm, net, linkVars, hostVars, queue>>
-----------------------------------------------------------------------------
(* startHost, stopHost and the end of the daemon, as a watcher sees them.  *)

startHost(h) ==
  /\ phase[h] = "off"
  /\ phase' = [phase EXCEPT ![h] = "on"]
  /\ UNCHANGED <<now, left, paneVars, hud, agterm, net, linkVars, reported, leftUp, job,
                 queue>>

stopHost(h) ==
  /\ phase[h] = "on" /\ Spend("stops")
  /\ phase' = [phase EXCEPT ![h] = IF reported[h] = "up" THEN "marking" ELSE "canceled"]
  /\ quitUp' = [quitUp EXCEPT ![h] = IF reported[h] = "up" THEN @ ELSE leftUp[h]]
  /\ down' = [down EXCEPT ![h] = FALSE]
  /\ UNCHANGED <<now, paneVars, hud, agterm, net, link, bridge, changes, reported,
                 leftUp, job, queue>>

\* Broken: a stop records nothing.
stopHostForgets(h) ==
  /\ phase[h] = "marking"
  /\ quitUp' = [quitUp EXCEPT ![h] = now]
  /\ phase' = [phase EXCEPT ![h] = "canceled"]
  /\ UNCHANGED <<now, left, paneVars, hud, agterm, net, link, bridge, changes, down,
                 reported, leftUp, job, queue>>

stopHostMarks(h) ==
  /\ phase[h] = "marking"
  /\ markLeftUp(h) /\ quitUp' = [quitUp EXCEPT ![h] = now]
  /\ phase' = [phase EXCEPT ![h] = "canceled"]
  /\ UNCHANGED <<now, left, paneVars, hud, agterm, net, link, bridge, changes, down,
                 reported, job, queue>>

\* The goroutines of the host have left, and the runtime goes.
stopHostEnds(h) ==
  /\ phase[h] = "canceled" /\ link[h] = "none" /\ job[h].pc = "idle"
  /\ phase' = [phase EXCEPT ![h] = "off"]
  /\ reported' = [reported EXCEPT ![h] = "down"]
  /\ changes' = [changes EXCEPT ![h] = <<>>]
  /\ UNCHANGED <<now, left, paneVars, hud, agterm, net, link, bridge, quitUp, down,
                 leftUp, job, queue>>

\* The daemon is killed: nothing is recorded.
Kill ==
  /\ Spend("kills")
  /\ phase' = [h \in Hosts |-> "off"] /\ reported' = [h \in Hosts |-> "down"]
  /\ link' = [h \in Hosts |-> "none"] /\ bridge' = [h \in Hosts |-> "down"]
  /\ changes' = [h \in Hosts |-> <<>>] /\ down' = [h \in Hosts |-> FALSE]
  /\ job' = [t \in Threads |-> Idle] /\ queue' = {}
  /\ quitUp' = leftUp
  /\ UNCHANGED <<now, paneVars, hud, agterm, net, leftUp>>
-----------------------------------------------------------------------------
(* The supervisor and its ssh.                                             *)

Dial(h) ==
  /\ phase[h] \in {"on", "marking"} /\ link[h] = "none"
  /\ link' = [link EXCEPT ![h] = IF net[h] \/ LinkSurvives THEN "dialing" ELSE "dead"]
  /\ SetState(h, "connecting")
  /\ UNCHANGED <<now, left, paneVars, hud, agterm, net, hostVars, job, queue>>

Forward(h) ==
  /\ link[h] = "dialing" /\ net[h]
  /\ link' = [link EXCEPT ![h] = "forwarded"]
  /\ UNCHANGED <<now, left, paneVars, hud, agterm, net, bridge, changes, quitUp, down,
                 hostVars, job, queue>>

\* The promotion timer of a process that has not exited, or a relayed event.
Promote(h) ==
  /\ bridge[h] = "connecting"
  /\ link[h] \in {"forwarded", "dead"} \/ (SlowDials /\ link[h] = "dialing")
  /\ SetState(h, "up")
  /\ UNCHANGED <<now, left, paneVars, hud, agterm, net, link, hostVars, job, queue>>

\* ssh gives up on a network that is gone, or is stopped with its host.
Exit(h) ==
  /\ link[h] # "none" /\ (~net[h] \/ link[h] = "dead" \/ Canceled(h))
  /\ link' = [link EXCEPT ![h] = "none"]
  /\ SetState(h, "down")
  /\ UNCHANGED <<now, left, paneVars, hud, agterm, net, hostVars, job, queue>>
-----------------------------------------------------------------------------
(* The agents, their hooks, the network, agterm and the user.              *)

Tick ==
  /\ now < MaxTime /\ now' = now + 1
  /\ UNCHANGED <<left, paneVars, hud, agterm, net, linkVars, hostVars, job, queue>>

\* A hook records the level, and relays it; the hooks of an agent take turns.
SetLevel(p) ==
  /\ relay[p] = NoLevel /\ Spend("levels")
  /\ \E s \in {"active", "completed"} \ {level[p].state} :
       level' = [level EXCEPT ![p] = [state |-> s, at |-> now, no |-> @.no + 1]]
  /\ relay' = [relay EXCEPT ![p] = level'[p]]
  /\ missed' = [missed EXCEPT ![p] = FALSE]
  /\ UNCHANGED <<now, shown, seen, hud, agterm, net, linkVars, hostVars, job, queue>>

Delivered(h) == link[h] = "forwarded" /\ net[h] /\ ~Canceled(h)

\* The receiver routes the event to the pane's row.
Relayed(p) ==
  /\ relay[p] # NoLevel /\ Delivered(HostOf[p])
  /\ Show(p, relay[p])
  /\ missed' = [missed EXCEPT ![p] = ~agterm]
  /\ relay' = [relay EXCEPT ![p] = NoLevel]
  /\ job' = Recovers(job)
  /\ UNCHANGED <<now, left, level, seen, hud, agterm, net, linkVars, hostVars, queue>>

RelayLost(p) ==
  /\ relay[p] # NoLevel /\ ~Delivered(HostOf[p])
  /\ missed' = [missed EXCEPT ![p] = shown[p].no # relay[p].no /\ seen[p] # relay[p].no]
  /\ relay' = [relay EXCEPT ![p] = NoLevel]
  /\ UNCHANGED <<now, left, level, shown, seen, hud, agterm, net, linkVars, hostVars,
                 job, queue>>

\* The user visits a row that finished, and the finish clears.
Visit(p) ==
  /\ agterm /\ shown[p].state = "completed"
  /\ seen' = [seen EXCEPT ![p] = shown[p].no]
  /\ shown' = [shown EXCEPT ![p].state = "none"]
  /\ UNCHANGED <<now, left, level, relay, missed, hud, agterm, net, linkVars, hostVars,
                 job, queue>>

\* What has a connection loses it, unless the outage is short.
Outage(h) ==
  /\ net[h] /\ Spend("outages")
  /\ net' = [net EXCEPT ![h] = FALSE]
  /\ \/ link' = [link EXCEPT ![h] = IF @ = "none" THEN @ ELSE "dead"]
     \/ LinkSurvives /\ link[h] # "none" /\ UNCHANGED link
  /\ UNCHANGED <<now, paneVars, hud, agterm, bridge, changes, quitUp, down, hostVars,
                 job, queue>>

NetReturns(h) ==
  /\ ~net[h]
  /\ net' = [net EXCEPT ![h] = TRUE]
  /\ UNCHANGED <<now, left, paneVars, hud, agterm, linkVars, hostVars, job, queue>>

\* agterm shows neither HUDs nor levels when it comes back.
AgtermQuits ==
  /\ agterm /\ Spend("quits")
  /\ QuitsAgain \/ job[Recovery].pc \in {"idle", "wait"}
  /\ agterm' = FALSE
  /\ hud' = {} /\ shown' = [p \in Panes |-> [shown[p] EXCEPT !.state = "none"]]
  /\ UNCHANGED <<now, level, relay, missed, seen, net, linkVars, hostVars, job, queue>>

AgtermReturns ==
  /\ ~agterm
  /\ agterm' = TRUE
  /\ UNCHANGED <<now, left, paneVars, hud, net, linkVars, hostVars, job, queue>>
-----------------------------------------------------------------------------
resyncHost(t) ==
  \/ resyncHuds(t) \/ Sessions(t) \/ SessionsFails(t) \/ SessionsHangs(t)
  \/ resyncDecides(t) \/ resyncPush(t) \/ resyncDone(t)

recoverAgterm == beginAgtermRecovery \/ resyncAll \/ resyncNext \/ recoveryEnds

Supervise(h) == Dial(h) \/ Forward(h) \/ Promote(h) \/ Exit(h)

Next ==
  \/ \E h \in Hosts :
       \/ hostStateChanged(h) \/ Supervise(h)
       \/ startHost(h) \/ stopHost(h) \/ stopHostMarks(h) \/ stopHostEnds(h)
       \/ Outage(h) \/ NetReturns(h)
  \/ \E t \in Threads : showReconnecting(t) \/ resyncHost(t)
  \/ recoverAgterm
  \/ \E p \in Panes : SetLevel(p) \/ Relayed(p) \/ RelayLost(p) \/ Visit(p)
  \/ Tick \/ Kill \/ AgtermQuits \/ AgtermReturns

Spec == Init /\ [][Next]_vars

\* The daemon's goroutines run, a process exits when its connection is dead and
\* an ssh call ends; the network comes back.  Nothing is assumed of the clock,
\* the agents and the user.
Fairness ==
  /\ \A h \in Hosts :
       /\ WF_vars(hostStateChanged(h)) /\ WF_vars(Dial(h)) /\ WF_vars(Forward(h))
       /\ WF_vars(Promote(h)) /\ WF_vars(Exit(h)) /\ WF_vars(NetReturns(h))
  /\ WF_vars(resyncAll \/ resyncNext \/ recoveryEnds) /\ WF_vars(AgtermReturns)
  /\ \A t \in Threads : WF_vars(showReconnecting(t)) /\ WF_vars(resyncHost(t))
  /\ \A p \in Panes : WF_vars(RelayLost(p))

FairSpec == Spec /\ Fairness
-----------------------------------------------------------------------------
(* Properties.                                                             *)

Levels == [state : {"none", "active", "completed"}, at : Nat, no : Nat]

\* Every variable holds a value of its kind.
TypeOK ==
  /\ now \in 1..MaxTime
  /\ left \in [{"levels", "outages", "quits", "stops", "kills"} -> Nat]
  /\ {level, relay, shown} \subseteq [Panes -> Levels]
  /\ missed \in [Panes -> BOOLEAN] /\ seen \in [Panes -> Nat]
  /\ hud \subseteq Rows /\ agterm \in BOOLEAN
  /\ net \in [Hosts -> BOOLEAN] /\ down \in [Hosts -> BOOLEAN]
  /\ link \in [Hosts -> {"none", "dialing", "forwarded", "dead"}]
  /\ {bridge, reported} \subseteq [Hosts -> States]
  /\ changes \in [Hosts -> Seq([state : States, after : 0..MaxTime])]
  /\ {quitUp, leftUp} \subseteq [Hosts -> 0..MaxTime]
  /\ phase \in [Hosts -> {"off", "on", "marking", "canceled"}]
  /\ queue \subseteq Hosts
  /\ \A t \in Threads :
       /\ job[t].pc \in {"idle", "wait", "next", "open", "close", "ask", "answer",
                         "hung", "push"}
       /\ job[t].host \in Hosts /\ job[t].rows \subseteq Rows
       /\ DOMAIN job[t].got \subseteq Panes
       /\ job[t].pushes \subseteq DOMAIN job[t].got
       /\ job[t].read \in 0..MaxTime /\ job[t].since \in 0..MaxTime

\* The watcher has heard of every change and waits for the next; nobody recovers.
Quiet(h) ==
  /\ phase[h] = "on" /\ changes[h] = <<>>
  /\ job[h].pc = "idle" /\ job[Recovery].pc = "idle"

\* "shows a HUD while a host is unreachable" (the rewrite's plan): when the watcher
\* is through, a host that lost its bridge has the HUD on its rows.
HudShowsLoss ==
  \A h \in Hosts : Quiet(h) /\ down[h] => boundRows(h) \subseteq hud

\* And one whose bridge is up has it on none, whatever stops and kills left behind.
HudClearsWhenUp ==
  \A h \in Hosts : Quiet(h) /\ bridge[h] = "up" => boundRows(h) \cap hud = {}

\* "Replaying it would turn it green again" (resyncHost): a finish the user has
\* visited is not pushed again if it is older, by more than the slack and the
\* time the answer took, than the last time the bridge left "up" before this
\* resync began, whatever the stops and kills of the daemon in between.
SeenFinishStaysSeen ==
  [][\A t \in Hosts :
       job[t].pc = "answer" /\ job'[t].pc = "push" =>
         \A p \in job'[t].pushes :
           LET l == job[t].got[p] IN
             l.state = "completed" /\ l.no <= seen[p] =>
               l.at + (now - job[t].read) + Slack >= job[t].since]_vars

\* "The most recent level is restored when the bridge reconnects" (README,
\* failure modes), for a level that is not a finish.  However often agterm quits:
\* but not when it does so inside resyncAll (QuitsAgain), since
\* beginAgtermRecovery leaves a recovery that runs alone and nothing then
\* resyncs after the second return.
LevelRestored ==
  \A p \in Panes : (missed[p] /\ level[p].state = "active") ~> ~missed[p]

\* "A finish from before the bridge went down was shown then" (resyncHost): a
\* finish that a resync leaves out has reached agterm.
SkippedFinishWasShown ==
  [][\A t \in Threads :
       job[t].pc = "answer" /\ job'[t].pc = "push" =>
         \A p \in DOMAIN job[t].got \ job'[t].pushes :
           job[t].got[p].state = "completed" /\ job[t].got[p].no = level[p].no
             => ~missed[p]]_vars

\* "The most recent level is restored when the bridge reconnects" (README): a
\* resync never replaces a level that is shown by an older one.
ShownNeverGoesBack ==
  [][\A p \in Panes : shown'[p].no >= shown[p].no]_vars

\* "shows a HUD while a host is unreachable" (the rewrite's plan): a HUD that is
\* shown does not close while the network is down and agterm runs.
HudWhileUnreachable ==
  [][\A h \in Hosts :
       ~net[h] /\ boundRows(h) \subseteq hud /\ agterm' => boundRows(h) \subseteq hud']_vars

\* "Not a start that has not been proven yet" (hostStateChanged): a HUD opens on
\* a row of a host whose bridge was up before.
HudMarksLoss ==
  [][\A r \in hud' \ hud :
       \E h \in Hosts : r \in boundRows(h) /\ quitUp[h] > 0]_vars
=============================================================================
