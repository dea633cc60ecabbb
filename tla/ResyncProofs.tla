---------------------------- MODULE ResyncProofs ----------------------------
(***************************************************************************)
(* Proofs about the reconnecting HUD and the finishes a resync pushes, for *)
(* any hosts and panes and however far a supervisor gets ahead of its      *)
(* watcher.  The channel of a host holds the way from the state the daemon *)
(* has reported to the one the bridge is in (Chain); what the watcher   *)
(* has still to do about a bridge that was up is on that way or in its     *)
(* hands.                                                                  *)
(***************************************************************************)
EXTENDS Resync, SequenceTheorems, TLAPS

Pcs == {"idle", "wait", "next", "open", "close", "ask", "answer", "hung", "push"}

JobRecord ==
  [pc: Pcs, host: Hosts \cup {CHOOSE h \in Hosts : TRUE}, rows: SUBSET Rows,
   got: {<<>>} \cup UNION {[PanesOf(h) -> Levels] : h \in Hosts},
   read: Nat, pushes: SUBSET Panes, since: Nat]

Change == [state: States, after: Nat]

\* What the steps need to know of the kinds of values.
Kinds ==
  /\ now \in Nat /\ level \in [Panes -> Levels]
  /\ link \in [Hosts -> {"none", "dialing", "forwarded", "dead"}]
  /\ bridge \in [Hosts -> States] /\ reported \in [Hosts -> States]
  /\ changes \in [Hosts -> Seq(Change)]
  /\ quitUp \in [Hosts -> Nat] /\ leftUp \in [Hosts -> Nat]
  /\ down \in [Hosts -> BOOLEAN]
  /\ phase \in [Hosts -> {"off", "on", "marking", "canceled"}]
  /\ job \in [Threads -> JobRecord]
  /\ queue \subseteq Hosts

\* Whoever resyncs or reconnects has a host; the answer tells of its panes.
Answers ==
  \A t \in Threads :
    /\ job[t].pc \notin {"idle", "wait", "next"} => job[t].host \in Hosts
    /\ job[t].pc = "answer" =>
         job[t].got \in [PanesOf(job[t].host) -> Levels] /\ job[t].read <= now

\* A bridge goes from a to b.
Follows(a, b) ==
  \/ a = "down" /\ b = "connecting"
  \/ a = "connecting" /\ b \in {"up", "down"}
  \/ a = "up" /\ b = "down"

\* The channel leads from the reported state to the bridge's, step by step.
Chain(h) ==
  /\ changes[h] = <<>> => reported[h] = bridge[h]
  /\ changes[h] # <<>> =>
       /\ Follows(reported[h], changes[h][1].state)
       /\ changes[h][Len(changes[h])].state = bridge[h]
  /\ \A i \in 1..(Len(changes[h]) - 1) :
       Follows(changes[h][i].state, changes[h][i + 1].state)

\* A host that is off has nothing going on.
OffIsOff(h) ==
  phase[h] = "off" =>
    /\ link[h] = "none" /\ reported[h] = "down" /\ changes[h] = <<>>
    /\ job[h].pc = "idle"

\* What a watcher is about follows from the state it has reported last.
Watching(h) ==
  /\ job[h].pc \in {"idle", "open", "close", "ask", "answer", "hung", "push"}
  /\ job[h].pc = "open" => reported[h] = "down"
  /\ job[h].pc \notin {"idle", "open"} => reported[h] = "up"
  /\ job[h].pc \in {"open", "close"} => job[h].rows \subseteq boundRows(h)
  /\ job[h].pc # "idle" => job[h].host = h

HostInv(h) ==
  /\ link[h] = "none" <=> bridge[h] = "down"
  /\ OffIsOff(h) /\ Chain(h) /\ Watching(h)

Inv == Kinds /\ Answers /\ \A h \in Hosts : HostInv(h)

-----------------------------------------------------------------------------
(* The HUD.                                                                *)

\* The bridge was up at a moment the watcher has still to get past.
UpAhead(h) ==
  \/ reported[h] = "up"
  \/ \E i \in 1..Len(changes[h]) : changes[h][i].state = "up"

\* The rows on which the watcher is about to open the HUD, and to close it.
Opening(h) == IF job[h].pc = "open" THEN job[h].rows ELSE {}
Closing(h) == IF job[h].pc = "close" THEN job[h].rows ELSE {}

\* A loss is ahead of the watcher, in its hands, or on show; and a bridge that is
\* reported up has its HUDs closed, or being closed.
HudInv ==
  /\ job[Recovery].pc = "idle"
  /\ \A h \in Hosts :
       /\ down[h] => phase[h] = "on" /\ bridge[h] # "up"
       /\ down[h] /\ ~UpAhead(h) => boundRows(h) \subseteq hud \cup Opening(h)
       /\ phase[h] = "on" /\ reported[h] = "up" => boundRows(h) \cap hud \subseteq Closing(h)

\* No row has panes on two hosts.
RowsApart == \A p, q \in Panes : RowOf[p] = RowOf[q] => HostOf[p] = HostOf[q]
-----------------------------------------------------------------------------
(* The finishes.                                                           *)

\* The i-th change is the first that says "up".
FirstUp(h, i) ==
  /\ i \in 1..Len(changes[h]) /\ changes[h][i].state = "up"
  /\ \A j \in 1..(i - 1) : changes[h][j].state # "up"

\* What is on disk is behind the last time the bridge left "up" only as long as
\* the watcher has that still before it, in the channel or at its head.
SinceInv ==
  \A h \in Hosts :
    /\ quitUp[h] <= now /\ leftUp[h] <= now
    /\ \A i \in 1..Len(changes[h]) : changes[h][i].after <= now
    /\ ~UpAhead(h) => quitUp[h] <= leftUp[h]
    /\ phase[h] = "canceled" => quitUp[h] <= leftUp[h]
    /\ reported[h] # "up" =>
         \A i \in 1..Len(changes[h]) : FirstUp(h, i) => changes[h][i].after <= leftUp[h]
    /\ job[h].pc \notin {"idle", "open"} => job[h].since <= leftUp[h]
-----------------------------------------------------------------------------
\* Nothing that HostInv speaks of changes.
Still(h) ==
  /\ reported'[h] = reported[h] /\ changes'[h] = changes[h] /\ bridge'[h] = bridge[h]
  /\ link'[h] = "none" <=> link[h] = "none"
  /\ phase'[h] = phase[h] /\ down'[h] = down[h] /\ quitUp'[h] = quitUp[h]
  /\ leftUp'[h] = leftUp[h] /\ job'[h] = job[h]

\* What moves a host: its own watcher, supervisor, start and stop, or the daemon's end.
Moves(h) ==
  \/ hostStateChanged(h) \/ Dial(h) \/ Promote(h) \/ Exit(h)
  \/ startHost(h) \/ stopHost(h) \/ stopHostMarks(h) \/ stopHostEnds(h)
  \/ showReconnecting(h) \/ resyncHost(h) \/ Kill
\* A step moves no host but those it is an action of.
LEMMA StillOrMoves ==
  ASSUME Kinds, [Next]_vars, NEW h \in Hosts
  PROVE  Still(h) \/ Moves(h)
<1> USE DEF linkVars, hostVars, Threads
<1>0. /\ job \in [Threads -> JobRecord] /\ h # Recovery /\ Recovery \in Threads
      /\ link \in [Hosts -> {"none", "dialing", "forwarded", "dead"}]
  BY PaneAssumption DEF Kinds
<1>1. CASE UNCHANGED vars BY <1>1 DEF Still, vars
<1>2. ASSUME NEW g \in Hosts,
             \/ hostStateChanged(g) \/ Dial(g) \/ Promote(g) \/ Exit(g)
             \/ startHost(g) \/ stopHost(g) \/ stopHostMarks(g) \/ stopHostEnds(g)
      PROVE  Still(h) \/ Moves(h)
  <2>1. CASE g = h BY <1>2, <2>1 DEF Moves
  <2>2. CASE g # h
    <3>1. CASE hostStateChanged(g)
      <4>1. job'[h] = job[h]
        <5>1. job' = job \/ \E j : job' = [job EXCEPT ![g] = j]
          BY <3>1 DEF hostStateChanged
        <5> QED BY <5>1, <1>0, <2>2
      <4> QED BY <3>1, <4>1, <2>2, <1>0 DEF hostStateChanged, Still, Kinds, markLeftUp
    <3>2. CASE Dial(g) \/ Promote(g) \/ Exit(g)
      BY <3>2, <2>2 DEF Dial, Promote, Exit, SetState, Still, Kinds
    <3>3. CASE startHost(g) \/ stopHost(g) \/ stopHostMarks(g) \/ stopHostEnds(g)
      BY <3>3, <2>2
         DEF startHost, stopHost, stopHostMarks, stopHostEnds, markLeftUp, Still, Kinds
    <3> QED BY <1>2, <3>1, <3>2, <3>3
  <2> QED BY <2>1, <2>2
<1>3. ASSUME NEW g \in Hosts, Forward(g) \/ Outage(g) \/ NetReturns(g) PROVE Still(h)
  BY <1>0, <1>3 DEF Forward, Outage, NetReturns, Still
<1>4. ASSUME NEW t \in Threads, showReconnecting(t) \/ resyncHost(t)
      PROVE  Still(h) \/ Moves(h)
  <2>1. CASE t = h BY <1>4, <2>1 DEF Moves
  <2>2. CASE t # h
    <3>1. \A j : [job EXCEPT ![t] = j][h] = job[h] BY <1>0, <2>2
    <3>2. \A J : Recovers(J)[h] = J[h] \/ J \notin [Threads -> JobRecord]
      BY <1>0 DEF Recovers
    <3>3. CASE resyncPush(t)
      <4>1. PICK p \in job[t].pushes :
              LET rest == [job EXCEPT ![t].pushes = @ \ {p}]
              IN job' = rest \/ job' = Recovers(rest)
        BY <3>3 DEF resyncPush
      <4> DEFINE rest == [job EXCEPT ![t].pushes = @ \ {p}]
      <4>2. rest \in [Threads -> JobRecord] BY <1>0 DEF JobRecord
      <4>3. rest[h] = job[h] BY <1>0, <2>2
      <4>4. job'[h] = job[h] BY <4>1, <4>2, <4>3, <3>2
      <4> QED BY <3>3, <4>4 DEF resyncPush, Still
    <3>4. CASE showReconnecting(t) \/ resyncHuds(t)
      BY <3>4, <2>2, <1>0 DEF showReconnecting, resyncHuds, Done, Still
    <3>5. CASE \/ Sessions(t) \/ SessionsFails(t) \/ SessionsHangs(t)
               \/ resyncDecides(t) \/ resyncDone(t)
      BY <3>5, <2>2, <1>0 DEF Sessions, SessionsFails, SessionsHangs, resyncDecides,
         resyncDone, Done, Still
    <3> QED BY <1>4, <3>3, <3>4, <3>5 DEF resyncHost
  <2> QED BY <2>1, <2>2
<1>5. CASE recoverAgterm
  BY <1>5, <1>0 DEF recoverAgterm, beginAgtermRecovery, resyncAll, resyncNext, recoveryEnds,
     Recovers, Still
<1>6. ASSUME NEW p \in Panes, SetLevel(p) \/ Relayed(p) \/ RelayLost(p) \/ Visit(p)
      PROVE  Still(h)
  BY <1>6, <1>0 DEF SetLevel, Relayed, RelayLost, Visit, Recovers, Still
<1>7. CASE Tick \/ AgtermQuits \/ AgtermReturns
  BY <1>7 DEF Tick, AgtermQuits, AgtermReturns, Still
<1>8. CASE Kill BY <1>8 DEF Moves
<1> QED BY <1>1, <1>2, <1>3, <1>4, <1>5, <1>6, <1>7, <1>8 DEF Next, Supervise
LEMMA TimeGoes == ASSUME Kinds, [Next]_vars PROVE now' \in Nat /\ now' >= now
<1>1. UNCHANGED now \/ Tick
  BY DEF Next, vars, hostStateChanged, Supervise, Dial, Forward, Promote, Exit, startHost, stopHost,
     stopHostMarks, stopHostEnds, Outage, NetReturns, showReconnecting, resyncHost, resyncHuds,
     Sessions, SessionsFails, SessionsHangs, resyncDecides, resyncPush, resyncDone,
     recoverAgterm, beginAgtermRecovery, resyncAll, resyncNext, recoveryEnds, SetLevel,
     Relayed, RelayLost, Visit, Kill, AgtermQuits, AgtermReturns
<1> QED BY <1>1 DEF Kinds, Tick

LEMMA IdleIsOne == Idle \in JobRecord /\ Idle.pc = "idle" /\ Idle.since = 0
BY DEF Idle, JobRecord, Pcs

LEMMA WithPc ==
  ASSUME NEW J \in [Threads -> JobRecord], NEW t \in Threads, NEW pc \in Pcs
  PROVE  [J EXCEPT ![t].pc = pc] \in [Threads -> JobRecord]
<1> DEFINE j == [J[t] EXCEPT !.pc = pc]
<1>1. J[t] \in JobRecord OBVIOUS
<1>2. j \in JobRecord BY <1>1 DEF JobRecord
<1>3. [J EXCEPT ![t].pc = pc] = [J EXCEPT ![t] = j] OBVIOUS
<1> HIDE DEF j
<1> QED BY <1>2, <1>3

LEMMA RecoversKinds ==
  ASSUME NEW J \in [Threads -> JobRecord] PROVE Recovers(J) \in [Threads -> JobRecord]
BY WithPc DEF Recovers, Pcs, Threads

LEMMA InitInv == Init => Inv
<1> SUFFICES ASSUME Init PROVE Inv OBVIOUS
<1>1. Kinds BY IdleIsOne DEF Init, Kinds, Levels, NoLevel, States, Change
<1>2. Answers BY IdleIsOne DEF Init, Answers
<1>3. \A h \in Hosts : HostInv(h)
  <2> SUFFICES ASSUME NEW h \in Hosts PROVE HostInv(h) OBVIOUS
  <2>1. /\ link[h] = "none" /\ bridge[h] = "down" /\ phase[h] = "on"
        /\ reported[h] = "down" /\ changes[h] = <<>> /\ job[h] = Idle
    BY DEF Init, Threads
  <2>2. Chain(h) BY <2>1 DEF Chain
  <2> QED BY <2>1, <2>2, IdleIsOne DEF HostInv, OffIsOff, Watching
<1> QED BY <1>1, <1>2, <1>3 DEF Inv

\* setState keeps the kinds of what it sets.
LEMMA SetStateKinds ==
  ASSUME Kinds, NEW h \in Hosts, NEW s \in States, SetState(h, s)
  PROVE  /\ bridge' \in [Hosts -> States] /\ changes' \in [Hosts -> Seq(Change)]
         /\ quitUp' \in [Hosts -> Nat] /\ down' \in [Hosts -> BOOLEAN]
<1>1. bridge' \in [Hosts -> States] BY DEF SetState, Kinds
<1>2. quitUp' \in [Hosts -> Nat] BY DEF SetState, Kinds
<1>3. down' \in [Hosts -> BOOLEAN] BY DEF SetState, Kinds
<1>4. [state |-> s, after |-> quitUp[h]] \in Change BY DEF Kinds, Change
<1>5. Append(changes[h], [state |-> s, after |-> quitUp[h]]) \in Seq(Change)
  BY <1>4 DEF Kinds
<1>6. changes' \in [Hosts -> Seq(Change)] BY <1>5 DEF SetState, Kinds
<1> QED BY <1>1, <1>2, <1>3, <1>6

LEMMA HandlerKinds ==
  ASSUME NEW h \in Hosts, NEW c \in Change
  PROVE  Handler(h, c) \in JobRecord
<1>1. boundRows(h) \subseteq Rows BY DEF boundRows, PanesOf, Rows
<1>2. /\ [Idle EXCEPT !.pc = "close", !.host = h, !.rows = boundRows(h), !.since = c.after]
         \in JobRecord
      /\ [Idle EXCEPT !.pc = "open", !.host = h, !.rows = boundRows(h)] \in JobRecord
  BY <1>1 DEF Idle, JobRecord, Pcs, Change
<1> QED BY <1>2, IdleIsOne DEF Handler, Resyncs, Reconnects

\* Every job that a step leaves behind is one.
LEMMA JobKinds == ASSUME Inv, [Next]_vars PROVE job' \in [Threads -> JobRecord]
<1> USE DEF linkVars, hostVars
<1>0. /\ job \in [Threads -> JobRecord] /\ Hosts \subseteq Threads /\ Recovery \in Threads
      /\ now \in Nat /\ quitUp \in [Hosts -> Nat]
  BY DEF Inv, Kinds, Threads
<1>1. \A t \in Threads, j \in JobRecord : [job EXCEPT ![t] = j] \in [Threads -> JobRecord]
  BY <1>0
<1>2. ASSUME NEW h \in Hosts, hostStateChanged(h) PROVE job' \in [Threads -> JobRecord]
  <2>1. Head(changes[h]) \in Change BY <1>2 DEF hostStateChanged, Inv, Kinds
  <2>2. job' = job \/ job' = [job EXCEPT ![h] = Handler(h, Head(changes[h]))]
    BY <1>2 DEF hostStateChanged
  <2> QED BY <2>1, <2>2, <1>0, <1>1, HandlerKinds
<1>3. ASSUME NEW t \in Threads, showReconnecting(t) \/ resyncHost(t)
      PROVE  job' \in [Threads -> JobRecord]
  <2>0. job[t] \in JobRecord BY <1>0
  <2>1. \A pc \in {"idle", "next"} : [Idle EXCEPT !.pc = pc] \in JobRecord
    BY IdleIsOne DEF JobRecord, Pcs
  <2>2. ASSUME Done(t) PROVE job' \in [Threads -> JobRecord]
    BY <2>1, <2>2, <1>1 DEF Done
  <2>3. CASE showReconnecting(t)
    <3>1. PICK r \in job[t].rows : Done(t) \/ job' = [job EXCEPT ![t].rows = @ \ {r}]
      BY <2>3 DEF showReconnecting
    <3> DEFINE j == [job[t] EXCEPT !.rows = @ \ {r}]
    <3>2. j \in JobRecord BY <2>0 DEF JobRecord
    <3>3. [job EXCEPT ![t].rows = @ \ {r}] = [job EXCEPT ![t] = j] BY <1>0
    <3> HIDE DEF j
    <3> QED BY <3>1, <3>2, <3>3, <2>2, <1>1
  <2>4. CASE resyncHuds(t)
    <3>1. PICK r \in job[t].rows :
            job' = [job EXCEPT ![t].rows = @ \ {r},
                             ![t].pc = IF job[t].rows = {r} THEN "ask" ELSE "close"]
      BY <2>4 DEF resyncHuds
    <3> DEFINE j == [job[t] EXCEPT !.rows = @ \ {r},
                             !.pc = IF job[t].rows = {r} THEN "ask" ELSE "close"]
    <3>2. j \in JobRecord BY <2>0 DEF JobRecord, Pcs
    <3>3. job' = [job EXCEPT ![t] = j] BY <3>1, <1>0
    <3> QED BY <3>2, <3>3, <1>1
  <2>5. CASE Sessions(t)
    <3>1. job' = [job EXCEPT ![t].pc = "answer", ![t].read = now,
                             ![t].got = [p \in PanesOf(job[t].host) |-> level[p]]]
      BY <2>5 DEF Sessions
    <3> DEFINE got == [p \in PanesOf(job[t].host) |-> level[p]]
               j == [job[t] EXCEPT !.pc = "answer", !.read = now, !.got = got]
    <3>2. job[t].host \in Hosts BY <2>5 DEF Sessions, Inv, Answers
    <3>3. got \in [PanesOf(job[t].host) -> Levels] BY DEF Inv, Kinds, PanesOf
    <3>4. job' = [job EXCEPT ![t] = j] BY <3>1, <1>0
    <3> HIDE DEF got
    <3>5. j \in JobRecord BY <2>0, <3>2, <3>3, <1>0 DEF JobRecord, Pcs
    <3> QED BY <3>4, <3>5, <1>1
  <2>6. CASE SessionsFails(t) \/ resyncDone(t)
    BY <2>2, <2>6 DEF SessionsFails, resyncDone
  <2>7. CASE SessionsHangs(t)
    BY <2>0, <2>7, <1>0 DEF SessionsHangs, JobRecord, Pcs
  <2>8. CASE resyncDecides(t)
    <3> DEFINE got == job[t].got
               pushes == {p \in DOMAIN got : Pushes(job[t].host, got[p], job[t].read)}
               j == [job[t] EXCEPT !.pc = "push", !.pushes = pushes]
    <3>1. got \in [PanesOf(job[t].host) -> Levels]
      BY <2>8 DEF resyncDecides, Inv, Answers
    <3>2. pushes \in SUBSET Panes BY <3>1 DEF PanesOf
    <3>3. job' = [job EXCEPT ![t] = j] BY <2>8, <1>0 DEF resyncDecides
    <3> HIDE DEF pushes, got
    <3>4. j \in JobRecord BY <2>0, <3>2 DEF JobRecord, Pcs
    <3> QED BY <3>3, <3>4, <1>1
  <2>9. CASE resyncPush(t)
    <3>1. PICK p \in job[t].pushes :
            LET rest == [job EXCEPT ![t].pushes = @ \ {p}]
            IN job' = rest \/ job' = Recovers(rest)
      BY <2>9 DEF resyncPush
    <3> DEFINE rest == [job EXCEPT ![t].pushes = @ \ {p}]
    <3>2. rest \in [Threads -> JobRecord] BY <1>0 DEF JobRecord
    <3> HIDE DEF rest
    <3>3. Recovers(rest) \in [Threads -> JobRecord]
      BY <3>2, RecoversKinds
    <3>4. job' = rest \/ job' = Recovers(rest) BY <3>1 DEF rest
    <3> QED BY <3>2, <3>3, <3>4
  <2> QED BY <1>3, <2>3, <2>4, <2>5, <2>6, <2>7, <2>8, <2>9 DEF resyncHost
<1>4. Recovers(job) \in [Threads -> JobRecord]
  BY <1>0, RecoversKinds
<1>5. CASE recoverAgterm
  <2>1. CASE beginAgtermRecovery \/ resyncAll
    <3>1. [job EXCEPT ![Recovery].pc = "next"] \in [Threads -> JobRecord]
      BY <1>0, WithPc DEF Pcs
    <3> QED BY <2>1, <3>1, <1>4 DEF beginAgtermRecovery, resyncAll
  <2>2. CASE recoveryEnds BY <2>2, <1>0, <1>1, IdleIsOne DEF recoveryEnds
  <2>3. CASE resyncNext
    <3>1. PICK h \in queue :
            \/ job' = job
            \/ job' = [job EXCEPT ![Recovery] = [Idle EXCEPT
                         !.pc = IF reported[h] = "up" THEN "close" ELSE "open",
                         !.host = h, !.rows = boundRows(h), !.since = quitUp[h]]]
      BY <2>3 DEF resyncNext
    <3>2. h \in Hosts /\ quitUp[h] \in Nat BY <1>0 DEF Inv, Kinds
    <3>3. boundRows(h) \subseteq Rows BY DEF boundRows, PanesOf, Rows
    <3>4. [Idle EXCEPT !.pc = IF reported[h] = "up" THEN "close" ELSE "open",
                       !.host = h, !.rows = boundRows(h), !.since = quitUp[h]] \in JobRecord
      BY <3>2, <3>3 DEF Idle, JobRecord, Pcs
    <3> QED BY <3>1, <3>4, <1>0, <1>1
  <2> QED BY <1>5, <2>1, <2>2, <2>3 DEF recoverAgterm
<1>6. CASE UNCHANGED job BY <1>0, <1>6
<1>7. CASE Kill BY <1>7, IdleIsOne DEF Kill
<1>8. ASSUME NEW p \in Panes, Relayed(p) PROVE job' \in [Threads -> JobRecord]
  BY <1>8, <1>4 DEF Relayed
<1>9. [Next]_vars => \/ \E h \in Hosts : hostStateChanged(h)
                     \/ \E t \in Threads : showReconnecting(t) \/ resyncHost(t)
                     \/ recoverAgterm \/ UNCHANGED job \/ Kill
                     \/ \E p \in Panes : Relayed(p)
  BY DEF Next, vars, Supervise, Dial, Forward, Promote, Exit, startHost, stopHost,
     stopHostMarks, stopHostEnds, Outage, NetReturns, SetLevel, RelayLost, Visit, Tick,
     AgtermQuits, AgtermReturns
<1> QED BY <1>2, <1>3, <1>5, <1>6, <1>7, <1>8, <1>9
\* The rest of the kinds.
LEMMA KindsStep == ASSUME Inv, [Next]_vars PROVE Kinds'
<1> USE DEF linkVars, hostVars, paneVars
<1>0. Kinds BY DEF Inv
<1>1. now' \in Nat BY <1>0, TimeGoes
<1>2. job' \in [Threads -> JobRecord] BY JobKinds
<1>3. level' \in [Panes -> Levels]
  <2>1. ASSUME NEW p \in Panes, SetLevel(p) PROVE level' \in [Panes -> Levels]
    <3>1. PICK s \in {"active", "completed"} :
            level' = [level EXCEPT ![p] = [state |-> s, at |-> now, no |-> @.no + 1]]
      BY <2>1 DEF SetLevel
    <3>2. level[p].no \in Nat BY <1>0 DEF Kinds, Levels
    <3>3. [state |-> s, at |-> now, no |-> level[p].no + 1] \in Levels
      BY <3>2, <1>0 DEF Kinds, Levels
    <3> QED BY <3>1, <3>3, <1>0 DEF Kinds
  <2>2. UNCHANGED level \/ \E p \in Panes : SetLevel(p)
    BY DEF Next, vars, hostStateChanged, Supervise, Dial, Forward, Promote, Exit, startHost, stopHost,
     stopHostMarks, stopHostEnds, Outage, NetReturns, showReconnecting, resyncHost, resyncHuds,
     Sessions, SessionsFails, SessionsHangs, resyncDecides, resyncPush, resyncDone,
     recoverAgterm, beginAgtermRecovery, resyncAll, resyncNext, recoveryEnds,
     Relayed, RelayLost, Visit, Kill, Tick, AgtermQuits, AgtermReturns
  <2> QED BY <2>1, <2>2, <1>0 DEF Kinds
<1>4. queue' \subseteq Hosts
  <2>1. queue' \subseteq queue \/ queue' \subseteq Hosts
    BY DEF Next, vars, hostStateChanged, Supervise, Dial, Forward, Promote, Exit, startHost, stopHost,
     stopHostMarks, stopHostEnds, Outage, NetReturns, showReconnecting, resyncHost, resyncHuds,
     Sessions, SessionsFails, SessionsHangs, resyncDecides, resyncPush, resyncDone,
     recoverAgterm, beginAgtermRecovery, resyncAll, resyncNext, recoveryEnds, SetLevel,
     Relayed, RelayLost, Visit, Kill, Tick, AgtermQuits, AgtermReturns
  <2> QED BY <2>1, <1>0 DEF Kinds
<1> DEFINE Rest ==
      /\ link' \in [Hosts -> {"none", "dialing", "forwarded", "dead"}]
      /\ bridge' \in [Hosts -> States] /\ reported' \in [Hosts -> States]
      /\ changes' \in [Hosts -> Seq(Change)]
      /\ quitUp' \in [Hosts -> Nat] /\ leftUp' \in [Hosts -> Nat]
      /\ down' \in [Hosts -> BOOLEAN]
      /\ phase' \in [Hosts -> {"off", "on", "marking", "canceled"}]
<1>5. Rest
  <2>1. CASE UNCHANGED <<link, bridge, reported, changes, quitUp, leftUp, down, phase>>
    BY <2>1, <1>0 DEF Kinds
  <2>2. ASSUME NEW h \in Hosts, hostStateChanged(h) PROVE Rest
    <3>1. /\ Head(changes[h]) \in Change /\ Tail(changes[h]) \in Seq(Change)
          /\ changes' = [changes EXCEPT ![h] = Tail(@)]
      BY <2>2, <1>0 DEF hostStateChanged, Kinds
    <3>2. Head(changes[h]).state \in States BY <3>1 DEF Change
    <3>3. reported' \in [Hosts -> States]
      BY <2>2, <3>2, <1>0 DEF hostStateChanged, Kinds
    <3>4. leftUp' \in [Hosts -> Nat]
      BY <2>2, <1>0 DEF hostStateChanged, markLeftUp, Kinds
    <3> QED BY <2>2, <3>1, <3>3, <3>4, <1>0 DEF hostStateChanged, Kinds
  <2>3. ASSUME NEW h \in Hosts, Dial(h) \/ Promote(h) \/ Exit(h) PROVE Rest
    <3>1. PICK s \in States : SetState(h, s) BY <2>3 DEF Dial, Promote, Exit, States
    <3>2. link' \in [Hosts -> {"none", "dialing", "forwarded", "dead"}]
      BY <2>3, <1>0 DEF Dial, Promote, Exit, Kinds
    <3>3. UNCHANGED <<reported, leftUp, phase>> BY <2>3 DEF Dial, Promote, Exit
    <3> QED BY <3>1, <3>2, <3>3, <1>0, SetStateKinds DEF Kinds
  <2>4. ASSUME NEW h \in Hosts,
               startHost(h) \/ stopHost(h) \/ stopHostMarks(h) \/ stopHostEnds(h)
        PROVE  Rest
    <3>1. <<>> \in Seq(Change) OBVIOUS
    <3>2. CASE startHost(h) BY <3>2, <1>0 DEF startHost, Kinds
    <3>3. CASE stopHost(h) BY <3>3, <1>0 DEF stopHost, Kinds
    <3>4. CASE stopHostMarks(h) BY <3>4, <1>0 DEF stopHostMarks, markLeftUp, Kinds
    <3>5. CASE stopHostEnds(h) BY <3>5, <3>1, <1>0 DEF stopHostEnds, Kinds, States
    <3> QED BY <2>4, <3>2, <3>3, <3>4, <3>5
  <2>5. ASSUME NEW h \in Hosts, Forward(h) \/ Outage(h) PROVE Rest
    BY <2>5, <1>0 DEF Forward, Outage, Kinds
  <2>6. CASE Kill BY <2>6, <1>0 DEF Kill, Kinds, States
  <2> QED BY <2>1, <2>2, <2>3, <2>4, <2>5, <2>6
    DEF Next, vars, Supervise, NetReturns, showReconnecting, resyncHost, resyncHuds,
     Sessions, SessionsFails, SessionsHangs, resyncDecides, resyncPush, resyncDone,
     recoverAgterm, beginAgtermRecovery, resyncAll, resyncNext, recoveryEnds, SetLevel,
     Relayed, RelayLost, Visit, Tick, AgtermQuits, AgtermReturns
<1> HIDE DEF Rest
<1>6. Rest => Kinds' BY <1>1, <1>2, <1>3, <1>4 DEF Rest, Kinds
<1> QED BY <1>5, <1>6

\* What a step makes of a job, as far as Answers is concerned.
LEMMA AnswersStep == ASSUME Inv, [Next]_vars PROVE Answers'
<1> USE DEF linkVars, hostVars
<1> SUFFICES ASSUME NEW t \in Threads
             PROVE  /\ job'[t].pc \notin {"idle", "wait", "next"} => job'[t].host \in Hosts
                    /\ job'[t].pc = "answer" =>
                         /\ job'[t].got \in [PanesOf(job'[t].host) -> Levels]
                         /\ job'[t].read <= now'
  BY DEF Answers
<1>0. /\ job \in [Threads -> JobRecord] /\ Hosts \subseteq Threads /\ Recovery \in Threads
      /\ now \in Nat /\ queue \subseteq Hosts /\ now' \in Nat /\ now' >= now
      /\ job[t] \in JobRecord /\ job[t].read \in Nat
  BY TimeGoes DEF Inv, Kinds, Threads, JobRecord
<1> DEFINE Same == /\ job'[t].host = job[t].host /\ job'[t].got = job[t].got
                   /\ job'[t].read = job[t].read
                   /\ job'[t].pc \in {"answer"} => job[t].pc = "answer"
                   /\ job'[t].pc \in {"idle", "wait", "next"}
                        \/ job[t].pc \notin {"idle", "wait", "next"}
           New == job'[t].pc \in {"idle", "wait", "next"}
           Begun == job'[t].pc \in {"close", "open"} /\ job'[t].host \in Hosts
           Told == /\ job'[t].pc = "answer" /\ job'[t].host \in Hosts /\ job'[t].read = now
                   /\ job'[t].got \in [PanesOf(job'[t].host) -> Levels]
<1>1. Same \/ New \/ Begun \/ Told
  <2>1. CASE job'[t] = job[t] BY <2>1
  <2>2. ASSUME NEW h \in Hosts, hostStateChanged(h), job'[t] # job[t]
        PROVE Same \/ New \/ Begun \/ Told
    <3>1. PICK c : job' = job \/ job' = [job EXCEPT ![h] = Handler(h, c)]
      BY <2>2 DEF hostStateChanged
    <3>2. job'[t] = Handler(h, c) BY <2>2, <3>1, <1>0
    <3> QED BY <3>2 DEF Handler, Resyncs, Reconnects, Idle
  <2>3. ASSUME NEW s \in Threads, showReconnecting(s) \/ resyncHost(s), job'[t] # job[t], s = t
        PROVE Same \/ New \/ Begun \/ Told
    <3>1. ASSUME Done(s) PROVE New BY <3>1, <2>3, <1>0 DEF Done, Idle
    <3>2. CASE showReconnecting(s)
      <4>1. PICK r \in job[s].rows : Done(s) \/ job' = [job EXCEPT ![s].rows = @ \ {r}]
        BY <3>2 DEF showReconnecting
      <4>2. CASE job' = [job EXCEPT ![s].rows = @ \ {r}]
        BY <4>2, <2>3, <1>0 DEF JobRecord
      <4> QED BY <4>1, <4>2, <3>1
    <3>3. CASE resyncHuds(s) BY <3>3, <2>3, <1>0 DEF resyncHuds, JobRecord
    <3>4. CASE Sessions(s)
      <4>1. /\ job'[t] = [job[t] EXCEPT !.pc = "answer", !.read = now,
                        !.got = [p \in PanesOf(job[t].host) |-> level[p]]]
            /\ job[t].pc = "ask"
        BY <3>4, <2>3, <1>0 DEF Sessions
      <4>2. job[t].host \in Hosts BY <4>1 DEF Inv, Answers
      <4>3. [p \in PanesOf(job[t].host) |-> level[p]] \in [PanesOf(job[t].host) -> Levels]
        BY DEF Inv, Kinds, PanesOf
      <4>4. /\ job'[t].pc = "answer" /\ job'[t].host = job[t].host /\ job'[t].read = now
            /\ job'[t].got = [p \in PanesOf(job[t].host) |-> level[p]]
        BY <4>1, <1>0 DEF JobRecord
      <4> QED BY <4>2, <4>3, <4>4
    <3>5. CASE SessionsFails(s) \/ resyncDone(s)
      BY <3>1, <3>5 DEF SessionsFails, resyncDone
    <3>6. CASE SessionsHangs(s) \/ resyncDecides(s)
      <4>1. CASE SessionsHangs(s) BY <4>1, <2>3, <1>0 DEF SessionsHangs, JobRecord
      <4>2. CASE resyncDecides(s)
        <5>1. /\ job[t].pc = "answer"
              /\ \E pushes : job'[t] = [job[t] EXCEPT !.pc = "push", !.pushes = pushes]
          BY <4>2, <2>3, <1>0 DEF resyncDecides
        <5> QED BY <5>1, <1>0 DEF JobRecord
      <4> QED BY <3>6, <4>1, <4>2
    <3>7. CASE resyncPush(s)
      <4>1. PICK p \in job[t].pushes :
            LET rest == [job EXCEPT ![t].pushes = @ \ {p}]
            IN job' = rest \/ job' = Recovers(rest)
        BY <3>7, <2>3 DEF resyncPush
      <4> DEFINE rest == [job EXCEPT ![t].pushes = @ \ {p}]
      <4>2. /\ rest[t].pc = job[t].pc /\ rest[t].host = job[t].host
            /\ rest[t].got = job[t].got /\ rest[t].read = job[t].read
            /\ rest \in [Threads -> JobRecord]
        BY <1>0 DEF JobRecord
      <4> HIDE DEF rest
      <4>3. job' = rest \/ job' = Recovers(rest) BY <4>1 DEF rest
      <4>4. job[t].pc = "push" BY <3>7, <2>3 DEF resyncPush
      <4>5. CASE job'[t] = rest[t] BY <4>2, <4>4, <4>5
      <4>6. CASE job'[t] # rest[t]
        <5>1. job' = [rest EXCEPT ![Recovery].pc = "wait"] /\ t = Recovery
          BY <4>2, <4>3, <4>6, <1>0 DEF Recovers
        <5>2. job'[t].pc = "wait" BY <5>1, <4>2, <1>0 DEF JobRecord
        <5> QED BY <5>2
      <4> QED BY <4>5, <4>6
    <3> QED BY <2>3, <3>2, <3>3, <3>4, <3>5, <3>6, <3>7 DEF resyncHost
  <2>4. ASSUME job' = Recovers(job), job'[t] # job[t] PROVE Same \/ New \/ Begun \/ Told
    <3>1. job' = [job EXCEPT ![Recovery].pc = "wait"] /\ t = Recovery
      BY <2>4, <1>0 DEF Recovers
    <3>2. job'[t].pc = "wait" BY <3>1, <1>0 DEF JobRecord
    <3> QED BY <3>2
  <2>5. ASSUME recoverAgterm, job'[t] # job[t] PROVE Same \/ New \/ Begun \/ Told
    <3>1. CASE beginAgtermRecovery BY <3>1, <2>4, <2>5 DEF beginAgtermRecovery
    <3>2. CASE resyncAll
      <4>1. t = Recovery /\ job'[t].pc = "next" BY <3>2, <2>5, <1>0 DEF resyncAll, JobRecord
      <4> QED BY <4>1
    <3>3. CASE resyncNext
      <4>1. PICK h \in Hosts :
              job'[t] = [Idle EXCEPT
                         !.pc = IF reported[h] = "up" THEN "close" ELSE "open",
                         !.host = h, !.rows = boundRows(h), !.since = quitUp[h]]
        BY <3>3, <2>5, <1>0 DEF resyncNext
      <4> QED BY <4>1 DEF Idle
    <3>4. CASE recoveryEnds
      <4>1. t = Recovery /\ job'[t] = Idle BY <3>4, <2>5, <1>0 DEF recoveryEnds
      <4> QED BY <4>1, IdleIsOne
    <3> QED BY <2>5, <3>1, <3>2, <3>3, <3>4 DEF recoverAgterm
  <2>6. CASE Kill BY <2>6, IdleIsOne DEF Kill
  <2>7. ASSUME NEW p \in Panes, Relayed(p), job'[t] # job[t] PROVE Same \/ New \/ Begun \/ Told
    BY <2>7, <2>4 DEF Relayed
  <2>8. ASSUME NEW s \in Threads, showReconnecting(s) \/ resyncHost(s), job'[t] # job[t], s # t
        PROVE Same \/ New \/ Begun \/ Told
    <3>1. resyncPush(s)
      BY <2>8, <1>0 DEF showReconnecting, resyncHost, resyncHuds, Sessions, SessionsFails,
         SessionsHangs, resyncDecides, resyncDone, Done
    <3>2. PICK p \in job[s].pushes :
            LET rest == [job EXCEPT ![s].pushes = @ \ {p}]
            IN job' = rest \/ job' = Recovers(rest)
      BY <3>1 DEF resyncPush
    <3> DEFINE rest == [job EXCEPT ![s].pushes = @ \ {p}]
    <3>3. rest[t] = job[t] /\ rest \in [Threads -> JobRecord]
      BY <1>0, <2>8 DEF JobRecord
    <3> HIDE DEF rest
    <3>4. job' = rest \/ job' = Recovers(rest) BY <3>2 DEF rest
    <3>5. job' = [rest EXCEPT ![Recovery].pc = "wait"] /\ t = Recovery
      BY <2>8, <3>3, <3>4, <1>0 DEF Recovers
    <3>6. job'[t].pc = "wait" BY <3>5, <3>3, <1>0 DEF JobRecord
    <3> QED BY <3>6
  <2>9. [Next]_vars => \/ \E h \in Hosts : hostStateChanged(h)
                     \/ \E s \in Threads : showReconnecting(s) \/ resyncHost(s)
                     \/ recoverAgterm \/ UNCHANGED job \/ Kill
                     \/ \E p \in Panes : Relayed(p)
    BY DEF Next, vars, Supervise, Dial, Forward, Promote, Exit, startHost, stopHost,
     stopHostMarks, stopHostEnds, Outage, NetReturns, SetLevel, RelayLost, Visit, Tick,
     AgtermQuits, AgtermReturns
  <2> HIDE DEF Same, New, Begun, Told
  <2> QED BY <2>1, <2>2, <2>3, <2>5, <2>6, <2>7, <2>8, <2>9
<1>2. CASE Same BY <1>2, <1>0 DEF Inv, Answers
<1>3. CASE New BY <1>3
<1>4. CASE Begun BY <1>4
<1>5. CASE Told BY <1>5, <1>0
<1> HIDE DEF Same, New, Begun, Told
<1> QED BY <1>1, <1>2, <1>3, <1>4, <1>5
\* What a watcher does with the change at the head of its channel.
LEMMA Watched ==
  ASSUME Inv, NEW h \in Hosts, hostStateChanged(h)
  PROVE  /\ changes[h] \in Seq(Change) /\ changes[h] # <<>>
         /\ changes[h][1] \in Change /\ Follows(reported[h], changes[h][1].state)
         /\ changes'[h] = Tail(changes[h]) /\ reported'[h] = changes[h][1].state
         /\ job[h].pc = "idle" /\ job'[h] = Handler(h, changes[h][1])
         /\ leftUp'[h] = IF reported[h] = "up" THEN now ELSE leftUp[h]
         /\ phase[h] # "off" /\ now' = now
         /\ bridge'[h] = bridge[h] /\ link'[h] = link[h] /\ phase'[h] = phase[h]
         /\ down'[h] = down[h] /\ quitUp'[h] = quitUp[h] /\ hud' = hud
         /\ \A t \in Threads \ {h} : job'[t] = job[t]
<1>1. /\ changes[h] \in Seq(Change) /\ changes[h] # <<>>
      /\ changes' = [changes EXCEPT ![h] = Tail(@)] /\ changes \in [Hosts -> Seq(Change)]
      /\ phase[h] # "off" /\ job[h].pc = "idle"
      /\ UNCHANGED <<now, hud, bridge, link, phase, down, quitUp>>
  BY DEF hostStateChanged, Inv, Kinds
<1>2. Head(changes[h]) = changes[h][1] /\ changes[h][1] \in Change BY <1>1
<1>3. Follows(reported[h], changes[h][1].state) BY <1>1 DEF Inv, HostInv, Chain
<1>4. changes[h][1].state # reported[h] BY <1>3 DEF Follows
<1>5. /\ reported' = [reported EXCEPT ![h] = changes[h][1].state]
      /\ IF reported[h] = "up" THEN markLeftUp(h) ELSE UNCHANGED leftUp
      /\ job' = [job EXCEPT ![h] = Handler(h, changes[h][1])]
  BY <1>2, <1>4 DEF hostStateChanged
<1>6. /\ reported \in [Hosts -> States] /\ leftUp \in [Hosts -> Nat]
      /\ job \in [Threads -> JobRecord] /\ h \in Threads
  BY DEF Inv, Kinds, Threads
<1> QED BY <1>1, <1>2, <1>3, <1>5, <1>6 DEF markLeftUp

\* What a supervisor does: its bridge goes one step on, and says so.
LEMMA Supervised ==
  ASSUME Inv, NEW h \in Hosts, Dial(h) \/ Promote(h) \/ Exit(h)
  PROVE  \E s \in States :
         /\ Follows(bridge[h], s) /\ bridge'[h] = s
         /\ changes[h] \in Seq(Change)
         /\ changes'[h] = Append(changes[h], [state |-> s, after |-> quitUp[h]])
         /\ [state |-> s, after |-> quitUp[h]] \in Change
         /\ link'[h] = "none" <=> s = "down"
         /\ quitUp'[h] = IF bridge[h] = "up" /\ s # "up" /\ phase[h] # "canceled"
                           THEN now ELSE quitUp[h]
         /\ down'[h] = IF s = "up" THEN FALSE
                       ELSE down[h] \/ (bridge[h] = "up" /\ phase[h] = "on")
         /\ phase[h] # "off" /\ now' = now /\ reported'[h] = reported[h]
         /\ phase'[h] = phase[h] /\ leftUp'[h] = leftUp[h] /\ job' = job /\ hud' = hud
<1> USE DEF hostVars
<1>1. /\ link[h] = "none" <=> bridge[h] = "down"
      /\ phase[h] = "off" => link[h] = "none"
      /\ bridge[h] \in States /\ changes[h] \in Seq(Change) /\ quitUp[h] \in Nat
      /\ bridge \in [Hosts -> States] /\ changes \in [Hosts -> Seq(Change)]
      /\ quitUp \in [Hosts -> Nat] /\ down \in [Hosts -> BOOLEAN]
      /\ link \in [Hosts -> {"none", "dialing", "forwarded", "dead"}]
  BY DEF Inv, Kinds, HostInv, OffIsOff
<1>2. PICK s \in States :
        /\ SetState(h, s) /\ Follows(bridge[h], s)
        /\ link'[h] = "none" <=> s = "down"
  <2>1. CASE Dial(h)
    <3>1. /\ SetState(h, "connecting") /\ link[h] = "none" /\ link'[h] # "none"
      BY <2>1, <1>1 DEF Dial
    <3> QED BY <3>1, <1>1 DEF Follows, States
  <2>2. CASE Promote(h)
    <3>1. /\ SetState(h, "up") /\ bridge[h] = "connecting" /\ link'[h] = link[h]
      BY <2>2 DEF Promote
    <3> QED BY <3>1, <1>1 DEF Follows, States
  <2>3. CASE Exit(h)
    <3>1. /\ SetState(h, "down") /\ link[h] # "none" /\ link'[h] = "none"
      BY <2>3, <1>1 DEF Exit
    <3> QED BY <3>1, <1>1 DEF Follows, States
  <2> QED BY <2>1, <2>2, <2>3
<1>3. s # bridge[h] BY <1>2 DEF Follows
<1>4. bridge'[h] = s BY <1>1, <1>2 DEF SetState
<1>5. changes'[h] = Append(changes[h], [state |-> s, after |-> quitUp[h]])
  BY <1>1, <1>2, <1>3 DEF SetState
<1>6. quitUp'[h] = IF bridge[h] = "up" /\ s # "up" /\ phase[h] # "canceled"
                     THEN now ELSE quitUp[h]
  BY <1>1, <1>2 DEF SetState
<1>7. down'[h] = IF s = "up" THEN FALSE
                 ELSE down[h] \/ (bridge[h] = "up" /\ phase[h] = "on")
  BY <1>1, <1>2 DEF SetState
<1>8. phase[h] # "off" BY <1>1 DEF Dial, Promote, Exit
<1>9. UNCHANGED <<now, reported, phase, leftUp, job, hud>> BY DEF Dial, Promote, Exit
<1>10. [state |-> s, after |-> quitUp[h]] \in Change BY <1>1 DEF Change
<1> QED BY <1>1, <1>2, <1>4, <1>5, <1>6, <1>7, <1>8, <1>9, <1>10

\* What showing a HUD and a resync do to the job of a watcher.
LEMMA Worked ==
  ASSUME Inv, NEW h \in Hosts, showReconnecting(h) \/ resyncHost(h)
  PROVE  /\ UNCHANGED <<now, link, bridge, changes, quitUp, down, phase, reported, leftUp>>
         /\ job[h].pc \notin {"idle", "wait", "next"}
         /\ \/ job'[h].pc = "idle"
            \/ /\ job'[h].host = job[h].host /\ job'[h].since = job[h].since
               /\ \/ job[h].pc = "open" /\ job'[h].pc = "open"
                     /\ job'[h].rows \subseteq job[h].rows
                  \/ job[h].pc = "close" /\ job'[h].pc \in {"close", "ask"}
                     /\ job'[h].rows \subseteq job[h].rows
                  \/ /\ job[h].pc \in {"ask", "answer", "hung", "push"}
                     /\ job'[h].pc \in {"answer", "hung", "push"}
                     /\ job'[h].pc = "push" =>
                          job[h].pc = "push" \/ (job[h].pc = "answer" /\ resyncDecides(h))
<1>0. /\ job \in [Threads -> JobRecord] /\ h \in Threads /\ h # Recovery
      /\ job[h] \in JobRecord
  BY PaneAssumption DEF Inv, Kinds, Threads
<1>1. UNCHANGED <<now, link, bridge, changes, quitUp, down, phase, reported, leftUp>>
  BY DEF linkVars, hostVars, showReconnecting, resyncHost, resyncHuds, Sessions,
     SessionsFails, SessionsHangs, resyncDecides, resyncPush, resyncDone
<1>2. ASSUME Done(h) PROVE job'[h].pc = "idle" BY <1>0, <1>2, IdleIsOne DEF Done, Idle
<1>3. CASE showReconnecting(h)
  <2>1. PICK r \in job[h].rows : Done(h) \/ job' = [job EXCEPT ![h].rows = @ \ {r}]
    BY <1>3 DEF showReconnecting
  <2>2. CASE job' = [job EXCEPT ![h].rows = @ \ {r}]
    <3>1. job'[h] = [job[h] EXCEPT !.rows = @ \ {r}] /\ job[h].pc = "open"
      BY <1>0, <1>3, <2>2 DEF showReconnecting
    <3> QED BY <3>1, <1>0, <1>1 DEF JobRecord
  <2>3. job[h].pc = "open" BY <1>3 DEF showReconnecting
  <2> QED BY <2>1, <2>2, <2>3, <1>1, <1>2
<1>4. CASE resyncHuds(h)
  <2>1. PICK r \in job[h].rows :
          job' = [job EXCEPT ![h].rows = @ \ {r},
                             ![h].pc = IF job[h].rows = {r} THEN "ask" ELSE "close"]
    BY <1>4 DEF resyncHuds
  <2>2. /\ job'[h] = [job[h] EXCEPT !.rows = @ \ {r},
                             !.pc = IF job[h].rows = {r} THEN "ask" ELSE "close"]
        /\ job[h].pc = "close"
    BY <1>0, <1>4, <2>1 DEF resyncHuds
  <2> QED BY <2>2, <1>0, <1>1 DEF JobRecord
<1>5. CASE Sessions(h)
  <2>1. /\ job[h].pc = "ask"
        /\ \E got : job'[h] = [job[h] EXCEPT !.pc = "answer", !.read = now, !.got = got]
    BY <1>0, <1>5 DEF Sessions
  <2> QED BY <2>1, <1>0, <1>1 DEF JobRecord
<1>6. CASE SessionsFails(h) \/ resyncDone(h)
  BY <1>1, <1>2, <1>6 DEF SessionsFails, resyncDone
<1>7. CASE SessionsHangs(h)
  <2>1. job[h].pc \in {"ask", "answer"} /\ job'[h] = [job[h] EXCEPT !.pc = "hung"]
    BY <1>0, <1>7 DEF SessionsHangs
  <2> QED BY <2>1, <1>0, <1>1 DEF JobRecord
<1>8. CASE resyncDecides(h)
  <2>1. /\ job[h].pc = "answer"
        /\ \E pushes : job'[h] = [job[h] EXCEPT !.pc = "push", !.pushes = pushes]
    BY <1>0, <1>8 DEF resyncDecides
  <2> QED BY <2>1, <1>0, <1>1, <1>8 DEF JobRecord
<1>9. CASE resyncPush(h)
  <2>1. PICK p \in job[h].pushes :
          LET rest == [job EXCEPT ![h].pushes = @ \ {p}]
          IN job' = rest \/ job' = Recovers(rest)
    BY <1>9 DEF resyncPush
  <2> DEFINE rest == [job EXCEPT ![h].pushes = @ \ {p}]
  <2>2. rest[h] = [job[h] EXCEPT !.pushes = @ \ {p}] /\ rest \in [Threads -> JobRecord]
    BY <1>0 DEF JobRecord
  <2> HIDE DEF rest
  <2>3. job' = rest \/ job' = Recovers(rest) BY <2>1 DEF rest
  <2>4. job'[h] = rest[h] BY <2>2, <2>3, <1>0 DEF Recovers
  <2>5. job[h].pc = "push" BY <1>9 DEF resyncPush
  <2> QED BY <2>2, <2>4, <2>5, <1>0, <1>1 DEF JobRecord
<1> QED BY <1>3, <1>4, <1>5, <1>6, <1>7, <1>8, <1>9 DEF resyncHost

\* The way grows at its end when the bridge goes a step on.
LEMMA ChainGrows ==
  ASSUME NEW h \in Hosts, Chain(h), NEW c \in Change, changes[h] \in Seq(Change),
         Follows(bridge[h], c.state),
         changes'[h] = Append(changes[h], c), bridge'[h] = c.state, reported'[h] = reported[h]
  PROVE  Chain(h)'
<1> DEFINE n == Len(changes[h])
<1>1. /\ n \in Nat /\ Len(changes'[h]) = n + 1 /\ changes'[h][n + 1] = c
      /\ \A i \in 1..n : changes'[h][i] = changes[h][i]
      /\ changes'[h] # <<>> /\ (n = 0 <=> changes[h] = <<>>)
  OBVIOUS
<1>2. Follows(reported'[h], changes'[h][1].state)
  BY <1>1 DEF Chain
<1>3. \A i \in 1..n : Follows(changes'[h][i].state, changes'[h][i + 1].state)
  <2> SUFFICES ASSUME NEW i \in 1..n
               PROVE  Follows(changes'[h][i].state, changes'[h][i + 1].state)
    OBVIOUS
  <2>1. CASE i = n BY <2>1, <1>1 DEF Chain
  <2>2. CASE i < n BY <2>2, <1>1 DEF Chain
  <2> QED BY <2>1, <2>2, <1>1
<1> HIDE DEF n
<1> QED BY <1>1, <1>2, <1>3 DEF Chain

\* It shrinks at its head when the watcher takes a change.
LEMMA ChainShrinks ==
  ASSUME NEW h \in Hosts, Chain(h), changes[h] \in Seq(Change), changes[h] # <<>>,
         changes'[h] = Tail(changes[h]), bridge'[h] = bridge[h],
         reported'[h] = changes[h][1].state
  PROVE  Chain(h)'
<1> DEFINE n == Len(changes[h])
<1>1. /\ n \in Nat \ {0} /\ Len(changes'[h]) = n - 1
      /\ \A i \in 1..(n - 1) : changes'[h][i] = changes[h][i + 1]
      /\ (n = 1 <=> changes'[h] = <<>>)
  <2>1. n \in Nat /\ n # 0 OBVIOUS
  <2>2. Len(Tail(changes[h])) = n - 1 OBVIOUS
  <2>3. \A i \in 1..(n - 1) : Tail(changes[h])[i] = changes[h][i + 1] OBVIOUS
  <2>4. Tail(changes[h]) \in Seq(Change) OBVIOUS
  <2>5. Tail(changes[h]) = <<>> <=> Len(Tail(changes[h])) = 0 BY <2>4, EmptySeq
  <2> HIDE DEF n
  <2> QED BY <2>1, <2>2, <2>3, <2>5
<1> HIDE DEF n
<1>2. changes'[h] = <<>> => reported'[h] = bridge'[h]
  BY <1>1 DEF Chain, n
<1>3. changes'[h] # <<>> => Follows(reported'[h], changes'[h][1].state)
                            /\ changes'[h][n - 1].state = bridge'[h]
  BY <1>1 DEF Chain, n
<1>4. \A i \in 1..(n - 2) : Follows(changes'[h][i].state, changes'[h][i + 1].state)
  BY <1>1 DEF Chain, n
<1> QED BY <1>1, <1>2, <1>3, <1>4 DEF Chain

LEMMA HostStep == ASSUME Inv, [Next]_vars, NEW h \in Hosts PROVE HostInv(h)'
<1>0. /\ HostInv(h) /\ Kinds /\ job[h] \in JobRecord /\ h \in Threads /\ h # Recovery
      /\ reported[h] \in States /\ job \in [Threads -> JobRecord]
  BY PaneAssumption DEF Inv, Kinds, Threads
<1>1. CASE Still(h)
  BY <1>1, <1>0 DEF Still, HostInv, OffIsOff, Chain, Watching, boundRows, PanesOf
<1>2. CASE hostStateChanged(h)
  <2>1. Chain(h)' BY <1>2, Watched, ChainShrinks, <1>0 DEF HostInv
  <2>2. Watching(h)'
    <3> DEFINE c == changes[h][1]
    <3>1. job'[h] = Handler(h, c) /\ reported'[h] = c.state BY <1>2, Watched
    <3> HIDE DEF c
    <3> QED BY <3>1, IdleIsOne
      DEF Handler, Resyncs, Reconnects, Watching, Idle, boundRows, PanesOf
  <2> QED BY <2>1, <2>2, <1>0, <1>2, Watched DEF HostInv, OffIsOff
<1>3. CASE Dial(h) \/ Promote(h) \/ Exit(h)
  <2>1. PICK s \in States :
         /\ Follows(bridge[h], s) /\ bridge'[h] = s
         /\ changes[h] \in Seq(Change)
         /\ changes'[h] = Append(changes[h], [state |-> s, after |-> quitUp[h]])
         /\ [state |-> s, after |-> quitUp[h]] \in Change
         /\ link'[h] = "none" <=> s = "down"
         /\ phase[h] # "off" /\ reported'[h] = reported[h]
         /\ phase'[h] = phase[h] /\ job' = job
    BY <1>3, Supervised
  <2> DEFINE c == [state |-> s, after |-> quitUp[h]]
  <2>2. Chain(h)'
    <3>1. c \in Change /\ c.state = s /\ changes'[h] = Append(changes[h], c) BY <2>1
    <3> HIDE DEF c
    <3> QED BY <3>1, <2>1, <1>0, ChainGrows DEF HostInv
  <2>3. Watching(h)' BY <2>1, <1>0 DEF HostInv, Watching, boundRows, PanesOf
  <2> QED BY <2>1, <2>2, <2>3, <1>0 DEF HostInv, OffIsOff
<1>4. CASE showReconnecting(h) \/ resyncHost(h)
  BY <1>0, <1>4, Worked DEF HostInv, OffIsOff, Chain, Watching, boundRows, PanesOf
<1>5. CASE startHost(h) \/ stopHost(h) \/ stopHostMarks(h)
  <2>1. /\ UNCHANGED <<link, bridge, changes, reported, job>>
        /\ phase'[h] = "off" => phase[h] = "off"
    BY <1>5, <1>0 DEF startHost, stopHost, stopHostMarks, linkVars, Kinds
  <2> QED BY <2>1, <1>0 DEF HostInv, OffIsOff, Chain, Watching, boundRows, PanesOf
<1>6. CASE stopHostEnds(h)
  <2>1. /\ link'[h] = "none" /\ link[h] = "none" /\ bridge'[h] = bridge[h]
        /\ reported'[h] = "down" /\ changes'[h] = <<>>
        /\ job'[h] = job[h] /\ job[h].pc = "idle"
    BY <1>6, <1>0 DEF stopHostEnds, Kinds
  <2>2. bridge'[h] = "down" BY <2>1, <1>0 DEF HostInv
  <2>3. Chain(h)' BY <2>1, <2>2 DEF Chain
  <2> QED BY <2>1, <2>2, <2>3 DEF HostInv, OffIsOff, Watching
<1>7. CASE Kill
  <2>1. /\ link'[h] = "none" /\ bridge'[h] = "down" /\ reported'[h] = "down"
        /\ changes'[h] = <<>> /\ job'[h] = Idle
    BY <1>7, <1>0 DEF Kill
  <2>2. Chain(h)' BY <2>1 DEF Chain
  <2> QED BY <2>1, <2>2, IdleIsOne DEF HostInv, OffIsOff, Watching
<1> QED BY <1>0, <1>1, <1>2, <1>3, <1>4, <1>5, <1>6, <1>7, StillOrMoves DEF Moves

\* The invariant both arguments rest on.
LEMMA InvAlways == Spec => []Inv
<1>1. Inv /\ [Next]_vars => Inv'
  BY KindsStep, AnswersStep, HostStep DEF Inv
<1> QED BY <1>1, InitInv, PTL DEF Spec
-----------------------------------------------------------------------------
(* The HUD, as long as agterm runs.                                        *)

\* What is ahead of the watcher stays ahead when the channel grows, and is there
\* when the bridge is up.
LEMMA AheadGrows ==
  ASSUME NEW h \in Hosts, NEW c, changes[h] \in Seq(Change), c \in Change,
         changes'[h] = Append(changes[h], c), reported'[h] = reported[h]
  PROVE  UpAhead(h)' <=> UpAhead(h) \/ c.state = "up"
<1> DEFINE n == Len(changes[h])
<1>1. /\ n \in Nat /\ Len(changes'[h]) = n + 1 /\ changes'[h][n + 1] = c
      /\ \A i \in 1..n : changes'[h][i] = changes[h][i]
  OBVIOUS
<1> HIDE DEF n
<1>2. 1..(n + 1) = 1..n \cup {n + 1} BY <1>1
<1>3. UpAhead(h) <=> reported[h] = "up" \/ \E i \in 1..n : changes[h][i].state = "up"
  BY DEF UpAhead, n
<1>4. UpAhead(h)' <=> reported'[h] = "up" \/ \E i \in 1..(n + 1) : changes'[h][i].state = "up"
  BY <1>1 DEF UpAhead
<1> QED BY <1>1, <1>2, <1>3, <1>4

\* A watcher passes a bridge that was up only where it handles the loss.
LEMMA AheadShrinks ==
  ASSUME NEW h \in Hosts, changes[h] \in Seq(Change), changes[h] # <<>>,
         changes'[h] = Tail(changes[h]), reported'[h] = changes[h][1].state
  PROVE  UpAhead(h) => UpAhead(h)' \/ reported[h] = "up"
<1> DEFINE n == Len(changes[h])
<1>1. n \in Nat /\ n # 0 OBVIOUS
<1>2. Len(Tail(changes[h])) = n - 1 OBVIOUS
<1>3. \A i \in 1..(n - 1) : Tail(changes[h])[i] = changes[h][i + 1] OBVIOUS
<1> HIDE DEF n
<1>4. SUFFICES ASSUME NEW i \in 1..n, changes[h][i].state = "up", reported'[h] # "up"
               PROVE  UpAhead(h)'
  BY DEF UpAhead, n
<1>5. i # 1 BY <1>4
<1>6. /\ i - 1 \in 1..(n - 1) /\ (i - 1) + 1 = i BY <1>1, <1>5
<1>7. changes'[h][i - 1] = changes[h][i] BY <1>3, <1>6
<1> QED BY <1>2, <1>4, <1>6, <1>7 DEF UpAhead

\* The bridge is up: that is ahead of the watcher, or what it has reported.
LEMMA UpIsAhead == ASSUME Inv, NEW h \in Hosts, bridge[h] = "up" PROVE UpAhead(h)
<1>1. changes[h] \in Seq(Change) /\ Chain(h) BY DEF Inv, Kinds, HostInv
<1>2. CASE changes[h] = <<>> BY <1>1, <1>2 DEF Chain, UpAhead
<1>3. CASE changes[h] # <<>>
  <2>1. Len(changes[h]) \in 1..Len(changes[h]) BY <1>1, <1>3, EmptySeq
  <2> QED BY <2>1, <1>1, <1>3 DEF Chain, UpAhead
<1> QED BY <1>2, <1>3

\* The HUD changes only by the hands of a watcher.
LEMMA HudMoves ==
  ASSUME Inv, HudInv, agterm, agterm', [Next]_vars
  PROVE  \/ hud' = hud
         \/ \E g \in Hosts : showReconnecting(g) \/ resyncHuds(g)
<1>1. ~AgtermQuits BY DEF AgtermQuits
<1>2. \A t \in Threads : showReconnecting(t) \/ resyncHuds(t) => t \in Hosts
  BY DEF HudInv, showReconnecting, resyncHuds, Threads
<1>3. hud' = hud \/ \E t \in Threads : showReconnecting(t) \/ resyncHuds(t)
  BY <1>1 DEF Next, vars, hostStateChanged, Supervise, Dial, Forward, Promote, Exit, startHost,
     stopHost, stopHostMarks, stopHostEnds, Outage, NetReturns, resyncHost, Sessions,
     SessionsFails, SessionsHangs, resyncDecides, resyncPush, resyncDone,
     recoverAgterm, beginAgtermRecovery, resyncAll, resyncNext, recoveryEnds, SetLevel,
     Relayed, RelayLost, Visit, Kill, Tick, AgtermReturns
<1> QED BY <1>2, <1>3

\* While agterm runs, nobody recovers.
LEMMA NobodyRecovers ==
  ASSUME Inv, HudInv, agterm, [Next]_vars PROVE job'[Recovery].pc = "idle"
<1>0. /\ job[Recovery].pc = "idle" /\ Recovery \in Threads /\ Recovery \notin Hosts
      /\ job \in [Threads -> JobRecord]
  BY PaneAssumption DEF HudInv, Inv, Kinds, Threads
<1>1. \A J : Recovers(J) = J BY DEF Recovers
<1>2. ASSUME NEW t \in Threads, t # Recovery PROVE \A j : [job EXCEPT ![t] = j][Recovery] = job[Recovery]
  BY <1>0, <1>2
<1>3. ASSUME NEW h \in Hosts, hostStateChanged(h) PROVE job'[Recovery] = job[Recovery]
  BY <1>0, <1>3, Watched
<1>4. ASSUME NEW t \in Threads, showReconnecting(t) \/ resyncHost(t)
      PROVE  job'[Recovery] = job[Recovery]
  <2>1. t # Recovery
    BY <1>0, <1>4 DEF showReconnecting, resyncHost, resyncHuds, Sessions, SessionsFails,
       SessionsHangs, resyncDecides, resyncPush, resyncDone
  <2>2. CASE showReconnecting(t) \/ resyncHuds(t)
    BY <2>1, <2>2, <1>0 DEF showReconnecting, resyncHuds, Done
  <2>3. CASE resyncPush(t)
    <3>1. PICK p \in job[t].pushes :
            LET rest == [job EXCEPT ![t].pushes = @ \ {p}]
            IN job' = rest \/ job' = Recovers(rest)
      BY <2>3 DEF resyncPush
    <3> DEFINE rest == [job EXCEPT ![t].pushes = @ \ {p}]
    <3>2. rest[Recovery] = job[Recovery] BY <2>1, <1>0
    <3>3. job' = rest BY <3>1, <1>1
    <3> QED BY <3>2, <3>3
  <2>4. CASE Sessions(t) \/ SessionsFails(t) \/ SessionsHangs(t) \/ resyncDecides(t) \/ resyncDone(t)
    BY <2>1, <2>4, <1>0
       DEF Sessions, SessionsFails, SessionsHangs, resyncDecides, resyncDone, Done
  <2> QED BY <1>4, <2>2, <2>3, <2>4 DEF resyncHost
<1>5. CASE recoverAgterm
  BY <1>0, <1>5 DEF recoverAgterm, beginAgtermRecovery, resyncAll, resyncNext, recoveryEnds
<1>6. CASE Kill BY <1>6, <1>0, IdleIsOne DEF Kill
<1>7. ASSUME NEW p \in Panes, Relayed(p) PROVE UNCHANGED job BY <1>1, <1>7 DEF Relayed
<1>8. [Next]_vars => \/ \E h \in Hosts : hostStateChanged(h)
                     \/ \E t \in Threads : showReconnecting(t) \/ resyncHost(t)
                     \/ recoverAgterm \/ UNCHANGED job \/ Kill
                     \/ \E p \in Panes : Relayed(p)
  BY DEF linkVars, hostVars, Next, vars, Supervise, Dial, Forward, Promote, Exit, startHost,
     stopHost, stopHostMarks, stopHostEnds, Outage, NetReturns, SetLevel, RelayLost, Visit,
     Tick, AgtermQuits, AgtermReturns
<1> QED BY <1>0, <1>3, <1>4, <1>5, <1>6, <1>7, <1>8

\* The part of HudInv that is about one host.
HudOf(h) ==
  /\ down[h] => phase[h] = "on" /\ bridge[h] # "up"
  /\ down[h] /\ ~UpAhead(h) => boundRows(h) \subseteq hud \cup Opening(h)
  /\ phase[h] = "on" /\ reported[h] = "up" => boundRows(h) \cap hud \subseteq Closing(h)

LEMMA HudStep ==
  ASSUME RowsApart, Inv, Inv', HudInv, agterm, agterm', [Next]_vars, NEW h \in Hosts
  PROVE  HudOf(h)'
<1>0. /\ HudOf(h) /\ HostInv(h) /\ Kinds /\ job[h] \in JobRecord /\ job \in [Threads -> JobRecord]
      /\ h \in Threads /\ down[h] \in BOOLEAN /\ changes[h] \in Seq(Change)
      /\ boundRows(h)' = boundRows(h) /\ reported[h] \in States
  BY DEF HudInv, HudOf, Inv, Kinds, Threads, boundRows, PanesOf
<1>1. ASSUME NEW g \in Hosts, g # h, NEW r \in job[g].rows, job[g].pc \in {"open", "close"}
      PROVE  r \notin boundRows(h)
  <2>1. r \in boundRows(g) BY <1>1 DEF Inv, HostInv, Watching
  <2> QED BY <2>1, <1>1 DEF boundRows, PanesOf, RowsApart
<1>2. CASE Still(h) /\ \A r \in boundRows(h) : r \in hud' <=> r \in hud
  <2>1. UpAhead(h)' <=> UpAhead(h) BY <1>2 DEF Still, UpAhead
  <2>2. Opening(h)' = Opening(h) /\ Closing(h)' = Closing(h)
    BY <1>2 DEF Still, Opening, Closing
  <2>3. boundRows(h) \subseteq hud \cup Opening(h) => boundRows(h) \subseteq hud' \cup Opening(h)
    BY <1>2
  <2>4. boundRows(h) \cap hud \subseteq Closing(h) => boundRows(h) \cap hud' \subseteq Closing(h)
    BY <1>2
  <2> QED BY <1>2, <2>1, <2>2, <2>3, <2>4, <1>0 DEF Still, HudOf
<1>3. CASE hostStateChanged(h)
  <2> DEFINE c == changes[h][1]
  <2>1. /\ Follows(reported[h], c.state) /\ reported'[h] = c.state
        /\ changes[h] # <<>> /\ changes'[h] = Tail(changes[h])
        /\ job[h].pc = "idle" /\ job'[h] = Handler(h, c)
        /\ bridge'[h] = bridge[h] /\ phase'[h] = phase[h] /\ down'[h] = down[h] /\ hud' = hud
    BY <1>3, Watched
  <2>2. UpAhead(h) => UpAhead(h)' \/ reported[h] = "up" BY <2>1, <1>0, AheadShrinks
  <2> HIDE DEF c
  <2>3. Opening(h) = {} /\ Closing(h) = {} BY <2>1 DEF Opening, Closing
  <2>4. reported[h] = "up" => c.state = "down" /\ Opening(h)' = boundRows(h)
    BY <2>1 DEF Follows, Handler, Reconnects, Opening, Idle
  <2>5. reported'[h] = "up" => Closing(h)' = boundRows(h)
    BY <2>1 DEF Handler, Resyncs, Closing, Idle
  <2> QED BY <2>1, <2>2, <2>3, <2>4, <2>5, <1>0 DEF HudOf
<1>4. CASE Dial(h) \/ Promote(h) \/ Exit(h)
  <2>1. PICK s \in States :
         /\ Follows(bridge[h], s) /\ bridge'[h] = s
         /\ changes'[h] = Append(changes[h], [state |-> s, after |-> quitUp[h]])
         /\ [state |-> s, after |-> quitUp[h]] \in Change
         /\ down'[h] = IF s = "up" THEN FALSE
                       ELSE down[h] \/ (bridge[h] = "up" /\ phase[h] = "on")
         /\ reported'[h] = reported[h]
         /\ phase'[h] = phase[h] /\ job' = job /\ hud' = hud
    BY <1>4, Supervised
  <2>2. UpAhead(h)' <=> UpAhead(h) \/ s = "up" BY <2>1, <1>0, AheadGrows
  <2>3. bridge[h] = "up" => UpAhead(h) BY UpIsAhead
  <2>4. Opening(h)' = Opening(h) /\ Closing(h)' = Closing(h) BY <2>1 DEF Opening, Closing
  <2> QED BY <2>1, <2>2, <2>3, <2>4, <1>0 DEF HudOf
<1>5. CASE showReconnecting(h)
  <2>1. PICK r \in job[h].rows :
          /\ hud' = IF agterm /\ ~Canceled(h) THEN hud \cup {r} ELSE hud
          /\ IF job[h].rows = {r} THEN Done(h) ELSE job' = [job EXCEPT ![h].rows = @ \ {r}]
    BY <1>5 DEF showReconnecting
  <2>2. /\ UNCHANGED <<bridge, changes, down, phase, reported>>
        /\ job[h].pc = "open" /\ reported[h] = "down"
    BY <1>5, <1>0 DEF showReconnecting, linkVars, hostVars, HostInv, Watching
  <2>3. (UpAhead(h)' <=> UpAhead(h)) /\ Opening(h) = job[h].rows
    BY <2>2 DEF UpAhead, Opening
  <2>4. job[h].rows \ {r} \subseteq Opening(h)'
    <3>1. CASE job[h].rows = {r} BY <3>1
    <3>2. CASE job[h].rows # {r}
      <4>1. job'[h] = [job[h] EXCEPT !.rows = @ \ {r}] BY <2>1, <3>2, <1>0
      <4> QED BY <4>1, <2>2, <1>0 DEF Opening, JobRecord
    <3> QED BY <3>1, <3>2
  <2>5. phase[h] = "on" => hud' = hud \cup {r} BY <2>1 DEF Canceled
  <2> QED BY <2>2, <2>3, <2>4, <2>5, <1>0 DEF HudOf
<1>6. CASE resyncHuds(h)
  <2>1. PICK r \in job[h].rows :
       /\ hud' = IF agterm /\ ~Canceled(h) THEN hud \ {r} ELSE hud
       /\ job' = [job EXCEPT ![h].rows = @ \ {r},
                             ![h].pc = IF job[h].rows = {r} THEN "ask" ELSE "close"]
    BY <1>6 DEF resyncHuds
  <2>2. /\ UNCHANGED <<bridge, changes, down, phase, reported>>
        /\ job[h].pc = "close" /\ reported[h] = "up"
    BY <1>6, <1>0 DEF resyncHuds, linkVars, hostVars, HostInv, Watching
  <2>3. UpAhead(h)' /\ Closing(h) = job[h].rows
    BY <2>2 DEF UpAhead, Closing
  <2>4. job[h].rows \ {r} \subseteq Closing(h)'
    <3>1. CASE job[h].rows = {r} BY <3>1
    <3>2. CASE job[h].rows # {r}
      <4>1. job'[h] = [job[h] EXCEPT !.rows = @ \ {r}, !.pc = "close"]
        BY <2>1, <3>2, <1>0
      <4> QED BY <4>1, <2>2, <1>0 DEF Closing, JobRecord
    <3> QED BY <3>1, <3>2
  <2>5. phase[h] = "on" => hud' = hud \ {r} BY <2>1 DEF Canceled
  <2> QED BY <2>2, <2>3, <2>4, <2>5, <1>0 DEF HudOf
<1>7. CASE resyncHost(h) /\ ~resyncHuds(h)
  <2>1. hud' = hud /\ job[h].pc \notin {"open", "close"}
    BY <1>7 DEF resyncHost, Sessions, SessionsFails,
       SessionsHangs, resyncDecides, resyncPush, resyncDone
  <2>2. /\ UNCHANGED <<bridge, changes, down, phase, reported>>
        /\ job'[h].pc \notin {"open", "close"}
    BY <1>7, <2>1, Worked
  <2>3. (UpAhead(h)' <=> UpAhead(h)) /\ Opening(h) = {} /\ Closing(h) = {}
        /\ Opening(h)' = {} /\ Closing(h)' = {}
    BY <2>1, <2>2 DEF UpAhead, Opening, Closing
  <2> QED BY <2>1, <2>2, <2>3, <1>0 DEF HudOf
<1>8. CASE startHost(h) \/ stopHost(h) \/ stopHostMarks(h)
  <2>1. /\ UNCHANGED <<bridge, changes, reported, job, hud>>
        /\ down'[h] => down[h] /\ phase'[h] = "on"
        /\ phase'[h] = "on" => reported[h] = "down" \/ phase[h] = "on"
    BY <1>8, <1>0 DEF startHost, stopHost, stopHostMarks, linkVars, Kinds, HudOf, HostInv,
       OffIsOff
  <2>2. (UpAhead(h)' <=> UpAhead(h)) /\ Opening(h)' = Opening(h) /\ Closing(h)' = Closing(h)
    BY <2>1 DEF UpAhead, Opening, Closing
  <2> QED BY <2>1, <2>2, <1>0 DEF HudOf
<1>9. CASE stopHostEnds(h)
  <2>1. ~down'[h] /\ phase'[h] = "off"
    BY <1>9, <1>0 DEF stopHostEnds, Kinds, HudOf
  <2> QED BY <2>1 DEF HudOf
<1>10. CASE Kill
  <2>1. ~down'[h] /\ phase'[h] = "off" BY <1>10 DEF Kill
  <2> QED BY <2>1 DEF HudOf
<1>11. CASE Still(h) /\ ~\A r \in boundRows(h) : r \in hud' <=> r \in hud
  <2>1. PICK g \in Hosts : showReconnecting(g) \/ resyncHuds(g) BY <1>11, HudMoves
  <2>2. PICK r \in job[g].rows :
          /\ hud' \in {hud, hud \cup {r}, hud \ {r}} /\ job[g].pc \in {"open", "close"}
    BY <2>1 DEF showReconnecting, resyncHuds
  <2>3. CASE g = h
    BY <2>1, <2>3, <1>5, <1>6
  <2>4. CASE g # h
    BY <2>2, <2>4, <1>1, <1>11
  <2> QED BY <2>3, <2>4
<1> QED BY <1>0, <1>2, <1>3, <1>4, <1>5, <1>6, <1>7, <1>8, <1>9, <1>10, <1>11,
           StillOrMoves DEF Moves

LEMMA HudAlways == ASSUME RowsApart PROVE Spec /\ []agterm => []HudInv
<1>1. Init => HudInv
  BY IdleIsOne, PaneAssumption
     DEF Init, HudInv, UpAhead, Opening, Closing, Threads
<1>2. Inv /\ Inv' /\ agterm /\ agterm' /\ HudInv /\ [Next]_vars => HudInv'
  BY HudStep, NobodyRecovers DEF HudInv, HudOf
<1> QED BY <1>1, <1>2, InvAlways, PTL DEF Spec

\* While agterm runs and no row has panes on two hosts, a watcher that is through
\* has left the HUD on the rows of a host that lost its bridge: the loss is in the
\* channel, in the watcher's hands or on show, however far the supervisor is ahead.
THEOREM LossIsShown ==
  ASSUME RowsApart PROVE Spec /\ []agterm => []HudShowsLoss
<1>1. Inv /\ HudInv => HudShowsLoss
  <2> SUFFICES ASSUME Inv, HudInv, NEW h \in Hosts, Quiet(h), down[h]
               PROVE  boundRows(h) \subseteq hud
    BY DEF HudShowsLoss
  <2>1. changes[h] = <<>> /\ job[h].pc = "idle" BY DEF Quiet
  <2>2. reported[h] = bridge[h] BY <2>1 DEF Inv, HostInv, Chain
  <2>3. bridge[h] # "up" BY DEF HudInv
  <2>4. Len(changes[h]) = 0 BY <2>1
  <2>5. ~UpAhead(h) BY <2>2, <2>3, <2>4 DEF UpAhead
  <2>6. Opening(h) = {} BY <2>1 DEF Opening
  <2> QED BY <2>5, <2>6 DEF HudInv
<1> QED BY <1>1, InvAlways, HudAlways, PTL

\* And on none of one whose bridge is up, whatever stops and kills left behind.
THEOREM UpClearsHud ==
  ASSUME RowsApart PROVE Spec /\ []agterm => []HudClearsWhenUp
<1>1. Inv /\ HudInv => HudClearsWhenUp
  <2> SUFFICES ASSUME Inv, HudInv, NEW h \in Hosts, Quiet(h), bridge[h] = "up"
               PROVE  boundRows(h) \cap hud = {}
    BY DEF HudClearsWhenUp
  <2>1. changes[h] = <<>> /\ job[h].pc = "idle" /\ phase[h] = "on" BY DEF Quiet
  <2>2. reported[h] = "up" BY <2>1 DEF Inv, HostInv, Chain
  <2>3. Closing(h) = {} BY <2>1 DEF Closing
  <2> QED BY <2>1, <2>2, <2>3 DEF HudInv
<1> QED BY <1>1, InvAlways, HudAlways, PTL
-----------------------------------------------------------------------------
(* The finishes: what is on disk when a resync decides.                    *)

\* The part of SinceInv that is about one host.
SinceOf(h) ==
  /\ quitUp[h] <= now /\ leftUp[h] <= now
  /\ \A i \in 1..Len(changes[h]) : changes[h][i].after <= now
  /\ ~UpAhead(h) => quitUp[h] <= leftUp[h]
  /\ phase[h] = "canceled" => quitUp[h] <= leftUp[h]
  /\ reported[h] # "up" =>
       \A i \in 1..Len(changes[h]) : FirstUp(h, i) => changes[h][i].after <= leftUp[h]
  /\ job[h].pc \notin {"idle", "open"} => job[h].since <= leftUp[h]

\* Where neither the channel nor the reported state changes, what is ahead of the
\* watcher stays.
LEMMA SinceKept ==
  ASSUME NEW h \in Hosts, SinceOf(h), changes'[h] = changes[h], reported'[h] = reported[h],
         now \in Nat, now' \in Nat, leftUp[h] \in Nat, leftUp'[h] \in Nat,
         \A i \in 1..Len(changes[h]) : changes[h][i].after \in Nat,
         now' >= now, leftUp'[h] >= leftUp[h], leftUp'[h] <= now', quitUp'[h] <= now',
         ~UpAhead(h) => quitUp'[h] <= leftUp'[h],
         phase'[h] = "canceled" => quitUp'[h] <= leftUp'[h],
         job'[h].pc \notin {"idle", "open"} => job'[h].since <= leftUp'[h]
  PROVE  SinceOf(h)'
<1>1. UpAhead(h)' <=> UpAhead(h) BY DEF UpAhead
<1>2. \A i : FirstUp(h, i)' <=> FirstUp(h, i) BY DEF FirstUp
<1>3. \A i \in 1..Len(changes'[h]) : changes'[h][i].after <= now' BY DEF SinceOf
<1>4. reported'[h] # "up" => \A i \in 1..Len(changes'[h]) :
        FirstUp(h, i)' => changes'[h][i].after <= leftUp'[h]
  BY <1>2 DEF SinceOf
<1> QED BY <1>1, <1>3, <1>4 DEF SinceOf

LEMMA SinceStep ==
  ASSUME Inv, Inv', [Next]_vars, NEW h \in Hosts, SinceOf(h)
  PROVE  SinceOf(h)'
<1>0. /\ Kinds /\ HostInv(h) /\ job[h] \in JobRecord /\ changes[h] \in Seq(Change)
      /\ now \in Nat /\ now' \in Nat /\ now' >= now /\ h \in Threads
      /\ quitUp[h] \in Nat /\ leftUp[h] \in Nat /\ leftUp'[h] \in Nat /\ quitUp'[h] \in Nat
      /\ reported[h] \in States /\ job[h].since \in Nat
  BY TimeGoes DEF Inv, Kinds, Threads, JobRecord
<1>1. \A i \in 1..Len(changes[h]) : changes[h][i] \in Change /\ changes[h][i].after \in Nat
  <2>1. \A i \in 1..Len(changes[h]) : changes[h][i] \in Change BY <1>0
  <2> QED BY <2>1 DEF Change
<1>2. CASE Still(h)
  <2>1. /\ quitUp'[h] = quitUp[h] /\ leftUp'[h] = leftUp[h] /\ job'[h] = job[h]
        /\ phase'[h] = phase[h] /\ changes'[h] = changes[h] /\ reported'[h] = reported[h]
    BY <1>2 DEF Still
  <2>2. /\ quitUp[h] <= now' /\ leftUp[h] <= now' BY <1>0 DEF SinceOf
  <2>3. /\ ~UpAhead(h) => quitUp[h] <= leftUp[h]
        /\ phase[h] = "canceled" => quitUp[h] <= leftUp[h]
        /\ job[h].pc \notin {"idle", "open"} => job[h].since <= leftUp[h]
    BY DEF SinceOf
  <2> QED BY <2>1, <2>2, <2>3, <1>0, <1>1, SinceKept
<1>3. CASE hostStateChanged(h)
  <2> DEFINE c == changes[h][1]
             n == Len(changes[h])
  <2>1. /\ Follows(reported[h], c.state) /\ reported'[h] = c.state /\ c \in Change
        /\ changes[h] # <<>> /\ changes'[h] = Tail(changes[h])
        /\ job[h].pc = "idle" /\ job'[h] = Handler(h, c)
        /\ leftUp'[h] = (IF reported[h] = "up" THEN now ELSE leftUp[h])
        /\ phase'[h] = phase[h] /\ quitUp'[h] = quitUp[h] /\ now' = now
    BY <1>3, Watched
  <2>2. n \in Nat /\ n # 0 /\ 1 \in 1..n BY <2>1, <1>0, EmptySeq
  <2>3. Len(changes'[h]) = n - 1 BY <2>1, <1>0
  <2>4. \A i \in 1..(n - 1) : changes'[h][i] = changes[h][i + 1] BY <2>1, <1>0
  <2>5. UpAhead(h) => UpAhead(h)' \/ reported[h] = "up" BY <2>1, <1>0, AheadShrinks
  <2>6. c.after \in Nat /\ c.after <= now BY <2>2, <1>1 DEF SinceOf
  <2>7. reported[h] # "up" /\ c.state = "up" => c.after <= leftUp[h]
    <3>1. c.state = "up" => FirstUp(h, 1) BY <2>2 DEF FirstUp
    <3> QED BY <3>1, <2>2 DEF SinceOf
  <2> HIDE DEF c
  <2>8. \A i \in 1..(n - 1) : i + 1 \in 1..n BY <2>2
  <2> HIDE DEF n
  <2>9. \A i \in 1..(n - 1) : changes'[h][i].after \in Nat /\ changes'[h][i].after <= now
    BY <2>4, <2>8, <1>1 DEF SinceOf, n
  <2>10. leftUp[h] <= leftUp'[h] /\ leftUp'[h] <= now /\ quitUp[h] <= now
    BY <2>1, <1>0 DEF SinceOf
  <2>11. ~UpAhead(h)' => quitUp'[h] <= leftUp'[h]
    BY <2>1, <2>5, <2>10, <1>0 DEF SinceOf
  <2>12. phase'[h] = "canceled" => quitUp'[h] <= leftUp'[h]
    BY <2>1, <2>10, <1>0 DEF SinceOf
  <2>13. ASSUME reported'[h] # "up", NEW i \in 1..(n - 1), FirstUp(h, i)'
         PROVE  changes'[h][i].after <= leftUp'[h]
    <3>1. CASE reported[h] = "up" BY <3>1, <2>1, <2>9
    <3>2. CASE reported[h] # "up"
      <4>1. changes[h][i + 1].state = "up" /\ \A j \in 1..(i - 1) : changes[h][j + 1].state # "up"
        <5>1. \A j \in 1..(i - 1) : j \in 1..(n - 1) BY <2>2
        <5> QED BY <5>1, <2>4, <2>13 DEF FirstUp
      <4>2. \A j \in 1..i : changes[h][j].state # "up"
        <5> SUFFICES ASSUME NEW j \in 1..i PROVE changes[h][j].state # "up" OBVIOUS
        <5>1. CASE j = 1 BY <5>1, <2>1, <2>13 DEF c
        <5>2. CASE j # 1
          <6>1. j - 1 \in 1..(i - 1) /\ (j - 1) + 1 = j BY <5>2, <2>2
          <6> QED BY <6>1, <4>1
        <5> QED BY <5>1, <5>2
      <4>3. i + 1 \in 1..n /\ (i + 1) - 1 = i BY <2>8, <2>2
      <4>4. FirstUp(h, i + 1) BY <4>1, <4>2, <4>3 DEF FirstUp, n
      <4>5. changes[h][i + 1].after <= leftUp[h] BY <4>3, <4>4, <3>2 DEF SinceOf, n
      <4> QED BY <4>5, <2>1, <2>4, <3>2
    <3> QED BY <3>1, <3>2
  <2>14. job'[h].pc \notin {"idle", "open"} => job'[h].since <= leftUp'[h]
    <3>1. job'[h].pc \notin {"idle", "open"} => c.state = "up" /\ job'[h].since = c.after
      BY <2>1, IdleIsOne DEF Handler, Resyncs, Reconnects, Idle
    <3>2. c.state = "up" => reported[h] # "up" BY <2>1 DEF Follows
    <3> QED BY <3>1, <3>2, <2>1, <2>7
  <2> QED BY <2>1, <2>3, <2>9, <2>10, <2>11, <2>12, <2>13, <2>14 DEF SinceOf
<1>4. CASE Dial(h) \/ Promote(h) \/ Exit(h)
  <2>1. PICK s \in States :
         /\ Follows(bridge[h], s) /\ bridge'[h] = s
         /\ changes'[h] = Append(changes[h], [state |-> s, after |-> quitUp[h]])
         /\ [state |-> s, after |-> quitUp[h]] \in Change
         /\ quitUp'[h] = (IF bridge[h] = "up" /\ s # "up" /\ phase[h] # "canceled"
                            THEN now ELSE quitUp[h])
         /\ reported'[h] = reported[h] /\ now' = now /\ leftUp'[h] = leftUp[h]
         /\ phase'[h] = phase[h] /\ job' = job
    BY <1>4, Supervised
  <2> DEFINE c == [state |-> s, after |-> quitUp[h]]
             n == Len(changes[h])
  <2>2. c.state = s /\ c.after = quitUp[h] /\ c \in Change
        /\ changes'[h] = Append(changes[h], c)
    BY <2>1
  <2> HIDE DEF c
  <2>3. /\ n \in Nat /\ Len(changes'[h]) = n + 1 /\ changes'[h][n + 1] = c
        /\ \A i \in 1..n : changes'[h][i] = changes[h][i]
    BY <2>2, <1>0
  <2>4. UpAhead(h)' <=> UpAhead(h) \/ s = "up" BY <2>1, <2>2, <1>0, AheadGrows
  <2>5. bridge[h] = "up" => UpAhead(h) BY UpIsAhead
  <2>6. 1..(n + 1) = 1..n \cup {n + 1} BY <2>3
  <2> HIDE DEF n
  <2>7. \A i \in 1..(n + 1) : changes'[h][i].after <= now
    BY <2>2, <2>3, <2>6 DEF SinceOf, n
  <2>8. quitUp'[h] <= now BY <2>1, <1>0 DEF SinceOf
  <2>9. ~UpAhead(h)' => quitUp'[h] <= leftUp'[h] BY <2>1, <2>4, <2>5 DEF SinceOf
  <2>10. phase'[h] = "canceled" => quitUp'[h] <= leftUp'[h] BY <2>1 DEF SinceOf
  <2>11. ASSUME reported'[h] # "up", NEW i \in 1..(n + 1), FirstUp(h, i)'
         PROVE  changes'[h][i].after <= leftUp'[h]
    <3>1. CASE i \in 1..n
      <4>1. \A j \in 1..(i - 1) : j \in 1..n BY <3>1, <2>3
      <4>2. FirstUp(h, i) BY <4>1, <3>1, <2>3, <2>11 DEF FirstUp, n
      <4> QED BY <4>2, <3>1, <2>1, <2>3, <2>11 DEF SinceOf, n
    <3>2. CASE i = n + 1
      <4>1. \A j \in 1..n : changes[h][j].state # "up"
        <5>1. (n + 1) - 1 = n BY <2>3
        <5> QED BY <5>1, <3>2, <2>3, <2>11 DEF FirstUp
      <4>2. ~UpAhead(h) BY <4>1, <2>1, <2>11 DEF UpAhead, n
      <4> QED BY <4>2, <3>2, <2>1, <2>2, <2>3 DEF SinceOf
    <3> QED BY <3>1, <3>2, <2>6
  <2>12. job'[h].pc \notin {"idle", "open"} => job'[h].since <= leftUp'[h]
    BY <2>1 DEF SinceOf
  <2> QED BY <2>1, <2>3, <2>7, <2>8, <2>9, <2>10, <2>11, <2>12 DEF SinceOf
<1>5. CASE showReconnecting(h) \/ resyncHost(h)
  <2>1. /\ UNCHANGED <<now, changes, quitUp, phase, reported, leftUp>>
        /\ job'[h].pc \notin {"idle", "open"} =>
             job[h].pc \notin {"idle", "open"} /\ job'[h].since = job[h].since
    BY <1>5, Worked
  <2>2. /\ ~UpAhead(h) => quitUp[h] <= leftUp[h]
        /\ phase[h] = "canceled" => quitUp[h] <= leftUp[h]
        /\ job[h].pc \notin {"idle", "open"} => job[h].since <= leftUp[h]
        /\ quitUp[h] <= now /\ leftUp[h] <= now
    BY DEF SinceOf
  <2> QED BY <2>1, <2>2, <1>0, <1>1, SinceKept
<1>6. CASE startHost(h) \/ stopHost(h) \/ stopHostMarks(h)
  <2>1. /\ UNCHANGED <<now, changes, reported, job>>
    BY <1>6 DEF startHost, stopHost, stopHostMarks, linkVars
  <2>2. \/ quitUp'[h] = quitUp[h] /\ leftUp'[h] = leftUp[h] /\ phase'[h] # "canceled"
        \/ quitUp'[h] = leftUp[h] /\ leftUp'[h] = leftUp[h]
        \/ quitUp'[h] = now /\ leftUp'[h] = now
    BY <1>6, <1>0 DEF startHost, stopHost, stopHostMarks, linkVars, markLeftUp, Kinds
  <2>3. /\ ~UpAhead(h) => quitUp[h] <= leftUp[h]
        /\ job[h].pc \notin {"idle", "open"} => job[h].since <= leftUp[h]
        /\ quitUp[h] <= now /\ leftUp[h] <= now
    BY DEF SinceOf
  <2>4. /\ leftUp[h] <= leftUp'[h] /\ leftUp'[h] <= now /\ quitUp'[h] <= now
        /\ ~UpAhead(h) => quitUp'[h] <= leftUp'[h]
        /\ phase'[h] = "canceled" => quitUp'[h] <= leftUp'[h]
        /\ job[h].pc \notin {"idle", "open"} => job[h].since <= leftUp'[h]
    BY <2>2, <2>3, <1>0
  <2> QED BY <2>1, <2>4, <1>0, <1>1, SinceKept
<1>7. CASE stopHostEnds(h) \/ Kill
  <2>1. /\ changes'[h] = <<>> /\ job'[h].pc = "idle" /\ now' = now
        /\ leftUp'[h] = leftUp[h] /\ quitUp'[h] \in {quitUp[h], leftUp[h]}
        /\ quitUp'[h] <= leftUp[h] /\ phase'[h] = "off"
    <3>1. CASE stopHostEnds(h)
      <4>1. /\ changes'[h] = <<>> /\ job'[h] = job[h] /\ job[h].pc = "idle" /\ now' = now
            /\ leftUp'[h] = leftUp[h] /\ quitUp'[h] = quitUp[h]
            /\ phase[h] = "canceled" /\ phase'[h] = "off"
        BY <3>1, <1>0 DEF stopHostEnds, Kinds
      <4> QED BY <4>1 DEF SinceOf
    <3>2. CASE Kill
      <4>1. /\ changes'[h] = <<>> /\ job'[h] = Idle /\ now' = now
            /\ leftUp'[h] = leftUp[h] /\ quitUp'[h] = leftUp[h] /\ phase'[h] = "off"
        BY <3>2, <1>0 DEF Kill
      <4> QED BY <4>1, IdleIsOne, <1>0
    <3> QED BY <1>7, <3>1, <3>2
  <2>2. Len(changes'[h]) = 0 /\ 1..0 = {} BY <2>1
  <2>3. leftUp[h] <= now /\ quitUp[h] <= now BY DEF SinceOf
  <2> QED BY <2>1, <2>2, <2>3 DEF SinceOf
<1> QED BY <1>0, <1>2, <1>3, <1>4, <1>5, <1>6, <1>7, StillOrMoves DEF Moves

LEMMA SinceAlways == Spec => []SinceInv
<1>1. SinceInv <=> \A h \in Hosts : SinceOf(h) BY DEF SinceInv, SinceOf
<1>2. Init => SinceInv
  <2> SUFFICES ASSUME Init, NEW h \in Hosts PROVE SinceOf(h) BY <1>1
  <2>1. /\ quitUp[h] = 0 /\ leftUp[h] = 0 /\ now = 1 /\ changes[h] = <<>>
        /\ phase[h] = "on" /\ job[h].pc = "idle"
    BY IdleIsOne DEF Init, Threads
  <2>2. Len(changes[h]) = 0 /\ 1..0 = {} BY <2>1
  <2> QED BY <2>1, <2>2 DEF SinceOf
<1>3. SinceInv' <=> \A h \in Hosts : SinceOf(h)' BY DEF SinceInv, SinceOf
<1>4. Inv /\ Inv' /\ SinceInv /\ [Next]_vars => SinceInv'
  BY <1>1, <1>3, SinceStep
<1> QED BY <1>2, <1>4, InvAlways, PTL DEF Spec

\* A resync pushes no finish that the user has visited if it is older, by more
\* than the slack and the time the answer took, than the last time the bridge left
\* "up": when the watcher decides, that time is on disk, after any stops and kills.
THEOREM OldFinishStaysSeen == Spec => SeenFinishStaysSeen
<1> DEFINE Keeps ==
      \A t \in Hosts :
       job[t].pc = "answer" /\ job'[t].pc = "push" =>
         \A p \in job'[t].pushes :
           LET l == job[t].got[p] IN
             l.state = "completed" /\ l.no <= seen[p] =>
               l.at + (now - job[t].read) + Slack >= job[t].since
<1>1. Inv /\ SinceInv /\ [Next]_vars => [Keeps]_vars
  <2> SUFFICES ASSUME Inv, SinceInv, [Next]_vars, NEW h \in Hosts,
                      job[h].pc = "answer", job'[h].pc = "push",
                      NEW p \in job'[h].pushes, job[h].got[p].state = "completed"
               PROVE  job[h].got[p].at + (now - job[h].read) + Slack >= job[h].since
    OBVIOUS
  <2>0. /\ job \in [Threads -> JobRecord] /\ job[h] \in JobRecord /\ h \in Threads
        /\ now \in Nat /\ leftUp[h] \in Nat /\ Slack \in Nat
    BY TimeAssumption DEF Inv, Kinds, Threads
  <2>1. resyncDecides(h)
    <3>1. ~Still(h) BY DEF Still
    <3>2. ~hostStateChanged(h) BY Watched
    <3>3. ~(Dial(h) \/ Promote(h) \/ Exit(h))
      <4>1. Dial(h) \/ Promote(h) \/ Exit(h) => job' = job BY Supervised
      <4> QED BY <4>1
    <3>4. ~(startHost(h) \/ stopHost(h) \/ stopHostMarks(h) \/ stopHostEnds(h))
      BY DEF startHost, stopHost, stopHostMarks, stopHostEnds
    <3>5. ~Kill BY IdleIsOne, <2>0 DEF Kill
    <3>6. Inv BY DEF Inv
    <3>7. Moves(h) BY <3>1, <3>6, StillOrMoves DEF Inv
    <3>8. showReconnecting(h) \/ resyncHost(h) BY <3>2, <3>3, <3>4, <3>5, <3>7 DEF Moves
    <3> QED BY <3>8, Worked
  <2>2. /\ job[h].got \in [PanesOf(h) -> Levels] /\ job[h].read <= now /\ job[h].host = h
        /\ phase[h] # "off"
    BY DEF Inv, Answers, HostInv, Watching, OffIsOff, Threads
  <2>3. p \in PanesOf(h) /\ Pushes(h, job[h].got[p], job[h].read)
    <3>1. job'[h].pushes = {q \in DOMAIN job[h].got :
                              Pushes(h, job[h].got[q], job[h].read)}
      BY <2>0, <2>1, <2>2 DEF resyncDecides, JobRecord
    <3> QED BY <3>1, <2>2
  <2>4. job[h].got[p].at \in Nat /\ job[h].read \in Nat /\ job[h].since \in Nat
    BY <2>0, <2>2, <2>3 DEF Levels, JobRecord
  <2>5. leftUp[h] = 0 \/ now - (job[h].read - job[h].got[p].at) >= leftUp[h] - Slack
    BY <2>2, <2>3 DEF Pushes, finishedSince
  <2>6. job[h].since <= leftUp[h] BY DEF SinceInv
  <2> QED BY <2>0, <2>2, <2>4, <2>5, <2>6
<1> QED BY <1>1, InvAlways, SinceAlways, PTL DEF Spec, SeenFinishStaysSeen
=============================================================================
