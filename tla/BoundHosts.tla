----------------------------- MODULE BoundHosts -----------------------------
(***************************************************************************)
(* Which hosts run, and which are bound: the commands that change bindings *)
(* (`agr open`, `agr end`), the daemon's reload-bindings, its event loop   *)
(* that hears of closed rows, and `agr up` and `agr down`.  The bindings   *)
(* and the running hosts are two stores: every locked call on either is a  *)
(* step, and nothing spans them.                                           *)
(*                                                                         *)
(* The host table is the switch of HostSlot (which HostLifecycle           *)
(* implements), with the wait of a stop left out; the calls on the file    *)
(* are those of BindingStore, and they may fail.                           *)
(***************************************************************************)
EXTENDS BindingStore

CONSTANTS
  Clients,  \* agr processes that open or end a session, with the daemon's
            \* connection that serves them
  Targets,  \* the bindings they open: subset of Binding
  FileFails \* may a call on bindings.json fail?

ASSUME TargetAssumption == Targets \subseteq Binding
ASSUME FileAssumption == FileFails \in BOOLEAN

VARIABLES
  db,       \* bindings.json
  up,       \* the hosts that run: the live entries of d.hosts
  closed,   \* rows that agterm has closed
  events,   \* closed rows the event loop has still to hear of
  excused,  \* hosts taken down by the user, whose last start or open failed, or
            \* that were looked up in a file nobody could read
  asked,    \* hosts the user has asked for with `agr up`
  pc, want, \* what a client runs, and the binding it opens or ends
  desired,  \* the hosts its reload-bindings loaded
  todo,     \* the hosts it has still to stop, then to start
  undisturbed, \* clients whose reload saw nobody else act
  loop,     \* the event loop: "idle", "unbind", "check" or "stop"
  row,      \* the closed row it handles
  checking, victim \* the hosts of it that are left, and the one to be stopped

clientVars == <<pc, want, desired, todo>>
loopVars == <<loop, row, checking, victim>>
vars == <<db, up, closed, events, excused, asked, clientVars, undisturbed, loopVars>>

Init ==
  /\ db = {} /\ up = {} /\ closed = {} /\ events = {} /\ excused = {}
  /\ asked = {}
  /\ pc = [c \in Clients |-> "idle"]
  /\ want = [c \in Clients |-> CHOOSE b \in Targets : TRUE]
  /\ desired = [c \in Clients |-> {}] /\ todo = [c \in Clients |-> {}]
  /\ undisturbed = {}
  /\ loop = "idle" /\ checking = {}
  /\ row = CHOOSE r \in Rows : TRUE
  /\ victim = CHOOSE h \in Hosts : TRUE
-----------------------------------------------------------------------------
(* Helpers.                                                                *)

BoundHosts(bindings) == {b.host : b \in bindings}

Goto(c, label) == pc' = [pc EXCEPT ![c] = label]

\* Whatever another actor does disturbs the reloads in progress.
Disturb == undisturbed' = {}
DisturbOthers(c) == undisturbed' = undisturbed \cap {c}

\* startHost: a host that runs stays, another one starts or fails to.
StartHost(h) ==
  \/ up' = up \cup {h} /\ excused' = excused \ {h}
  \/ h \notin up /\ excused' = excused \cup {h} /\ UNCHANGED up

StopHost(h) == up' = up \ {h} /\ UNCHANGED excused
-----------------------------------------------------------------------------
(* agr open, and reload-bindings in it                                     *)

OpenBegin(c) ==
  /\ pc[c] = "idle"
  /\ \E b \in Targets :
       /\ b.row \notin closed
       /\ want' = [want EXCEPT ![c] = b]
  /\ Goto(c, "bind")
  /\ DisturbOthers(c)
  /\ UNCHANGED <<db, up, closed, events, excused, asked, desired, todo, loopVars>>

OpenBind(c) ==
  /\ pc[c] = "bind"
  /\ db' = upsert(db, want[c])
  /\ Goto(c, "load")
  /\ DisturbOthers(c)
  /\ UNCHANGED <<up, closed, events, excused, asked, want, desired, todo, loopVars>>

\* reloadBindings: the hosts of the bindings, under the store's lock.
ReloadLoad(c) ==
  /\ pc[c] = "load"
  /\ desired' = [desired EXCEPT ![c] = BoundHosts(db)]
  /\ Goto(c, "look")
  /\ undisturbed' = {c}
  /\ UNCHANGED <<db, up, closed, events, excused, asked, want, todo, loopVars>>

\* The hosts that run, under d.mu; the ones nobody desires are to be stopped.
ReloadLook(c) ==
  /\ pc[c] = "look"
  /\ todo' = [todo EXCEPT ![c] = up \ desired[c]]
  /\ Goto(c, "stops")
  /\ DisturbOthers(c)
  /\ UNCHANGED <<db, up, closed, events, excused, asked, want, desired, loopVars>>

ReloadStop(c) ==
  /\ pc[c] = "stops" /\ todo[c] # {}
  /\ \E h \in todo[c] :
       /\ StopHost(h)
       /\ todo' = [todo EXCEPT ![c] = @ \ {h}]
  /\ DisturbOthers(c)
  /\ UNCHANGED <<db, closed, events, asked, pc, want, desired, loopVars>>

ReloadStops(c) ==
  /\ pc[c] = "stops" /\ todo[c] = {}
  /\ todo' = [todo EXCEPT ![c] = desired[c]]
  /\ Goto(c, "starts")
  /\ UNCHANGED <<db, up, closed, events, excused, asked, want, desired, undisturbed,
                 loopVars>>

\* Broken: the first host that fails to start ends the reload.
ReloadStartUntilFailure(c) ==
  /\ pc[c] = "starts" /\ todo[c] # {}
  /\ \E h \in todo[c] :
       /\ StartHost(h)
       /\ todo' = [todo EXCEPT ![c] = IF h \in up' THEN @ \ {h} ELSE {}]
  /\ DisturbOthers(c)
  /\ UNCHANGED <<db, closed, events, asked, pc, want, desired, loopVars>>

\* One host that fails to start does not fail the reload for the rest.
ReloadStart(c) ==
  /\ pc[c] = "starts" /\ todo[c] # {}
  /\ \E h \in todo[c] :
       /\ StartHost(h)
       /\ todo' = [todo EXCEPT ![c] = @ \ {h}]
  /\ DisturbOthers(c)
  /\ UNCHANGED <<db, closed, events, asked, pc, want, desired, loopVars>>

ReloadDone(c) ==
  /\ pc[c] = "starts" /\ todo[c] = {}
  /\ Goto(c, "up")
  /\ UNCHANGED <<db, up, closed, events, excused, asked, want, desired, todo,
                 undisturbed, loopVars>>

\* Bridge.Up, the last call of Open before it attaches.
OpenUp(c) ==
  /\ pc[c] = "up"
  /\ StartHost(want[c].host)
  /\ Goto(c, "idle")
  /\ Disturb
  /\ UNCHANGED <<db, closed, events, asked, want, desired, todo, loopVars>>

\* The shell of a closed row takes agr with it; a request the daemon is serving
\* is finished.
OpenDies(c) ==
  /\ pc[c] \in {"bind", "load", "up"} /\ want[c].row \in closed
  /\ Goto(c, "idle")
  /\ DisturbOthers(c)
  /\ UNCHANGED <<db, up, closed, events, excused, asked, want, desired, todo, loopVars>>

\* A call of the store fails, in agr or in the daemon's reload: the command ends
\* with its error, and what it bound or closed stays.
StoreFails(c) ==
  /\ FileFails /\ pc[c] \in {"bind", "load", "unbind"}
  /\ Goto(c, "idle")
  /\ excused' = excused \cup {want[c].host}
  /\ DisturbOthers(c)
  /\ UNCHANGED <<db, up, closed, events, asked, want, desired, todo, loopVars>>
-----------------------------------------------------------------------------
(* agr end, agr up, agr down and the user                                  *)

\* The remote sessions of a bound row are reaped and the row closes.
EndCloses(c) ==
  /\ pc[c] = "idle"
  /\ \E b \in db :
       /\ b.row \notin closed
       /\ want' = [want EXCEPT ![c] = b]
       /\ closed' = closed \cup {b.row}
       /\ events' = events \cup {b.row}
  /\ Goto(c, "unbind")
  /\ DisturbOthers(c)
  /\ UNCHANGED <<db, up, excused, asked, desired, todo, loopVars>>

EndUnbinds(c) ==
  /\ pc[c] = "unbind"
  /\ db' = WithoutRow(db, want[c].row)
  /\ Goto(c, "idle")
  /\ DisturbOthers(c)
  /\ UNCHANGED <<up, closed, events, excused, asked, want, desired, todo, loopVars>>

UserCloses(r) ==
  /\ r \notin closed
  /\ closed' = closed \cup {r} /\ events' = events \cup {r}
  /\ Disturb
  /\ UNCHANGED <<db, up, excused, asked, clientVars, loopVars>>

Up(h) ==
  /\ StartHost(h)
  /\ asked' = asked \cup {h}
  /\ Disturb
  /\ UNCHANGED <<db, closed, events, clientVars, loopVars>>

Down(h) ==
  /\ up' = up \ {h} /\ excused' = excused \cup {h} /\ asked' = asked \ {h}
  /\ Disturb
  /\ UNCHANGED <<db, closed, events, clientVars, loopVars>>

\* Status: agterm refused a push to a row it no longer has.
LazyUnbind(r) ==
  /\ r \in closed /\ ForRow(db, r) # {}
  /\ db' = WithoutRow(db, r)
  /\ Disturb
  /\ UNCHANGED <<up, closed, events, excused, asked, clientVars, loopVars>>
-----------------------------------------------------------------------------
(* handleClosedRow                                                         *)

ClosedRow(r) ==
  /\ loop = "idle" /\ r \in events
  /\ events' = events \ {r}
  /\ \/ (FileFails \/ ForRow(db, r) = {}) /\ UNCHANGED loopVars
     \/ /\ ForRow(db, r) # {}
        /\ loop' = "unbind" /\ row' = r
        /\ checking' = BoundHosts(ForRow(db, r))
        /\ UNCHANGED victim
  /\ Disturb
  /\ UNCHANGED <<db, up, closed, excused, asked, clientVars>>

ClosedRowUnbind ==
  /\ loop = "unbind"
  /\ db' = WithoutRow(db, row)
  /\ loop' = "check"
  /\ Disturb
  /\ UNCHANGED <<up, closed, events, excused, asked, clientVars, row, checking,
                 victim>>

\* The row stays bound, and nobody tries again.
ClosedRowUnbindFails ==
  /\ FileFails /\ loop = "unbind"
  /\ loop' = "idle"
  /\ Disturb
  /\ UNCHANGED <<db, up, closed, events, excused, asked, clientVars, row, checking,
                 victim>>

\* len(d.store.ForHost(binding.Host)) == 0, for the next host of the row.
ClosedRowCheck ==
  /\ loop = "check"
  /\ \E h \in checking :
       /\ checking' = checking \ {h}
       /\ IF ForHost(db, h) = {}
            THEN loop' = "stop" /\ victim' = h
            ELSE UNCHANGED <<loop, victim>>
  /\ Disturb
  /\ UNCHANGED <<db, up, closed, events, excused, asked, clientVars, row>>

\* An unreadable file has no bindings (ForHost): the host is taken for unbound.
ClosedRowCheckFails ==
  /\ FileFails /\ loop = "check"
  /\ \E h \in checking :
       /\ checking' = checking \ {h}
       /\ loop' = "stop" /\ victim' = h
       /\ excused' = excused \cup {h}
  /\ Disturb
  /\ UNCHANGED <<db, up, closed, events, asked, clientVars, row>>

ClosedRowStop ==
  /\ loop = "stop"
  /\ StopHost(victim)
  /\ loop' = "check"
  /\ Disturb
  /\ UNCHANGED <<db, closed, events, asked, clientVars, row, checking, victim>>

ClosedRowDone ==
  /\ loop = "check" /\ checking = {}
  /\ loop' = "idle"
  /\ UNCHANGED <<db, up, closed, events, excused, asked, clientVars, undisturbed,
                 row, checking, victim>>
-----------------------------------------------------------------------------
Reload(c) ==
  \/ ReloadLoad(c) \/ ReloadLook(c) \/ ReloadStop(c) \/ ReloadStops(c)
  \/ ReloadStart(c) \/ ReloadDone(c)

Open(c) == OpenBegin(c) \/ OpenBind(c) \/ Reload(c) \/ OpenUp(c) \/ OpenDies(c)

HandleClosedRow ==
  \/ \E r \in Rows : ClosedRow(r)
  \/ ClosedRowUnbind \/ ClosedRowUnbindFails
  \/ ClosedRowCheck \/ ClosedRowCheckFails \/ ClosedRowStop \/ ClosedRowDone

Next ==
  \/ \E c \in Clients : Open(c) \/ EndCloses(c) \/ EndUnbinds(c) \/ StoreFails(c)
  \/ \E r \in Rows : UserCloses(r) \/ LazyUnbind(r)
  \/ \E h \in Hosts : Up(h) \/ Down(h)
  \/ HandleClosedRow

Spec == Init /\ [][Next]_vars
-----------------------------------------------------------------------------
(* Properties.                                                             *)

\* Nobody is in the middle of anything.
Quiet == (\A c \in Clients : pc[c] = "idle") /\ loop = "idle" /\ events = {}

\* A reload-bindings that nobody disturbs makes the running hosts the bound
\* ones, whatever earlier races and failures left behind: a failed start costs
\* that host only.
ReloadRepairs ==
  \A c \in undisturbed : pc[c] = "up" =>
    /\ up \subseteq BoundHosts(db)
    /\ BoundHosts(db) \ up \subseteq excused

\* "each host's bridge stops only when nothing else is bound to it"
\* (handleClosedRow): when all is quiet, a host with a pane that is open runs,
\* unless the user took it down or it could not be started.
BoundHostsRun ==
  Quiet => \A b \in db : b.row \notin closed => b.host \in up \cup excused

\* "when a host has no bindings left, stop its supervisor and listener" (the
\* rewrite's plan): when all is quiet, a host runs for a binding or because
\* somebody asked for it.
UnboundHostsStop ==
  Quiet => up \subseteq BoundHosts(db) \cup asked
=============================================================================
