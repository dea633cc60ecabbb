----------------------------- MODULE RowSessions ----------------------------
(***************************************************************************)
(* The rows of agterm and the sessions of one host, and the processes on   *)
(* the Mac that keep the two together: `agr open` in a pane, the hook of a *)
(* split (PaneHooks), `session new` calls of the host, `agr end`, `agr     *)
(* kill`, the daemon that unbinds closed rows.  They share the bindings,   *)
(* agterm's panes and, over ssh, the sessions (RemoteSessions).            *)
(***************************************************************************)
EXTENDS PaneHooks, RemoteSessions, Sequences

CONSTANTS
  Scenarios, \* what is there at first, and how often the rest may happen
  NewCalls,  \* the `session new` calls of the host
  Wanted,    \* the names they may ask for
  Typed,     \* the names a user may open or kill
  Generated, \* the names made of a name, `<name>-2` onwards
  Free       \* nobody holds the name lock

VARIABLES
  open,     \* per pane, the `agr open` that runs in it
  call,     \* the `session new` calls
  reserved, \* names picked for rows that are not bound yet
  lock,     \* who picks a name
  ending    \* the `agr end` run

mac == <<open, call, reserved, lock, ending>>
vars == <<panes, db, remote, left, mac>>

Ending == "end"
Killing == "kill"

ASSUME NamesAssumption ==
  /\ Wanted \subseteq Names /\ Typed \subseteq Names
  /\ Generated \in [Names -> Seq(Names)]
ASSUME WhoAssumption == Free \notin NewCalls /\ {Ending, Killing} \subseteq Jobs

Session ==
  [agr: BOOLEAN, parent: Names \cup {NoName}, by: Tokens \cup {NoToken}, no: Nat]

\* What is there at first: sessions numbered as they were started, the bindings of
\* this host, one to one, and panes that show a session or a prompt.
ASSUME ScenarioAssumption ==
  \A s \in Scenarios :
    /\ s.mux \in {"tmux", "zmx"} /\ s.births \in Nat
    /\ DOMAIN s.sess \subseteq Names /\ s.sess \in [DOMAIN s.sess -> Session]
    /\ \A n \in DOMAIN s.sess :
         /\ s.sess[n].no < s.births
         /\ s.sess[n].parent \in Names => n = ChildName[s.sess[n].parent]
    /\ s.db \subseteq {b \in Binding : b.host = Host}
    /\ \A a, b \in s.db : a # b => ~supersedes(a, b)
    /\ s.pane \in [Tokens -> {"unborn", "shown", "hidden", "gone"}]
    /\ s.on \subseteq Tokens /\ s.show \in [Tokens -> Names]
-----------------------------------------------------------------------------
(* agr open                                                                *)

NoOpen == [at |-> "none", name |-> NoName, parent |-> NoName]

Opening(n, parent) == [at |-> "bind", name |-> n, parent |-> parent]

BindingOf(p, n) ==
  [row |-> RowOf[p], paneId |-> p, pane |-> SlotOf[p], host |-> Host, name |-> n,
   grants |-> {}]

AtPrompt(p) == IsLive(p) /\ open[p].at = "none"

\* The user types it, or picks the row and the session in `agr new`.
UserOpens(p, n) ==
  /\ AtPrompt(p)
  /\ Spend("open")
  /\ open' = [open EXCEPT ![p] = Opening(n, NoName)]
  /\ UNCHANGED <<panes, db, remote, call, reserved, lock, ending>>

OpenBinds(p) ==
  /\ open[p].at = "bind"
  /\ Bind(BindingOf(p, open[p].name))
  /\ open' = [open EXCEPT ![p].at = "up"]
  /\ UNCHANGED <<panes, remote, left, call, reserved, lock, ending>>

\* The bindings are reloaded and the bridge is up: ssh runs agr attach.
OpenAttaches(p) ==
  /\ open[p].at = "up"
  /\ Attach(p, open[p].name, open[p].parent)
  /\ open' = [open EXCEPT ![p].at = "ssh"]
  /\ UNCHANGED <<panes, db, left, call, reserved, lock, ending>>

\* A check, the daemon or ssh fails; what is bound by then stays bound.
OpenFails(p) ==
  /\ open[p].at \in {"bind", "up"}
  /\ Spend("glitch")
  /\ open' = [open EXCEPT ![p] = NoOpen]
  /\ UNCHANGED <<panes, db, remote, call, reserved, lock, ending>>

OpenEnds(p) ==
  /\ open[p].at = "ssh" /\ att[p].at = "off"
  /\ open' = [open EXCEPT ![p] = NoOpen]
  /\ UNCHANGED <<panes, db, remote, left, call, reserved, lock, ending>>

\* The user detaches, or the connection drops: the session stays.
Detaches(p) ==
  /\ att[p].at = "on"
  /\ Spend("detach")
  /\ Ends(p)
  /\ UNCHANGED <<panes, db, mac, mux, sess, births, retry, job>>
-----------------------------------------------------------------------------
(* Panes                                                                   *)

\* A pane that goes takes its `agr open` along.  The script at the other end is
\* hung up with it or, where nothing has noticed yet, runs on.
Close(closed) ==
  /\ PanesClose(closed)
  /\ open' = [p \in Tokens |-> IF p \in closed THEN NoOpen ELSE open[p]]
  /\ \E on \in SUBSET {p \in closed : att[p].at \notin {"off", "on"}} :
       att' = [p \in Tokens |-> IF p \in closed \ on THEN Off ELSE att[p]]
  /\ UNCHANGED <<mux, sess, births, retry, job>>

PanesOf(row) == {p \in Live : RowOf[p] = row}

UserShows(p) ==
  /\ ShowSplit(p)
  /\ Spend("show")
  /\ UNCHANGED <<db, remote, mac>>

UserHides(p) ==
  /\ HideSplit(p)
  /\ UNCHANGED <<db, remote, left, mac>>

UserCloses(closed) ==
  /\ Spend("close")
  /\ Close(closed)
  /\ UNCHANGED <<db, call, reserved, lock, ending>>

\* The split hook, with what the typed line starts in a shell at its prompt.
HookActs(k) ==
  LET p == hook[k].pane IN
  /\ HookStep(k)
  /\ open' = IF hook[k].at = "type" /\ AtPrompt(p)
               THEN [open EXCEPT ![p] = Opening(ChildName[hook[k].name],
                       IF hook[k].knows THEN hook[k].name ELSE NoName)]
               ELSE open
  /\ UNCHANGED <<remote, left, call, reserved, lock, ending>>

Ages(p) == ClaimAges(p) /\ UNCHANGED <<remote, left, mac>>

\* The daemon unbinds a row that is gone (handleClosedRow, Status).
DaemonUnbinds(row) ==
  /\ ForRow(db, row) # {} /\ PanesOf(row) = {}
  /\ UnbindRow(row)
  /\ UNCHANGED <<panes, remote, left, mac>>

\* The user allows a pair of panes for good, or the grant's pane is gone.
Grant(n, grant) ==
  /\ Spend("grant")
  /\ AddGrant(Host, n, grant) \/ DropGrant(Host, n, grant)
  /\ UNCHANGED <<panes, remote, mac>>
-----------------------------------------------------------------------------
(* session new, asked for by the host                                      *)

NoCall ==
  [at |-> "idle", base |-> NoName, wanted |-> NoName, listed |-> {}, name |-> NoName,
   pane |-> NoToken, bound |-> FALSE]

CallArrives(c) ==
  /\ call[c].at = "idle"
  /\ Spend("new")
  /\ \E b \in ForHost(db, Host), wanted \in Wanted \cup {NoName} :
       call' = [call EXCEPT ![c].at = "lock", ![c].base = b.name, ![c].wanted = wanted]
  /\ UNCHANGED <<panes, db, remote, open, reserved, lock, ending>>

\* generateName takes the lock and lists what agr owns on the host; a query
\* of the multiplexer that fails lists nothing.
CallLists(c) ==
  /\ call[c].at = "lock" /\ lock = Free
  /\ lock' = c
  /\ \E listed \in {{}, OwnedNames} :
       /\ IF listed = OwnedNames THEN UNCHANGED left ELSE Spend("glitch")
       /\ call' = [call EXCEPT ![c].at = "pick", ![c].listed = listed]
  /\ UNCHANGED <<panes, db, remote, open, reserved, ending>>

CallRefused(c) ==
  /\ call[c].at = "lock" /\ lock = Free
  /\ Spend("glitch")
  /\ call' = [call EXCEPT ![c].at = "end"]
  /\ UNCHANGED <<panes, db, remote, open, reserved, lock, ending>>

\* Broken: names promised to other calls are not asked for.
TakenUnreserved(c) == call[c].listed \cup {b.name : b \in ForHost(db, Host)}

Taken(c) == call[c].listed \cup {b.name : b \in ForHost(db, Host)} \cup reserved

\* The wanted name if it is free, or the first free one made of it, or of the
\* caller's own session.
Picks(c) ==
  LET base == IF call[c].wanted # NoName THEN call[c].wanted ELSE call[c].base
      names == <<base>> \o Generated[base]
      first == IF call[c].wanted # NoName THEN 1 ELSE 2 IN
  {names[i] : i \in {j \in first..Len(names) :
     /\ names[j] \notin Taken(c)
     /\ \A l \in first..(j - 1) : names[l] \in Taken(c)}}

CallPicks(c) ==
  /\ call[c].at = "pick"
  /\ lock' = Free
  /\ \/ Picks(c) = {} /\ call' = [call EXCEPT ![c].at = "end"] /\ UNCHANGED reserved
     \/ \E name \in Picks(c) :
          /\ call' = [call EXCEPT ![c].at = "exec", ![c].name = name]
          /\ reserved' = reserved \cup {name}
  /\ UNCHANGED <<panes, db, remote, left, open, ending>>

\* agtermctl makes the row, whose shell runs `agr open`.
CallMakesRow(c) ==
  /\ call[c].at = "exec"
  /\ \E p \in Tokens :
       /\ NewRow(p)
       /\ open' = [open EXCEPT ![p] = Opening(call[c].name, NoName)]
       /\ call' = [call EXCEPT ![c].pane = p, ![c].at = "bind"]
  /\ UNCHANGED <<db, remote, left, reserved, lock, ending>>

\* agtermctl fails, or the call is cut, before there is a row or after.
CallCut(c) ==
  /\ call[c].at \in {"exec", "bind"}
  /\ Spend("cut")
  /\ call' = [call EXCEPT ![c].at = "release"]
  /\ UNCHANGED <<panes, db, remote, open, reserved, lock, ending>>

\* preBind: the row's left pane, if the tree shows it.
CallBinds(c) ==
  /\ call[c].at = "bind"
  /\ LET p == call[c].pane IN
     /\ IF IsLive(p) THEN Bind(BindingOf(p, call[c].name)) ELSE UNCHANGED db
     /\ call' = [call EXCEPT ![c].at = "release", ![c].bound = IsLive(p)]
  /\ UNCHANGED <<panes, remote, left, open, reserved, lock, ending>>

CallReleases(c) ==
  /\ call[c].at = "release" /\ lock = Free
  /\ reserved' = reserved \ {call[c].name}
  /\ call' = [call EXCEPT ![c].at = "end"]
  /\ UNCHANGED <<panes, db, remote, left, open, lock, ending>>
-----------------------------------------------------------------------------
(* agr end and agr kill                                                    *)

\* there is for the properties: the row's sessions that ran when it was asked.
NoEnding ==
  [at |-> "idle", row |-> CHOOSE r \in Rows : TRUE, all |-> {}, todo |-> {},
   there |-> {}, failed |-> FALSE]

EndAsks(row) ==
  /\ ending.at = "idle"
  /\ Spend("end")
  /\ LET names == {b.name : b \in ForRow(db, row)} IN
     /\ names # {}
     /\ ending' = [at |-> "asked", row |-> row, all |-> names, todo |-> names,
                   there |-> Numbered(names), failed |-> FALSE]
  /\ UNCHANGED <<panes, db, remote, open, call, reserved, lock>>

EndAnswered ==
  /\ ending.at = "asked"
  /\ \/ ending' = [ending EXCEPT !.at = "reap"]
     \/ ending' = NoEnding
  /\ UNCHANGED <<panes, db, remote, left, open, call, reserved, lock>>

\* The sessions one after the other.
EndReaps ==
  /\ ending.at = "reap"
  /\ \E n \in ending.todo : Reap(Ending, n)
  /\ ending' = [ending EXCEPT !.at = "wait"]
  /\ UNCHANGED <<panes, db, left, open, call, reserved, lock>>

\* Broken: a session that could not be ended does not keep the row.
HeardAll(fails) == FALSE

Heard(fails) == fails

Reaped(fails) ==
  ending' = [ending EXCEPT !.at = "reap", !.todo = @ \ {job[Ending].name},
                           !.failed = @ \/ Heard(fails)]

EndHears ==
  /\ ending.at = "wait"
  /\ \/ /\ job[Ending].link = "lost"
        /\ job' = [job EXCEPT ![Ending].link = "none"]
        /\ Reaped(TRUE)
     \/ /\ job[Ending].link = "up" /\ job[Ending].at = "done"
        /\ job' = [job EXCEPT ![Ending] = NoJob]
        /\ Reaped(job[Ending].code = 1)
  /\ UNCHANGED <<panes, db, mux, sess, births, att, retry, left, open, call, reserved, lock>>

\* A session that could not be ended keeps the row; otherwise agterm closes it,
\* or fails to.
EndCloses ==
  /\ ending.at = "reap" /\ ending.todo = {}
  /\ IF ~ending.failed /\ PanesOf(ending.row) # {}
       THEN /\ Close(PanesOf(ending.row))
            /\ ending' = [ending EXCEPT !.at = "unbind"]
            /\ UNCHANGED <<db, left, call, reserved, lock>>
       ELSE /\ ending' = NoEnding
            /\ UNCHANGED <<panes, db, remote, left, open, call, reserved, lock>>

CloseFails ==
  /\ ending.at = "reap" /\ ending.todo = {}
  /\ Spend("glitch")
  /\ ending' = NoEnding
  /\ UNCHANGED <<panes, db, remote, open, call, reserved, lock>>

EndUnbinds ==
  /\ ending.at = "unbind"
  /\ UnbindRow(ending.row)
  /\ ending' = NoEnding
  /\ UNCHANGED <<panes, remote, left, open, call, reserved, lock>>

KillAsks(n) ==
  /\ Spend("kill")
  /\ Reap(Killing, n)
  /\ UNCHANGED <<panes, db, mac>>

KillHears ==
  /\ job[Killing].at = "done" \/ job[Killing].link = "lost"
  /\ job' = [job EXCEPT ![Killing] =
       IF @.at = "done" THEN NoJob ELSE [@ EXCEPT !.link = "none"]]
  /\ UNCHANGED <<panes, db, mac, mux, sess, births, att, retry, left>>
-----------------------------------------------------------------------------
RowsInit ==
  /\ \E s \in Scenarios :
       /\ mux = s.mux /\ sess = s.sess /\ births = s.births
       /\ db = s.db /\ pane = s.pane /\ left = s.left
       /\ open = [p \in Tokens |-> IF p \in s.on THEN [at |-> "ssh", name |-> s.show[p],
                                                       parent |-> NoName] ELSE NoOpen]
       /\ att = [p \in Tokens |-> IF p \in s.on THEN [at |-> "on", name |-> s.show[p],
                                                      parent |-> NoName] ELSE Off]
  /\ due = [row \in Rows |-> 0] /\ hook = [k \in Hooks |-> NoHook]
  /\ handled = [p \in Tokens |-> "none"] /\ typed = [p \in Tokens |-> 0]
  /\ retry = {} /\ job = [j \in Jobs |-> NoJob]
  /\ call = [c \in NewCalls |-> NoCall] /\ reserved = {} /\ lock = Free
  /\ ending = NoEnding

RemoteStep ==
  \/ \E p \in Tokens : AttachStep(p, IsLive(p))
  \/ \E r \in retry : ZmxRetry(r)
  \/ \E j \in Jobs : ReapStep(j)
  \/ \E n \in Names : SessionExits(n)

PaneStep(p) ==
  \/ \E n \in Typed : UserOpens(p, n)
  \/ OpenBinds(p) \/ OpenAttaches(p) \/ OpenFails(p) \/ OpenEnds(p) \/ Detaches(p)
  \/ UserShows(p) \/ UserHides(p) \/ Ages(p)

CallStep(c) ==
  \/ CallArrives(c) \/ CallLists(c) \/ CallRefused(c) \/ CallPicks(c) \/ CallMakesRow(c)
  \/ CallCut(c) \/ CallBinds(c) \/ CallReleases(c)

EndStep ==
  \/ \E row \in Rows : EndAsks(row)
  \/ EndAnswered \/ EndReaps \/ EndHears \/ EndCloses \/ CloseFails \/ EndUnbinds

RowsNext ==
  \/ RemoteStep /\ UNCHANGED <<panes, db, mac>>
  \/ \E p \in Tokens : PaneStep(p)
  \/ \E row \in Rows : UserCloses(PanesOf(row)) \/ UserCloses(At(row, "right"))
  \/ \E k \in Hooks : HookActs(k)
  \/ \E row \in Rows : DaemonUnbinds(row)
  \/ \E n \in Names, grant \in Grants : Grant(n, grant)
  \/ \E c \in NewCalls : CallStep(c)
  \/ EndStep
  \/ \E n \in Typed : KillAsks(n)
  \/ KillHears

RowsSpec == RowsInit /\ [][RowsNext]_vars
-----------------------------------------------------------------------------
\* `agr end` closes a row only when every session it was asked about is gone:
\* one that ran when the question was put is never left behind, out of sight,
\* by a listing that failed, a connection that dropped or a kill that did
\* nothing (end.go, tmux_reap, zmx_reap).
ClosedMeansEnded ==
  ending.at = "unbind" => \A s \in ending.there : Gone(s)

\* A `session new` call never picks a name that another call holds: from the choice
\* of the name until the row that was made for it is no longer bound to it, no
\* other row is started on the session (generateName, reserve, preBind).
Holds(c) ==
  \/ call[c].at \in {"exec", "bind", "release"}
  \/ call[c].at = "end" /\ call[c].bound
       /\ \E b \in db : b.paneId = call[c].pane /\ b.name = call[c].name

NewNamesApart ==
  [][\A c, d \in NewCalls :
       c # d /\ call[c].at = "pick" /\ call'[c].at = "exec" /\ Holds(d) =>
         call'[c].name # call[d].name]_vars

\* The name of a new row is not in use on the host: the comment of generateName.
PicksFreeName ==
  [][\A c \in NewCalls : call[c].at = "pick" /\ call'[c].at = "exec" =>
       ~Running(call'[c].name)]_vars

\* Beside the sessions it named, `agr end` kills only those that panes of its row
\* started: its side panes.
EndsOwnSessions ==
  [][\A n \in DOMAIN sess \ DOMAIN sess' :
       job[Ending] # job'[Ending] =>
         \/ n \in ending.all
         \/ sess[n].by \in Tokens /\ RowOf[sess[n].by] = ending.row]_vars

\* A hook types at a prompt: the comment of waitForPrompt.
TypesAtPrompt ==
  [][\A p \in Tokens : typed'[p] > typed[p] => AtPrompt(p)]_vars

\* `agr end` leaves nothing behind on the host: no session of a pane it closed.
NothingLeftBehind ==
  ending.at = "unbind" =>
    \A n \in OwnedNames : sess[n].by \in Tokens => RowOf[sess[n].by] # ending.row
=============================================================================
