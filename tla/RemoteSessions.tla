--------------------------- MODULE RemoteSessions ---------------------------
(***************************************************************************)
(* The host's side: what agr.sh does to the sessions of tmux or zmx.       *)
(* `agr attach` finds or starts a session, labels it and shows it; `agr    *)
(* reap` kills one with the side-pane sessions recorded under it.  Each    *)
(* call of the multiplexer is a step of its own: several scripts run on a  *)
(* host at once, and the sessions are all they share.                      *)
(***************************************************************************)
EXTENDS BindingStore, Naturals, Functions

CONSTANTS
  NoName, \* no parent was given
  Jobs    \* the reaps that may run at once

ASSUME NoNameAssumption == NoName \notin Names

VARIABLES
  mux,    \* the host's multiplexer: "tmux" or "zmx"
  sess,   \* its sessions, a function on the names that exist: the labels agr
          \* and parent, and, for the properties, the pane that started it (by)
          \* and a number of its own (no)
  births, \* how many sessions were started
  att,    \* per pane, the `agr attach` its `agr open` runs
  retry,  \* zmx: the label loops left in the background
  job,    \* the reaps
  left    \* bounds: how often each event outside agr may still happen

remote == <<mux, sess, births, att, retry, job>>

Running(n) == n \in DOMAIN sess

Owned(n) == Running(n) /\ sess[n].agr

\* `agr sessions`: tmux_sessions and zmx_sessions list what agr owns.
OwnedNames == {n \in DOMAIN sess : sess[n].agr}

Children(n) == {c \in OwnedNames : sess[c].parent = n}

Numbered(names) == {<<n, sess[n].no>> : n \in names \cap DOMAIN sess}

Gone(s) == ~(Running(s[1]) /\ sess[s[1]].no = s[2])

Spend(event) == left[event] > 0 /\ left' = [left EXCEPT ![event] = @ - 1]
-----------------------------------------------------------------------------
(* agr attach                                                              *)

Off == [at |-> "off", name |-> NoName, parent |-> NoName]

GoesTo(p, at) == att' = [att EXCEPT ![p].at = at]

Ends(p) == att' = [att EXCEPT ![p] = Off]

Starts(n, p) ==
  /\ sess' = [m \in DOMAIN sess \cup {n} |->
       IF m = n THEN [agr |-> FALSE, parent |-> NoName, by |-> p, no |-> births]
                ELSE sess[m]]
  /\ births' = births + 1

\* The script's first line for a pane: dispatch and parse_attach_options.
Attach(p, n, parent) ==
  /\ att[p].at = "off"
  /\ att' = [att EXCEPT ![p] = [at |-> "has", name |-> n, parent |-> parent]]
  /\ UNCHANGED <<mux, sess, births, retry, job>>

TmuxHas(p) ==
  /\ att[p].at = "has" /\ mux = "tmux"
  /\ GoesTo(p, IF Running(att[p].name) THEN "label" ELSE "new")
  /\ UNCHANGED <<mux, sess, births, retry, job, left>>

\* A session that appeared since has-session makes new-session fail.
TmuxNew(p) ==
  /\ att[p].at = "new"
  /\ IF Running(att[p].name) THEN Ends(p) /\ UNCHANGED <<sess, births>>
                             ELSE Starts(att[p].name, p) /\ GoesTo(p, "label")
  /\ UNCHANGED <<mux, retry, job, left>>

TmuxLabel(p) ==
  /\ att[p].at = "label"
  /\ LET n == att[p].name IN
     IF Running(n)
       THEN /\ sess' = [sess EXCEPT ![n].agr = TRUE]
            /\ GoesTo(p, IF att[p].parent = NoName THEN "show" ELSE "parent")
       ELSE Ends(p) /\ UNCHANGED sess
  /\ UNCHANGED <<mux, births, retry, job, left>>

TmuxParent(p) ==
  /\ att[p].at = "parent"
  /\ LET n == att[p].name IN
     IF Running(n) THEN sess' = [sess EXCEPT ![n].parent = att[p].parent] /\ GoesTo(p, "show")
                   ELSE Ends(p) /\ UNCHANGED sess
  /\ UNCHANGED <<mux, births, retry, job, left>>

\* The attach itself, which needs the session and the terminal.
TmuxShow(p, tty) ==
  /\ att[p].at = "show"
  /\ IF Running(att[p].name) /\ tty THEN GoesTo(p, "on") ELSE Ends(p)
  /\ UNCHANGED <<mux, sess, births, retry, job, left>>

\* zmx_set_labels on a session that is there.
Labelled(n, parent) ==
  [sess EXCEPT ![n].agr = TRUE, ![n].parent = IF parent = NoName THEN @ ELSE parent]

ZmxLabel(p) ==
  /\ att[p].at = "has" /\ mux = "zmx"
  /\ LET n == att[p].name IN
     /\ sess' = IF Running(n) THEN Labelled(n, att[p].parent) ELSE sess
     /\ retry' = retry \cup {[name |-> n, parent |-> att[p].parent]}
  /\ GoesTo(p, "exec")
  /\ UNCHANGED <<mux, births, job, left>>

ZmxAttach(p, tty) ==
  /\ att[p].at = "exec"
  /\ IF tty THEN GoesTo(p, "on") ELSE Ends(p)
  /\ IF Running(att[p].name) THEN UNCHANGED <<sess, births>> ELSE Starts(att[p].name, p)
  /\ UNCHANGED <<mux, retry, job, left>>

\* zmx_label_retry: it labels the session once it is there, or gives up.
ZmxRetry(r) ==
  /\ r \in retry
  /\ sess' = IF Running(r.name) THEN Labelled(r.name, r.parent) ELSE sess
  /\ retry' = retry \ {r}
  /\ UNCHANGED <<mux, births, att, job, left>>
-----------------------------------------------------------------------------
(* agr reap                                                                *)

NoJob ==
  [at |-> "idle", name |-> NoName, here |-> FALSE, kids |-> {}, code |-> 0, link |-> "up",
   mine |-> {}, stuck |-> {}]

\* mine and stuck are for the properties: the children there were when the reap
\* began, and those the multiplexer refused to kill.
Reap(j, n) ==
  /\ job[j].at = "idle"
  /\ job' = [job EXCEPT ![j] = [NoJob EXCEPT !.at = "state", !.name = n,
                                             !.mine = Numbered(Children(n))]]
  /\ UNCHANGED <<mux, sess, births, att, retry>>

Answered(j, code) == [job EXCEPT ![j].at = "done", ![j].code = code]

\* Broken: without the named session there is nothing to do.
JudgedByName(j, here, kids) ==
  IF here THEN [job EXCEPT ![j].at = "own", ![j].kids = kids] ELSE Answered(j, 3)

\* What follows once presence and children are known: exit 3 only when
\* there is nothing to kill.
Judged(j, here, kids) ==
  IF here THEN [job EXCEPT ![j].at = "own", ![j].kids = kids]
  ELSE IF kids = {} THEN Answered(j, 3)
  ELSE [job EXCEPT ![j].at = "rest", ![j].kids = kids]

TmuxState(j) ==
  /\ job[j].at = "state" /\ mux = "tmux"
  /\ job' = [job EXCEPT ![j].at = "kids", ![j].here = Running(job[j].name)]
  /\ UNCHANGED <<mux, sess, births, att, retry, left>>

TmuxChildren(j) ==
  /\ job[j].at = "kids"
  /\ job' = Judged(j, job[j].here, Children(job[j].name))
  /\ UNCHANGED <<mux, sess, births, att, retry, left>>

\* One listing answers both.
ZmxScan(j) ==
  /\ job[j].at = "state" /\ mux = "zmx"
  /\ job' = Judged(j, Running(job[j].name), Children(job[j].name) \ {job[j].name})
  /\ UNCHANGED <<mux, sess, births, att, retry, left>>

\* Broken: a query that fails reads as no session.
QueryReadsAbsent(j) ==
  /\ job[j].at \in {"state", "kids"}
  /\ Spend("glitch")
  /\ job' = Answered(j, 3)
  /\ UNCHANGED <<mux, sess, births, att, retry>>

\* tmux_list_names, tmux_session_state and the listing of zmx_reap, failing.
QueryFails(j) ==
  /\ job[j].at \in {"state", "kids"}
  /\ Spend("glitch")
  /\ job' = Answered(j, 1)
  /\ UNCHANGED <<mux, sess, births, att, retry>>

IsOwned(j) ==
  /\ job[j].at = "own"
  /\ job' = IF Owned(job[j].name) THEN [job EXCEPT ![j].at = "kill"] ELSE Answered(j, 1)
  /\ UNCHANGED <<mux, sess, births, att, retry, left>>

\* A session that ends takes the clients that show it along.
Killed(n) ==
  /\ sess' = Restrict(sess, DOMAIN sess \ {n})
  /\ att' = [p \in DOMAIN att |-> IF att[p].at = "on" /\ att[p].name = n THEN Off ELSE att[p]]

KillNamed(j) ==
  /\ job[j].at = "kill"
  /\ Running(job[j].name)
  /\ Killed(job[j].name)
  /\ job' = [job EXCEPT ![j].at = "rest"]
  /\ UNCHANGED <<mux, births, retry, left>>

\* It is gone by now, or the multiplexer fails: set -e ends the script.
KillFails(j) ==
  /\ job[j].at = "kill"
  /\ IF Running(job[j].name) THEN Spend("stuck") ELSE UNCHANGED left
  /\ job' = Answered(j, 1)
  /\ UNCHANGED <<mux, sess, births, att, retry>>

KillChild(j) ==
  /\ job[j].at = "rest"
  /\ \E c \in job[j].kids :
       /\ IF Running(c) THEN Killed(c) ELSE UNCHANGED <<sess, att>>
       /\ job' = [job EXCEPT ![j].kids = @ \ {c}]
  /\ UNCHANGED <<mux, births, retry, left>>

\* A child that could not be killed is passed over.
ChildStuck(j) ==
  /\ job[j].at = "rest"
  /\ \E c \in job[j].kids :
       /\ Running(c)
       /\ job' = [job EXCEPT ![j].kids = @ \ {c}, ![j].stuck = @ \cup Numbered({c})]
  /\ Spend("stuck")
  /\ UNCHANGED <<mux, sess, births, att, retry>>

ReapEnds(j) ==
  /\ job[j].at = "rest" /\ job[j].kids = {}
  /\ job' = Answered(j, 0)
  /\ UNCHANGED <<mux, sess, births, att, retry, left>>

\* The connection drops: the Mac is told of an error, and the script goes on.
LinkLost(j) ==
  /\ job[j].at \notin {"idle", "done"} /\ job[j].link = "up"
  /\ Spend("cut")
  /\ job' = [job EXCEPT ![j].link = "lost"]
  /\ UNCHANGED <<mux, sess, births, att, retry>>

\* Nobody is left to hear the answer.
Unheard(j) ==
  /\ job[j].at = "done" /\ job[j].link = "none"
  /\ job' = [job EXCEPT ![j] = NoJob]
  /\ UNCHANGED <<mux, sess, births, att, retry, left>>

\* The program in a session ends.
SessionExits(n) ==
  /\ Running(n)
  /\ Spend("exit")
  /\ Killed(n)
  /\ UNCHANGED <<mux, births, retry, job>>
-----------------------------------------------------------------------------
ReapStep(j) ==
  \/ TmuxState(j) \/ TmuxChildren(j) \/ ZmxScan(j) \/ QueryFails(j) \/ IsOwned(j)
  \/ KillNamed(j) \/ KillFails(j) \/ KillChild(j) \/ ChildStuck(j) \/ ReapEnds(j)
  \/ LinkLost(j) \/ Unheard(j)

AttachStep(p, tty) ==
  \/ TmuxHas(p) \/ TmuxNew(p) \/ TmuxLabel(p) \/ TmuxParent(p) \/ TmuxShow(p, tty)
  \/ ZmxLabel(p) \/ ZmxAttach(p, tty)
-----------------------------------------------------------------------------
\* A reap that reports success, or that there was nothing left, has taken every
\* session that was recorded under its name all along, whether or not the
\* named session was still there; only those the multiplexer refused to kill
\* are passed over (tmux_reap, zmx_reap).
ReapTakesChildren ==
  \A j \in Jobs :
    job[j].at = "done" /\ job[j].code \in {0, 3} =>
      \A s \in job[j].mine \ job[j].stuck : Gone(s) \/ s[1] \notin Children(job[j].name)

\* The same with no child passed over; it does not hold.
ReapLeavesNoChild ==
  \A j \in Jobs :
    job[j].at = "done" /\ job[j].code = 0 =>
      \A s \in job[j].mine : Gone(s) \/ s[1] \notin Children(job[j].name)
=============================================================================
