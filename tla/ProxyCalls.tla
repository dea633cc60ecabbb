----------------------------- MODULE ProxyCalls -----------------------------
(***************************************************************************)
(* The agtermctl calls that agents on one host run on the Mac: hostCtl     *)
(* counts them and waits for them when the host stops, asks the user       *)
(* before a call types into a local agent, and serves a host's pages.      *)
(*                                                                         *)
(* A thread is a call, or the goroutine that watches a page after its call *)
(* has returned.  What a call may do is the policy's decision, here any.   *)
(* The calls name one session, whose binding has the grants.               *)
(* agterm, the user, the page's JavaScript and the calling agent are the   *)
(* environment.                                                            *)
(***************************************************************************)
EXTENDS Integers, FiniteSets

CONSTANTS
  Calls,      \* connections that carry a call
  Pages,      \* pages, each with the goroutine that may watch it
  Rows,       \* local rows a call may want to type into
  Slots,      \* overlay slots of a row of the host's own
  Whole,      \* those that cover the row: a page there has no side
  None,
  MaxCalls,   \* maxCtlCalls
  MaxPages,   \* maxPagesPerHost
  MaxPosts    \* bound: POSTs between their look and their transition

ASSUME NameAssumption ==
  /\ Calls \cap Pages = {} /\ None \notin Calls \cup Pages \cup Rows \cup Slots
  /\ Whole \subseteq Slots
ASSUME LimitAssumption ==
  MaxCalls \in Nat \ {0} /\ MaxPages \in Nat \ {0} /\ MaxPosts \in Nat

VARIABLES
  pc,        \* what each thread does
  want,      \* the command of a call, and the row or slot it is about
  mine,      \* the page a call has opened, or drives
  cand,      \* the pages a driving call has still to look at
  drop,      \* the grants a call has still to drop
  gone,      \* calls whose client has left
  \* hostCtl, under h.mu, and the context of the host
  calls, running, closed, drained, dialog, refused,
  stopped,   \* the context of the host is canceled
  shut,      \* shutdown: "no", "wait", "done"
  \* agterm, and the binding's grants
  ask,       \* the dialog of a row, and the call that opened it and waits; no
             \* call when the request to open or to cancel it failed on this side
  agents,    \* rows whose pane runs an agent
  shows,     \* the page in each slot
  grants,
  consented, \* the rows that the user has let a call type into (history)
  lasting,   \* rows the user lets the host type into as long as the session is
             \* bound (history)
  \* pageShim, under s.mu, and the pages
  page, perHost,
  posts,     \* POSTs that have passed `current`, with the state they ask for
  told       \* who was told that a page has ended how (history)

callVars == <<pc, want, mine, cand, drop, gone>>
hostVars == <<calls, running, closed, drained, dialog, refused, stopped, shut>>
agtermVars == <<ask, agents, shows, grants, consented, lasting>>
pageVars == <<page, perHost, posts, told>>
vars == <<callVars, hostVars, agtermVars, pageVars>>

Threads == Calls \cup Pages
Kinds == {"refused", "plain", "type", "page", "submit", "close"}
NoWant == [kind |-> "plain", on |-> None, pair |-> FALSE, block |-> FALSE]
NoAsk == [state |-> "none", by |-> None]
NoPage == [state |-> "dismissed", bound |-> FALSE, slot |-> None, served |-> FALSE]

Init ==
  /\ pc = [t \in Threads |-> "idle"]
  /\ want = [c \in Calls |-> NoWant] /\ mine = [c \in Calls |-> None]
  /\ cand = [c \in Calls |-> {}] /\ drop = [c \in Calls |-> {}] /\ gone = {}
  /\ calls = 0 /\ running = 0 /\ closed = FALSE /\ drained = "none"
  /\ dialog = FALSE /\ refused = {} /\ stopped = FALSE /\ shut = "no"
  /\ ask = [r \in Rows |-> NoAsk] /\ agents = Rows
  /\ shows = [s \in Slots |-> None] /\ grants = {}
  /\ consented = {} /\ lasting = {}
  /\ page = [p \in Pages |-> NoPage] /\ perHost = 0
  /\ posts = {} /\ told = [p \in Pages |-> {}]
-----------------------------------------------------------------------------
(* Helpers.                                                                *)

Goto(t, label) == pc' = [pc EXCEPT ![t] = label]

\* The context of a thread has ended.
Ended(t) == stopped \/ t \in gone

Page(t) == IF t \in Pages THEN t ELSE mine[t]

isOpen(p) == page[p].state = "open"

\* pageLive: agterm lists the page in its slot.
Live(p) == shows[page[p].slot] = p

\* Broken: a page that has ended may end again.
TransitionAgain(p, state) == page' = [page EXCEPT ![p].state = state]

Transition(p, state) ==
  page' = IF isOpen(p) THEN [page EXCEPT ![p].state = state] ELSE page

\* Somebody is told that the page has ended in this state.
Tell(p, by, state) == told' = [told EXCEPT ![p] = @ \cup {<<by, state>>}]

\* finishLocked
Finish ==
  /\ running' = running - 1
  /\ drained' = IF running = 1 /\ drained = "made" THEN "closed" ELSE drained

\* pageShim.release
Release(gonePages) ==
  /\ page' = [p \in Pages |->
                IF p \in gonePages THEN [page[p] EXCEPT !.served = FALSE] ELSE page[p]]
  /\ perHost' = perHost - Cardinality({p \in gonePages : page[p].served})
-----------------------------------------------------------------------------
(* The call: Admit, the body, Ctl.                                         *)

\* Broken: the limit lets one more in.
AdmitOneMore(c) ==
  /\ pc[c] = "idle" /\ ~closed /\ calls <= MaxCalls
  /\ calls' = calls + 1 /\ running' = running + 1
  /\ Goto(c, "body") /\ gone' = gone \ {c}
  /\ consented' = consented \cup {c} \X lasting
  /\ UNCHANGED <<want, mine, cand, drop, closed, drained, dialog, refused, stopped,
                 shut, ask, agents, shows, grants, lasting, pageVars>>

\* A call that is refused leaves no trace.
Admit(c) ==
  /\ pc[c] = "idle" /\ ~closed /\ calls < MaxCalls
  /\ calls' = calls + 1 /\ running' = running + 1
  /\ Goto(c, "body") /\ gone' = gone \ {c}
  /\ consented' = consented \cup {c} \X lasting
  /\ UNCHANGED <<want, mine, cand, drop, closed, drained, dialog, refused, stopped,
                 shut, ask, agents, shows, grants, lasting, pageVars>>

\* Broken: a call whose body does not come keeps its slot.
ReadBodyKeeps(c) ==
  /\ pc[c] = "body"
  /\ \/ ~Ended(c) /\ Goto(c, "decide")
     \/ Goto(c, "idle")
  /\ UNCHANGED <<want, mine, cand, drop, gone, hostVars, agtermVars, pageVars>>

\* The body has a deadline, and the connection goes with the host.
ReadBody(c) ==
  /\ pc[c] = "body"
  /\ \/ ~Ended(c) /\ Goto(c, "decide")
     \/ Goto(c, "leave")
  /\ UNCHANGED <<want, mine, cand, drop, gone, hostVars, agtermVars, pageVars>>

\* Where a call that wants this goes on.
Decided(w) ==
  CASE w.kind = "refused" -> "leave"
    [] w.kind = "plain" -> "exec"
    [] w.kind = "type" -> IF w.pair THEN "exec" ELSE "consent"
    [] w.kind = "page" -> "register"
    [] OTHER -> "slot"

\* What the policy may decide: any of these, but a row that runs no agent is
\* never typed into, and one without a grant only after consent.
Decisions ==
  {NoWant, [NoWant EXCEPT !.kind = "refused"]}
    \cup {[kind |-> "type", on |-> r, pair |-> r \in grants, block |-> FALSE] :
             r \in agents}
    \cup {[kind |-> "page", on |-> s, pair |-> FALSE, block |-> block] :
             s \in Slots, block \in BOOLEAN}
    \cup {[kind |-> kind, on |-> s, pair |-> FALSE, block |-> FALSE] :
             s \in Slots, kind \in {"submit", "close"}}

\* versionRefusal, Authorize and Rewrite.  Grants for panes that the tree does not
\* list are to be dropped, whatever the call is about.
Authorize(c) ==
  /\ pc[c] = "decide"
  /\ \E w \in Decisions, unlisted \in SUBSET (grants \ agents) :
       /\ want' = [want EXCEPT ![c] = w] /\ drop' = [drop EXCEPT ![c] = unlisted]
       /\ Goto(c, IF unlisted = {} THEN Decided(w) ELSE "drop")
  /\ UNCHANGED <<mine, cand, gone, hostVars, agtermVars, pageVars>>

\* A call of the store for each, which may fail.
DropGrant(c) ==
  /\ pc[c] = "drop"
  /\ \E r \in drop[c] :
       /\ drop' = [drop EXCEPT ![c] = @ \ {r}]
       /\ grants' = grants \ {r} \/ UNCHANGED grants
       /\ Goto(c, IF drop[c] = {r} THEN Decided(want[c]) ELSE "drop")
  /\ UNCHANGED <<want, mine, cand, gone, hostVars, ask, agents, shows, consented,
                 lasting, pageVars>>

\* agtermctl runs, and may run for long; it is killed when the context ends.
Exec(c) ==
  /\ pc[c] = "exec"
  /\ \/ want[c].kind = "close" /\ shows' = [shows EXCEPT ![want[c].on] = None]
     \/ UNCHANGED shows
  /\ Goto(c, "leave")
  /\ UNCHANGED <<want, mine, cand, drop, gone, hostVars, ask, agents, grants,
                 consented, lasting, pageVars>>

\* Broken: the call gives its slot back, and does not tell the shutdown.
LeaveUntold(c) ==
  /\ pc[c] = "leave"
  /\ calls' = calls - 1 /\ running' = running - 1
  /\ Goto(c, "idle") /\ mine' = [mine EXCEPT ![c] = None]
  /\ want' = [want EXCEPT ![c] = NoWant] /\ consented' = consented \ {c} \X Rows
  /\ UNCHANGED <<cand, drop, gone, closed, drained, dialog, refused, stopped, shut,
                 ask, agents, shows, grants, lasting, pageVars>>

leave(c) ==
  /\ pc[c] = "leave"
  /\ calls' = calls - 1 /\ Finish
  /\ Goto(c, "idle") /\ mine' = [mine EXCEPT ![c] = None]
  /\ want' = [want EXCEPT ![c] = NoWant] /\ consented' = consented \ {c} \X Rows
  /\ UNCHANGED <<cand, drop, gone, closed, dialog, refused, stopped, shut,
                 ask, agents, shows, grants, lasting, pageVars>>
-----------------------------------------------------------------------------
(* consent                                                                 *)

\* Under h.mu: one dialog, and no dialog about a row that was just refused.
ConsentBegin(c) ==
  /\ pc[c] = "consent"
  /\ IF dialog \/ want[c].on \in refused
       THEN Goto(c, "leave") /\ UNCHANGED dialog
       ELSE Goto(c, "ask") /\ dialog' = TRUE
  /\ UNCHANGED <<want, mine, cand, drop, gone, calls, running, closed, drained, refused,
                 stopped, shut, agtermVars, pageVars>>

AskOpen(c) ==
  LET r == want[c].on IN
  /\ pc[c] = "ask"
  /\ \/ /\ ~Ended(c) /\ ask[r].state # "open"
        /\ ask' = [ask EXCEPT ![r] = [state |-> "open", by |-> c]]
        /\ Goto(c, "await")
     \/ Goto(c, "undialog") /\ UNCHANGED ask
     \/ \* agtermctl fails, or is killed, after agterm has opened the dialog.
        /\ ask[r].state # "open"
        /\ ask' = [ask EXCEPT ![r] = [state |-> "open", by |-> None]]
        /\ Goto(c, "undialog")
  /\ UNCHANGED <<want, mine, cand, drop, gone, hostVars, agents, shows, grants,
                 consented, lasting, pageVars>>

\* AskResult reads an answer.
AwaitAnswer(c) ==
  LET r == want[c].on IN
  /\ pc[c] = "await" /\ ask[r].by = c /\ ask[r].state # "open"
  /\ ask' = [ask EXCEPT ![r] = NoAsk]
  /\ Goto(c, IF ask[r].state = "deny" THEN "refuse" ELSE "check")
  /\ want' = [want EXCEPT ![c].pair = ask[r].state = "pair"]
  /\ UNCHANGED <<mine, cand, drop, gone, hostVars, agents, shows, grants, consented,
                 lasting, pageVars>>

\* Broken: a dialog that timed out is not canceled.
AwaitEndsOpen(c) ==
  /\ pc[c] = "await"
  /\ \/ Goto(c, "refuse")
     \/ Ended(c) /\ Goto(c, "cancelGone")
  /\ UNCHANGED <<want, mine, cand, drop, gone, hostVars, agtermVars, pageVars>>

\* Nobody answers in time, or the context ends.
AwaitEnds(c) ==
  /\ pc[c] = "await"
  /\ \/ Goto(c, "cancelTimeout")
     \/ Ended(c) /\ Goto(c, "cancelGone")
  /\ UNCHANGED <<want, mine, cand, drop, gone, hostVars, agtermVars, pageVars>>

\* cancelDialog, which may fail; a client that left is remembered, a host that
\* stops is not.
Cancel(c) ==
  LET r == want[c].on IN
  /\ pc[c] \in {"cancelTimeout", "cancelGone"}
  /\ \/ ask' = [ask EXCEPT ![r] = NoAsk]
     \/ ask' = [ask EXCEPT ![r].by = None]
  /\ Goto(c, IF pc[c] = "cancelTimeout" \/ ~stopped THEN "refuse" ELSE "undialog")
  /\ UNCHANGED <<want, mine, cand, drop, gone, hostVars, agents, shows, grants,
                 consented, lasting, pageVars>>

\* Broken: the next dialog may open before the refusal is remembered.
RefuseAfterDialog(c) ==
  /\ pc[c] = "refuse"
  /\ IF dialog THEN dialog' = FALSE /\ UNCHANGED <<refused, pc>>
     ELSE refused' = refused \cup {want[c].on} /\ Goto(c, "leave") /\ UNCHANGED dialog
  /\ UNCHANGED <<want, mine, cand, drop, gone, calls, running, closed, drained, stopped,
                 shut, agtermVars, pageVars>>

refuseRow(c) ==
  /\ pc[c] = "refuse"
  /\ refused' = refused \cup {want[c].on}
  /\ Goto(c, "undialog")
  /\ UNCHANGED <<want, mine, cand, drop, gone, calls, running, closed, drained, dialog,
                 stopped, shut, agtermVars, pageVars>>

\* Broken: the answer is kept, whatever it was.
afterAnswerGrants(c) ==
  /\ pc[c] = "check"
  /\ Goto(c, IF want[c].on \notin agents THEN "undialog" ELSE "grant")
  /\ UNCHANGED <<want, mine, cand, drop, gone, hostVars, agtermVars, pageVars>>

\* afterAnswer: the pane is looked at again.
afterAnswer(c) ==
  /\ pc[c] = "check"
  /\ Goto(c, IF want[c].on \notin agents THEN "undialog"
             ELSE IF want[c].pair THEN "grant" ELSE "undialogExec")
  /\ UNCHANGED <<want, mine, cand, drop, gone, hostVars, agtermVars, pageVars>>

\* The binding of the session may be gone, or the store fail; the call runs.
AddGrant(c) ==
  /\ pc[c] = "grant"
  /\ grants' = grants \cup {want[c].on} \/ UNCHANGED grants
  /\ Goto(c, "undialogExec")
  /\ UNCHANGED <<want, mine, cand, drop, gone, hostVars, ask, agents, shows, consented,
                 lasting, pageVars>>

Undialog(c) ==
  /\ pc[c] \in {"undialog", "undialogExec"}
  /\ dialog' = FALSE
  /\ Goto(c, IF pc[c] = "undialog" THEN "leave" ELSE "exec")
  /\ UNCHANGED <<want, mine, cand, drop, gone, calls, running, closed, drained, refused,
                 stopped, shut, agtermVars, pageVars>>
-----------------------------------------------------------------------------
(* runPage and watchPage                                                   *)

\* Nothing refers to the page object any more: it may stand for the next page.
Unused(p) ==
  /\ ~page[p].served /\ pc[p] = "idle"
  /\ \A c \in Calls : mine[c] # p /\ p \notin cand[c]
  /\ \A post \in posts : post[1] # p
  /\ \A s \in Slots : shows[s] # p

register(c) ==
  /\ pc[c] = "register"
  /\ \/ /\ perHost < MaxPages
        /\ \E p \in Pages :
             /\ Unused(p)
             /\ page' = [page EXCEPT ![p] = [state |-> "open", bound |-> FALSE,
                                             slot |-> want[c].on, served |-> TRUE]]
             /\ told' = [told EXCEPT ![p] = {}]
             /\ mine' = [mine EXCEPT ![c] = p]
        /\ perHost' = perHost + 1
        /\ Goto(c, "open")
     \/ \* The limit, or the server does not start.
        Goto(c, "leave") /\ UNCHANGED <<mine, page, perHost, told>>
  /\ UNCHANGED <<want, cand, drop, gone, hostVars, agtermVars, posts>>

\* `session overlay open`: agterm shows the page or not, and agtermctl
\* succeeds, fails or is killed.
OpenOverlay(c) ==
  /\ pc[c] = "open"
  /\ \/ shows' = [shows EXCEPT ![want[c].on] = mine[c]]
     \/ UNCHANGED shows
  /\ \/ Ended(c) /\ Goto(c, "hook")
     \/ ~Ended(c) /\ Goto(c, "release")
     \/ ~Ended(c) /\ shows'[want[c].on] = mine[c] /\ Goto(c, "opened")
  /\ UNCHANGED <<want, mine, cand, drop, gone, hostVars, ask, agents, grants,
                 consented, lasting, pageVars>>

\* The cancel is read once.
OpenedCanceled(c) ==
  /\ pc[c] = "opened"
  /\ Goto(c, IF Ended(c) THEN "hook" ELSE "bind")
  /\ UNCHANGED <<want, mine, cand, drop, gone, hostVars, agtermVars, pageVars>>

\* The page id of agterm's reply, unless it has none.
bind(c) ==
  /\ pc[c] = "bind"
  /\ \/ /\ page' = [page EXCEPT ![mine[c]].bound = TRUE]
        /\ Goto(c, IF want[c].block THEN "wait" ELSE "track")
     \/ Goto(c, "release") /\ UNCHANGED page
  /\ UNCHANGED <<want, mine, cand, drop, gone, hostVars, agtermVars, perHost, posts,
                 told>>

\* Broken: the watcher is not counted.
TrackUncounted(c) ==
  /\ pc[c] = "track"
  /\ IF closed
       THEN Goto(c, "release")
       ELSE pc' = [pc EXCEPT ![c] = "leave", ![mine[c]] = "wait"]
  /\ UNCHANGED <<want, mine, cand, drop, gone, hostVars, agtermVars, pageVars>>

track(c) ==
  /\ pc[c] = "track"
  /\ IF closed
       THEN Goto(c, "release") /\ UNCHANGED running
       ELSE /\ running' = running + 1
            /\ pc' = [pc EXCEPT ![c] = "leave", ![mine[c]] = "wait"]
  /\ UNCHANGED <<want, mine, cand, drop, gone, calls, closed, drained, dialog, refused,
                 stopped, shut, agtermVars, pageVars>>

\* cancelHook: agterm closes whatever is in the slot, or fails to.
CancelHook(c) ==
  /\ pc[c] = "hook"
  /\ \/ shows' = [shows EXCEPT ![want[c].on] = None]
     \/ UNCHANGED shows
  /\ Goto(c, "release")
  /\ UNCHANGED <<want, mine, cand, drop, gone, hostVars, ask, agents, grants,
                 consented, lasting, pageVars>>

\* Broken: a page is waited for however long it takes.
WaitEndsDeaf(t) ==
  /\ pc[t] = "wait" /\ ~isOpen(Page(t))
  /\ Goto(t, "closeLook")
  /\ UNCHANGED <<want, mine, cand, drop, gone, hostVars, agtermVars, pageVars>>

\* wait: the page has ended, or the context has.
WaitEnds(t) ==
  /\ pc[t] = "wait"
  /\ \/ ~isOpen(Page(t)) /\ Goto(t, "closeLook")
     \/ Ended(t) /\ Goto(t, IF t \in Calls THEN "hook" ELSE "release")
  /\ UNCHANGED <<want, mine, cand, drop, gone, hostVars, agtermVars, pageVars>>

\* The ticker: agterm does not list the page, or its row for a while.
WaitPolls(t) ==
  /\ pc[t] = "wait" /\ isOpen(Page(t))
  /\ Goto(t, "dismiss")
  /\ UNCHANGED <<want, mine, cand, drop, gone, hostVars, agtermVars, pageVars>>

\* Broken: the poll changes nothing.
WaitDismissesNot(t) ==
  /\ pc[t] = "dismiss"
  /\ Goto(t, "wait")
  /\ UNCHANGED <<want, mine, cand, drop, gone, hostVars, agtermVars, pageVars>>

WaitDismisses(t) ==
  /\ pc[t] = "dismiss"
  /\ Transition(Page(t), "dismissed")
  /\ Goto(t, "wait")
  /\ UNCHANGED <<want, mine, cand, drop, gone, hostVars, agtermVars, perHost, posts,
                 told>>

\* Where closePageOverlay returns to: watchPage, driveShimPage or runPage.
Closed(t) ==
  CASE t \in Pages -> "release"
    [] t \in Calls /\ want[t].kind = "page" -> "outcome"
    [] OTHER -> "leave"

\* closePageOverlay looks, then closes what is in the slot.
CloseLook(t) ==
  /\ pc[t] = "closeLook"
  /\ \/ Live(Page(t)) /\ Goto(t, "close")
     \/ Goto(t, Closed(t))
  /\ UNCHANGED <<want, mine, cand, drop, gone, hostVars, agtermVars, pageVars>>

closePageOverlay(t) ==
  /\ pc[t] = "close"
  /\ \/ shows' = [shows EXCEPT ![page[Page(t)].slot] = None]
     \/ UNCHANGED shows
  /\ Goto(t, Closed(t))
  /\ UNCHANGED <<want, mine, cand, drop, gone, hostVars, ask, agents, grants,
                 consented, lasting, pageVars>>

\* A call that waited for its page reports how it ended.
outcome(c) ==
  /\ pc[c] = "outcome"
  /\ Tell(mine[c], "wait", page[mine[c]].state)
  /\ Goto(c, "release")
  /\ UNCHANGED <<want, mine, cand, drop, gone, hostVars, agtermVars, page, perHost,
                 posts>>

\* Broken: the page goes, and the count of the host's pages stays.
ReleaseUncounted(t) ==
  /\ pc[t] = "release"
  /\ page' = [page EXCEPT ![Page(t)].served = FALSE]
  /\ Goto(t, IF t \in Calls THEN "leave" ELSE "finish")
  /\ UNCHANGED <<want, mine, cand, drop, gone, hostVars, agtermVars, perHost, posts,
                 told>>

release(t) ==
  /\ pc[t] = "release"
  /\ Release({Page(t)})
  /\ Goto(t, IF t \in Calls THEN "leave" ELSE "finish")
  /\ UNCHANGED <<want, mine, cand, drop, gone, hostVars, agtermVars, posts, told>>

\* The end of a tracked goroutine.
watchEnds(p) ==
  /\ pc[p] = "finish"
  /\ Finish /\ Goto(p, "idle")
  /\ UNCHANGED <<want, mine, cand, drop, gone, calls, closed, dialog, refused,
                 stopped, shut, agtermVars, pageVars>>
-----------------------------------------------------------------------------
(* driveShimPage: `session overlay submit` and `close` by the host.        *)

\* A page that covers the row is in every slot of it.
openInSlot(c) ==
  /\ pc[c] = "slot"
  /\ cand' = [cand EXCEPT ![c] =
                {p \in Pages : /\ page[p].served /\ isOpen(p)
                              /\ page[p].slot \in Whole \cup {want[c].on}}]
  /\ Goto(c, "drive")
  /\ UNCHANGED <<want, mine, drop, gone, hostVars, agtermVars, pageVars>>

\* One of them is the page agterm shows; the others are dismissed.  A look that
\* fails is one that does not find the page.
DriveLook(c) ==
  /\ pc[c] = "drive"
  /\ \E p \in cand[c] :
       /\ cand' = [cand EXCEPT ![c] = @ \ {p}]
       /\ \/ /\ mine[c] = None /\ isOpen(p) /\ page[p].bound /\ Live(p)
             /\ mine' = [mine EXCEPT ![c] = p]
             /\ UNCHANGED page
          \/ Transition(p, "dismissed") /\ UNCHANGED mine
  /\ UNCHANGED <<pc, want, drop, gone, hostVars, agtermVars, perHost, posts, told>>

\* The call is answered with success, also when the page has just ended otherwise.
Drive(c) ==
  /\ pc[c] = "drive" /\ cand[c] = {}
  /\ IF mine[c] = None
       THEN Goto(c, "exec") /\ UNCHANGED <<page, told>>
       ELSE LET end == IF want[c].kind = "submit" THEN "submitted" ELSE "dismissed" IN
            /\ Transition(mine[c], end) /\ Tell(mine[c], "drive", end)
            /\ Goto(c, IF isOpen(mine[c]) THEN "closeLook" ELSE "leave")
  /\ UNCHANGED <<want, mine, cand, drop, gone, hostVars, agtermVars, perHost, posts>>
-----------------------------------------------------------------------------
(* servePost, from the page's JavaScript.                                  *)

current(p, state) ==
  /\ Cardinality(posts) < MaxPosts
  /\ page[p].served /\ isOpen(p) /\ page[p].bound /\ Live(p)
  /\ posts' = posts \cup {<<p, state>>}
  /\ UNCHANGED <<callVars, hostVars, agtermVars, page, perHost, told>>

servePost(p, state) ==
  /\ <<p, state>> \in posts
  /\ Transition(p, state)
  /\ IF isOpen(p) THEN Tell(p, "post", state) ELSE UNCHANGED told
  /\ posts' = posts \ {<<p, state>>}
  /\ UNCHANGED <<callVars, hostVars, agtermVars, perHost>>
-----------------------------------------------------------------------------
(* The host stops and starts.                                              *)

Stop ==
  /\ ~stopped
  /\ stopped' = TRUE
  /\ UNCHANGED <<callVars, calls, running, closed, drained, dialog, refused, shut,
                 agtermVars, pageVars>>

shutdown ==
  /\ stopped /\ shut = "no"
  /\ closed' = TRUE
  /\ IF running = 0
       THEN shut' = "done" /\ UNCHANGED drained
       ELSE shut' = "wait" /\ drained' = "made"
  /\ UNCHANGED <<callVars, calls, running, dialog, refused, stopped, agtermVars,
                 pageVars>>

shutdownReturns ==
  /\ shut = "wait" /\ drained = "closed"
  /\ shut' = "done"
  /\ UNCHANGED <<callVars, calls, running, closed, drained, dialog, refused, stopped,
                 agtermVars, pageVars>>

\* releaseHost, and a new hostCtl when the host is started again.
NewHost ==
  /\ shut = "done"
  /\ Release({p \in Pages : page[p].served})
  /\ calls' = 0 /\ running' = 0 /\ closed' = FALSE /\ drained' = "none"
  /\ dialog' = FALSE /\ refused' = {} /\ stopped' = FALSE /\ shut' = "no"
  /\ UNCHANGED <<callVars, agtermVars, posts, told>>
-----------------------------------------------------------------------------
(* agterm, the user and the calling agents.                                *)

ClientLeaves(c) ==
  /\ pc[c] # "idle" /\ c \notin gone
  /\ gone' = gone \cup {c}
  /\ UNCHANGED <<pc, want, mine, cand, drop, hostVars, agtermVars, pageVars>>

\* What the user allows as long as the session is bound, it allows to the calls
\* that run as well.
LetHost(rows) == consented' = consented \cup {c \in Calls : pc[c] # "idle"} \X rows

\* Nobody reads an answer when agtermctl had failed.
Answer(r) ==
  /\ ask[r].state = "open"
  /\ \/ /\ ask[r].by = None
        /\ ask' = [ask EXCEPT ![r] = NoAsk] /\ UNCHANGED <<consented, lasting>>
     \/ /\ ask[r].by # None
        /\ \/ ask' = [ask EXCEPT ![r].state = "deny"] /\ UNCHANGED <<consented, lasting>>
           \/ /\ ask' = [ask EXCEPT ![r].state = "once"]
              /\ consented' = consented \cup {<<ask[r].by, r>>} /\ UNCHANGED lasting
           \/ /\ ask' = [ask EXCEPT ![r].state = "pair"]
              /\ LetHost({r}) /\ lasting' = lasting \cup {r}
  /\ UNCHANGED <<callVars, hostVars, agents, shows, grants, pageVars>>

\* Answers of "until it closes" that are not stored yet: the daemon stores them
\* for the session, bound again or not.
Unstored ==
  {r \in Rows : \/ ask[r].state = "pair"
                \/ \E c \in Calls : /\ pc[c] \in {"check", "grant"}
                                    /\ want[c].pair /\ want[c].on = r}

\* `agr open --orchestrator`: the session is bound again, with this grant.
OpenOrchestrator(r) ==
  /\ grants' = {r} /\ lasting' = Unstored \cup {r} /\ LetHost({r})
  /\ UNCHANGED <<callVars, hostVars, ask, agents, shows, pageVars>>

\* The row of the session closes, or `agr end` ends it; it may be bound again.
Unbind ==
  /\ grants # {} /\ grants' = {} /\ lasting' = Unstored
  /\ UNCHANGED <<callVars, hostVars, ask, agents, shows, consented, pageVars>>

AgentChanges(r) ==
  /\ agents' = IF r \in agents THEN agents \ {r} ELSE agents \cup {r}
  /\ UNCHANGED <<callVars, hostVars, ask, shows, grants, consented, lasting, pageVars>>

\* A minute has passed.
RefusalEnds(r) ==
  /\ r \in refused
  /\ refused' = refused \ {r}
  /\ UNCHANGED <<callVars, calls, running, closed, drained, dialog, stopped, shut,
                 agtermVars, pageVars>>

UserCloses(s) ==
  /\ shows[s] # None
  /\ shows' = [shows EXCEPT ![s] = None]
  /\ UNCHANGED <<callVars, hostVars, ask, agents, grants, consented, lasting, pageVars>>
-----------------------------------------------------------------------------
Consent(c) ==
  \/ ConsentBegin(c) \/ AskOpen(c) \/ AwaitAnswer(c) \/ AwaitEnds(c) \/ Cancel(c)
  \/ refuseRow(c) \/ afterAnswer(c) \/ AddGrant(c) \/ Undialog(c)

RunPage(c) ==
  register(c) \/ OpenOverlay(c) \/ OpenedCanceled(c) \/ bind(c) \/ track(c) \/ CancelHook(c)

WaitPage(t) ==
  WaitEnds(t) \/ WaitDismisses(t) \/ CloseLook(t) \/ closePageOverlay(t) \/ release(t)

driveShimPage(c) == openInSlot(c) \/ DriveLook(c) \/ Drive(c)

Ctl(c) ==
  \/ ReadBody(c) \/ Authorize(c) \/ DropGrant(c) \/ Consent(c) \/ RunPage(c) \/ outcome(c)
  \/ driveShimPage(c) \/ leave(c)

Next ==
  \/ \E c \in Calls : Admit(c) \/ Ctl(c) \/ Exec(c) \/ ClientLeaves(c)
  \/ \E t \in Threads : WaitPage(t) \/ WaitPolls(t)
  \/ \E p \in Pages : watchEnds(p)
  \/ \E p \in Pages, state \in {"submitted", "dismissed"} :
       current(p, state) \/ servePost(p, state)
  \/ Stop \/ shutdown \/ shutdownReturns \/ NewHost
  \/ Unbind
  \/ \E r \in Rows : Answer(r) \/ OpenOrchestrator(r) \/ AgentChanges(r) \/ RefusalEnds(r)
  \/ \E s \in Slots : UserCloses(s)

Spec == Init /\ [][Next]_vars

\* A goroutine that can go on does, and what it asks of agterm is answered.
\* Nothing is assumed of a command that runs in agterm for as long as its
\* client waits, of the user, the pages, the clients and the next start.
Fairness ==
  /\ \A c \in Calls : WF_vars(Ctl(c)) /\ WF_vars(stopped /\ Exec(c))
  /\ \A t \in Threads :
       WF_vars(WaitPage(t)) /\ WF_vars(WaitPolls(t) /\ ~Live(Page(t)))
  /\ \A p \in Pages : WF_vars(watchEnds(p))
  /\ WF_vars(shutdown) /\ WF_vars(shutdownReturns)

FairSpec == Spec /\ Fairness
-----------------------------------------------------------------------------
(* Properties.                                                             *)

Labels ==
  {"idle", "body", "decide", "drop", "exec", "leave", "consent", "ask", "await",
   "cancelTimeout", "cancelGone", "refuse", "check", "grant", "undialog", "undialogExec",
   "register", "open", "opened", "bind", "track", "hook", "wait", "dismiss",
   "closeLook", "close", "outcome", "release", "slot", "drive", "finish"}

\* Every variable holds a value of its kind.
TypeOK ==
  /\ pc \in [Threads -> Labels]
  /\ want \in [Calls -> [kind : Kinds, on : Rows \cup Slots \cup {None},
                         pair : BOOLEAN, block : BOOLEAN]]
  /\ mine \in [Calls -> Pages \cup {None}] /\ cand \in [Calls -> SUBSET Pages]
  /\ drop \in [Calls -> SUBSET Rows] /\ gone \subseteq Calls
  /\ calls \in 0..MaxCalls /\ running \in Nat /\ closed \in BOOLEAN
  /\ drained \in {"none", "made", "closed"} /\ dialog \in BOOLEAN
  /\ refused \subseteq Rows /\ stopped \in BOOLEAN /\ shut \in {"no", "wait", "done"}
  /\ ask \in [Rows -> [state : {"none", "open", "once", "pair", "deny"},
                       by : Calls \cup {None}]]
  /\ agents \subseteq Rows /\ shows \in [Slots -> Pages \cup {None}]
  /\ grants \subseteq Rows /\ consented \subseteq Calls \X Rows /\ lasting \subseteq Rows
  /\ page \in [Pages -> [state : {"open", "submitted", "dismissed"}, bound : BOOLEAN,
                         slot : Slots \cup {None}, served : BOOLEAN]]
  /\ perHost \in 0..MaxPages
  /\ posts \subseteq Pages \X {"submitted", "dismissed"}
  /\ told \in [Pages -> SUBSET ({"post", "wait", "drive"} \X {"submitted", "dismissed"})]

\* No slot of the host is lost or given back twice, on any of the ways out of a
\* call: the counters are the calls, and the goroutines shutdown waits for.
SlotsAccounted ==
  /\ calls = Cardinality({c \in Calls : pc[c] # "idle"})
  /\ running = Cardinality({t \in Threads : pc[t] # "idle"})

\* "waits for the running ones" (shutdown): when it has returned nothing of the
\* host runs or can begin to, and none of its pages is served.
NothingAfterShutdown ==
  shut = "done" =>
    (\A t \in Threads : pc[t] = "idle") /\ (\A p \in Pages : ~page[p].served)

\* "Nothing is typed until you allow it", and a grant "lasts as long as the
\* caller's binding" (README): when a call is about to type into a row, the user
\* has allowed it to this very call, or lets the host type into the row while the
\* call runs and the session is bound.  Whatever is stored, dropped, denied and
\* bound again in between lets no other call through.  (The grant itself may be
\* gone by then: the decision is not looked at again.)
TypesWithConsent ==
  \A c \in Calls :
    pc[c] = "exec" /\ want[c].kind = "type" => <<c, want[c].on>> \in consented

\* "a refused target row is not asked about again for a minute" (consent): no
\* dialog of a host opens on a row that the host knows to be refused.
RefusalHolds ==
  [][\A r \in Rows :
       ask'[r].state = "open" /\ ask[r].state # "open" => r \notin refused]_vars

\* "A dialog nobody is waiting for is cancelled, so it cannot be clicked after
\* the fact" (await): an open dialog has a call that reads it or cancels it,
\* unless agtermctl failed at one of the two.
DialogHasReader ==
  \A r \in Rows :
    ask[r].state = "open" /\ ask[r].by # None =>
      /\ want[ask[r].by].on = r
      /\ pc[ask[r].by] \in {"await", "cancelTimeout", "cancelGone"}

\* The same without the exception; agtermctl may be killed after agterm has
\* opened the dialog (AskOpen runs under the context of the call).
NoDialogLeft == \A r \in Rows : ask[r].state = "open" => ask[r].by # None

\* The pages that count towards the limit of the host are the ones it serves.
PagesAccounted == perHost = Cardinality({p \in Pages : page[p].served})

\* "exactly one transition leaves pageOpen": a POST that was told its submit or
\* close has ended the page, and a call that waited and reports the outcome, are
\* right and stay right, whoever else ends the page or its slot meanwhile.
OutcomeTold ==
  \A p \in Pages : \A t \in told[p] : t[1] # "drive" => t[2] = page[p].state

\* "The outcome returned to the host is built from that one transition" (the
\* proxy's plan): the same of a call of the host that drives the page.
DriverToldOutcome ==
  \A p \in Pages : \A t \in told[p] : t[1] = "drive" => t[2] = page[p].state

\* A host that stops is waited for, and the wait ends.
ShutdownReturns == stopped ~> shut = "done" \/ ~stopped

\* A page that has left its slot is given up, with its token and its files.
PageGoes ==
  \A p \in Pages :
    page[p].served ~> ~page[p].served \/ shows[page[p].slot] = p

\* "a page that was replaced in the slot is not the daemon's to close"
\* (closePageOverlay).
ClosesOwnPage ==
  [][\A t \in Threads :
       pc[t] = "close" /\ pc'[t] # "close" /\ shows' # shows
         => shows[page[Page(t)].slot] = Page(t)]_vars
=============================================================================
