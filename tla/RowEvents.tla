----------------------------- MODULE RowEvents ------------------------------
(***************************************************************************)
(* How the daemon hears of closed rows.  eventLoop holds a subscription:   *)
(* an `agtermctl events` process, whose lines a goroutine of ClosedRows    *)
(* decodes and offers on an unbuffered channel.  agterm quits and returns. *)
(* A status push that is refused starts the recovery, which waits for      *)
(* agterm and then resets the subscription by closing the channel          *)
(* eventReset.  A row that the loop missed is unbound when a status push   *)
(* meets it.                                                               *)
(***************************************************************************)
EXTENDS Naturals, Sequences, FiniteSets

CONSTANTS
  Rows,
  Streams, \* numbers of the subscriptions there may be at once
  MaxQuits \* how often agterm quits

ASSUME EventsAssumption == Streams \subseteq Nat /\ Streams # {} /\ MaxQuits \in Nat

VARIABLES
  agterm,   \* up or not
  quits,
  rows,     \* the rows agterm has
  bound,    \* the rows with a binding
  stream,   \* the subscriptions
  loop,     \* eventLoop
  reset,    \* the number of the channel in d.eventReset
  shut,     \* channels before this one are closed
  recovery, \* recoverAgterm
  canceled  \* the daemon's context

agtermVars == <<agterm, quits, rows>>
recoveryVars == <<reset, shut, recovery>>
vars == <<agtermVars, bound, stream, loop, recoveryVars, canceled>>

\* An agtermctl starts, is connected to agterm, or has exited; lines is the pipe
\* and row what the goroutine offers.
NoStream == [at |-> "none", ctl |-> "exited", lines |-> <<>>, row |-> {}]

Connected(s) == stream[s].at = "reads" /\ stream[s].ctl = "on"

\* born is for the property: the channel that was current at the subscription.
Init ==
  /\ agterm = TRUE /\ quits = 0 /\ rows = Rows /\ bound = Rows
  /\ stream = [s \in Streams |-> NoStream]
  /\ loop = [at |-> "take", reset |-> 0, cur |-> {}, born |-> 0]
  /\ reset = 0 /\ shut = 0 /\ recovery = "idle" /\ canceled = FALSE

LoopGoes(at) == loop' = [loop EXCEPT !.at = at]
-----------------------------------------------------------------------------
(* eventLoop                                                               *)

TakeReset ==
  /\ loop.at = "take" /\ ~canceled
  /\ loop' = [loop EXCEPT !.at = "subscribe", !.reset = reset]
  /\ UNCHANGED <<agtermVars, bound, stream, recoveryVars, canceled>>

\* ClosedRows starts the process; whether it finds agterm shows later.
Subscribe(s) ==
  /\ loop.at = "subscribe" /\ stream[s].at = "none"
  /\ \A t \in Streams : t < s => stream[t].at # "none"
  /\ stream' = [stream EXCEPT ![s] = [NoStream EXCEPT !.at = "reads", !.ctl = "starts"]]
  /\ loop' = [loop EXCEPT !.at = "starting", !.cur = {s}, !.born = reset]
  /\ UNCHANGED <<agtermVars, bound, recoveryVars, canceled>>

\* Broken: the channel is taken once the subscription is there.
SubscribedThenTakes ==
  /\ loop.at = "starting"
  /\ loop' = [loop EXCEPT !.at = "select", !.reset = reset]
  /\ UNCHANGED <<agtermVars, bound, stream, recoveryVars, canceled>>

Subscribed ==
  /\ loop.at = "starting"
  /\ LoopGoes("select")
  /\ UNCHANGED <<agtermVars, bound, stream, recoveryVars, canceled>>

Begun == IF recovery = "idle" /\ ~canceled THEN "waits" ELSE recovery

\* The process does not start; or the source says that agterm refuses, and the
\* loop waits for the recovery.
SubscribeFails ==
  /\ loop.at = "subscribe"
  /\ \/ LoopGoes("retry") /\ UNCHANGED recovery
     \/ ~agterm /\ ~canceled /\ recovery' = Begun /\ LoopGoes("recover")
  /\ UNCHANGED <<agtermVars, bound, stream, reset, shut, canceled>>

\* The subscription is left as it is: nothing ends its process or its goroutine.
SelectReset ==
  /\ loop.at = "select" /\ loop.reset < shut
  /\ LoopGoes("take")
  /\ UNCHANGED <<agtermVars, bound, stream, recoveryVars, canceled>>

\* handleClosedRow; BoundHosts has what it does about the hosts.
SelectRow(s) ==
  /\ loop.at = "select" /\ s \in loop.cur /\ stream[s].row # {}
  /\ bound' = bound \ stream[s].row
  /\ stream' = [stream EXCEPT ![s].row = {}]
  /\ UNCHANGED <<agtermVars, loop, recoveryVars, canceled>>

\* Broken: a subscription that ends is the end of the loop.
SelectClosedReturns(s) ==
  /\ loop.at = "select" /\ s \in loop.cur /\ stream[s].at = "closed"
  /\ stream' = [stream EXCEPT ![s] = NoStream]
  /\ loop' = [loop EXCEPT !.at = "done", !.cur = {}]
  /\ UNCHANGED <<agtermVars, bound, recoveryVars, canceled>>

SelectClosed(s) ==
  /\ loop.at = "select" /\ s \in loop.cur /\ stream[s].at = "closed"
  /\ stream' = [stream EXCEPT ![s] = NoStream]
  /\ loop' = [loop EXCEPT !.at = "retry", !.cur = {}]
  /\ UNCHANGED <<agtermVars, bound, recoveryVars, canceled>>

\* waitForEventRetry.
RetryEnds ==
  /\ loop.at = "retry"
  /\ LoopGoes("take")
  /\ UNCHANGED <<agtermVars, bound, stream, recoveryVars, canceled>>

LoopReturns ==
  /\ canceled /\ loop.at \in {"take", "select", "retry", "recover"}
  /\ LoopGoes("done")
  /\ UNCHANGED <<agtermVars, bound, stream, recoveryVars, canceled>>
-----------------------------------------------------------------------------
(* ClosedRows                                                              *)

\* agtermctl finds agterm, or exits without it.
CtlStarts(s) ==
  /\ stream[s].ctl = "starts"
  /\ stream' = [stream EXCEPT ![s].ctl = IF agterm THEN "on" ELSE "exited"]
  /\ UNCHANGED <<agtermVars, bound, loop, recoveryVars, canceled>>

Scan(s) ==
  /\ stream[s].at = "reads" /\ stream[s].row = {} /\ stream[s].lines # <<>>
  /\ stream' = [stream EXCEPT ![s].row = {Head(stream[s].lines)}, ![s].lines = Tail(@)]
  /\ UNCHANGED <<agtermVars, bound, loop, recoveryVars, canceled>>

\* The end of the output, or of the daemon's context, closes the channel.
ScanEnds(s) ==
  /\ stream[s].at = "reads"
  /\ \/ stream[s].ctl = "exited" /\ stream[s].lines = <<>> /\ stream[s].row = {}
     \/ canceled
  /\ stream' = [stream EXCEPT ![s] =
       IF s \in loop.cur THEN [NoStream EXCEPT !.at = "closed"] ELSE NoStream]
  /\ UNCHANGED <<agtermVars, bound, loop, recoveryVars, canceled>>
-----------------------------------------------------------------------------
(* Status and the recovery                                                 *)

\* A status of a bound row is pushed: agterm refuses it or does not know the row.
Status(r) ==
  /\ r \in bound
  /\ \/ ~agterm /\ recovery' = Begun /\ UNCHANGED bound
     \/ agterm /\ r \notin rows /\ bound' = bound \ {r} /\ UNCHANGED recovery
  /\ UNCHANGED <<agtermVars, stream, loop, reset, shut, canceled>>

RecoveryFinds ==
  /\ recovery = "waits" /\ agterm /\ ~canceled
  /\ recovery' = "reset"
  /\ UNCHANGED <<agtermVars, bound, stream, loop, reset, shut, canceled>>

\* resetEvents: the new channel, and then the end of the old one.
ResetSwaps ==
  /\ recovery = "reset"
  /\ reset' = reset + 1 /\ recovery' = "close"
  /\ UNCHANGED <<agtermVars, bound, stream, loop, shut, canceled>>

ResetCloses ==
  /\ recovery = "close"
  /\ shut' = reset /\ recovery' = "resync"
  /\ UNCHANGED <<agtermVars, bound, stream, loop, reset, canceled>>

\* After resyncAll, or canceled, it wakes who waits for it.
RecoveryEnds ==
  /\ \/ recovery = "resync"
     \/ recovery = "waits" /\ canceled
  /\ recovery' = "idle"
  /\ IF loop.at = "recover" THEN LoopGoes("take") ELSE UNCHANGED loop
  /\ UNCHANGED <<agtermVars, bound, stream, reset, shut, canceled>>
-----------------------------------------------------------------------------
(* agterm and the end of the daemon                                        *)

AgtermQuits ==
  /\ agterm /\ quits < MaxQuits
  /\ agterm' = FALSE /\ quits' = quits + 1
  /\ stream' = [s \in Streams |->
       IF Connected(s) THEN [stream[s] EXCEPT !.ctl = "exited"] ELSE stream[s]]
  /\ UNCHANGED <<rows, bound, loop, recoveryVars, canceled>>

AgtermReturns ==
  /\ ~agterm
  /\ agterm' = TRUE
  /\ UNCHANGED <<quits, rows, bound, stream, loop, recoveryVars, canceled>>

RowCloses(r) ==
  /\ agterm /\ r \in rows
  /\ rows' = rows \ {r}
  /\ stream' = [s \in Streams |->
       IF Connected(s) THEN [stream[s] EXCEPT !.lines = Append(@, r)] ELSE stream[s]]
  /\ UNCHANGED <<agterm, quits, bound, loop, recoveryVars, canceled>>

Cancel ==
  /\ ~canceled
  /\ canceled' = TRUE
  /\ UNCHANGED <<agtermVars, bound, stream, loop, recoveryVars>>
-----------------------------------------------------------------------------
eventLoop ==
  \/ TakeReset \/ Subscribed \/ SubscribeFails \/ SelectReset \/ RetryEnds \/ LoopReturns
  \/ \E s \in Streams : Subscribe(s) \/ SelectRow(s) \/ SelectClosed(s)

ClosedRows(s) == CtlStarts(s) \/ Scan(s) \/ ScanEnds(s)

recoverAgterm == RecoveryFinds \/ ResetSwaps \/ ResetCloses \/ RecoveryEnds

Next ==
  \/ eventLoop
  \/ \E s \in Streams : ClosedRows(s)
  \/ \E r \in Rows : Status(r)
  \/ recoverAgterm
  \/ AgtermQuits \/ AgtermReturns \/ \E r \in Rows : RowCloses(r)
  \/ Cancel

Spec == Init /\ [][Next]_vars

\* The daemon's goroutines run, agtermctl starts; a process that starts at all does
\* so in the end.  Nothing is assumed of agterm, its user or the status pushes.
Fairness ==
  /\ WF_vars(eventLoop)
  /\ SF_vars(\E s \in Streams : Subscribe(s))
  /\ \A s \in Streams : WF_vars(ClosedRows(s))
  /\ WF_vars(recoverAgterm)

FairSpec == Spec /\ Fairness
-----------------------------------------------------------------------------
\* A reset that a recovery has completed interrupts the subscription that began
\* before it, also where it was still starting: the loop never waits on a
\* channel that nobody closes (the comment in eventLoop, events.go:30).
ResetReachesLoop ==
  loop.at = "select" /\ loop.born < shut => loop.reset < shut

\* Whatever quits, refusals and resets came before, once agterm stays the loop is
\* subscribed to it for good (eventLoop, recoverAgterm).
SubscribedToAgterm ==
  <>[](agterm /\ ~canceled)
    => <>[](loop.at \in {"starting", "select"} /\ \E s \in loop.cur : Connected(s))

\* A row whose end was announced to the subscription is unbound.  It does not
\* hold: a reset abandons the subscription with what it was told.
AnnouncedIsUnbound ==
  \A r \in Rows :
    (\E s \in loop.cur : loop.at = "select" /\ r \in stream[s].row)
      ~> (r \notin bound \/ canceled)

\* agtermctl listens to agterm once.  It does not hold: what a reset abandons goes
\* on until agterm quits.
OneSubscription == Cardinality({s \in Streams : Connected(s)}) <= 1
=============================================================================
