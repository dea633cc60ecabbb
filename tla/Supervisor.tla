----------------------------- MODULE Supervisor -----------------------------
(***************************************************************************)
(* One bridge supervisor: the loop that keeps `ssh -N -R` running, the     *)
(* MarkAlive calls of the receiver, the reclaim of the remote socket path, *)
(* the backoff, Stop and the context, and the daemon's watcher at the      *)
(* other end of the changes channel.                                       *)
(*                                                                         *)
(* Run is one goroutine; a step of it ends where it may block or where     *)
(* another goroutine can see the difference.  The ssh process, the remote  *)
(* sshd and the network are the environment.                               *)
(***************************************************************************)
EXTENDS Naturals, Sequences

CONSTANTS
  Cap,             \* capacity of the changes channel (16 in the code)
  InitialBackoff,  \* initialBackoff and maxBackoff, in a unit of time
  MaxBackoff,
  RmOutlivesSsh    \* may a remote rm run after its ssh was given up?

ASSUME CapAssumption == Cap \in Nat \ {0}
ASSUME BackoffAssumption ==
  /\ InitialBackoff \in Nat \ {0} /\ MaxBackoff \in Nat
  /\ InitialBackoff <= MaxBackoff
ASSUME RmAssumption == RmOutlivesSsh \in BOOLEAN

VARIABLES
  pc,         \* where Run is; "returned" also closes the changes channel
  previous,   \* the last backoff delay, 0 before the first
  state,      \* s.state
  changes,    \* what the changes channel holds
  dropped,    \* some state change found the channel full
  reported,   \* runtime.state, as the daemon's watcher last set it
  stop, ctx,  \* s.stop is closed; the context has ended
  running,    \* s.process # nil
  timer,      \* the promotion timer is armed
  proof,      \* what promoted the current process ("none": not promoted)
  event,      \* a line the receiver has read and not yet reported
  mark,       \* a MarkAlive between its look at s.process and its send
  token,      \* what s.alive holds
  proc,       \* the tunnel's ssh process
  sig,        \* how far execProcess.Stop went with it
  blocked,    \* it printed forwardFailure to the bridge log
  remote,     \* the socket path on the remote host
  lateRm,     \* a remote rm is still to run though its ssh is gone
  healthy     \* fork works, and ssh answers within its timeouts

runVars == <<pc, previous>>
chanVars == <<changes, dropped>>
aliveVars == <<event, mark, token>>
procVars == <<proc, sig, blocked>>
envVars == <<remote, lateRm, healthy>>
vars == <<runVars, state, chanVars, reported, stop, ctx, running, timer, proof,
          aliveVars, procVars, envVars>>

States == {"down", "connecting", "up"}
Evidence == {"none", "fresh", "stale"}  \* of the current tunnel, or an older one

Stopping == stop \/ ctx
Alive == proc \in {"dialing", "forwarded"}

Init ==
  /\ pc = "top" /\ previous = 0
  /\ state = "down" /\ changes = <<>> /\ dropped = FALSE
  /\ reported = "down"
  /\ stop = FALSE /\ ctx = FALSE
  /\ running = FALSE /\ timer = FALSE /\ proof = "none"
  /\ event = "none" /\ mark = "none" /\ token = "none"
  /\ proc = "none" /\ sig = "none" /\ blocked = FALSE
  /\ remote \in {"free", "stale"} /\ lateRm = FALSE /\ healthy \in BOOLEAN
-----------------------------------------------------------------------------
(* Helpers.                                                                *)

\* jitter: within 20 percent of base.
Jitter(base) == {v \in 0..(2 * base) : 4 * base <= 5 * v /\ 5 * v <= 6 * base}

\* Broken: the doubling has no cap.
NextDelayUncapped(prev, long) ==
  IF long \/ prev = 0 THEN Jitter(InitialBackoff) ELSE Jitter(2 * prev)

\* Next, over a connection that lasted more than maxBackoff or did not.
NextDelay(prev, long) ==
  IF long \/ prev = 0 THEN Jitter(InitialBackoff)
  ELSE IF 2 * prev > MaxBackoff THEN Jitter(MaxBackoff)
  ELSE Jitter(2 * prev)

\* Broken: off by one at the capacity of the channel.
SetStateOffByOne(s) ==
  /\ state' = s
  /\ IF s = state THEN UNCHANGED <<changes, dropped>>
     ELSE IF Len(changes) <= Cap
       THEN changes' = Append(changes, s) /\ UNCHANGED dropped
       ELSE dropped' = TRUE /\ UNCHANGED changes

\* setState: a transition is sent if the channel has room, and dropped if not.
SetState(s) ==
  /\ state' = s
  /\ IF s = state THEN UNCHANGED <<changes, dropped>>
     ELSE IF Len(changes) < Cap
       THEN changes' = Append(changes, s) /\ UNCHANGED dropped
       ELSE dropped' = TRUE /\ UNCHANGED changes

\* Run returns: the deferred finish closes the channel.
Finish == pc' = "returned"

\* A notification of the tunnel that was current is one of an older tunnel now.
Older(e) == IF e = "fresh" THEN "stale" ELSE e
-----------------------------------------------------------------------------
(* Run                                                                     *)

Check ==
  /\ pc = "top"
  /\ \/ Stopping /\ Finish
     \/ ~Stopping /\ pc' = "start"
  /\ UNCHANGED <<previous, state, chanVars, reported, stop, ctx,
                 running, timer, proof, aliveVars, procVars, envVars>>

\* runner.Start fails.
StartFails ==
  /\ pc = "start" /\ ~healthy
  /\ \/ Stopping /\ Finish /\ UNCHANGED previous
     \/ /\ ~Stopping
        /\ previous' \in NextDelay(previous, FALSE)
        /\ pc' = "backoff"
  /\ UNCHANGED <<state, chanVars, reported, stop, ctx, running, timer,
                 proof, aliveVars, procVars, envVars>>

\* runner.Start works: a new process, and nothing empties s.alive for it.
StartSsh ==
  /\ pc = "start"
  /\ running' = TRUE /\ timer' = TRUE /\ proof' = "none"
  /\ proc' = "dialing" /\ sig' = "none" /\ blocked' = FALSE
  /\ event' = Older(event) /\ mark' = Older(mark) /\ token' = Older(token)
  /\ SetState("connecting")
  /\ pc' = "select"
  /\ UNCHANGED <<previous, reported, stop, ctx, envVars>>

\* case <-s.alive
SelectAlive ==
  /\ pc = "select" /\ token # "none"
  /\ token' = "none"
  /\ IF proof = "none"
       THEN proof' = token /\ SetState("up")
       ELSE UNCHANGED <<proof, state, chanVars>>
  /\ UNCHANGED <<runVars, reported, stop, ctx, running, timer, event, mark,
                 procVars, envVars>>

\* case <-timer.C
SelectTimer ==
  /\ pc = "select" /\ timer
  /\ timer' = FALSE
  /\ IF proof = "none"
       THEN proof' = "timer" /\ SetState("up")
       ELSE UNCHANGED <<proof, state, chanVars>>
  /\ UNCHANGED <<runVars, reported, stop, ctx, running, aliveVars, procVars,
                 envVars>>

\* Broken: Run returns and leaves the process behind.
SelectStopAtOnce ==
  /\ pc = "select" /\ Stopping
  /\ timer' = FALSE
  /\ Finish
  /\ UNCHANGED <<previous, state, chanVars, reported, stop, ctx, running, proof,
                 aliveVars, procVars, envVars>>

\* Broken: the select has no case for s.stop.
SelectStopContextOnly ==
  /\ pc = "select" /\ ctx
  /\ timer' = FALSE
  /\ pc' = "stopProcess"
  /\ UNCHANGED <<previous, state, chanVars, reported, stop, ctx, running, proof,
                 aliveVars, procVars, envVars>>

\* case <-ctx.Done(), case <-s.stop
SelectStop ==
  /\ pc = "select" /\ Stopping
  /\ timer' = FALSE
  /\ pc' = "stopProcess"
  /\ UNCHANGED <<previous, state, chanVars, reported, stop, ctx, running, proof,
                 aliveVars, procVars, envVars>>

\* Broken: the state is set and the change is not sent.
SelectExitSilent ==
  /\ pc = "select" /\ proc = "exited"
  /\ timer' = FALSE /\ running' = FALSE /\ proof' = "none"
  /\ state' = "down"
  /\ pc' = IF blocked THEN "reclaim" ELSE "next"
  /\ proc' = "none" /\ sig' = "none" /\ blocked' = FALSE
  /\ UNCHANGED <<previous, chanVars, reported, stop, ctx, aliveVars, envVars>>

\* Broken: the bridge log is not looked at.
SelectExitNoReclaim ==
  /\ pc = "select" /\ proc = "exited"
  /\ timer' = FALSE /\ running' = FALSE /\ proof' = "none"
  /\ SetState("down")
  /\ pc' = "next"
  /\ proc' = "none" /\ sig' = "none" /\ blocked' = FALSE
  /\ UNCHANGED <<previous, reported, stop, ctx, aliveVars, envVars>>

\* case <-waitCh, and what follows the inner loop up to the backoff.
SelectExit ==
  /\ pc = "select" /\ proc = "exited"
  /\ timer' = FALSE /\ running' = FALSE /\ proof' = "none"
  /\ SetState("down")
  /\ pc' = IF blocked THEN "reclaim" ELSE "next"
  /\ proc' = "none" /\ sig' = "none" /\ blocked' = FALSE
  /\ UNCHANGED <<previous, reported, stop, ctx, aliveVars, envVars>>

\* stopProcess returns: the process is gone, or execProcess.Stop gave up on it.
StopProcess ==
  /\ pc = "stopProcess" /\ (~Alive \/ sig = "gaveUp")
  /\ running' = FALSE /\ proof' = "none"
  /\ SetState("down")
  /\ Finish
  /\ UNCHANGED <<previous, reported, stop, ctx, timer, aliveVars, procVars,
                 envVars>>

\* reclaimRemoteSocket: start an ssh that removes the path.
ReclaimStart ==
  /\ pc = "reclaim"
  /\ \/ pc' = "reclaiming"
     \/ ~healthy /\ pc' = "next"
  /\ UNCHANGED <<previous, state, chanVars, reported, stop, ctx, running, timer,
                 proof, aliveVars, procVars, envVars>>

\* It exits: the path is gone, or the command failed before or after the rm.
ReclaimExit ==
  /\ pc = "reclaiming"
  /\ \/ remote' = "free"
     \/ ~healthy /\ UNCHANGED remote
  /\ pc' = "next"
  /\ UNCHANGED <<previous, state, chanVars, reported, stop, ctx, running, timer,
                 proof, aliveVars, procVars, lateRm, healthy>>

\* Stop, the context or reclaimTimeout ends the wait, and the local ssh with it.
ReclaimGivesUp ==
  /\ pc = "reclaiming" /\ (Stopping \/ ~healthy)
  /\ \/ UNCHANGED lateRm
     \/ RmOutlivesSsh /\ lateRm' = TRUE
  /\ pc' = "next"
  /\ UNCHANGED <<previous, state, chanVars, reported, stop, ctx, running, timer,
                 proof, aliveVars, procVars, remote, healthy>>

\* previous = Next(previous, time.Since(started))
ComputeDelay ==
  /\ pc = "next"
  /\ \E long \in BOOLEAN : previous' \in NextDelay(previous, long)
  /\ pc' = "backoff"
  /\ UNCHANGED <<state, chanVars, reported, stop, ctx, running, timer, proof,
                 aliveVars, procVars, envVars>>

\* wait: the delay is over.
BackoffOver ==
  /\ pc = "backoff"
  /\ pc' = "top"
  /\ UNCHANGED <<previous, state, chanVars, reported, stop, ctx, running, timer,
                 proof, aliveVars, procVars, envVars>>

BackoffStop ==
  /\ pc = "backoff" /\ Stopping
  /\ Finish
  /\ UNCHANGED <<previous, state, chanVars, reported, stop, ctx, running,
                 timer, proof, aliveVars, procVars, envVars>>
-----------------------------------------------------------------------------
(* The receiver, the daemon and execProcess.                               *)

\* A line comes through the tunnel; a connection handles one line at a time.
EventArrives ==
  /\ proc = "forwarded" /\ remote = "ours" /\ event = "none" /\ mark = "none"
  /\ event' = "fresh"
  /\ UNCHANGED <<runVars, state, chanVars, reported, stop, ctx, running, timer,
                 proof, mark, token, procVars, envVars>>

\* MarkAlive, under s.mu: is there a process?
MarkAlive ==
  /\ event # "none"
  /\ mark' = IF running THEN event ELSE "none"
  /\ event' = "none"
  /\ UNCHANGED <<runVars, state, chanVars, reported, stop, ctx, running, timer,
                 proof, token, procVars, envVars>>

\* Its send, after the lock: lost if s.alive already holds one.
MarkSend ==
  /\ mark # "none"
  /\ token' = IF token = "none" THEN mark ELSE token
  /\ mark' = "none"
  /\ UNCHANGED <<runVars, state, chanVars, reported, stop, ctx, running, timer,
                 proof, event, procVars, envVars>>

\* watchHostStates takes the next change; once the context has ended its select
\* may still take one, or leave.
Report ==
  /\ changes # <<>>
  /\ reported' = Head(changes)
  /\ changes' = Tail(changes)
  /\ UNCHANGED <<runVars, state, dropped, stop, ctx, running, timer,
                 proof, aliveVars, procVars, envVars>>

Stop ==
  /\ ~stop
  /\ stop' = TRUE
  /\ UNCHANGED <<runVars, state, chanVars, reported, ctx, running, timer, proof,
                 aliveVars, procVars, envVars>>

Cancel ==
  /\ ~ctx
  /\ ctx' = TRUE
  /\ UNCHANGED <<runVars, state, chanVars, reported, stop, running, timer, proof,
                 aliveVars, procVars, envVars>>

\* execProcess.Stop, called by stopProcess or by ExecRunner's own goroutine when
\* the context ends: SIGTERM, a grace, SIGKILL, a shorter wait; or a kill fails.
Kill ==
  /\ Alive /\ (pc = "stopProcess" \/ ctx)
  /\ \/ sig = "none" /\ sig' = "TERM"
     \/ sig = "TERM" /\ sig' = "KILL"
     \/ sig # "gaveUp" /\ sig' = "gaveUp"
  /\ UNCHANGED <<runVars, state, chanVars, reported, stop, ctx, running, timer,
                 proof, aliveVars, proc, blocked, envVars>>
-----------------------------------------------------------------------------
(* The ssh process, sshd and the network.                                  *)

\* sshd binds the remote path, if nothing is there; ExitOnForwardFailure=yes.
Forward ==
  /\ proc = "dialing"
  /\ \/ /\ remote = "free"
        /\ proc' = "forwarded" /\ remote' = "ours"
        /\ UNCHANGED blocked
     \/ /\ remote # "free"
        /\ proc' = "exited" /\ blocked' = TRUE
        /\ UNCHANGED remote
  /\ UNCHANGED <<runVars, state, chanVars, reported, stop, ctx, running, timer,
                 proof, aliveVars, sig, lateRm, healthy>>

\* The process exits: killed, or the connection is lost.  sshd may leave the
\* socket file of a lost connection behind.
ProcessExits ==
  /\ Alive /\ (~healthy \/ sig # "none")
  /\ proc' = "exited"
  /\ remote' \in IF remote = "ours" THEN {"free", "stale"} ELSE {remote}
  /\ UNCHANGED <<runVars, state, chanVars, reported, stop, ctx, running, timer,
                 proof, aliveVars, sig, blocked, lateRm, healthy>>

\* A remote rm that was given up runs after all.
LateRmRuns ==
  /\ lateRm
  /\ lateRm' = FALSE /\ remote' = "free"
  /\ UNCHANGED <<runVars, state, chanVars, reported, stop, ctx, running, timer,
                 proof, aliveVars, procVars, healthy>>

Weather ==
  /\ healthy' = ~healthy
  /\ UNCHANGED <<runVars, state, chanVars, reported, stop, ctx, running, timer,
                 proof, aliveVars, procVars, remote, lateRm>>
-----------------------------------------------------------------------------
Start == StartFails \/ StartSsh
Reclaim == ReclaimStart \/ ReclaimExit \/ ReclaimGivesUp
Backoff == ComputeDelay \/ BackoffOver \/ BackoffStop

Next ==
  \/ Check \/ Start
  \/ SelectAlive \/ SelectTimer \/ SelectStop \/ SelectExit
  \/ StopProcess \/ Reclaim \/ Backoff
  \/ EventArrives \/ MarkAlive \/ MarkSend \/ Report \/ Stop \/ Cancel \/ Kill
  \/ Forward \/ ProcessExits \/ LateRmRuns \/ Weather

Spec == Init /\ [][Next]_vars

\* Run's goroutine runs and its timers fire; Go's select starves no case.  A
\* MarkAlive that has begun is finished, the watcher reads until the context
\* ends, and ssh and sshd act on a healthy machine.  Nothing is assumed of exits,
\* of Stop or of the weather.
Fairness ==
  /\ WF_vars(Check) /\ WF_vars(Start)
  /\ WF_vars(SelectTimer) /\ WF_vars(SelectStop) /\ WF_vars(SelectExit)
  /\ WF_vars(StopProcess) /\ WF_vars(Reclaim) /\ WF_vars(Backoff)
  /\ WF_vars(MarkSend) /\ WF_vars(~ctx /\ Report) /\ WF_vars(Kill)
  /\ WF_vars(Forward)

FairSpec == Spec /\ Fairness
-----------------------------------------------------------------------------
(* Properties.                                                             *)

\* Every variable holds a value of its kind.
TypeOK ==
  /\ pc \in {"top", "start", "select", "stopProcess", "reclaim", "reclaiming",
             "next", "backoff", "returned"}
  /\ previous \in Nat /\ state \in States /\ reported \in States
  /\ changes \in Seq(States) /\ Len(changes) <= Cap
  /\ dropped \in BOOLEAN /\ stop \in BOOLEAN /\ ctx \in BOOLEAN
  /\ running \in BOOLEAN /\ timer \in BOOLEAN /\ blocked \in BOOLEAN
  /\ lateRm \in BOOLEAN /\ healthy \in BOOLEAN
  /\ proof \in Evidence \cup {"timer"}
  /\ event \in Evidence /\ mark \in Evidence /\ token \in Evidence
  /\ proc \in {"none", "dialing", "forwarded", "exited"}
  /\ sig \in {"none", "TERM", "KILL", "gaveUp"}
  /\ remote \in {"free", "stale", "ours"}

\* A reconnect never spins and never waits longer than 20 percent over the cap,
\* though jitter compounds from one attempt to the next.
BackoffBounded ==
  previous # 0 =>
    4 * InitialBackoff <= 5 * previous /\ 5 * previous <= 6 * MaxBackoff

\* There is one tunnel process at most and Run answers for it: it is alive only
\* while Run watches or stops it, unless even SIGKILL did not end it.
NoOrphanProcess ==
  Alive => pc \in {"select", "stopProcess"} \/ (pc = "returned" /\ sig = "gaveUp")

\* What the daemon reports is behind the supervisor, never beside it: unless a
\* change found the channel full, the last one on its way is the present state.
ReportLags ==
  ~dropped => state = IF changes = <<>> THEN reported ELSE changes[Len(changes)]

\* Stop, or the end of the context, makes Run return from wherever it is.
StopReturns == Stopping ~> pc = "returned"

\* On a host that answers, a remote socket file left by an earlier connection
\* does not keep the bridge down: it is reclaimed, and relays reach the bridge.
Recovers ==
  <>[](healthy /\ ~Stopping) =>
    <>[](proc = "forwarded" /\ remote = "ours" /\ state = "up")

\* So it is whenever no rm outlives the ssh that was to run it.
StaleSocketRecovers == []~lateRm => Recovers

\* "Notifications received before a process starts are ignored because they
\* cannot prove that the new tunnel is alive" (MarkAlive).
OldTunnelProvesNothing == proof # "stale"

\* "The last level is pushed again after reconnect" (README, failure modes): the
\* daemon hears of a bridge that came up and stays up.
ReconnectReported ==
  <>[](state = "up" /\ ~ctx) => <>(reported = "up")
=============================================================================
