------------------------------ MODULE HostSlot ------------------------------
(***************************************************************************)
(* What the daemon promises about a host, whatever its goroutines do: an   *)
(* "up" that answers ok finds or leaves the host up; a host goes down only *)
(* because somebody's "down" took effect between its call and its answer,  *)
(* or because the daemon shut down or died.                                *)
(***************************************************************************)
CONSTANTS Hosts, Threads, None

VARIABLES
  up,      \* hosts that run
  call,    \* the call each thread is in: "idle", "up", "down", or "ended" for
           \* a "down" that took effect and has not answered yet
  target,  \* the host of that call
  reply    \* the answer to each thread's last call

vars == <<up, call, target, reply>>

Init ==
  /\ up = {}
  /\ call = [t \in Threads |-> "idle"]
  /\ target = [t \in Threads |-> None]
  /\ reply = [t \in Threads |-> "none"]

Begin(t, op, h) ==
  /\ call[t] = "idle"
  /\ call' = [call EXCEPT ![t] = op]
  /\ target' = [target EXCEPT ![t] = h]
  /\ reply' = [reply EXCEPT ![t] = "none"]
  /\ UNCHANGED up

Answer(t, result) ==
  /\ call' = [call EXCEPT ![t] = "idle"]
  /\ target' = [target EXCEPT ![t] = None]
  /\ reply' = [reply EXCEPT ![t] = result]

UpSucceeds(t) ==
  /\ call[t] = "up"
  /\ up' = up \cup {target[t]}
  /\ Answer(t, "ok")

UpFails(t) ==
  /\ call[t] = "up"
  /\ Answer(t, "error")
  /\ UNCHANGED up

\* A "down" takes effect; it may answer at once or later.
Down(t) ==
  /\ call[t] = "down"
  /\ up' = up \ {target[t]}
  /\ \/ Answer(t, "ok")
     \/ /\ call' = [call EXCEPT ![t] = "ended"]
        /\ UNCHANGED <<target, reply>>

DownAnswers(t) ==
  /\ call[t] = "ended"
  /\ Answer(t, "ok")
  /\ UNCHANGED up

\* The daemon closes; calls in flight still get their answers.
ShutDown ==
  /\ up' = {}
  /\ UNCHANGED <<call, target, reply>>

\* The daemon's process ends, and every call with it.
Die ==
  /\ up' = {}
  /\ call' = [t \in Threads |-> "idle"]
  /\ target' = [t \in Threads |-> None]
  /\ reply' = [t \in Threads |-> "none"]

Next ==
  \/ \E t \in Threads, h \in Hosts, op \in {"up", "down"} : Begin(t, op, h)
  \/ \E t \in Threads : UpSucceeds(t) \/ UpFails(t) \/ Down(t) \/ DownAnswers(t)
  \/ ShutDown \/ Die

Spec == Init /\ [][Next]_vars
=============================================================================
