--------------------------- MODULE SupervisorProofs ---------------------------
(***************************************************************************)
(* Proofs about Supervisor for every channel capacity and every pair of    *)
(* backoff bounds.                                                         *)
(***************************************************************************)
EXTENDS Supervisor, SequenceTheorems, TLAPS

\* A jittered delay is a natural number within 20 percent of its base.
LEMMA JitterRange ==
  ASSUME NEW base \in Nat, NEW v \in Jitter(base)
  PROVE  v \in Nat /\ 4 * base <= 5 * v /\ 5 * v <= 6 * base
BY DEF Jitter

\* The delay before a reconnect stays between the two bounds, less or plus 20
\* percent, whatever delay preceded it.
LEMMA NextDelayRange ==
  ASSUME NEW prev \in Nat,
         prev # 0 => 4 * InitialBackoff <= 5 * prev /\ 5 * prev <= 6 * MaxBackoff,
         NEW long \in BOOLEAN,
         NEW v \in NextDelay(prev, long)
  PROVE  /\ v \in Nat
         /\ 4 * InitialBackoff <= 5 * v /\ 5 * v <= 6 * MaxBackoff
<1>1. CASE long \/ prev = 0
  <2>1. v \in Jitter(InitialBackoff) BY <1>1 DEF NextDelay
  <2> QED BY <2>1, JitterRange, BackoffAssumption
<1>2. CASE ~(long \/ prev = 0) /\ 2 * prev > MaxBackoff
  <2>1. v \in Jitter(MaxBackoff) BY <1>2 DEF NextDelay
  <2> QED BY <2>1, JitterRange, BackoffAssumption
<1>3. CASE ~(long \/ prev = 0) /\ ~(2 * prev > MaxBackoff)
  <2>1. v \in Jitter(2 * prev) BY <1>3 DEF NextDelay
  <2>2. v \in Nat /\ 4 * (2 * prev) <= 5 * v /\ 5 * v <= 6 * (2 * prev)
    BY <2>1, JitterRange
  <2> QED BY <1>3, <2>2, BackoffAssumption
<1> QED BY <1>1, <1>2, <1>3

\* What the steps of Run and the others keep.
IInv == TypeOK /\ BackoffBounded /\ NoOrphanProcess /\ ReportLags

LEMMA IInvInit == Init => IInv
<1> SUFFICES ASSUME Init PROVE IInv OBVIOUS
<1>1. TypeOK
  <2>1. /\ dropped \in BOOLEAN /\ stop \in BOOLEAN /\ ctx \in BOOLEAN
        /\ running \in BOOLEAN /\ timer \in BOOLEAN /\ blocked \in BOOLEAN
        /\ lateRm \in BOOLEAN /\ healthy \in BOOLEAN
    BY Zenon DEF Init
  <2> QED BY <2>1, CapAssumption DEF Init, TypeOK, States, Evidence
<1>2. BackoffBounded /\ NoOrphanProcess /\ ReportLags
  BY DEF Init, BackoffBounded, NoOrphanProcess, ReportLags, Alive
<1> QED BY <1>1, <1>2 DEF IInv

\* A tail that is not empty ends as the sequence does.
LEMMA TailLast ==
  ASSUME NEW S, NEW q \in Seq(S), q # <<>>, Len(q) # 1
  PROVE  Tail(q) # <<>> /\ Tail(q)[Len(Tail(q))] = q[Len(q)]
<1>1. Len(q) >= 2
  <2> DEFINE n == Len(q)
  <2>1. n \in Nat \ {0} /\ n # 1 BY EmptySeq
  <2> HIDE DEF n
  <2>2. n >= 2 BY <2>1
  <2> QED BY <2>2 DEF n
<1>2. Tail(q)[Len(Tail(q))] = q[Len(q)] BY <1>1
<1>3. Tail(q) \in Seq(S) /\ Len(Tail(q)) = Len(q) - 1 BY <1>1
<1>4. Tail(q) # <<>> BY <1>1, <1>3, EmptySeq
<1> QED BY <1>2, <1>4

\* setState keeps the channel within its capacity, and what is on its way, or
\* already reported, ends with the new state unless it was dropped.
LEMMA SetStateKeeps ==
  ASSUME TypeOK, ReportLags, NEW s \in States, SetState(s), reported' = reported
  PROVE  /\ state' \in States /\ changes' \in Seq(States) /\ Len(changes') <= Cap
         /\ dropped' \in BOOLEAN
         /\ ReportLags'
<1> USE CapAssumption DEF TypeOK
<1>1. CASE s = state
  BY <1>1 DEF SetState, ReportLags
<1>2. CASE s # state /\ Len(changes) < Cap
  <2>1. changes' = Append(changes, s) /\ dropped' = dropped /\ state' = s
    BY <1>2 DEF SetState
  <2>2. /\ changes' \in Seq(States) /\ Len(changes') = Len(changes) + 1
        /\ changes' # <<>> /\ changes'[Len(changes')] = s
    BY <2>1
  <2>3. Len(changes') <= Cap BY <1>2, <2>2
  <2> QED BY <2>1, <2>2, <2>3 DEF ReportLags
<1>3. CASE s # state /\ ~(Len(changes) < Cap)
  <2>1. dropped' = TRUE /\ changes' = changes /\ state' = s
    BY <1>3 DEF SetState
  <2>2. dropped' \in BOOLEAN BY <2>1, Zenon
  <2> QED BY <2>1, <2>2 DEF ReportLags
<1> QED BY <1>1, <1>2, <1>3

\* Every step keeps the types.
LEMMA TypeOKStep ==
  ASSUME IInv, [Next]_vars
  PROVE  TypeOK'
<1> USE CapAssumption
    DEF IInv, TypeOK, States, Evidence, runVars, chanVars, aliveVars, procVars,
        envVars, Stopping, Alive, Finish, Older
<1>1. CASE Check BY <1>1 DEF Check
<1>2. CASE StartFails
  <2>1. previous' \in Nat BY <1>2, NextDelayRange DEF StartFails, BackoffBounded
  <2>2. pc' \in {"returned", "backoff"} BY <1>2, Zenon DEF StartFails
  <2>3. UNCHANGED <<state, changes, dropped, reported, stop, ctx, running, timer,
                    proof, event, mark, token, proc, sig, blocked, remote,
                    lateRm, healthy>>
    BY <1>2, Zenon DEF StartFails
  <2> QED BY <2>1, <2>2, <2>3
<1>3. CASE StartSsh
  <2>1. running' \in BOOLEAN /\ timer' \in BOOLEAN /\ blocked' \in BOOLEAN BY <1>3, Zenon DEF StartSsh
  <2>2. SetState("connecting") /\ reported' = reported BY <1>3 DEF StartSsh
  <2>3. /\ state' \in States /\ changes' \in Seq(States) /\ Len(changes') <= Cap
        /\ dropped' \in BOOLEAN
    BY <2>2, SetStateKeeps
  <2> QED BY <1>3, <2>1, <2>2, <2>3 DEF StartSsh
<1>4. CASE SelectAlive
  <2>1. CASE proof = "none" BY <1>4, SetStateKeeps, <2>1 DEF SelectAlive
  <2>2. CASE proof # "none" BY <1>4, <2>2 DEF SelectAlive
  <2> QED BY <2>1, <2>2
<1>5. CASE SelectTimer
  <2>1. timer' \in BOOLEAN BY <1>5, Zenon DEF SelectTimer
  <2>2. CASE proof = "none" BY <1>5, <2>1, SetStateKeeps, <2>2 DEF SelectTimer
  <2>3. CASE proof # "none" BY <1>5, <2>1, <2>3 DEF SelectTimer
  <2> QED BY <2>2, <2>3
<1>6. CASE SelectStop
  <2>1. timer' \in BOOLEAN BY <1>6, Zenon DEF SelectStop
  <2> QED BY <1>6, <2>1 DEF SelectStop
<1>7. CASE SelectExit
  <2>1. timer' \in BOOLEAN /\ running' \in BOOLEAN /\ blocked' \in BOOLEAN BY <1>7, Zenon DEF SelectExit
  <2>2. SetState("down") /\ reported' = reported BY <1>7 DEF SelectExit
  <2>3. /\ state' \in States /\ changes' \in Seq(States) /\ Len(changes') <= Cap
        /\ dropped' \in BOOLEAN
    BY <2>2, SetStateKeeps
  <2> QED BY <1>7, <2>1, <2>2, <2>3 DEF SelectExit
<1>8. CASE StopProcess
  <2>1. running' \in BOOLEAN BY <1>8, Zenon DEF StopProcess
  <2>2. SetState("down") /\ reported' = reported BY <1>8 DEF StopProcess
  <2>3. /\ state' \in States /\ changes' \in Seq(States) /\ Len(changes') <= Cap
        /\ dropped' \in BOOLEAN
    BY <2>2, SetStateKeeps
  <2> QED BY <1>8, <2>1, <2>2, <2>3 DEF StopProcess
<1>9. CASE ReclaimStart BY <1>9 DEF ReclaimStart
<1>10. CASE ReclaimExit BY <1>10 DEF ReclaimExit
<1>11. CASE ReclaimGivesUp
  <2>1. lateRm' \in BOOLEAN BY <1>11, Zenon DEF ReclaimGivesUp
  <2> QED BY <1>11, <2>1 DEF ReclaimGivesUp
<1>12. CASE ComputeDelay
  <2>1. previous' \in Nat BY <1>12, NextDelayRange DEF ComputeDelay, BackoffBounded
  <2> QED BY <1>12, <2>1 DEF ComputeDelay
<1>13. CASE BackoffOver BY <1>13 DEF BackoffOver
<1>14. CASE BackoffStop BY <1>14 DEF BackoffStop
<1>15. CASE EventArrives BY <1>15 DEF EventArrives
<1>16. CASE MarkAlive BY <1>16 DEF MarkAlive
<1>17. CASE MarkSend BY <1>17 DEF MarkSend
<1>18. CASE Report BY <1>18 DEF Report
<1>19. CASE Stop BY <1>19 DEF Stop
<1>20. CASE Cancel BY <1>20 DEF Cancel
<1>21. CASE Kill BY <1>21 DEF Kill
<1>22. CASE Forward
  <2>1. blocked' \in BOOLEAN BY <1>22, Zenon DEF Forward
  <2> QED BY <1>22, <2>1 DEF Forward
<1>23. CASE ProcessExits BY <1>23 DEF ProcessExits
<1>24. CASE LateRmRuns
  <2>1. lateRm' \in BOOLEAN BY <1>24, Zenon DEF LateRmRuns
  <2> QED BY <1>24, <2>1 DEF LateRmRuns
<1>25. CASE Weather BY <1>25 DEF Weather
<1>26. CASE UNCHANGED vars BY <1>26 DEF vars
<1> QED
  BY <1>1, <1>2, <1>3, <1>4, <1>5, <1>6, <1>7, <1>8, <1>9, <1>10, <1>11, <1>12, <1>13, <1>14, <1>15, <1>16, <1>17, <1>18, <1>19, <1>20, <1>21, <1>22, <1>23, <1>24, <1>25, <1>26 DEF Next, Start, Reclaim, Backoff

\* Every step keeps the delay between its bounds.
LEMMA BackoffStep ==
  ASSUME IInv, [Next]_vars
  PROVE  BackoffBounded'
<1> USE DEF IInv
<1>1. CASE StartFails \/ ComputeDelay
  <2>1. PICK long \in BOOLEAN :
          previous' = previous \/ previous' \in NextDelay(previous, long)
    BY <1>1 DEF StartFails, ComputeDelay
  <2> QED BY <2>1, NextDelayRange DEF TypeOK, BackoffBounded
<1>2. CASE ~(StartFails \/ ComputeDelay)
  <2>1. previous' = previous
    BY <1>2 DEF Next, vars, runVars, Check, Start, StartSsh, SelectAlive,
       SelectTimer, SelectStop, SelectExit, StopProcess, Reclaim, ReclaimStart,
       ReclaimExit, ReclaimGivesUp, Backoff, BackoffOver, BackoffStop,
       EventArrives, MarkAlive, MarkSend, Report, Stop, Cancel, Kill, Forward,
       ProcessExits, LateRmRuns, Weather
  <2> QED BY <2>1 DEF BackoffBounded
<1> QED BY <1>1, <1>2

\* Every step leaves a live process to Run, or to nobody after a failed kill.
LEMMA OrphanStep ==
  ASSUME IInv, [Next]_vars
  PROVE  NoOrphanProcess'
BY DEF IInv, NoOrphanProcess, Alive, Next, vars, runVars, procVars, Check, Start,
   StartFails, StartSsh, SelectAlive, SelectTimer, SelectStop, SelectExit,
   StopProcess, Reclaim, ReclaimStart, ReclaimExit, ReclaimGivesUp, Backoff,
   ComputeDelay, BackoffOver, BackoffStop, EventArrives, MarkAlive, MarkSend,
   Report, Stop, Cancel, Kill, Forward, ProcessExits, LateRmRuns, Weather, Finish

\* Every step keeps the report behind the state.
LEMMA ReportStep ==
  ASSUME IInv, [Next]_vars
  PROVE  ReportLags'
<1> USE DEF IInv
<1>1. CASE StartSsh \/ SelectExit \/ StopProcess
  <2>1. \E s \in States : SetState(s) /\ reported' = reported
    BY <1>1 DEF StartSsh, SelectExit, StopProcess, States
  <2> QED BY <2>1, SetStateKeeps
<1>2. CASE SelectAlive \/ SelectTimer
  <2>1. CASE proof = "none"
    <3>1. SetState("up") /\ reported' = reported
      BY <1>2, <2>1 DEF SelectAlive, SelectTimer
    <3> QED BY <3>1, SetStateKeeps DEF States
  <2>2. CASE proof # "none"
    BY <1>2, <2>2 DEF SelectAlive, SelectTimer, chanVars, ReportLags
  <2> QED BY <2>1, <2>2
<1>3. CASE Report
  <2>1. /\ changes \in Seq(States) /\ changes # <<>>
        /\ reported' = Head(changes) /\ changes' = Tail(changes)
        /\ state' = state /\ dropped' = dropped
    BY <1>3 DEF Report, TypeOK
  <2>2. CASE Len(changes) = 1
    <3>1. changes' = <<>> /\ reported' = changes[Len(changes)] BY <2>1, <2>2
    <3> QED BY <2>1, <3>1 DEF ReportLags
  <2>3. CASE Len(changes) # 1
    <3>1. changes' # <<>> /\ changes'[Len(changes')] = changes[Len(changes)]
      BY <2>1, <2>3, TailLast
    <3> QED BY <2>1, <3>1 DEF ReportLags
  <2> QED BY <2>2, <2>3
<1>4. CASE ~(StartSsh \/ SelectExit \/ StopProcess \/ SelectAlive \/ SelectTimer
             \/ Report)
  <2>1. UNCHANGED <<state, changes, dropped, reported>>
    BY <1>4 DEF Next, vars, chanVars, Check, Start, StartFails, SelectStop,
       Reclaim, ReclaimStart, ReclaimExit, ReclaimGivesUp, Backoff, ComputeDelay,
       BackoffOver, BackoffStop, EventArrives, MarkAlive, MarkSend, Stop, Cancel,
       Kill, Forward, ProcessExits, LateRmRuns, Weather
  <2> QED BY <2>1 DEF ReportLags
<1> QED BY <1>1, <1>2, <1>3, <1>4

\* The four facts together, in every reachable state.
LEMMA IInvAlways == Spec => []IInv
<1>1. IInv /\ [Next]_vars => IInv'
  BY TypeOKStep, BackoffStep, OrphanStep, ReportStep DEF IInv
<1> QED BY <1>1, IInvInit, PTL DEF Spec

\* The supervisor's variables keep their types.
THEOREM SupervisorTypes == Spec => []TypeOK
<1>1. IInv => TypeOK BY DEF IInv
<1> QED BY <1>1, IInvAlways, PTL

\* The reconnect delay is bounded on both sides, for every pair of bounds.
THEOREM BackoffIsBounded == Spec => []BackoffBounded
<1>1. IInv => BackoffBounded BY DEF IInv
<1> QED BY <1>1, IInvAlways, PTL

\* Run never leaves a live ssh behind that a signal could still end.
THEOREM ProcessIsOwned == Spec => []NoOrphanProcess
<1>1. IInv => NoOrphanProcess BY DEF IInv
<1> QED BY <1>1, IInvAlways, PTL

\* Without an overflow the daemon's report lags behind the state and no more.
THEOREM ReportOnlyLags == Spec => []ReportLags
<1>1. IInv => ReportLags BY DEF IInv
<1> QED BY <1>1, IInvAlways, PTL
=============================================================================
