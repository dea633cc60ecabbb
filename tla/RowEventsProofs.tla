-------------------------- MODULE RowEventsProofs --------------------------
(***************************************************************************)
(* A reset reaches the event loop, for any number of rows, subscriptions   *)
(* and restarts of agterm: the loop holds a channel that is no newer than  *)
(* its subscription.                                                       *)
(***************************************************************************)
EXTENDS RowEvents, TLAPS

LoopLabels == {"take", "subscribe", "starting", "select", "retry", "recover", "done"}

LoopType == [at : LoopLabels, reset : Nat, cur : SUBSET Streams, born : Nat]

EventsType == loop \in LoopType /\ reset \in Nat /\ shut \in Nat

TakenBefore ==
  /\ loop.reset <= reset
  /\ loop.at \in {"starting", "select"} => loop.reset <= loop.born

IInv == EventsType /\ TakenBefore

(* Where the loop goes on elsewhere than to its select, with the channels as
   they are or newer, the invariant stays. *)
LEMMA GoesElsewhere ==
  ASSUME IInv, NEW at \in LoopLabels \ {"starting", "select"}, LoopGoes(at),
         reset' \in Nat, shut' \in Nat, reset <= reset'
  PROVE  IInv'
<1>1. loop' \in LoopType /\ loop'.reset = loop.reset /\ loop'.at = at
  BY DEF IInv, EventsType, LoopType, LoopGoes
<1> QED
  BY <1>1 DEF IInv, EventsType, TakenBefore, LoopType

(* The invariant also stays where the loop stays. *)
LEMMA LoopStays ==
  ASSUME IInv, loop' = loop, reset' \in Nat, shut' \in Nat, reset <= reset'
  PROVE  IInv'
BY DEF IInv, EventsType, TakenBefore, LoopType

LEMMA InitTaken == Init => IInv
BY DEF Init, IInv, EventsType, TakenBefore, LoopType, LoopLabels

LEMMA StepTaken == IInv /\ [Next]_vars => IInv'
<1> SUFFICES ASSUME IInv, [Next]_vars PROVE IInv'
  OBVIOUS
<1>t. loop \in LoopType /\ reset \in Nat /\ shut \in Nat
  BY DEF IInv, EventsType
<1>1. CASE TakeReset
  <2>1. loop' \in LoopType /\ loop'.reset = reset /\ loop'.at = "subscribe"
    BY <1>1, <1>t DEF TakeReset, LoopType, LoopLabels
  <2>2. reset' = reset /\ shut' = shut
    BY <1>1 DEF TakeReset, recoveryVars
  <2> QED
    BY <2>1, <2>2, <1>t DEF IInv, EventsType, TakenBefore
<1>2. ASSUME NEW s \in Streams, Subscribe(s) PROVE IInv'
  <2>1. loop' \in LoopType /\ loop'.reset = loop.reset /\ loop'.born = reset
    BY <1>2, <1>t DEF Subscribe, LoopType, LoopLabels
  <2>2. reset' = reset /\ shut' = shut
    BY <1>2 DEF Subscribe, recoveryVars
  <2> QED
    BY <2>1, <2>2, <1>t DEF IInv, EventsType, TakenBefore
<1>3. CASE Subscribed
  <2>1. /\ loop.at = "starting"
        /\ loop' \in LoopType /\ loop'.reset = loop.reset /\ loop'.born = loop.born
    BY <1>3, <1>t DEF Subscribed, LoopGoes, LoopType, LoopLabels
  <2>2. reset' = reset /\ shut' = shut
    BY <1>3 DEF Subscribed, recoveryVars
  <2> QED
    BY <2>1, <2>2 DEF IInv, EventsType, TakenBefore
<1>4. CASE SubscribeFails
  BY <1>4, <1>t, GoesElsewhere DEF SubscribeFails, LoopLabels
<1>5. CASE SelectReset \/ RetryEnds \/ LoopReturns
  BY <1>5, <1>t, GoesElsewhere DEF SelectReset, RetryEnds, LoopReturns, recoveryVars, LoopLabels
<1>6. ASSUME NEW s \in Streams, SelectClosed(s) PROVE IInv'
  <2>1. loop' \in LoopType /\ loop'.reset = loop.reset /\ loop'.at = "retry"
    BY <1>6, <1>t DEF SelectClosed, LoopType, LoopLabels
  <2>2. reset' = reset /\ shut' = shut
    BY <1>6 DEF SelectClosed, recoveryVars
  <2> QED
    BY <2>1, <2>2, <1>t DEF IInv, EventsType, TakenBefore
<1>7. ASSUME NEW s \in Streams, SelectRow(s) \/ ClosedRows(s) PROVE IInv'
  BY <1>7, <1>t, LoopStays DEF SelectRow, ClosedRows, CtlStarts, Scan, ScanEnds, recoveryVars
<1>8. ASSUME NEW r \in Rows, Status(r) \/ RowCloses(r) PROVE IInv'
  BY <1>8, <1>t, LoopStays DEF Status, RowCloses, recoveryVars
<1>9. CASE RecoveryFinds \/ ResetSwaps \/ ResetCloses
  <2>1. loop' = loop /\ reset' \in Nat /\ shut' \in Nat /\ reset <= reset'
    BY <1>9, <1>t DEF RecoveryFinds, ResetSwaps, ResetCloses
  <2> QED
    BY <2>1, LoopStays
<1>10. CASE RecoveryEnds
  <2>1. reset' = reset /\ shut' = shut /\ (LoopGoes("take") \/ loop' = loop)
    BY <1>10 DEF RecoveryEnds
  <2> QED
    BY <2>1, <1>t, GoesElsewhere, LoopStays DEF LoopLabels
<1>11. CASE AgtermQuits \/ AgtermReturns \/ Cancel
  BY <1>11, <1>t, LoopStays DEF AgtermQuits, AgtermReturns, Cancel, recoveryVars
<1>12. CASE UNCHANGED vars
  BY <1>12, <1>t, LoopStays DEF vars, recoveryVars
<1> QED
  BY <1>1, <1>2, <1>3, <1>4, <1>5, <1>6, <1>7, <1>8, <1>9, <1>10, <1>11, <1>12
     DEF Next, eventLoop, recoverAgterm

(* The comment in eventLoop (events.go:30): a recovery that resets while the
   subscription is still starting interrupts it all the same. *)
THEOREM ResetIsHeard == Spec => []ResetReachesLoop
<1>1. IInv => ResetReachesLoop
  BY DEF IInv, EventsType, TakenBefore, LoopType, ResetReachesLoop
<1> QED
  BY InitTaken, StepTaken, <1>1, PTL DEF Spec
=============================================================================
