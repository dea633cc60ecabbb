------------------------ MODULE HostLifecycleProofs ------------------------
(***************************************************************************)
(* Proofs about HostLifecycle for every set of hosts, runtimes and callers *)
(***************************************************************************)
EXTENDS HostLifecycle, TLAPS

Labels == StartLabels \cup StopLabels
OwnerLabels == {"claim", "wait2", "unwind", "cancel", "drain", "free", "signal"}
ClosingLabels == {"stopHosts", "arm", "closeWait", "sweep", "finish"}

\* A thread inside startHost or stopHost has a host, and a runtime exactly in
\* the steps that own one; only Main runs Start and Close.
Locals ==
  \A t \in Threads :
    /\ pc[t] \in Labels => arg[t] \in Hosts
    /\ pc[t] \in OwnerLabels <=> mine[t] # None
    /\ pc[t] \in MainLabels \cup {"off"} \/ t # Main \/ pc[t] \in StartLabels
    /\ t = Main \/ pc[t] \notin MainLabels

TypeInv == TypeOK /\ Locals

\* The types and the locals hold at first.
LEMMA TypeInvInit == Init => TypeInv
<1> SUFFICES ASSUME Init PROVE TypeInv OBVIOUS
<1>1. /\ started \in BOOLEAN /\ closing \in BOOLEAN /\ ctxDone \in BOOLEAN
      /\ locked \in BOOLEAN /\ accepting \in BOOLEAN /\ quiescent \in BOOLEAN
  BY Zenon DEF Init
<1>2. /\ waiters \in Nat /\ drained \in {"nil", "open", "closed"}
      /\ todo \in SUBSET Hosts
      /\ stopping \in SUBSET Runtimes /\ bound \in SUBSET Runtimes
      /\ torndown \in SUBSET Runtimes /\ cancelled \in SUBSET Runtimes
      /\ open \in SUBSET Runtimes
  BY DEF Init
<1>3. /\ snap \in [Hosts -> Runtimes \cup {None}]
      /\ hosts \in [Hosts -> Runtimes \cup {None}]
      /\ path \in [Hosts -> Runtimes \cup {None}]
      /\ phase \in [Runtimes -> Phases]
  BY DEF Init, Phases
<1>4. /\ pc \in [Threads -> {"off"} \cup StartLabels \cup StopLabels \cup MainLabels]
      /\ arg \in [Threads -> Hosts \cup {None}]
      /\ mine \in [Threads -> Runtimes \cup {None}]
      /\ watch \in [Threads -> Runtimes \cup {None}]
      /\ answer \in [Threads -> {"none", "ok", "error"}]
  BY DEF Init
<1>5. Locals
  BY DEF Init, Locals, Labels, OwnerLabels, StartLabels, StopLabels, MainLabels
<1> QED BY <1>1, <1>2, <1>3, <1>4, <1>5 DEF TypeInv, TypeOK

\* Every step of startHost keeps the types and the locals.
LEMMA TypeInvStartHost ==
  ASSUME TypeInv, NEW t \in Threads, StartHost(t)
  PROVE  TypeInv'
<1> USE ThreadAssumption, NoneAssumption
    DEF TypeInv, TypeOK, Locals, Phases, Threads, Labels, OwnerLabels,
        StartLabels, StopLabels, MainLabels, daemonVars, closeVars, runtimeVars,
        Goto, Await, Own, Return, Live, Release
<1>1. CASE StartCheck(t) BY <1>1 DEF StartCheck, FirstLook
<1>2. CASE StartWait1(t) BY <1>2 DEF StartWait1, FirstLook
<1>3. CASE StartDial(t)  BY <1>3 DEF StartDial
<1>4. CASE StartClaim(t) BY <1>4 DEF StartClaim, Publish, BindOK, BindFails
<1>5. CASE StartWait2(t) BY <1>5 DEF StartWait2
<1>6. CASE StartUnwind(t) BY <1>6 DEF StartUnwind
<1> QED BY <1>1, <1>2, <1>3, <1>4, <1>5, <1>6 DEF StartHost

\* Every step of stopHost keeps them.
LEMMA TypeInvStopHost ==
  ASSUME TypeInv, NEW t \in Callers, StopHost(t)
  PROVE  TypeInv'
<1> USE ThreadAssumption, NoneAssumption
    DEF TypeInv, TypeOK, Locals, Phases, Threads, Labels, OwnerLabels,
        StartLabels, StopLabels, MainLabels, daemonVars, closeVars, runtimeVars,
        Goto, Await, Own, Return, Live
<1>1. CASE StopMark(t)   BY <1>1 DEF StopMark
<1>2. CASE StopJoin(t)   BY <1>2 DEF StopJoin
<1>3. CASE StopCancel(t) BY <1>3 DEF StopCancel
<1>4. CASE StopDrain(t)  BY <1>4 DEF StopDrain
<1>5. CASE StopFree(t)   BY <1>5 DEF StopFree
<1>6. CASE StopSignal(t) BY <1>6 DEF StopSignal
<1> QED BY <1>1, <1>2, <1>3, <1>4, <1>5, <1>6 DEF StopHost

\* Every step of Close keeps them.
LEMMA TypeInvClose ==
  ASSUME TypeInv, Close \/ WaiterReturn
  PROVE  TypeInv'
<1> USE ThreadAssumption, NoneAssumption
    DEF TypeInv, TypeOK, Locals, Phases, Threads, Labels, OwnerLabels,
        StartLabels, StopLabels, MainLabels, daemonVars, closeVars, runtimeVars,
        threadVars, Goto, UnlinkSnap
<1>1. CASE CloseBegin     BY <1>1 DEF CloseBegin
<1>2. CASE CloseStopHosts BY <1>2 DEF CloseStopHosts
<1>3. CASE CloseArm       BY <1>3 DEF CloseArm
<1>4. CASE CloseWait      BY <1>4 DEF CloseWait
<1>5. CASE CloseSweep     BY <1>5 DEF CloseSweep
<1>6. CASE CloseFinish    BY <1>6 DEF CloseFinish
<1>7. CASE WaiterReturn   BY <1>7 DEF WaiterReturn
<1> QED BY <1>1, <1>2, <1>3, <1>4, <1>5, <1>6, <1>7 DEF Close

\* Every other step of Run's thread keeps them.
LEMMA TypeInvMain ==
  ASSUME TypeInv, 
         Start \/ OpenControl \/ LoadBindings \/ InitDone \/ Signal \/ AcceptExit
           \/ \E h \in Hosts : InitHost(h)
  PROVE  TypeInv'
<1> USE ThreadAssumption, NoneAssumption
    DEF TypeInv, TypeOK, Locals, Phases, Threads, Labels, OwnerLabels,
        StartLabels, StopLabels, MainLabels, daemonVars, closeVars, runtimeVars,
        threadVars, Goto
<1>1. CASE Start
  <2>1. /\ started' \in BOOLEAN /\ closing' \in BOOLEAN /\ ctxDone' \in BOOLEAN
        /\ locked' \in BOOLEAN
    BY <1>1, Zenon DEF Start
  <2>2. Locals' BY <1>1 DEF Start
  <2> QED BY <1>1, <2>1, <2>2 DEF Start
<1>2. CASE OpenControl
  <2>1. accepting' \in BOOLEAN BY <1>2, Zenon DEF OpenControl
  <2>2. Locals' BY <1>2 DEF OpenControl
  <2> QED BY <1>2, <2>1, <2>2 DEF OpenControl
<1>3. CASE LoadBindings BY <1>3 DEF LoadBindings
<1>4. CASE InitDone     BY <1>4 DEF InitDone
<1>5. CASE Signal       BY <1>5 DEF Signal
<1>6. CASE AcceptExit   BY <1>6 DEF AcceptExit
<1>7. CASE \E h \in Hosts : InitHost(h) BY <1>7 DEF InitHost
<1> QED BY <1>1, <1>2, <1>3, <1>4, <1>5, <1>6, <1>7

\* Signals, goroutines, the accept loop and a crash keep them.
LEMMA TypeInvRest ==
  ASSUME TypeInv,
         \/ \E c \in Callers, h \in Hosts, op \in {"start", "stop"} : Call(c, op, h)
         \/ \E r \in Runtimes : ListenerCloses(r) \/ GoroutinesExit(r)
         \/ Crash
         \/ UNCHANGED vars
  PROVE  TypeInv'
<1> USE ThreadAssumption, NoneAssumption
    DEF TypeInv, TypeOK, Locals, Phases, Threads, Labels, OwnerLabels,
        StartLabels, StopLabels, MainLabels, daemonVars, closeVars, runtimeVars,
        threadVars
<1>1. CASE \E c \in Callers, h \in Hosts, op \in {"start", "stop"} : Call(c, op, h)
  BY <1>1 DEF Call
<1>2. CASE \E r \in Runtimes : ListenerCloses(r) \/ GoroutinesExit(r)
  BY <1>2 DEF ListenerCloses, GoroutinesExit
<1>3. CASE Crash BY <1>3 DEF Crash
<1>4. CASE UNCHANGED vars BY <1>4 DEF vars
<1> QED BY <1>1, <1>2, <1>3, <1>4

\* The host table's variables keep their types and every thread its locals.
THEOREM TypeCorrect == Spec => []TypeInv
<1>1. TypeInv /\ [Next]_vars => TypeInv'
  BY TypeInvStartHost, TypeInvStopHost, TypeInvClose, TypeInvMain, TypeInvRest
     DEF Next
<1> QED BY <1>1, TypeInvInit, PTL DEF Spec

\* The types alone.
THEOREM HostTableTypes == Spec => []TypeOK
<1>1. TypeInv => TypeOK BY DEF TypeInv
<1> QED BY <1>1, TypeCorrect, PTL
-----------------------------------------------------------------------------
(* Who owns the socket file.                                               *)

\* The table is empty while the daemon is not started, and Close marks the
\* daemon closing before it touches a path.
TableInv ==
  /\ ~started => \A h \in Hosts : hosts[h] = None
  /\ pc[Main] = "off" => ~started
  /\ pc[Main] \in ClosingLabels => closing

\* Every file at a receiver path was left by a crash or belongs to the runtime
\* in the slot, and while the daemon runs a runtime in the slot has its file.
\* Only running runtimes listen; a private runtime has no file yet.  Close
\* meets no runtime that its snapshot lacks.
PathInv ==
  /\ \A h \in Hosts : path[h] # None =>
       phase[path[h]] = "crashed" \/ path[h] = hosts[h]
  /\ \A h \in Hosts : hosts[h] # None =>
       /\ hosts[h] \in bound /\ phase[hosts[h]] \in {"running", "gone"}
       /\ started /\ ~closing => path[h] = hosts[h]
  /\ \A r \in open : phase[r] = "running"
  /\ pc[Main] \in ClosingLabels =>
       \A h \in Hosts : hosts[h] \in {None, snap[h]}
  /\ pc[Main] = "finish" =>
       \A h \in Hosts : path[h] # None => phase[path[h]] = "crashed"

\* Every step keeps the table apart from what a thread still builds.
LEMMA TableInvStep == TypeInv /\ TableInv /\ [Next]_vars => TableInv'
<1> SUFFICES ASSUME TypeInv, TableInv, [Next]_vars PROVE TableInv' OBVIOUS
<1> USE ThreadAssumption, NoneAssumption
    DEF TypeInv, TypeOK, Locals, TableInv, Threads, Labels, OwnerLabels,
        StartLabels, StopLabels, MainLabels, ClosingLabels, daemonVars,
        closeVars, runtimeVars, threadVars, Goto, Await, Own, Return
<1>1. ASSUME NEW t \in Threads, StartHost(t) PROVE TableInv'
  BY <1>1 DEF StartHost, StartCheck, FirstLook, StartWait1, StartDial,
       StartClaim, Publish, StartWait2, StartUnwind
<1>2. ASSUME NEW t \in Callers, StopHost(t) PROVE TableInv'
  BY <1>2 DEF StopHost, StopMark, StopJoin, StopCancel, StopDrain, StopFree,
       StopSignal
<1>3. CASE Close \/ WaiterReturn
  BY <1>3 DEF Close, CloseBegin, CloseStopHosts, CloseArm, CloseWait,
       CloseSweep, CloseFinish, WaiterReturn
<1>4. CASE Start \/ OpenControl \/ LoadBindings \/ InitDone \/ Signal \/ AcceptExit
             \/ \E h \in Hosts : InitHost(h)
  BY <1>4 DEF Start, OpenControl, LoadBindings, InitDone, Signal, AcceptExit,
       InitHost
<1>5. CASE \E c \in Callers, h \in Hosts, op \in {"start", "stop"} : Call(c, op, h)
  BY <1>5 DEF Call
<1>6. CASE \E r \in Runtimes : ListenerCloses(r) \/ GoroutinesExit(r)
  BY <1>6 DEF ListenerCloses, GoroutinesExit
<1>7. CASE Crash BY <1>7 DEF Crash
<1>8. CASE UNCHANGED vars BY <1>8 DEF vars
<1> QED BY <1>1, <1>2, <1>3, <1>4, <1>5, <1>6, <1>7, <1>8 DEF Next

\* The table invariant holds in every reachable state.
LEMMA TableInvAlways == Spec => []TableInv
<1>1. Init => TableInv
  BY ThreadAssumption DEF Init, TableInv, ClosingLabels, Threads
<1> QED BY <1>1, TableInvStep, TypeCorrect, PTL DEF Spec

\* A runtime that some thread owns is private to it, or being torn down by it.
OwnInv ==
  /\ \A t \in Threads :
       /\ pc[t] \in {"claim", "wait2"} => phase[mine[t]] = "built"
       /\ pc[t] = "unwind" => phase[mine[t]] = "reserved"
       /\ pc[t] \in {"cancel", "drain", "free", "signal"} => mine[t] \in stopping
  /\ \A r \in stopping \cup torndown : phase[r] \in {"running", "gone"}
  /\ \A h \in Hosts : hosts[h] # None =>
       /\ phase[hosts[h]] \in {"running", "gone"}
       /\ hosts[h] \in torndown => hosts[h] \in stopping
  /\ OneTorndownCloser

\* Every step keeps one owner for a runtime that is to be signalled.
LEMMA OwnInvStep == TypeInv /\ OwnInv /\ [Next]_vars => OwnInv'
<1> SUFFICES ASSUME TypeInv, OwnInv, [Next]_vars PROVE OwnInv' OBVIOUS
<1> USE ThreadAssumption, NoneAssumption
    DEF TypeInv, TypeOK, Locals, OwnInv, OneTorndownCloser, Threads, Labels,
        OwnerLabels, StartLabels, StopLabels, MainLabels, Phases, daemonVars,
        closeVars, runtimeVars, threadVars, Goto, Await, Own, Return, Live
<1>1. ASSUME NEW t \in Threads, StartHost(t) PROVE OwnInv'
  <2>1. CASE StartCheck(t) \/ StartWait1(t)
    BY <1>1, <2>1 DEF StartCheck, StartWait1, FirstLook
  <2>2. CASE StartDial(t) BY <1>1, <2>2 DEF StartDial
  <2>3. CASE StartClaim(t)
    BY <1>1, <2>3 DEF StartClaim, Publish, BindOK, BindFails, Release
  <2>4. CASE StartWait2(t) BY <1>1, <2>4 DEF StartWait2
  <2>5. CASE StartUnwind(t) BY <1>1, <2>5 DEF StartUnwind, Release
  <2> QED BY <1>1, <2>1, <2>2, <2>3, <2>4, <2>5 DEF StartHost
<1>2. ASSUME NEW t \in Callers, StopHost(t) PROVE OwnInv'
  <2>1. CASE StopMark(t) BY <1>2, <2>1 DEF StopMark
  <2>2. CASE StopJoin(t) \/ StopCancel(t) \/ StopDrain(t)
    BY <1>2, <2>2 DEF StopJoin, StopCancel, StopDrain
  <2>3. CASE StopFree(t) BY <1>2, <2>3 DEF StopFree
  <2>4. CASE StopSignal(t) BY <1>2, <2>4 DEF StopSignal
  <2> QED BY <1>2, <2>1, <2>2, <2>3, <2>4 DEF StopHost
<1>3. CASE Close \/ WaiterReturn
  BY <1>3 DEF Close, CloseBegin, CloseStopHosts, CloseArm, CloseWait,
       CloseSweep, CloseFinish, WaiterReturn
<1>4. CASE Start \/ OpenControl \/ LoadBindings \/ InitDone \/ Signal \/ AcceptExit
             \/ \E h \in Hosts : InitHost(h)
  BY <1>4 DEF Start, OpenControl, LoadBindings, InitDone, Signal, AcceptExit,
       InitHost
<1>5. CASE \E c \in Callers, h \in Hosts, op \in {"start", "stop"} : Call(c, op, h)
  BY <1>5 DEF Call
<1>6. CASE \E r \in Runtimes : ListenerCloses(r) \/ GoroutinesExit(r)
  BY <1>6 DEF ListenerCloses, GoroutinesExit
<1>7. CASE Crash BY <1>7 DEF Crash
<1>8. CASE UNCHANGED vars BY <1>8 DEF vars
<1> QED BY <1>1, <1>2, <1>3, <1>4, <1>5, <1>6, <1>7, <1>8 DEF Next

\* The ownership invariant holds in every reachable state.
LEMMA OwnInvAlways == Spec => []OwnInv
<1>1. Init => OwnInv
  BY DEF Init, OwnInv, OneTorndownCloser, Threads
<1> QED BY <1>1, OwnInvStep, TypeCorrect, PTL DEF Spec

\* stopHost and startHost's release close a runtime's torndown channel at most
\* once between them: a runtime to be signalled has one owner and is unsignalled.
THEOREM TorndownClosedOnce == Spec => []OneTorndownCloser
BY OwnInvAlways, PTL DEF OwnInv

\* Every step keeps a socket file tied to the runtime that bound it.
LEMMA PathInvStep ==
  TypeInv /\ TableInv /\ OwnInv /\ PathInv /\ [Next]_vars => PathInv'
<1> SUFFICES ASSUME TypeInv, TableInv, OwnInv, PathInv, [Next]_vars
             PROVE  PathInv'
  OBVIOUS
<1> USE ThreadAssumption, NoneAssumption
    DEF TypeInv, TypeOK, Locals, TableInv, PathInv, Threads, Labels,
        OwnerLabels, StartLabels, StopLabels, MainLabels, ClosingLabels,
        Phases, daemonVars, closeVars, runtimeVars, threadVars, Goto, Await,
        Own, Return, Live
<1>1. ASSUME NEW t \in Threads, StartHost(t) PROVE PathInv'
  <2>1. CASE StartCheck(t) \/ StartWait1(t)
    BY <1>1, <2>1 DEF StartCheck, StartWait1, FirstLook
  <2>2. CASE StartDial(t) BY <1>1, <2>2 DEF StartDial
  <2>3. CASE StartClaim(t)
    BY <1>1, <2>3 DEF StartClaim, Publish, BindOK, BindFails, Release, OwnInv
  <2>4. CASE StartWait2(t) BY <1>1, <2>4 DEF StartWait2
  <2>5. CASE StartUnwind(t) BY <1>1, <2>5 DEF StartUnwind, Release, OwnInv
  <2> QED BY <1>1, <2>1, <2>2, <2>3, <2>4, <2>5 DEF StartHost
<1>2. ASSUME NEW t \in Callers, StopHost(t) PROVE PathInv'
  <2>1. CASE StopMark(t) BY <1>2, <2>1 DEF StopMark
  <2>2. CASE StopJoin(t) \/ StopCancel(t) \/ StopDrain(t)
    BY <1>2, <2>2 DEF StopJoin, StopCancel, StopDrain
  <2>3. CASE StopFree(t) BY <1>2, <2>3 DEF StopFree
  <2>4. CASE StopSignal(t) BY <1>2, <2>4 DEF StopSignal
  <2> QED BY <1>2, <2>1, <2>2, <2>3, <2>4 DEF StopHost
<1>3. CASE Close \/ WaiterReturn
  <2>1. CASE CloseBegin BY <2>1 DEF CloseBegin
  <2>2. CASE CloseStopHosts BY <2>2 DEF CloseStopHosts, UnlinkSnap
  <2>3. CASE CloseArm \/ CloseWait BY <2>3 DEF CloseArm, CloseWait
  <2>4. CASE CloseSweep BY <2>4 DEF CloseSweep, UnlinkSnap
  <2>5. CASE CloseFinish BY <2>5 DEF CloseFinish
  <2>6. CASE WaiterReturn BY <2>6 DEF WaiterReturn
  <2> QED BY <1>3, <2>1, <2>2, <2>3, <2>4, <2>5, <2>6 DEF Close
<1>4. CASE Start \/ OpenControl \/ LoadBindings \/ InitDone \/ Signal \/ AcceptExit
             \/ \E h \in Hosts : InitHost(h)
  BY <1>4 DEF Start, OpenControl, LoadBindings, InitDone, Signal, AcceptExit,
       InitHost
<1>5. CASE \E c \in Callers, h \in Hosts, op \in {"start", "stop"} : Call(c, op, h)
  BY <1>5 DEF Call
<1>6. CASE \E r \in Runtimes : ListenerCloses(r) \/ GoroutinesExit(r)
  BY <1>6 DEF ListenerCloses, GoroutinesExit
<1>7. CASE Crash BY <1>7 DEF Crash
<1>8. CASE UNCHANGED vars BY <1>8 DEF vars
<1> QED BY <1>1, <1>2, <1>3, <1>4, <1>5, <1>6, <1>7, <1>8 DEF Next

\* The path invariant holds in every reachable state.
LEMMA PathInvAlways == Spec => []PathInv
<1>1. Init => PathInv
  BY ThreadAssumption DEF Init, PathInv, ClosingLabels, Threads
<1> QED BY <1>1, PathInvStep, TypeCorrect, TableInvAlways, OwnInvAlways, PTL
        DEF Spec

\* A started host's receiver socket file is its own, for any number of hosts,
\* runtimes and callers.
THEOREM SocketStaysOwned == Spec => []SocketOwned
<1>1. PathInv => SocketOwned BY DEF PathInv, SocketOwned, Live
<1> QED BY <1>1, PathInvAlways, PTL

\* Whatever is wedged, Close leaves no receiver socket file of its own.
THEOREM CloseLeavesNoPath == Spec => []CloseSweepsPaths
<1>1. TypeInv /\ TableInv /\ PathInv => CloseSweepsPaths
  BY DEF TableInv, PathInv, CloseSweepsPaths
<1> QED BY <1>1, TypeCorrect, TableInvAlways, PathInvAlways, PTL
-----------------------------------------------------------------------------
(* The flock and the children it fences.                                   *)

\* A closed childrenDrained channel means that the children are gone and that
\* nothing can add one before the flock is free; there is one waiter at most,
\* while the channel is open.
DrainInv ==
  /\ started => locked
  /\ ~locked => pc[Main] = "off" /\ NoChildren
  /\ drained # "nil" => locked /\ pc[Main] \in {"off"} \cup ClosingLabels
  /\ drained = "closed" => NoChildren
  /\ waiters = IF drained = "open" THEN 1 ELSE 0
  /\ pc[Main] \in {"sweep", "finish"} /\ quiescent => drained = "closed"

\* Every step keeps the waiter, the flock and the children in agreement.
LEMMA DrainInvStep ==
  TypeInv /\ TableInv /\ OwnInv /\ DrainInv /\ [Next]_vars => DrainInv'
<1> SUFFICES ASSUME TypeInv, TableInv, OwnInv, DrainInv, [Next]_vars
             PROVE  DrainInv'
  OBVIOUS
<1> USE ThreadAssumption, NoneAssumption
    DEF TypeInv, TypeOK, Locals, TableInv, DrainInv, NoChildren, Threads,
        Labels, OwnerLabels, StartLabels, StopLabels, MainLabels,
        ClosingLabels, Phases, daemonVars, closeVars, runtimeVars, threadVars,
        Goto, Await, Own, Return, Live
<1>1. ASSUME NEW t \in Threads, StartHost(t) PROVE DrainInv'
  <2>1. CASE StartCheck(t) \/ StartWait1(t)
    BY <1>1, <2>1 DEF StartCheck, StartWait1, FirstLook
  <2>2. CASE StartDial(t) BY <1>1, <2>2 DEF StartDial
  <2>3. CASE StartClaim(t)
    BY <1>1, <2>3 DEF StartClaim, Publish, BindOK, BindFails, Release, OwnInv
  <2>4. CASE StartWait2(t) BY <1>1, <2>4 DEF StartWait2
  <2>5. CASE StartUnwind(t) BY <1>1, <2>5 DEF StartUnwind, Release, OwnInv
  <2> QED BY <1>1, <2>1, <2>2, <2>3, <2>4, <2>5 DEF StartHost
<1>2. ASSUME NEW t \in Callers, StopHost(t) PROVE DrainInv'
  BY <1>2 DEF StopHost, StopMark, StopJoin, StopCancel, StopDrain, StopFree,
       StopSignal
<1>3. CASE Close \/ WaiterReturn
  <2>1. CASE CloseBegin BY <2>1 DEF CloseBegin
  <2>2. CASE CloseStopHosts BY <2>2 DEF CloseStopHosts
  <2>3. CASE CloseArm BY <2>3 DEF CloseArm
  <2>4. CASE CloseWait BY <2>4 DEF CloseWait
  <2>5. CASE CloseSweep BY <2>5 DEF CloseSweep
  <2>6. CASE CloseFinish BY <2>6 DEF CloseFinish
  <2>7. CASE WaiterReturn BY <2>7 DEF WaiterReturn
  <2> QED BY <1>3, <2>1, <2>2, <2>3, <2>4, <2>5, <2>6, <2>7 DEF Close
<1>4. CASE Start \/ OpenControl \/ LoadBindings \/ InitDone \/ Signal \/ AcceptExit
             \/ \E h \in Hosts : InitHost(h)
  BY <1>4 DEF Start, OpenControl, LoadBindings, InitDone, Signal, AcceptExit,
       InitHost
<1>5. CASE \E c \in Callers, h \in Hosts, op \in {"start", "stop"} : Call(c, op, h)
  BY <1>5 DEF Call
<1>6. CASE \E r \in Runtimes : ListenerCloses(r) \/ GoroutinesExit(r)
  BY <1>6 DEF ListenerCloses, GoroutinesExit
<1>7. CASE Crash BY <1>7 DEF Crash
<1>8. CASE UNCHANGED vars BY <1>8 DEF vars
<1> QED BY <1>1, <1>2, <1>3, <1>4, <1>5, <1>6, <1>7, <1>8 DEF Next

\* The drain invariant holds in every reachable state.
LEMMA DrainInvAlways == Spec => []DrainInv
<1>1. Init => DrainInv
  BY ThreadAssumption DEF Init, DrainInv, ClosingLabels, Threads, NoChildren
<1> QED BY <1>1, DrainInvStep, TypeCorrect, TableInvAlways, OwnInvAlways, PTL
        DEF Spec

\* The flock is never free while a goroutine of the daemon that held it runs.
THEOREM FlockFences == Spec => []FlockFence
<1>1. DrainInv => FlockFence BY DEF DrainInv, FlockFence
<1> QED BY <1>1, DrainInvAlways, PTL

\* A start that finds its slot free finds no listener on its path either.
THEOREM FreeSlotHasFreePath == Spec => []FreeSlotFreePath
<1>1. TypeInv /\ PathInv => FreeSlotFreePath
  BY NoneAssumption DEF TypeInv, TypeOK, PathInv, FreeSlotFreePath
<1> QED BY <1>1, TypeCorrect, PathInvAlways, PTL

\* d.children is never re-armed from zero while a Close waiter is in Wait.
THEOREM WaitGroupSafe == Spec => WaitGroupNotReused
<1>1. TypeInv /\ TableInv /\ DrainInv /\ [Next]_vars
        => [NoChildren /\ ~NoChildren' => waiters = 0]_vars
  <2> SUFFICES ASSUME TypeInv, TableInv, DrainInv, Next, NoChildren, ~NoChildren'
               PROVE  waiters = 0
    OBVIOUS
  <2> USE ThreadAssumption
      DEF TypeInv, TypeOK, TableInv, DrainInv, Threads, ClosingLabels,
          daemonVars, closeVars, runtimeVars, threadVars, Goto, Await, Own, Return
  <2>1. ASSUME NEW t \in Threads, StartHost(t) PROVE waiters = 0
    <3>1. StartHost(t) => (started /\ ~closing) \/ NoChildren'
      BY DEF NoChildren, StartHost, StartCheck, FirstLook, StartWait1,
         StartDial, StartClaim, Publish, BindOK, BindFails, StartWait2,
         StartUnwind, Release
    <3> QED BY <2>1, <3>1
  <2>2. ASSUME NEW t \in Callers, StopHost(t) PROVE FALSE
    BY <2>2 DEF NoChildren, StopHost, StopMark, StopJoin, StopCancel, StopDrain,
         StopFree, StopSignal
  <2>3. CASE Close \/ WaiterReturn
    BY <2>3 DEF NoChildren, Close, CloseBegin, CloseStopHosts, CloseArm,
         CloseWait, CloseSweep, CloseFinish, WaiterReturn
  <2>4. CASE Start \/ OpenControl \/ LoadBindings \/ InitDone \/ Signal \/ AcceptExit
             \/ \E h \in Hosts : InitHost(h)
    BY <2>4 DEF NoChildren, Start, OpenControl, LoadBindings, InitDone, Signal,
         AcceptExit, InitHost
  <2>5. CASE \E c \in Callers, h \in Hosts, op \in {"start", "stop"} : Call(c, op, h)
    BY <2>5 DEF NoChildren, Call
  <2>6. CASE \E r \in Runtimes : ListenerCloses(r) \/ GoroutinesExit(r)
    BY <2>6 DEF NoChildren, ListenerCloses, GoroutinesExit
  <2>7. CASE Crash BY <2>7 DEF NoChildren, Crash
  <2> QED BY <2>1, <2>2, <2>3, <2>4, <2>5, <2>6, <2>7 DEF Next
<1> QED BY <1>1, TypeCorrect, TableInvAlways, DrainInvAlways, PTL
        DEF Spec, WaitGroupNotReused
-----------------------------------------------------------------------------
(* The table implements the atomic switch of HostSlot.                     *)

\* What a thread at a label does for its client, and the abstract variables.
Kind(label) ==
  CASE label \in StartLabels -> "up"
    [] label = "stop" -> "down"
    [] label \in StopLabels \ {"stop"} -> "ended"
    [] OTHER -> "idle"

UpHosts == {h \in Hosts : Live(h)}
CallKinds == [t \in Threads |-> Kind(pc[t])]
slotVars == <<UpHosts, CallKinds, arg, answer>>

\* No two hosts share a runtime, so that a stop takes down the host it names.
OneSlotEach ==
  \A g, h \in Hosts : hosts[g] # None /\ hosts[g] = hosts[h] => g = h

\* Every step keeps the runtimes of two slots apart: the one a start publishes
\* is private to it until then.
LEMMA OneSlotEachStep ==
  TypeInv /\ OwnInv /\ OneSlotEach /\ [Next]_vars => OneSlotEach'
<1> SUFFICES ASSUME TypeInv, OwnInv, OneSlotEach, [Next]_vars
             PROVE  OneSlotEach'
  OBVIOUS
<1> USE ThreadAssumption, NoneAssumption DEF TypeInv, TypeOK, OneSlotEach
<1>1. ASSUME NEW t \in Threads, StartHost(t) PROVE OneSlotEach'
  <2>1. CASE StartClaim(t)
    <3>1. UNCHANGED hosts \/ hosts' = [hosts EXCEPT ![arg[t]] = mine[t]]
      BY <2>1 DEF StartClaim, Publish
    <3>2. \A h \in Hosts : hosts[h] # None => hosts[h] # mine[t]
      BY <2>1 DEF StartClaim, OwnInv
    <3> QED BY <3>1, <3>2
  <2>2. CASE ~StartClaim(t)
    BY <1>1, <2>2 DEF StartHost, StartCheck, StartWait1, StartDial, StartWait2,
         StartUnwind
  <2> QED BY <2>1, <2>2
<1>2. ASSUME NEW t \in Callers, StopHost(t) PROVE OneSlotEach'
  BY <1>2 DEF StopHost, StopMark, StopJoin, StopCancel, StopDrain, StopFree,
       StopSignal
<1>3. CASE Close \/ WaiterReturn
  BY <1>3 DEF Close, CloseBegin, CloseStopHosts, CloseArm, CloseWait,
       CloseSweep, CloseFinish, WaiterReturn
<1>4. CASE Start \/ OpenControl \/ LoadBindings \/ InitDone \/ Signal \/ AcceptExit
             \/ \E h \in Hosts : InitHost(h)
  BY <1>4 DEF Start, OpenControl, LoadBindings, InitDone, Signal, AcceptExit,
       InitHost
<1>5. CASE \E c \in Callers, h \in Hosts, op \in {"start", "stop"} : Call(c, op, h)
  BY <1>5 DEF Call
<1>6. CASE \E r \in Runtimes : ListenerCloses(r) \/ GoroutinesExit(r)
  BY <1>6 DEF ListenerCloses, GoroutinesExit
<1>7. CASE Crash BY <1>7 DEF Crash
<1>8. CASE UNCHANGED vars BY <1>8 DEF vars
<1> QED BY <1>1, <1>2, <1>3, <1>4, <1>5, <1>6, <1>7, <1>8 DEF Next

\* A thread that goes from one label to another changes its own call alone.
LEMMA CallMoves ==
  ASSUME TypeInv, NEW t \in Threads, NEW label, pc' = [pc EXCEPT ![t] = label]
  PROVE  /\ CallKinds[t] = Kind(pc[t])
         /\ CallKinds' = [CallKinds EXCEPT ![t] = Kind(label)]
BY DEF TypeInv, TypeOK, CallKinds

\* The kind of each label.
LEMMA Kinds ==
  /\ \A l \in StartLabels : Kind(l) = "up"
  /\ Kind("stop") = "down" /\ Kind("start") = "up"
  /\ \A l \in StopLabels \ {"stop"} : Kind(l) = "ended"
  /\ \A l \in MainLabels \cup {"off"} : Kind(l) = "idle"
BY DEF Kind, StartLabels, StopLabels, MainLabels

\* Every step of startHost is an abstract "up" that answers, or nothing.
LEMMA StartHostSlot ==
  ASSUME TypeInv, OwnInv, NEW t \in Threads, StartHost(t)
  PROVE  Slot!UpSucceeds(t) \/ Slot!UpFails(t) \/ UNCHANGED slotVars
<1> DEFINE Ended(result) ==
      /\ CallKinds' = [CallKinds EXCEPT ![t] = "idle"]
      /\ arg' = [arg EXCEPT ![t] = None]
      /\ answer' = [answer EXCEPT ![t] = result]
<1>1. pc[t] \in StartLabels
  BY DEF StartHost, StartCheck, StartWait1, StartDial, StartClaim, StartWait2,
     StartUnwind, StartLabels
<1>2. CallKinds[t] = "up"
  BY <1>1, Kinds DEF CallKinds
<1>3. ASSUME NEW label \in StartLabels, pc' = [pc EXCEPT ![t] = label],
             UNCHANGED <<hosts, stopping, arg, answer>>
      PROVE  UNCHANGED slotVars
  <2>1. CallKinds' = CallKinds
    BY <1>2, <1>3, CallMoves, Kinds DEF CallKinds
  <2>2. UpHosts' = UpHosts BY <1>3 DEF UpHosts, Live
  <2> QED BY <1>3, <2>1, <2>2 DEF slotVars
<1>4. ASSUME NEW result, Return(t, result) PROVE Ended(result)
  <2>1. Kind(IF t = Main THEN "init" ELSE "off") = "idle"
    BY Kinds DEF MainLabels
  <2> QED BY <1>4, <2>1, CallMoves DEF Return
<1>5. ASSUME Return(t, "error"), UNCHANGED <<hosts, stopping>>
      PROVE  Slot!UpFails(t)
  <2>1. UpHosts' = UpHosts BY <1>5 DEF UpHosts, Live
  <2> QED BY <1>2, <1>4, <1>5, <2>1
          DEF Slot!UpFails, Slot!Answer, UpHosts, CallKinds, Kind
<1>6. ASSUME Return(t, "ok"), UpHosts' = UpHosts \cup {arg[t]}
      PROVE  Slot!UpSucceeds(t)
  BY <1>2, <1>4, <1>6
     DEF Slot!UpSucceeds, Slot!Answer, UpHosts, CallKinds, Kind
<1>7. ASSUME Live(arg[t]), UNCHANGED <<hosts, stopping>>
      PROVE  UpHosts' = UpHosts \cup {arg[t]}
  <2>1. arg[t] \in Hosts BY <1>1 DEF TypeInv, Locals, Labels
  <2> QED BY <1>7, <2>1 DEF UpHosts, Live
<1>8. CASE StartCheck(t)
  BY <1>3, <1>5, <1>6, <1>7, <1>8
     DEF StartCheck, FirstLook, Goto, Await, runtimeVars, StartLabels
<1>9. CASE StartWait1(t)
  BY <1>3, <1>6, <1>7, <1>9
     DEF StartWait1, FirstLook, Goto, Await, runtimeVars, StartLabels
<1>10. CASE StartDial(t)
  BY <1>3, <1>5, <1>10 DEF StartDial, Own, StartLabels
<1>11. CASE StartClaim(t)
  <2>1. CASE Release(mine[t]) /\ Return(t, "error") /\ UNCHANGED hosts
    BY <1>5, <2>1 DEF Release
  <2>2. CASE Live(arg[t]) /\ Release(mine[t]) /\ Return(t, "ok") /\ UNCHANGED hosts
    BY <1>6, <1>7, <2>2 DEF Release
  <2>3. CASE Await(t, "wait2") /\ UNCHANGED <<hosts, runtimeVars>>
    BY <1>3, <2>3 DEF Await, runtimeVars, StartLabels
  <2>4. CASE Publish(t, arg[t], mine[t])
    <3>1. CASE Goto(t, "unwind") /\ UNCHANGED <<hosts, stopping>>
      BY <1>3, <3>1 DEF Goto, StartLabels
    <3>2. CASE /\ hosts' = [hosts EXCEPT ![arg[t]] = mine[t]]
               /\ Return(t, "ok") /\ UNCHANGED stopping
      <4>1. /\ arg[t] \in Hosts /\ mine[t] # None /\ phase[mine[t]] = "built"
        BY <1>1, <1>11
           DEF TypeInv, Locals, Labels, OwnerLabels, StartClaim, OwnInv
      <4>2. mine[t] \notin stopping BY <4>1 DEF OwnInv
      <4>3. UpHosts' = UpHosts \cup {arg[t]}
        BY <3>2, <4>1, <4>2 DEF UpHosts, Live, TypeInv, TypeOK
      <4> QED BY <1>6, <3>2, <4>3
    <3> QED BY <2>4, <3>1, <3>2 DEF Publish
  <2> QED BY <1>11, <2>1, <2>2, <2>3, <2>4 DEF StartClaim
<1>12. CASE StartWait2(t)
  BY <1>3, <1>12 DEF StartWait2, Goto, runtimeVars, StartLabels
<1>13. CASE StartUnwind(t)
  BY <1>5, <1>13 DEF StartUnwind, Release
<1> QED BY <1>8, <1>9, <1>10, <1>11, <1>12, <1>13 DEF StartHost

\* Every step of stopHost is an abstract "down" that takes effect or answers,
\* or nothing: the slot is freed long after the host is down.
LEMMA StopHostSlot ==
  ASSUME TypeInv, OwnInv, OneSlotEach, NEW t \in Callers, StopHost(t)
  PROVE  Slot!Down(t) \/ Slot!DownAnswers(t) \/ UNCHANGED slotVars
<1> DEFINE h == arg[t]
<1>1. /\ t \in Threads /\ t # Main /\ pc[t] \in StopLabels /\ h \in Hosts
  BY ThreadAssumption
     DEF Threads, StopHost, StopMark, StopJoin, StopCancel, StopDrain, StopFree,
         StopSignal, StopLabels, TypeInv, Locals, Labels
<1>2. CallKinds[t] = Kind(pc[t])
  BY <1>1 DEF CallKinds
<1>3. ASSUME NEW result, Return(t, result)
      PROVE  /\ CallKinds' = [CallKinds EXCEPT ![t] = "idle"]
             /\ arg' = [arg EXCEPT ![t] = None]
             /\ answer' = [answer EXCEPT ![t] = result]
  <2>1. Kind(IF t = Main THEN "init" ELSE "off") = "idle"
    BY Kinds DEF MainLabels
  <2> QED BY <1>1, <1>3, <2>1, CallMoves DEF Return
<1>4. ASSUME pc[t] \in StopLabels \ {"stop"}, NEW label \in StopLabels \ {"stop"},
             Goto(t, label), UpHosts' = UpHosts
      PROVE  UNCHANGED slotVars
  <2>1. CallKinds' = CallKinds
    BY <1>1, <1>2, <1>4, CallMoves, Kinds DEF Goto, CallKinds
  <2> QED BY <1>4, <2>1 DEF Goto, slotVars
<1>5. ASSUME pc[t] \in StopLabels \ {"stop"}, Return(t, "ok"), UpHosts' = UpHosts
      PROVE  Slot!DownAnswers(t)
  <2>1. CallKinds[t] = "ended" BY <1>2, <1>5, Kinds
  <2> QED BY <1>3, <1>5, <2>1
          DEF Slot!DownAnswers, Slot!Answer, UpHosts, CallKinds, Kind
<1>6. CASE StopMark(t)
  <2> USE <1>6 DEF StopMark
  <2>1. CallKinds[t] = "down" BY <1>2, Kinds
  <2>2. CASE hosts[h] = None /\ Return(t, "ok") /\ UNCHANGED stopping
    <3>1. UpHosts' = UpHosts \ {h} BY <2>2 DEF UpHosts, Live
    <3> QED BY <1>3, <2>1, <2>2, <3>1
            DEF Slot!Down, Slot!Answer, UpHosts, CallKinds, Kind
  <2>3. ASSUME UpHosts' = UpHosts \ {h}, UNCHANGED <<arg, answer>>,
               NEW label \in StopLabels \ {"stop"}, pc' = [pc EXCEPT ![t] = label]
        PROVE  Slot!Down(t)
    <3>1. CallKinds' = [CallKinds EXCEPT ![t] = "ended"]
      <4>1. Kind(label) = "ended" BY Kinds
      <4> QED BY <1>1, <2>3, <4>1, CallMoves
    <3> QED BY <2>1, <2>3, <3>1 DEF Slot!Down, UpHosts, CallKinds, Kind
  <2>4. CASE hosts[h] \in stopping /\ Await(t, "join") /\ UNCHANGED stopping
    <3>1. UpHosts' = UpHosts \ {h} BY <2>4 DEF UpHosts, Live
    <3> QED BY <2>3, <2>4, <3>1 DEF Await, StopLabels
  <2>5. CASE /\ Live(h) /\ stopping' = stopping \cup {hosts[h]}
             /\ Own(t, "cancel", hosts[h])
    <3>1. UpHosts' = UpHosts \ {h}
      BY <1>1, <2>5 DEF UpHosts, Live, OneSlotEach
    <3> QED BY <2>3, <2>5, <3>1 DEF Own, StopLabels
  <2> QED BY <2>2, <2>4, <2>5
<1>7. CASE StopJoin(t)
  BY <1>5, <1>7 DEF StopJoin, runtimeVars, UpHosts, Live, StopLabels
<1>8. CASE StopCancel(t)
  BY <1>4, <1>8 DEF StopCancel, UpHosts, Live, StopLabels
<1>9. CASE StopDrain(t)
  BY <1>4, <1>9 DEF StopDrain, runtimeVars, UpHosts, Live, StopLabels
<1>10. CASE StopFree(t)
  <2>1. mine[t] \in stopping BY <1>1, <1>10 DEF StopFree, OwnInv
  <2>2. UpHosts' = UpHosts
    BY <1>1, <1>10, <2>1 DEF StopFree, UpHosts, Live, runtimeVars, TypeInv, TypeOK
  <2> QED BY <1>4, <1>10, <2>2 DEF StopFree, StopLabels
<1>11. CASE StopSignal(t)
  BY <1>5, <1>11 DEF StopSignal, UpHosts, Live, StopLabels
<1> QED BY <1>6, <1>7, <1>8, <1>9, <1>10, <1>11 DEF StopHost

\* Start, initialize and Close change the abstract state only when Close drops
\* the table, and when initialize begins a start.
LEMMA MainSlot ==
  ASSUME TypeInv,
         \/ Start \/ OpenControl \/ LoadBindings \/ InitDone \/ Close
         \/ \E h \in Hosts : InitHost(h)
  PROVE  \/ \E h \in Hosts : Slot!Begin(Main, "up", h)
         \/ Slot!ShutDown
         \/ UNCHANGED slotVars
<1>1. Main \in Threads BY DEF Threads
<1>2. ASSUME NEW label \in MainLabels \cup {"off"}, Goto(Main, label),
             pc[Main] \in MainLabels \cup {"off"}
      PROVE  UNCHANGED <<CallKinds, arg, answer>>
  <2>1. CallKinds' = CallKinds
    BY <1>1, <1>2, CallMoves, Kinds DEF Goto, CallKinds
  <2> QED BY <1>2, <2>1 DEF Goto
<1>3. CASE Start \/ OpenControl \/ LoadBindings \/ InitDone
  <2>1. UNCHANGED <<hosts, stopping>>
    BY <1>3 DEF Start, OpenControl, LoadBindings, InitDone, runtimeVars
  <2>2. UNCHANGED <<CallKinds, arg, answer>>
    BY <1>2, <1>3 DEF Start, OpenControl, LoadBindings, InitDone, MainLabels
  <2> QED BY <2>1, <2>2 DEF slotVars, UpHosts, Live
<1>4. CASE CloseFinish
  <2>1. UpHosts' = {} BY <1>4 DEF CloseFinish, UpHosts, Live
  <2>2. UNCHANGED <<CallKinds, arg, answer>>
    BY <1>2, <1>4 DEF CloseFinish, MainLabels
  <2> QED BY <2>1, <2>2 DEF Slot!ShutDown, UpHosts, CallKinds, Kind
<1>5. CASE CloseBegin \/ CloseStopHosts \/ CloseArm \/ CloseWait \/ CloseSweep
  <2>1. UNCHANGED <<hosts, stopping>>
    BY <1>5 DEF CloseBegin, CloseStopHosts, CloseArm, CloseWait, CloseSweep,
         runtimeVars
  <2>2. UNCHANGED <<CallKinds, arg, answer>>
    BY <1>2, <1>5 DEF CloseBegin, CloseStopHosts, CloseArm, CloseWait, CloseSweep,
         MainLabels
  <2> QED BY <2>1, <2>2 DEF slotVars, UpHosts, Live
<1>6. ASSUME NEW h \in Hosts, InitHost(h) PROVE Slot!Begin(Main, "up", h)
  <2>1. UpHosts' = UpHosts BY <1>6 DEF InitHost, runtimeVars, UpHosts, Live
  <2>2. CallKinds[Main] = "idle"
    BY <1>1, <1>6, Kinds DEF InitHost, CallKinds, MainLabels
  <2>3. CallKinds' = [CallKinds EXCEPT ![Main] = "up"]
    <3>1. Kind("start") = "up" BY Kinds
    <3>2. pc' = [pc EXCEPT ![Main] = "start"] BY <1>6 DEF InitHost
    <3>3. CallKinds' = [CallKinds EXCEPT ![Main] = Kind("start")]
      BY <1>1, <3>2, CallMoves
    <3> QED BY <3>1, <3>3
  <2> QED BY <1>6, <2>1, <2>2, <2>3
          DEF InitHost, Slot!Begin, UpHosts, CallKinds, Kind
<1> QED BY <1>3, <1>4, <1>5, <1>6 DEF Close

\* A call begins, the process dies, or nothing that a client sees happens.
LEMMA RestSlot ==
  ASSUME TypeInv,
         \/ \E c \in Callers, h \in Hosts, op \in {"start", "stop"} : Call(c, op, h)
         \/ \E r \in Runtimes : ListenerCloses(r) \/ GoroutinesExit(r)
         \/ Signal \/ AcceptExit \/ WaiterReturn \/ Crash \/ UNCHANGED vars
  PROVE  \/ \E t \in Threads, h \in Hosts, op \in {"up", "down"} :
              Slot!Begin(t, op, h)
         \/ Slot!Die
         \/ UNCHANGED slotVars
<1>1. ASSUME NEW c \in Callers, NEW h \in Hosts, NEW op \in {"start", "stop"},
             Call(c, op, h)
      PROVE  Slot!Begin(c, Kind(op), h) /\ Kind(op) \in {"up", "down"}
  <2>1. c \in Threads BY DEF Threads
  <2>2. UpHosts' = UpHosts BY <1>1 DEF Call, runtimeVars, UpHosts, Live
  <2>3. CallKinds[c] = "idle"
    BY <1>1, <2>1, Kinds DEF Call, CallKinds
  <2>4. CallKinds' = [CallKinds EXCEPT ![c] = Kind(op)]
    BY <1>1, <2>1, CallMoves DEF Call
  <2>5. Kind(op) \in {"up", "down"} BY Kinds
  <2> QED BY <1>1, <2>2, <2>3, <2>4, <2>5
          DEF Call, Slot!Begin, UpHosts, CallKinds, Kind
<1>2. CASE \/ \E r \in Runtimes : ListenerCloses(r) \/ GoroutinesExit(r)
           \/ Signal \/ AcceptExit \/ WaiterReturn \/ UNCHANGED vars
  <2>1. UNCHANGED <<hosts, stopping, pc, arg, answer>>
    BY <1>2 DEF ListenerCloses, GoroutinesExit, Signal, AcceptExit, WaiterReturn,
         vars, threadVars, runtimeVars
  <2> QED BY <2>1 DEF slotVars, UpHosts, Live, CallKinds
<1>3. CASE Crash
  <2>1. UpHosts' = {} BY <1>3 DEF Crash, UpHosts, Live
  <2>2. CallKinds' = [t \in Threads |-> "idle"]
    BY <1>3, Kinds DEF Crash, CallKinds
  <2> QED BY <1>3, <2>1, <2>2 DEF Crash, Slot!Die, UpHosts, CallKinds, Kind
<1> QED
  <2>1. Callers \subseteq Threads BY DEF Threads
  <2> QED BY <1>1, <1>2, <1>3, <2>1

\* startHost, stopHost, Close and a crash, interleaved in any way, implement the
\* atomic switch: an "up" that answers ok leaves the host up, and only a "down",
\* a shutdown or a crash takes one down.
THEOREM TableIsASwitch == Spec => ImplementsHostSlot
<1>1. Init => Slot!Init
  <2> SUFFICES ASSUME Init PROVE Slot!Init OBVIOUS
  <2>1. UpHosts = {} BY DEF Init, UpHosts, Live
  <2>2. CallKinds = [t \in Threads |-> "idle"] BY Kinds DEF Init, CallKinds
  <2> QED BY <2>1, <2>2 DEF Init, Slot!Init, UpHosts, CallKinds, Kind
<1>2. TypeInv /\ OwnInv /\ OneSlotEach /\ [Next]_vars => [Slot!Next]_(Slot!vars)
  <2> SUFFICES ASSUME TypeInv, OwnInv, OneSlotEach, [Next]_vars
               PROVE  Slot!Next \/ UNCHANGED slotVars
    BY DEF slotVars, UpHosts, CallKinds, Kind, Slot!vars
  <2>1. Callers \subseteq Threads /\ Main \in Threads BY DEF Threads
  <2>2. ASSUME NEW t \in Threads, StartHost(t) PROVE Slot!Next \/ UNCHANGED slotVars
    BY <2>2, StartHostSlot DEF Slot!Next
  <2>3. ASSUME NEW t \in Callers, StopHost(t) PROVE Slot!Next \/ UNCHANGED slotVars
    BY <2>1, <2>3, StopHostSlot DEF Slot!Next
  <2>4. CASE Start \/ OpenControl \/ LoadBindings \/ InitDone \/ Close
             \/ \E h \in Hosts : InitHost(h)
    BY <2>1, <2>4, MainSlot DEF Slot!Next
  <2>5. CASE \/ \E c \in Callers, h \in Hosts, op \in {"start", "stop"} : Call(c, op, h)
             \/ \E r \in Runtimes : ListenerCloses(r) \/ GoroutinesExit(r)
             \/ Signal \/ AcceptExit \/ WaiterReturn \/ Crash \/ UNCHANGED vars
    BY <2>5, RestSlot DEF Slot!Next
  <2> QED BY <2>2, <2>3, <2>4, <2>5 DEF Next
<1>3. Init => OneSlotEach BY DEF Init, OneSlotEach
<1> QED BY <1>1, <1>2, <1>3, OneSlotEachStep, TypeCorrect, OwnInvAlways, PTL
        DEF Spec, ImplementsHostSlot, Slot!Spec
=============================================================================
