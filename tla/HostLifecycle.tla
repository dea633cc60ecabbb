--------------------------- MODULE HostLifecycle ---------------------------
(***************************************************************************)
(* The daemon's host table: startHost and stopHost called from control     *)
(* connections and from Run's own thread, racing each other, Close, the    *)
(* teardown timeout and a crash of the process.                            *)
(*                                                                         *)
(* Every step is one critical section of d.mu, or one blocking wait with   *)
(* what the code does up to its next lock.  A host runtime is a pointer in *)
(* the code and an element of Runtimes here; its goroutines (Serve, the    *)
(* supervisor, the state watcher, the ctl drain) leave together, and may   *)
(* never leave: a wedged handler is what TeardownTimeout is for.           *)
(***************************************************************************)
EXTENDS Naturals, FiniteSets

CONSTANTS
  Hosts,      \* hosts that can be bound
  Runtimes,   \* *hostRuntime pointers; bounds how many starts can succeed
  Callers,    \* control connections and the event loop, one request each
  Main,       \* the thread of Run: Start, then Close
  None

ASSUME ThreadAssumption == Main \notin Callers
ASSUME NoneAssumption == None \notin Runtimes /\ None \notin Hosts

Threads == Callers \cup {Main}

VARIABLES
  started, closing,  \* d.started, d.closing
  ctxDone,           \* d.ctx has ended (signal, or Close's d.cancel)
  locked,            \* d.lockFile # nil: this process holds the flock
  accepting,         \* serveControl's goroutine runs
  waiters,           \* goroutines inside d.children.Wait()
  drained,           \* d.childrenDrained: nil, or a channel open or closed
  quiescent, snap,   \* locals of Close
  todo,              \* the loaded bindings' hosts initialize has yet to start
  hosts,             \* d.hosts
  phase,             \* what r's WaitGroup slots are held for
  stopping, bound, torndown, cancelled,  \* flags of a runtime, as sets
  open,              \* runtimes whose listening socket accepts connections
  path,              \* the runtime whose Bind made the file at d.dirs.Recv(h)
  pc, arg,           \* what a thread runs, and for which host
  mine,              \* the runtime a thread built, or tears down
  watch,             \* the runtime whose torndown channel a thread waits on
  answer             \* what a thread's last call returned

daemonVars  == <<started, closing, ctxDone, locked, accepting>>
closeVars   == <<waiters, drained, quiescent, snap, todo>>
runtimeVars == <<phase, stopping, bound, torndown, cancelled, open>>
threadVars  == <<pc, arg, mine, watch, answer>>
vars == <<daemonVars, closeVars, hosts, runtimeVars, path, threadVars>>

Phases == {"unused",    \* not allocated yet
           "built",     \* private to the startHost that made it
           "reserved",  \* d.children slots taken, Bind failed, not unwound yet
           "running",   \* published; its goroutines run
           "gone",      \* no goroutine left
           "crashed"}   \* of a process that no longer exists

StartLabels == {"start", "wait1", "dial", "claim", "wait2", "unwind"}
StopLabels  == {"stop", "join", "cancel", "drain", "free", "signal"}
MainLabels  == {"open", "load", "init", "serve", "close", "stopHosts", "arm",
                "closeWait", "sweep", "finish"}

Init ==
  /\ started = FALSE /\ closing = FALSE /\ ctxDone = FALSE
  /\ locked = FALSE /\ accepting = FALSE
  /\ waiters = 0 /\ drained = "nil" /\ quiescent = FALSE
  /\ snap = [h \in Hosts |-> None] /\ todo = {}
  /\ hosts = [h \in Hosts |-> None]
  /\ phase = [r \in Runtimes |-> "unused"]
  /\ stopping = {} /\ bound = {} /\ torndown = {} /\ cancelled = {}
  /\ open = {}
  /\ path = [h \in Hosts |-> None]
  /\ pc = [t \in Threads |-> "off"]
  /\ arg = [t \in Threads |-> None]
  /\ mine = [t \in Threads |-> None]
  /\ watch = [t \in Threads |-> None]
  /\ answer = [t \in Threads |-> "none"]
-----------------------------------------------------------------------------
(* Helpers.                                                                *)

Live(h) == hosts[h] # None /\ hosts[h] \notin stopping

\* hostCtx of r has ended: runtime.cancel, or the daemon context it derives from.
Cancelled(r) == r \in cancelled \/ ctxDone

\* d.children is zero: no control loop, no connection, no reserved host slot.
NoChildren ==
  /\ ~accepting
  /\ \A c \in Callers : pc[c] = "off"
  /\ \A r \in Runtimes : phase[r] \notin {"reserved", "running"}

\* A thread goes to its next step, keeping its locals.
Goto(t, label) ==
  /\ pc' = [pc EXCEPT ![t] = label]
  /\ UNCHANGED <<arg, mine, watch, answer>>

\* It blocks on the torndown channel of the runtime that holds the slot.
Await(t, label) ==
  /\ pc' = [pc EXCEPT ![t] = label]
  /\ watch' = [watch EXCEPT ![t] = hosts[arg[t]]]
  /\ UNCHANGED <<arg, mine, answer>>

\* It goes on as the owner of runtime r.
Own(t, label, r) ==
  /\ pc' = [pc EXCEPT ![t] = label]
  /\ mine' = [mine EXCEPT ![t] = r]
  /\ UNCHANGED <<arg, watch, answer>>

\* Its call returns; initialize goes on with its next host.
Return(t, result) ==
  /\ pc' = [pc EXCEPT ![t] = IF t = Main THEN "init" ELSE "off"]
  /\ arg' = [arg EXCEPT ![t] = None]
  /\ mine' = [mine EXCEPT ![t] = None]
  /\ watch' = [watch EXCEPT ![t] = None]
  /\ answer' = [answer EXCEPT ![t] = result]
-----------------------------------------------------------------------------
(* startHost                                                               *)

\* A request arrives on a control connection (or the event loop calls
\* stopHost): only while serveControl accepts.
Call(c, op, h) ==
  /\ accepting /\ pc[c] = "off"
  /\ pc' = [pc EXCEPT ![c] = op]
  /\ arg' = [arg EXCEPT ![c] = h]
  /\ answer' = [answer EXCEPT ![c] = "none"]
  /\ UNCHANGED <<mine, watch, daemonVars, closeVars, hosts, runtimeVars, path>>

\* Broken: an entry that is being torn down counts as a started host.
FirstLookTrustsEntry(t) ==
  \/ hosts[arg[t]] = None /\ Goto(t, "dial")
  \/ hosts[arg[t]] # None /\ Return(t, "ok")

\* One turn of the first loop of startHost, with d.mu held.
FirstLook(t) ==
  \/ hosts[arg[t]] = None /\ Goto(t, "dial")
  \/ Live(arg[t]) /\ Return(t, "ok")
  \/ hosts[arg[t]] \in stopping /\ Await(t, "wait1")

StartCheck(t) ==
  /\ pc[t] = "start"
  /\ \/ (~started \/ closing) /\ Return(t, "error")
     \/ started /\ ~closing /\ FirstLook(t)
  /\ UNCHANGED <<daemonVars, closeVars, hosts, runtimeVars, path>>

\* The first loop looks again once the teardown it waited for is over; unlike
\* the second loop it does not ask again whether the daemon is closing.
StartWait1(t) ==
  /\ pc[t] = "wait1" /\ watch[t] \in torndown
  /\ FirstLook(t)
  /\ UNCHANGED <<daemonVars, closeVars, hosts, runtimeVars, path>>

\* EnsureDirs, Home, supervisors.New and newHost, without d.mu: seconds of SSH
\* that fail, or end with a private runtime whose done group is armed.
StartDial(t) ==
  /\ pc[t] = "dial"
  /\ \/ Return(t, "error") /\ UNCHANGED phase
     \/ \E r \in Runtimes :
          /\ phase[r] = "unused"
          /\ phase' = [phase EXCEPT ![r] = "built"]
          /\ Own(t, "claim", r)
  /\ UNCHANGED <<daemonVars, closeVars, hosts, path, stopping, bound, torndown,
                 cancelled, open>>

\* release: the goroutines of the private runtime r will never start.
Release(r) ==
  /\ phase' = [phase EXCEPT ![r] = "gone"]
  /\ torndown' = torndown \cup {r}
  /\ cancelled' = cancelled \cup {r}
  /\ UNCHANGED <<stopping, bound, open>>

\* ListenClean on h's path, by runtime r: a file that answers a dial is in use;
\* any other one is stale and goes.  Then listening works, or fails for reasons
\* of its own.
BindOK(h, r) ==
  /\ path[h] \notin open
  /\ path' = [path EXCEPT ![h] = r]
  /\ open' = open \cup {r}

BindFails(h) ==
  /\ \/ UNCHANGED path
     \/ path[h] \notin open /\ path' = [path EXCEPT ![h] = None]
  /\ UNCHANGED open

\* The second loop found the slot free: reserve d.children, publish and bind
\* without letting go of d.mu.
Publish(t, h, r) ==
  \/ /\ BindOK(h, r)
     /\ hosts' = [hosts EXCEPT ![h] = r]
     /\ bound' = bound \cup {r}
     /\ phase' = [phase EXCEPT ![r] = "running"]
     /\ Return(t, "ok")
     /\ UNCHANGED <<stopping, torndown, cancelled>>
  \/ /\ BindFails(h)
     /\ phase' = [phase EXCEPT ![r] = "reserved"]
     /\ Goto(t, "unwind")
     /\ UNCHANGED <<hosts, stopping, bound, torndown, cancelled>>

StartClaim(t) ==
  LET h == arg[t] IN
  /\ pc[t] = "claim"
  /\ \/ /\ ~started \/ closing
        /\ Release(mine[t]) /\ Return(t, "error")
        /\ UNCHANGED <<hosts, path>>
     \/ /\ started /\ ~closing /\ Live(h)
        /\ Release(mine[t]) /\ Return(t, "ok")
        /\ UNCHANGED <<hosts, path>>
     \/ /\ started /\ ~closing /\ hosts[h] \in stopping
        /\ Await(t, "wait2")
        /\ UNCHANGED <<hosts, runtimeVars, path>>
     \/ /\ started /\ ~closing /\ hosts[h] = None
        /\ Publish(t, h, mine[t])
  /\ UNCHANGED <<daemonVars, closeVars>>

StartWait2(t) ==
  /\ pc[t] = "wait2" /\ watch[t] \in torndown
  /\ Goto(t, "claim")
  /\ UNCHANGED <<daemonVars, closeVars, hosts, runtimeVars, path>>

\* After a failed Bind the reserved slots go back once d.mu is released.
StartUnwind(t) ==
  /\ pc[t] = "unwind"
  /\ Release(mine[t]) /\ Return(t, "error")
  /\ UNCHANGED <<daemonVars, closeVars, hosts, path>>
-----------------------------------------------------------------------------
(* stopHost                                                                *)

\* Broken: the entry is marked without asking whether the lookup found one.
StopMarkWithoutLookup(t) ==
  LET r == hosts[arg[t]] IN
  /\ pc[t] = "stop"
  /\ \/ r \in stopping /\ Await(t, "join") /\ UNCHANGED stopping
     \/ r \notin stopping /\ stopping' = stopping \cup {r} /\ Own(t, "cancel", r)
  /\ UNCHANGED <<daemonVars, closeVars, hosts, path, phase, bound, torndown,
                 cancelled, open>>

\* Broken: a second stopHost tears the runtime down too instead of joining.
StopMarkNoJoin(t) ==
  LET r == hosts[arg[t]] IN
  /\ pc[t] = "stop"
  /\ \/ r = None /\ Return(t, "ok") /\ UNCHANGED stopping
     \/ r # None /\ stopping' = stopping \cup {r} /\ Own(t, "cancel", r)
  /\ UNCHANGED <<daemonVars, closeVars, hosts, path, phase, bound, torndown,
                 cancelled, open>>

StopMark(t) ==
  LET r == hosts[arg[t]] IN
  /\ pc[t] = "stop"
  /\ \/ r = None /\ Return(t, "ok") /\ UNCHANGED stopping
     \/ r \in stopping /\ Await(t, "join") /\ UNCHANGED stopping
     \/ /\ Live(arg[t])
        /\ stopping' = stopping \cup {r}
        /\ Own(t, "cancel", r)
  /\ UNCHANGED <<daemonVars, closeVars, hosts, path, phase, bound, torndown,
                 cancelled, open>>

StopJoin(t) ==
  /\ pc[t] = "join" /\ watch[t] \in torndown
  /\ Return(t, "ok")
  /\ UNCHANGED <<daemonVars, closeVars, hosts, runtimeVars, path>>

StopCancel(t) ==
  /\ pc[t] = "cancel"
  /\ cancelled' = cancelled \cup {mine[t]}
  /\ Goto(t, "drain")
  /\ UNCHANGED <<daemonVars, closeVars, hosts, path, phase, stopping, bound,
                 torndown, open>>

\* Broken: the wait has no timeout.
StopDrainForever(t) ==
  /\ pc[t] = "drain" /\ phase[mine[t]] # "running"
  /\ Goto(t, "free")
  /\ UNCHANGED <<daemonVars, closeVars, hosts, runtimeVars, path>>

\* waitWithin(&runtime.done, d.teardownTimeout): the goroutines are gone, or
\* the wait gave up on them.
StopDrain(t) ==
  /\ pc[t] = "drain"
  /\ Goto(t, "free")
  /\ UNCHANGED <<daemonVars, closeVars, hosts, runtimeVars, path>>

\* Broken: the slot is freed and the socket file stays.
StopFreeKeepsFile(t) ==
  LET h == arg[t] IN
  /\ pc[t] = "free"
  /\ hosts' = IF hosts[h] = mine[t] THEN [hosts EXCEPT ![h] = None] ELSE hosts
  /\ Goto(t, "signal")
  /\ UNCHANGED <<daemonVars, closeVars, runtimeVars, path>>

\* The last critical section: unlink and free the slot, if it is still ours.
StopFree(t) ==
  LET h == arg[t] IN
  /\ pc[t] = "free"
  /\ \/ /\ hosts[h] = mine[t]
        /\ path' = IF mine[t] \in bound THEN [path EXCEPT ![h] = None] ELSE path
        /\ hosts' = [hosts EXCEPT ![h] = None]
     \/ hosts[h] # mine[t] /\ UNCHANGED <<hosts, path>>
  /\ Goto(t, "signal")
  /\ UNCHANGED <<daemonVars, closeVars, runtimeVars>>

\* Broken: the socket file is removed after the slot was given up.
StopSignalUnlinks(t) ==
  /\ pc[t] = "signal"
  /\ path' = [path EXCEPT ![arg[t]] = None]
  /\ torndown' = torndown \cup {mine[t]}
  /\ Return(t, "ok")
  /\ UNCHANGED <<daemonVars, closeVars, hosts, phase, stopping, bound,
                 cancelled, open>>

\* close(runtime.torndown), after d.mu is released.
StopSignal(t) ==
  /\ pc[t] = "signal"
  /\ torndown' = torndown \cup {mine[t]}
  /\ Return(t, "ok")
  /\ UNCHANGED <<daemonVars, closeVars, hosts, path, phase, stopping, bound,
                 cancelled, open>>
-----------------------------------------------------------------------------
(* The goroutines of a runtime.                                            *)

\* closeResources on hostCtx.Done, or Accept failed: the socket closes and its
\* file stays.
ListenerCloses(r) ==
  /\ r \in open
  /\ open' = open \ {r}
  /\ UNCHANGED <<daemonVars, closeVars, hosts, phase, stopping, bound,
                 torndown, cancelled, path, threadVars>>

\* The last goroutine of a cancelled runtime returns.  Nothing makes it: one
\* may be wedged on a peer that never answers.
GoroutinesExit(r) ==
  /\ phase[r] = "running" /\ Cancelled(r)
  /\ phase' = [phase EXCEPT ![r] = "gone"]
  /\ open' = open \ {r}
  /\ UNCHANGED <<daemonVars, closeVars, hosts, stopping, bound, torndown,
                 cancelled, path, threadVars>>
-----------------------------------------------------------------------------
(* Start, Run and Close, on Run's thread.                                  *)

\* Start under d.mu: the flock decides which daemon runs.
Start ==
  /\ pc[Main] = "off" /\ ~started /\ ~locked
  /\ locked' = TRUE /\ started' = TRUE /\ closing' = FALSE /\ ctxDone' = FALSE
  /\ Goto(Main, "open")
  /\ UNCHANGED <<accepting, closeVars, hosts, runtimeVars, path>>

\* openLog, writePID, startControl: a failure is a Close.
OpenControl ==
  /\ pc[Main] = "open"
  /\ \/ /\ Goto(Main, "close")
        /\ UNCHANGED accepting
     \/ /\ accepting' = TRUE
        /\ Goto(Main, "load")
  /\ UNCHANGED <<started, closing, ctxDone, locked, closeVars, hosts,
                 runtimeVars, path>>

\* store.Load: a failure is a Close, else every bound host is to be started.
LoadBindings ==
  /\ pc[Main] = "load"
  /\ \/ /\ Goto(Main, "close")
        /\ UNCHANGED todo
     \/ /\ todo' \in SUBSET Hosts
        /\ Goto(Main, "init")
  /\ UNCHANGED <<daemonVars, waiters, drained, quiescent, snap, hosts,
                 runtimeVars, path>>

\* initialize starts them one after another; one that fails stops nobody else.
InitHost(h) ==
  /\ pc[Main] = "init" /\ h \in todo
  /\ todo' = todo \ {h}
  /\ pc' = [pc EXCEPT ![Main] = "start"]
  /\ arg' = [arg EXCEPT ![Main] = h]
  /\ answer' = [answer EXCEPT ![Main] = "none"]
  /\ UNCHANGED <<daemonVars, waiters, drained, quiescent, snap, hosts,
                 runtimeVars, path, mine, watch>>

InitDone ==
  /\ pc[Main] = "init" /\ todo = {}
  /\ Goto(Main, "serve")
  /\ UNCHANGED <<daemonVars, closeVars, hosts, runtimeVars, path>>

\* SIGINT or SIGTERM ends the context before anything is marked closing.
Signal ==
  /\ started /\ ~ctxDone
  /\ ctxDone' = TRUE
  /\ UNCHANGED <<started, closing, locked, accepting, closeVars, hosts,
                 runtimeVars, path, threadVars>>

\* serveControl leaves its accept loop once the listener is closed.
AcceptExit ==
  /\ accepting /\ ctxDone
  /\ accepting' = FALSE
  /\ UNCHANGED <<started, closing, ctxDone, locked, closeVars, hosts,
                 runtimeVars, path, threadVars>>

\* Close: from Run after the signal, from a failed Start, or again after a
\* Close that had to keep the flock.
CloseBegin ==
  /\ \/ pc[Main] = "serve" /\ ctxDone
     \/ pc[Main] = "close"
     \/ pc[Main] = "off" /\ locked
  /\ closing' = TRUE /\ ctxDone' = TRUE
  /\ snap' = hosts
  /\ Goto(Main, "stopHosts")
  /\ UNCHANGED <<started, locked, accepting, waiters, drained, quiescent,
                 todo, hosts, runtimeVars, path>>

\* Broken: the file of a runtime in teardown is left to its stopHost.
UnlinkSnapOfLive ==
  path' = [h \in Hosts |-> IF snap[h] \in bound \ stopping THEN None ELSE path[h]]

\* os.Remove(localSock) for every snapshotted runtime that owns its path.
UnlinkSnap ==
  path' = [h \in Hosts |-> IF snap[h] \in bound THEN None ELSE path[h]]

CloseStopHosts ==
  /\ pc[Main] = "stopHosts"
  /\ cancelled' = cancelled \cup ({snap[h] : h \in Hosts} \ {None})
  /\ UnlinkSnap
  /\ Goto(Main, "arm")
  /\ UNCHANGED <<daemonVars, closeVars, hosts, phase, stopping, bound,
                 torndown, open>>

\* Broken: every Close starts a waiter of its own.
CloseArmAgain ==
  /\ pc[Main] = "arm"
  /\ drained' = "open" /\ waiters' = waiters + 1
  /\ Goto(Main, "closeWait")
  /\ UNCHANGED <<daemonVars, quiescent, snap, todo, hosts, runtimeVars, path>>

\* One goroutine per shutdown generation waits on d.children.
CloseArm ==
  /\ pc[Main] = "arm"
  /\ \/ /\ drained = "nil"
        /\ drained' = "open" /\ waiters' = waiters + 1
     \/ /\ drained # "nil"
        /\ UNCHANGED <<drained, waiters>>
  /\ Goto(Main, "closeWait")
  /\ UNCHANGED <<daemonVars, quiescent, snap, todo, hosts, runtimeVars, path>>

\* d.children.Wait() returns and its goroutine closes the channel.
WaiterReturn ==
  /\ waiters > 0 /\ NoChildren
  /\ waiters' = waiters - 1 /\ drained' = "closed"
  /\ UNCHANGED <<daemonVars, quiescent, snap, todo, hosts, runtimeVars, path,
                 threadVars>>

\* Broken: Close waits for the children without a timeout.
CloseWaitForever ==
  /\ pc[Main] = "closeWait" /\ drained = "closed"
  /\ quiescent' = TRUE
  /\ Goto(Main, "sweep")
  /\ UNCHANGED <<daemonVars, waiters, drained, snap, todo, hosts, runtimeVars,
                 path>>

\* The children have drained, or d.teardownTimeout passed.
CloseWait ==
  /\ pc[Main] = "closeWait"
  /\ \/ drained = "closed" /\ quiescent' = TRUE
     \/ quiescent' = FALSE
  /\ Goto(Main, "sweep")
  /\ UNCHANGED <<daemonVars, waiters, drained, snap, todo, hosts, runtimeVars,
                 path>>

CloseSweep ==
  /\ pc[Main] = "sweep"
  /\ UnlinkSnap
  /\ Goto(Main, "finish")
  /\ UNCHANGED <<daemonVars, closeVars, hosts, runtimeVars>>

\* Broken: the flock goes with or without the children.
CloseFinishUnlocks ==
  /\ pc[Main] = "finish"
  /\ locked' = FALSE /\ drained' = "nil"
  /\ started' = FALSE /\ closing' = FALSE
  /\ hosts' = [h \in Hosts |-> None]
  /\ snap' = [h \in Hosts |-> None]
  /\ Goto(Main, "off")
  /\ UNCHANGED <<ctxDone, accepting, waiters, quiescent, todo, runtimeVars, path>>

\* The last critical section: the flock goes only if the children are gone.
CloseFinish ==
  /\ pc[Main] = "finish"
  /\ IF quiescent
       THEN locked' = FALSE /\ drained' = "nil"
       ELSE UNCHANGED <<locked, drained>>
  /\ started' = FALSE /\ closing' = FALSE
  /\ hosts' = [h \in Hosts |-> None]
  /\ snap' = [h \in Hosts |-> None]
  /\ Goto(Main, "off")
  /\ UNCHANGED <<ctxDone, accepting, waiters, quiescent, todo, runtimeVars, path>>

\* The process dies, or exits after Run returned: the kernel closes its
\* sockets and drops the flock; the files of its sockets stay.
Crash ==
  /\ locked
  /\ started' = FALSE /\ closing' = FALSE /\ ctxDone' = FALSE
  /\ locked' = FALSE /\ accepting' = FALSE
  /\ waiters' = 0 /\ drained' = "nil" /\ quiescent' = FALSE
  /\ snap' = [h \in Hosts |-> None] /\ todo' = {}
  /\ hosts' = [h \in Hosts |-> None]
  /\ phase' = [r \in Runtimes |->
                 IF phase[r] = "unused" THEN "unused" ELSE "crashed"]
  /\ stopping' = {} /\ bound' = {} /\ torndown' = {} /\ cancelled' = {}
  /\ open' = {}
  /\ pc' = [t \in Threads |-> "off"]
  /\ arg' = [t \in Threads |-> None]
  /\ mine' = [t \in Threads |-> None]
  /\ watch' = [t \in Threads |-> None]
  /\ answer' = [t \in Threads |-> "none"]
  /\ UNCHANGED path
-----------------------------------------------------------------------------
StartHost(t) ==
  \/ StartCheck(t) \/ StartWait1(t) \/ StartDial(t)
  \/ StartClaim(t) \/ StartWait2(t) \/ StartUnwind(t)

StopHost(t) ==
  \/ StopMark(t) \/ StopJoin(t) \/ StopCancel(t)
  \/ StopDrain(t) \/ StopFree(t) \/ StopSignal(t)

Close ==
  \/ CloseBegin \/ CloseStopHosts \/ CloseArm \/ CloseWait
  \/ CloseSweep \/ CloseFinish

Next ==
  \/ \E c \in Callers, h \in Hosts, op \in {"start", "stop"} : Call(c, op, h)
  \/ \E t \in Threads : StartHost(t)
  \/ \E c \in Callers : StopHost(c)
  \/ \E r \in Runtimes : ListenerCloses(r) \/ GoroutinesExit(r)
  \/ Start \/ OpenControl \/ LoadBindings \/ InitDone \/ Signal \/ AcceptExit
  \/ \E h \in Hosts : InitHost(h)
  \/ Close \/ WaiterReturn \/ Crash

Spec == Init /\ [][Next]_vars

\* Threads run, timers fire and the accept loop ends with its context.  The ssh
\* of a dial returns, when TCP gives its connection up if not before, so that
\* StartDial is one of the fair steps.  Nothing is assumed of a runtime's
\* goroutines (GoroutinesExit, ListenerCloses), of clients, of signals, or of a
\* second Close after one that kept the flock.
Fairness ==
  /\ \A t \in Threads : WF_vars(StartHost(t))
  /\ \A c \in Callers : WF_vars(StopHost(c))
  /\ WF_vars(pc[Main] # "off" /\ Close)
  /\ WF_vars(OpenControl) /\ WF_vars(LoadBindings) /\ WF_vars(InitDone)
  /\ \A h \in Hosts : WF_vars(InitHost(h))
  /\ WF_vars(AcceptExit) /\ WF_vars(WaiterReturn)

FairSpec == Spec /\ Fairness
-----------------------------------------------------------------------------
(* Properties.                                                             *)

\* Every variable holds a value of its kind.
TypeOK ==
  /\ started \in BOOLEAN /\ closing \in BOOLEAN /\ ctxDone \in BOOLEAN
  /\ locked \in BOOLEAN /\ accepting \in BOOLEAN /\ quiescent \in BOOLEAN
  /\ waiters \in Nat /\ drained \in {"nil", "open", "closed"}
  /\ todo \in SUBSET Hosts
  /\ snap \in [Hosts -> Runtimes \cup {None}]
  /\ hosts \in [Hosts -> Runtimes \cup {None}]
  /\ path \in [Hosts -> Runtimes \cup {None}]
  /\ phase \in [Runtimes -> Phases]
  /\ stopping \in SUBSET Runtimes /\ bound \in SUBSET Runtimes
  /\ torndown \in SUBSET Runtimes /\ cancelled \in SUBSET Runtimes
  /\ open \in SUBSET Runtimes
  /\ pc \in [Threads -> {"off"} \cup StartLabels \cup StopLabels \cup MainLabels]
  /\ arg \in [Threads -> Hosts \cup {None}]
  /\ mine \in [Threads -> Runtimes \cup {None}]
  /\ watch \in [Threads -> Runtimes \cup {None}]
  /\ answer \in [Threads -> {"none", "ok", "error"}]

\* While the daemon runs, the receiver socket file of a started host is the one
\* that host's runtime bound: no teardown of an earlier runtime, however late,
\* unlinks it ("a live tunnel and no reachable receiver", stopHost).
SocketOwned ==
  started /\ ~closing => \A h \in Hosts : Live(h) => path[h] = hosts[h]

\* Whenever a startHost can find the slot free, no listener answers on the path:
\* a start never fails because a predecessor that is going away holds it.
FreeSlotFreePath ==
  started /\ ~closing =>
    \A h \in Hosts : hosts[h] = None => path[h] \notin open

\* The flock is a fence: once it is free, no goroutine of the daemon that held
\* it is left to write the bindings or the rows (Close keeps it otherwise).
FlockFence == ~locked => NoChildren

\* close(torndown) panics on a closed channel: a runtime that some thread still
\* has to signal belongs to that thread alone and is not signalled yet.
OneTorndownCloser ==
  \A t \in Threads : mine[t] # None =>
    /\ mine[t] \notin torndown
    /\ \A u \in Threads \ {t} : mine[u] # mine[t]

\* Once Close is over, wedged goroutines or not, no receiver socket of the
\* daemon is left behind; only files of a crashed one may be.
CloseSweepsPaths ==
  pc[Main] = "off" =>
    \A h \in Hosts : path[h] # None => phase[path[h]] = "crashed"

\* sync.WaitGroup panics when it is re-armed from zero before an earlier Wait
\* returned: no child is ever added while a Close waiter has yet to return.
WaitGroupNotReused ==
  [][NoChildren /\ ~NoChildren' => waiters = 0]_vars

\* Every up, down or start of the daemon is answered, whatever the goroutines
\* of a host do: waiters on a torndown channel are always woken.
CallsReturn ==
  \A t \in Threads :
    pc[t] \in StartLabels \cup StopLabels ~> pc[t] \in {"off", "init"}

\* A daemon told to stop closes, even if a host's goroutines never end.
SignalCloses == started /\ ctxDone ~> ~started

\* The host table behaves as the atomic up/down switch of HostSlot.
Slot == INSTANCE HostSlot WITH
  up     <- {h \in Hosts : Live(h)},
  call   <- [t \in Threads |->
               CASE pc[t] \in StartLabels -> "up"
                 [] pc[t] = "stop" -> "down"
                 [] pc[t] \in StopLabels \ {"stop"} -> "ended"
                 [] OTHER -> "idle"],
  target <- arg,
  reply  <- answer

ImplementsHostSlot == Slot!Spec
=============================================================================
