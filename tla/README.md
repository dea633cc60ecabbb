# agterm-remote in TLA+

`agr` connects rows of the agterm terminal on a Mac to agent sessions that run
in a multiplexer on remote hosts. This directory models the part of it that
runs concurrently: the Mac daemon, the SSH bridges it supervises, the binding
database it shares with the command line, the calls that remote agents make to
agterm and the policy for them, and the sessions of a host with the commands
that open and end them. TLC checks the models on small instances and TLAPS
proves the main safety results for every instance.
Paths below are relative to the repository (`src/`), unless they are modules.

## 1. The system

```
 agterm <--> agr CLI --------- bindings.json (flock) ------+
   ^           | control socket                            |
   |           v                                           v
   +------- daemon: host table -- one runtime per host: receiver listener
            event loop, resync                          supervisor --ssh -N -R--> sshd
            proxy, consent, page shim                   state watcher            agr.sh,
                                                        ctl drain                hooks
```

| Component | State it keeps | Operations | Correct when |
| --- | --- | --- | --- |
| Host table (`internal/daemon/daemon.go`, `control.go`) | `d.hosts`, one runtime per host with `stopping`, `bound`, `torndown` and its WaitGroup; `started`, `closing`, the flock, `children`, `childrenDrained` | `up`, `down`, `Start`, `Run`, `Close` | a socket file belongs to the host in its slot; `up` and `down` are atomic to their callers; every call returns; the flock is free only when nothing of the daemon runs |
| Bridge supervisor (`internal/bridge`) | its process, `state`, the `changes`, `alive` and `stop` channels, the last backoff | `Run`, `Stop`, `MarkAlive`, reclaim of the remote socket | one ssh at most, owned by Run; bounded backoff; Stop returns; the daemon's report follows the state; a stale remote socket does not keep a bridge down |
| Binding store (`internal/bindings`) | `bindings.json`, written by three kinds of process under a flock | `Bind`, `UnbindRow`, `AddGrant`, `DropGrant` | one binding per session and per pane |
| Bindings and running hosts (`control.go`, `events.go`, `internal/cli/open.go`, `end.go`, `updown.go`) | both of the above | `agr open`, reload-bindings, `agr end`, `agr up/down`, closed rows, lazy unbind | the bound hosts run and the others do not |
| Receiver (`internal/receiver`, `internal/unixsock`) | the listening socket, its connections, the time of the last event | `Bind`, `Serve`, one line per status event, one header per proxied call | an event reaches the row its session is bound to, and proves the tunnel alive |
| Host state and resync (`internal/daemon/resync.go`) | `runtime.state`, the HUD of each row, the `left-up` file | state changes, resync of levels, the reconnecting HUD | the HUD is shown exactly while a bridge that was up is lost; a finish is shown once |
| Event loop and recovery (`internal/daemon/events.go`) | the subscription, `eventReset`, `recoveryRunning`, `recoveryDone` | subscribe, closed row, recover when agterm returns | the loop subscribes again after every loss |
| Proxied calls (`internal/daemon/proxy.go`) | per host: calls in flight, `running`, `closed`, `drained` | admit, run, cancel, shut down | the limit holds, no slot is lost, shutdown waits for all |
| Consent (`internal/daemon/consent.go`) | open dialog of a host, refusals of the last minute, grants | ask, answer, re-check, grant | one dialog per host; a grant goes to the pane that was asked about |
| Page shim (`internal/daemon/pageshim.go`) | pages a host has open | open, submit, dismiss, release | a page ends once; a host's pages go with it |
| Proxy policy and rewriting (`internal/proxy`) | none | which call of a remote agent may reach which pane, and as what | a host acts only on panes it owns or was granted |
| Remote script (`internal/remotescript/agr.sh`) | multiplexer sessions with labels, parents, states | attach, sessions, reap, state | reaping a session takes its children |
| Split hook and handled panes (`internal/cli/onsplit.go`, `internal/handled`) | `handled-panes.json` under a lock | claim, prune, type `agr open` into a new side pane | a pane is typed into once |
| Rows and sessions (`internal/cli/open.go`, `end.go`, `kill.go`, `internal/proxy/rewrite.go`) | names reserved for new rows | `agr open`, `agr end`, `agr kill`, `session new` | a row is closed when its sessions are gone; two rows do not get one name |
| Remote runner, install, probe (`internal/remote`) | the remote script and hooks, cached host info | install, probe, run | an install that fails half-way can be repeated |
| Daemon client (`internal/cli/daemonclient.go`) | none | one request per connection; starts the daemon if none answers | one daemon runs, whoever starts it |
| agterm client (`internal/agterm`) | the agtermctl of an event stream | one request and reply per connection, one command, or a stream of closed rows | the stream ends with its process |
| Other commands, pasteboard, paths, tokens, settings, skill | files and flags of their own | straight-line code | not concurrent |

How they meet: a control request is a connection of its own and runs
`startHost` or `stopHost` in its own goroutine, the event loop and `Start` call
them too. A runtime's four goroutines (Serve, supervisor, watcher, ctl drain)
live under one context. The supervisor tells the watcher of its state over a
channel of 16 that drops what does not fit; the receiver tells the supervisor
that a line arrived over a channel of one. `bindings.json` and the host table
are two stores with no lock in common.

What is hard here: teardown with a timeout while successors start; Close while
starts are in flight, with goroutines that never end; a crash that leaves
sockets behind; channels that drop; remote commands that outlive the ssh that
carried them; check-then-act over the two stores; a call that is authorized on
one tree of agterm and runs on another; hooks, opens and ends that each see a
part of a row. `PROJECT.json` lists each of
these at its line, with the property that covers it or the reason none does.

## 2. Modules

| Module | Models | Builds on |
| --- | --- | --- |
| `HostSlot` | what callers of `up` and `down` may rely on | |
| `HostLifecycle` | `startHost`, `stopHost`, `Start`, `Run`, `Close`, the flock, a crash | implements `HostSlot` |
| `HostLifecycleProofs` | theorems about it | |
| `Supervisor` | `Supervisor.Run` and everybody who talks to it | |
| `SupervisorProofs` | theorems about it | |
| `BindingStore` | binding entries and the pure operations on them | |
| `Bindings` | the shared database | `BindingStore` |
| `BoundHosts` | the database together with the running hosts | `BindingStore` |
| `BoundHostsProofs` | theorems about it | |
| `Resync` | the watcher of each bridge, the resync, the recovery after agterm was away | |
| `ResyncProofs` | theorems about it | |
| `ProxyCalls` | the calls of one host on the Mac: their slots, consent, pages, shutdown | |
| `ProxyCallsProofs` | theorems about it | |
| `ProxyPolicy` | the policy and the rewriting, as operators on rows, bindings and a call | `BindingStore` |
| `PolicyCalls` | one call through them while agterm and the bindings move | `ProxyPolicy` |
| `PolicyCallsProofs` | theorems about both | |
| `RemoteSessions` | the sessions of a host: attach and reap of `agr.sh` | `BindingStore` |
| `PaneHooks` | the split hooks of the rows and the handled store | `Bindings` |
| `RowSessions` | `agr open`, `agr end`, `agr kill`, `session new` over all of these | `PaneHooks`, `RemoteSessions` |
| `RowSessionsProofs` | theorems about it, and about `Bindings` and `PaneHooks` by themselves | |
| `RowEvents` | the event loop, its subscriptions and the recovery | |
| `RowEventsProofs` | theorems about it | |
| `MC*` | instances for TLC | |

### HostLifecycle

A step is one critical section of `d.mu`, or one blocking wait together with
what the code does up to its next lock. `pc[t]` is the place of thread `t` in
`startHost`, `stopHost` or (`Main` only) `Start`/`Run`/`Close`; `arg`, `mine`
and `watch` are its locals: the host, the runtime it owns, the `torndown`
channel it waits on. A `*hostRuntime` is an element of `Runtimes`: its flags are
sets (`stopping`, `bound`, `torndown`, `cancelled`), its WaitGroups are `phase`.
`path[h]` is the runtime whose `Bind` made the file at `d.dirs.Recv(h)`, and
`open` are the runtimes whose socket answers a dial, which is what `ListenClean`
tells apart. Bind happens inside the critical section that publishes the
runtime, as in the code, so `Publish` is one step.

The daemon is one process after another: `Crash` is its death or exit, after
which `Start` may run again with the files left behind. `Signal` ends the
context long before `Close` marks the daemon closing, and starts may still
succeed in between, as in the code.

Left out: the contents of `EnsureDirs`, `Home` and the version probe (one step
that fails or succeeds) with the `ensured` cache, whose lock only delays; the
control socket file, pidfile and log; `left-up`; more than one request per
control connection at a time (the code has none).

### Supervisor

`Run` is `pc`, with a step for each case of its select. `proof` remembers what
promoted the current process: a notification of this tunnel (`fresh`), of an
earlier one (`stale`), or the timer. `event`, `mark` and `token` follow one
notification from the receiver's read through the look under `s.mu` to the
channel `s.alive`. `remote` is the path on the remote host: free, a stale file,
or bound by the current tunnel. `healthy` is the weather: ssh fails, exits and
times out only while it is false, and a process that is signalled exits in any.
`RmOutlivesSsh` says whether the `rm` of a reclaim that was given up may still
run on the remote host; the code cannot prevent it, and `StaleSocketRecovers`
speaks of the behaviours without one: that is what the rest of the design
achieves. Times are abstract
except for the backoff, whose arithmetic is that of `Next` and `jitter` with
real intervals cut to integers.

### BindingStore, Bindings, BoundHosts

An entry is a record of row, pane token, pane slot, host, name and grants; `mux`
and `bound_at` play no part. The database is a set; the order of the file only
matters to a search that could find two entries, and `OneBindingPerSession`
rules that out. Each call of the store is one step because the code holds a
flock from read to rename.

`BoundHosts` puts `agr open`, the reload it asks for, `agr end`, the closed-row
handler, `agr up`, `agr down` and the lazy unbind of `Status` on top of the same
operators, one step per locked call. `up` stands for the live entries of
`d.hosts`; that one call of `startHost` or `stopHost` may be taken as one step
is what `HostSlot` says. The event stream delivers every closed row here;
`RowEvents` has the stream. With `FileFails` any call on the file may fail where
the code makes it: in `agr` and the reload the command ends there
(`StoreFails`), and in the closed-row handler a row may stay bound, and a host
may be taken for unbound because nobody can read that it is not. That the entry
points of this module write the file through the operators of the store is how
they are written here, and nothing is claimed about it; what any mixture of such
writers keeps is `BoundOnce`, which `sessions` checks with the commands and the
hooks.

### Resync

`hostStateChanged`, `showReconnecting`, `resyncHost` and `resyncAll` are run by
the watcher of each host and by the recovery, the `Threads`; `job[t]` is the
place of a thread in them and its locals: the rows whose HUD is still to be
opened or closed, the answer of `agr sessions` and when it was read, the levels
still to be pushed. A step is one call of agterm or ssh, or what the code does
between two of them. Next to these goroutines run those that the properties
relate them to. A hook records its level and then relays it (`SetLevel`,
`Relayed`, `RelayLost`). `Supervise` is the supervisor reduced to its tunnel
(`link`) and what it reports: `Supervisor` has the detail, and the channel here
never drops (`MCSupervisorOverflow.cfg` asks what a drop means). `startHost` and
`stopHost` are reduced to what a watcher sees of them, the two steps of
`stopHost` in which `left-up` is written before the context is canceled
included; a host starts with or without a network, since what `startHost` asks
it may be cached. `leftUp[h]` is that file; `quitUp[h]` is the time it stands
for, and `missed`, `seen` and `down` are history for the properties. A killed
daemon leaves the file as it was, and its last loss is then unknown to its
successor: the code accepts that ("Without one (... a daemon that was killed)
every completed state replays", `resync.go:172`), and so `Kill` makes `quitUp`
what the file says.

`now` is a clock without units: what the code compares are the time a level was
recorded, the time it was read, the time of a loss and `leftUpSlack`. An age is
computed on the host when it answers and is compared on the Mac later, as in the
code (`finishedSince`).

Agterm comes back without HUDs and levels. A level has a number `no`, which only
the properties read. Left out: rows that close (`BoundHosts`), a watcher that
outlives the teardown timeout, levels other than `active` and `completed`, which
are handled as `active` is, and failures to write the `left-up` file. A level of
unknown age (`resync.go:141`) does not occur: `agr.sh` prints no age only
together with no state (`agr.sh:70`, `:372`), and a session without a state is
skipped. A supervisor whose channel is full waits here (`SetState`). Four
switches say what the environment may do, because a reader will want to know
what each result needs: may a connection outlive an outage (`LinkSurvives`), may
ssh dial for longer than the promotion delay (`SlowDials`), may an ssh call that
an outage caught wait for ever (`SshHangs`; nothing in its arguments ends it),
may agterm quit while the recovery is inside `resyncAll` (`QuitsAgain`).

### ProxyCalls

One host, its `hostCtl` and its pages in the shim. `pc[t]` is the place of a
call, or of the goroutine that watches the page of a call that has returned
(`track`); a page names its watcher. A call goes through `serveCtl` (`Admit`,
`ReadBody`, `leave`), `Ctl` (`Authorize`, `Exec`), `consent` and `await`, or
`runPage` and `driveShimPage`. A step is one section of `h.mu`, `s.mu` or
`p.mu`, one command of agtermctl, or one read of the context: `Ended(t)` is read
only where the code reads it, so a client that leaves and a host that stops may
come between any two steps. `calls`, `running`, `closed`, `drained`, `dialog`
and `refused` are the fields of `hostCtl`; `shut` is the goroutine that runs
`shutdown`. A page is a record; `posts` are the POSTs that have passed `current`
and have not yet tried their transition.

The grants are those of one session's binding, and they come and go under the
calls. `Authorize` decides on the grants of its moment and finds some whose pane
the tree no longer lists, which the call then drops one by one (`DropGrant`); an
answer "until it closes" adds one, or fails to, and the call runs all the same;
`Unbind` is a row that closes or `agr end`, `OpenOrchestrator` a session that is
bound again with a grant. Nobody looks at the grants again before a call is
executed, so a call may well type on a grant that is gone by then, and
`TypesWithConsent` does not say otherwise. It speaks of the user instead:
`consented` has the calls and rows for which the user said yes, by a click for
this call or by an answer or an orchestrator grant that stood at some moment
while it ran, `lasting` the answers that stand as long as the session is bound.

`told` is what somebody was told about the end of a page: the POST whose
transition it was, the call that waited and reports the outcome, and the call of
the host that drives the page. The last is answered with success whether or not
its transition came first (`proxy.go:466-469`), so `OutcomeTold` is about the
other two, and what is told to a driver is refuted below. All three are history.

agterm is a set of dialogs (`ask`) and what each overlay slot shows (`shows`).
Any request to it may fail, also after it had its effect; then an open dialog
belongs to no call. Opening an overlay replaces the one that is shown; a page
without a side covers the row and is in every slot of it for a call that drives
(`Whole`). The policy may decide anything, except that a row without an agent is
never typed into, and one without a grant only after consent. Left out: several
sessions of a host, new rows (`preBind`), the HTTP
server with tokens and headers, temporary directories, the wording of dialogs,
and calls that outlive the teardown timeout, which would meet the next `hostCtl`
of their host (`NewHost` waits for the last).

### ProxyPolicy and PolicyCalls

`ProxyPolicy` is `policy.go` and `rewrite.go` as functions of what they read. A
row is its surfaces by kind, each with the pane id agterm gave it, whether it is
split, and the program in each pane: an agent, a shell or the `agr open` of a
session. A call is the words and options of its argv. `matchLeaf`, `parseArgs`,
`normalise`, `rowScope`, `onePane`, `typeText` and the others carry the names
they have in the code, and `Authorize` puts them together in the order of
`authz.run`. `Rewrite` gives the call that is executed and its cancel hook;
`Touched` says which panes agtermctl reaches with a call on a given tree, and is
what the properties speak of.

`PolicyCalls` takes one call through `serveCtl` (which looks the caller up
before the body), `authz.load` (the tree, then the bindings), the dropping of
grants, the consent of the user, `afterAnswer` and the execution. Between any
two of these the user splits, closes and swaps panes, closes rows, starts and
ends programs and binds panes. `held` is history: the panes that were the
host's at some moment since the tree was read. Left out: texts and quoting, the
files of a page, what `Decision` says to the user, and the limits and slots of a
call, which are in `ProxyCalls`. New rows are in `RowSessions`.

### RemoteSessions, PaneHooks, RowSessions

`RemoteSessions` is the host. A session has the labels `agr` and `parent`, and,
for the properties, the pane that started it and a number. `att[p]` is the `agr
attach` of a pane and `job[j]` a reap; each call of the multiplexer is a step,
so two scripts interleave as they do on a host. tmux labels a session after it
has made it, zmx creates it on attach and labels it from a loop in the
background. A query may fail, a kill may do nothing, a connection may drop while
its script runs on. The older label `@agr_target` is folded into `agr`, zmx runs
with its default labels, a query that fails for one child of several is not
modelled, and no session is its own parent.

`PaneHooks` is the Mac side of a split. agterm starts a hook each time a split
is shown; a hook reads the tree, claims the pane (`HookClaims`, one step because
of the file's lock), loads the bindings, asks the host for a directory and
types. A pane id lives once. `ClaimAges` is the minute of `pruneGrace`: it
passes only when no hook is left that read the tree before the claim, which is
to say that no hook takes a minute from its look to its claim.

`RowSessions` puts the commands on top of both and of the bindings. `open[p]` is
the `agr open` of a pane, `job["end"]` and `job["kill"]` are the reaps of `agr
end` and `agr kill`, `ending` is what `agr end` was asked about, `call[c]` is a
`session new` of the host from `generateName` to the release of the name.
`Generated` stands for the names `<name>-2` onwards, of which the first few are
enough here. `left` bounds everything that the user, the host or the network may
still do; a scenario gives the bounds together with what is there at first. A
scenario starts where the program can be (`ScenarioAssumption`): the bindings
are one to one and of this host, the sessions are numbered in the order in which
they were started, and one that has a parent is that session's side pane: only
the split hook gives one (`onsplit.go:73`), and a user who types `agr open
--parent` by hand is left out.

### RowEvents

`loop` is the place of `eventLoop` and its locals: the reset channel it took and
its subscription. A channel of `d.eventReset` is a number, `reset` is the current
one and all before `shut` are closed. `stream[s]` is a subscription: its
agtermctl (`ctl`), the pipe (`lines`) and what the goroutine of `ClosedRows`
offers (`row`). `recovery` is the place of `recoverAgterm`. A line that does not
decode is skipped by the code and left out here. The subscription may be refused
as the code allows for, although agtermctl reports that by ending.

## 3. Runs

| Run | Question | Result |
| --- | --- | --- |
| `host_lifecycle` | do slots, sockets, the flock and the WaitGroup keep their owners, and is the table an atomic switch? | holds |
| `host_close_liveness` | does every call return and every signal close the daemon, with goroutines that never end? | holds |
| `supervisor` | backoff, process ownership and the report; does Stop return, and is a stale socket reclaimed? | holds, the last without late rm |
| `bound_hosts` | does an undisturbed reload repair everything, whatever races and failures left? | holds |
| `bound_hosts_run` | does every bound host run once all is quiet? | violated |
| `resync` | does the HUD follow the bridge, and does a finish stay seen? | holds |
| `resync_live` | is a missed level restored? | holds if ssh calls end, an outage ends connections and agterm does not quit inside `resyncAll` |
| `proxy_consent` | do slots, dialogs, refusals and what the user allowed fit together when two calls of a host ask while grants come and go, and does the shutdown end? | holds |
| `proxy_pages` | does a page end once and is it told so, is it given up when it left its slot, does nothing outlive the shutdown, and does that end? | holds |
| `policy` | does a call reach panes of its host only, or an agent with consent, whatever moves between the looks? | holds |
| `sessions` | is a session bound once and a pane typed into once, does a reap take the children, is a row closed only when its sessions are gone, and do new rows get names of their own? | holds |
| `events` | does every reset reach the loop, and is it subscribed for good once agterm stays? | holds |

The violated run states what a comment of the code says; `PROJECT.json` quotes
the line and describes the behaviour. The modules
have more instances that are no runs: each is the least one in which TLC refutes
a property under a circumstance that a run above excludes, and the reason why it
is excluded there. `tlc -config <file>.cfg <module>` shows the counterexample.
"`X.cfg` with ..." is the configuration of a run with that line in place of its
properties, or of the line that gives the same constant.

| Instance | Refutes | Because |
| --- | --- | --- |
| `MCSupervisorLateRm.cfg` | `Recovers` | the `rm` of a reclaim that timed out here (`supervisor.go:358`) may still run there and unlink the socket of the next tunnel |
| `MCSupervisorOverflow.cfg` | `ReconnectReported` | a full channel drops the newest change (`supervisor.go:440`), which may be the last "up" |
| `MCSupervisorAlive.cfg` | `OldTunnelProvesNothing` | nothing empties `s.alive` when a process starts (`supervisor.go:157`), so a notification of the old tunnel promotes the next |
| `MCUnboundHostsStop.cfg` | `UnboundHostsStop` | a binding that `Status` (`daemon.go:404`) or `agr end` (`end.go:72`) removed first leaves nothing for the closed-row handler to find (`events.go:109`), and nobody stops the host |
| `MCResyncOvertaken.cfg` | `ShownNeverGoesBack` | a resync asks for the levels (`resync.go:101`) and pushes the answer later (`:128`), over an event that was relayed in between |
| `MCResyncSlowDial.cfg` | `HudWhileUnreachable` | the tunnel's ssh has no ConnectTimeout (`supervisor.go:274`), and one that still dials after the delay is promoted (`:227`) |
| `MCResyncRecovery.cfg` | `HudMarksLoss` | `resyncAll` opens the HUD for every host that is not up (`resync.go:210`), against the comment at `resync.go:52` |
| `MCResyncSplitRow.cfg` | `HudShowsLoss` | two hosts on a split row share its HUD, and the resync of one closes it (`resync.go:92`) |
| `MCResyncRace.cfg` | `HudClearsWhenUp` | `resyncAll` reads a state and opens the HUD after the watcher closed it (`resync.go:198-211`) |
| `MCResyncSshHangs.cfg` | `LevelRestored` | the ssh of a resync has no deadline (`remote/ssh.go:95`) and holds up the watcher |
| `MCResyncNoRetry.cfg` | `LevelRestored` | a resync whose ssh fails is not repeated while the tunnel survives (`resync.go:103`) |
| `MCResyncLive.cfg` with `QuitsAgain = TRUE` | `LevelRestored` | agterm quits again after `agr sessions` answered inside `resyncAll`: the push is refused, the failing relay starts no second recovery while one runs (`events.go:135`), and after agterm's return nothing resyncs |
| `MCResyncSkips.cfg` | `SkippedFinishWasShown` | a finish that was relayed into a tunnel already dead is older than the recorded loss by more than the slack, and the resync leaves it out (`resync.go:136`) |
| `MCProxyCloses.cfg` | `ClosesOwnPage` | `closePageOverlay` looks a page up and then closes its slot (`proxy.go:552-559`), in which another page may be shown by then, against the comment at `proxy.go:546` |
| `MCProxyPages.cfg` with `INVARIANT DriverToldOutcome` | `DriverToldOutcome` | the call that drives a page is told success whoever has ended it (`proxy.go:466-469`): its close may lose to the page's own submit, against the plan of the proxy, by which an outcome is that of the one transition |
| `MCProxyDialogLeft.cfg` | `NoDialogLeft` | an agtermctl that fails or is killed after agterm opened the dialog leaves it (`ctl.go:501`), and so does a cancel that fails (`consent.go:169`), against the comment at `consent.go:130` |
| `MCPolicyCalls.cfg` with `INVARIANT ReachesSamePanes` | `ReachesSamePanes` | the panes are resolved again when agtermctl runs (`proxy.go:330`), and a row may have been swapped since |
| `MCPolicyCalls.cfg` with `INVARIANT ReadsNeedBinding` | `ReadsNeedBinding` | a leaf that only reads is refused, too, while the bound pane shows something else than its session (`policy.go:953`), against the comment of `leafSpec` |
| `MCRowSessionsForeign.cfg` | `PicksFreeName` | a session that agr does not own is not listed (`agr.sh:137`), and its name is given to a new row (`rewrite.go:354`), against the comment at `rewrite.go:324` |
| `MCRowSessions.cfg` with `Scenarios <- MCNeighbour`, `PROPERTY EndsOwnSessions` | `EndsOwnSessions` | the side pane's session is called `<name>-2` (`onsplit.go:57`), which another row may have; that row's session is then recorded as a child and reaped |
| `MCRowSessions.cfg` with `Scenarios <- MCHurry`, `INVARIANT NothingLeftBehind` | `NothingLeftBehind` | a session that is attached between the listing and the close of `agr end` (`end.go:56`) runs on |
| `MCRowSessions.cfg` with `Scenarios <- MCHurry`, `PROPERTY TypesAtPrompt` | `TypesAtPrompt` | the hook types when its wait is over, whatever the pane runs (`onsplit.go:225`) |
| `MCRowSessions.cfg` with `Scenarios <- MCStuck`, `INVARIANT ReapLeavesNoChild` | `ReapLeavesNoChild` | nobody looks whether the kill of a child did anything (`agr.sh:272`) |
| `MCRowEvents.cfg` with `INVARIANT OneSubscription` | `OneSubscription` | a reset leaves its agtermctl and the goroutine as they are (`events.go:68`), and they run on next to their successors until agterm quits |
| `MCRowEvents.cfg` with `PROPERTY AnnouncedIsUnbound` | `AnnouncedIsUnbound` | what the abandoned goroutine still offers is read by nobody; the row is unbound when a status push meets it |

`MCProxyTwoPages.cfg` is an instance of `ProxyCalls` with two pages in one slot,
so that a page is replaced while its watcher has not noticed; the safety
properties hold there, and with `Slots = {s1, w}`, `Whole = {w}` and
`MaxPosts = 0`, where one of two pages may cover the row.

Bounds, and why they are enough. `host_lifecycle` has one host, because hosts
share nothing but `d.mu`, `children` and Close's loops, two control connections
next to the daemon's thread, and two runtimes: a predecessor in teardown and the
successor that wants its path, which is what every hazard of this component
needs. `host_close_liveness` drops one connection for the size of the liveness
graph, and `MCHostJoin.cfg` one runtime instead, so that two connections join
one teardown: `CallsReturn` holds there too. The proofs cover every other size.
`supervisor` takes the least channel that can overflow and delays of 1 and 2,
which double and meet the cap; its temporal properties need the small graph, and
the proofs cover every capacity and every pair of delays. `bound_hosts` has one
client, next to the event loop and the user, two hosts, a row that reaches both
and a second row in which one of the sessions can be opened again, and lets
every call on the file fail; with two clients its state space no longer
finishes. `resync` has one host and pane, because hosts share only the rows they
have in common (`MCResyncSplitRow.cfg`) and the queue of the recovery; a slack
of one tick on a clock of three tells apart before, within and after the slack;
two levels, so that one can be newer than the one a resync read; one outage,
stop and kill each, in any order; and at most two changes waiting for the
watcher, enough for a flap that it sees late. agterm does not quit in `resync`,
since the HUD property is lost then (`MCResyncRace.cfg`); `resync_live` lets it
quit twice, at any time but inside `resyncAll` (`QuitsAgain`), so that it is
gone again while the recovery waits for it, or just after. Its clock stands
still: a clock only decides about finishes, which `LevelRestored` leaves out.
`proxy_consent` has two calls, so that one asks while the other is anywhere in
`consent`, and one row, since a row without a dialog only has its own refusal;
its limit is that of the calls, so no call is turned away there, while
`proxy_pages` has a limit of one. `proxy_pages` lets one call in at a time,
which meets the watcher of the page an earlier call opened, and two POSTs that
have passed their look, one for each outcome. `policy` has two rows and four
panes in five worlds: a pane of the host next to an agent, a row shared with
another host, a scratch, a hidden split, and a pane that is about to be bound;
one call of each kind that the policy tells apart; and two moves (`MaxMoves`),
one of which may undo the other. `sessions` starts from thirteen scenarios, each
with the budget (`left`) of the events it is about: splits shown twice, an end
during an open, a connection cut, a listing that fails, two new rows; all in one
would not finish, and the hazards each need two or three of them together.
`events` has two rows, one that is announced while another waits, and lets
agterm quit twice; each recovery needs a quit, so three subscriptions are all
that can be there. The violated run has the least of each that shows the
behaviour.

Fairness. `HostLifecycle`: threads that can run do, timers fire, and a dial
returns; nothing is assumed of a runtime's goroutines, of clients, of signals or
of a repeated Close. So `CallsReturn` and `SignalCloses` show that the teardown
timeout is enough. `Supervisor`: Run's goroutine runs and its timers fire, Go's
select starves no case, a MarkAlive that has begun ends, the watcher reads until
its context ends, and ssh and sshd act; nothing is assumed of the weather, of
exits or of Stop. `Resync`: the watchers and the recovery run, an ssh on a dead
connection exits, a dial succeeds on a working network, ssh calls end unless
they hang, the network and agterm come back, and a hook gives up on a message
that cannot be delivered; nothing is assumed of the clock, the agents and the
user. `ProxyCalls`: goroutines run and timers fire, requests to agterm are
answered or given up, and a command that runs for as long as its client waits
ends when the host stops, because it is killed; nothing is assumed of the user,
the pages, the clients or the next start, and of the watcher's ticker only that
it notices a page that is gone. `RowEvents`: the goroutines of the daemon run,
an agtermctl that was started finds agterm or ends, and starting one succeeds
in the end if it is tried again and again; nothing is assumed of agterm, its
rows or the status pushes, and `SubscribedToAgterm` speaks of the behaviours in
which agterm comes back for good. Deadlock is allowed in the two host runs, where
a daemon that exited and is not started again has no step, and in the runs
whose environment stops when its bounds are used up: resync, policy, sessions
and events.

Every property has a mutant in `PROJECT.json`: a change of one action that a
plausible bug would make and that the property catches. The operators marked
"Broken" in the modules are these.

## 4. Proofs

All theorems hold for every value of the constants under the named assumptions
of the modules (distinct `Main` and `None`; positive channel capacity and
backoff; the empty token is no token; a pane is in one place; in agterm's trees
no two surfaces of a row have one id; what is there at first is a state the
program can be in). Three theorems have a hypothesis of their own, which is said
with them below. Every safety invariant and action property that a run checks is
proved, and so is the refinement `ImplementsHostSlot`.

`HostLifecycleProofs`. The invariants the runs check are not inductive. Their
strengthening has five parts. `TypeInv` adds to the types that a thread has a
host and a runtime exactly at the labels that use one. `TableInv` says
that the table is empty unless the daemon is started, and that Close runs only
while it is marked closing. `OwnInv` ties the owner's label to the phase of
the runtime; it gives `OneTorndownCloser`. `PathInv` says that a file at a
receiver path was left by a crash or belongs to the runtime in the slot; it
gives `SocketOwned`, `CloseSweepsPaths` and `FreeSlotFreePath`. `DrainInv`
relates the waiter, the drained channel, the flock and the children; it gives
`FlockFence` and the action property `WaitGroupNotReused`. Each is preserved by
every action given the ones before it. `ImplementsHostSlot` follows from the
first three: one lemma for the steps of `startHost`, one for those of
`stopHost`, one for `Main` and one for the rest says which step of `HostSlot`
each is, or that it is none.

`SupervisorProofs`. `BackoffBounded` follows from two lemmas on `NextDelay` and
`Jitter`; `NoOrphanProcess` needs that `proc` is alive only at two labels;
`ReportLags` needs that an undropped change is the last of the channel. They
are inductive together with `TypeOK`.

`BoundHostsProofs`. `ReloadRepairs` needs to know how far a reload that nobody
disturbs has come (`RepairInv`): while it stops hosts, what runs is bound or
still to be stopped; while it starts them, what is bound runs, is still to be
started or was excused because it failed. It holds whatever was running before,
which is why the reload is a repair, also after calls on the file that failed.

`ResyncProofs`. The supervisor runs ahead of the watcher by what is in the
channel. `Chain` says that the channel leads from the state last reported to the
bridge's, one legal change at a time, and `Watching` what the watcher can be
about in a state. On that, `HudInv` follows a loss: it is ahead of the watcher,
or in its hands, or on show. It gives `HudShowsLoss` and `HudClearsWhenUp`, under
two conditions that are not ours to drop: agterm runs all the while, and no row
has panes on two hosts (`RowsApart`). Without them the properties are false, as
`MCResyncRace.cfg` and `MCResyncSplitRow.cfg` show; the run `resync` has both.
`SeenFinishStaysSeen` has no condition. It needs that what is on disk is behind
the last time the bridge left "up" only while the watcher has that still before
it, and that of several such changes in the channel the first is enough
(`SinceInv`).

`ProxyCallsProofs`. A call that is about to type was allowed because of what it
read several steps earlier, and what it read may be gone. So `ConsentInv` is
about the user. `GrantsInv` says that a grant that is stored is one that the
user gave for as long as the session is bound, and that such a word counts for
every call that runs. From there the invariant follows the answer: a dialog that
belongs to a call is about the row of that call, which waits at `await` or
cancels it (`DialogInv`, it also gives `DialogHasReader`); an answer that allows
is a click for that call; a call that has read one, or found a grant, has the
user's word (`AnsweredInv`), whatever is dropped, unbound and bound again in
between; and only a call that wants to type gets there (`KindInv`). The counters
are cardinalities: `CountInv` says that `calls` and `running` count the threads
that are not idle, of which there are finitely many at any time whatever the
sets, and `StopInv` that whoever has seen the drain has seen zero; these give
`SlotsAccounted` and `NothingAfterShutdown`. `HolderInv` says that a page which
is served has one thread that releases it, first the call and then the goroutine
the call hands it to, and `ServedInv` counts these pages (`PagesAccounted`); an
outcome is told only of a page that has ended, by the POST that ended it or by
the call that waited for the end and sees it (`EndedInv`), and a page that has
ended stays as it ended (`OutcomeTold`). `TurnInv` says that one call has the
turn to ask and that a call which has it looks at `refused` with nobody in
between; `RefusalHolds` is an action property and follows from it. `LimitsHold`
has the types and the limits of calls and pages.

`PolicyCallsProofs`. The first part is about the operators: a leaf is of one of
a few shapes (`LeafShape`), a target that the row scope or the pane scope allows
is a pane of the calling host in the tree it was read from, or the pane that
consent is asked for, and `Rewrite` adds none (`AuthorizedReach`). The second
part carries this along the call: `Inv` says that the call about to run is the
rewriting of a decision and, unless the user was asked, that this decision is
the one for the tree and the bindings last seen, and that every move leaves
agterm's rows well formed. It gives `OwnPanesOnly` for any worlds, calls and
number of moves, and `CancelUndoesOpen`. `AskInv` adds what the second look
does: a call that the user is asked about types into one pane, and between the
look and the call nobody asks again; `TypesIntoAgent` follows, which speaks of
the panes that agtermctl touches. `HeldInv` says that what the host owns on the
tree seen, by the bindings as they are until the decision, it has owned at a
moment since: a binding that is made counts from then on. It gives
`OwnedAtOnce`.

`RowSessionsProofs` is one argument about the Mac and the host together.

- The store. The two uniqueness properties with the type of the database are
  inductive for any writers of `Bindings`: `BindKeeps` shows that `upsert`
  retires all that the new entry could collide with, `EditKeeps` that grants
  move nothing.
- The hooks. `TypedOnce` needs four facts that hold together: nothing has
  happened to a pane that was not made yet (`Unborn`); a live pane that was
  typed into, or is about to be, is claimed (`Claimed`); one hook at most is
  behind the claim of a live pane (`OneHook`); and a hook that is about to prune
  has seen every live pane whose claim is old (`Seen`), so it prunes none of
  those. The last is where `pruneGrace` is needed.
- The system. To the store and the hooks every step of `RowSessions` is a step
  of somebody around them (`RowsAreHooks`), so `BoundOnce` and `TypedOnce` hold
  of the whole of it. For that every name that is bound or started has to be one
  (`NameInv`).
- The names of new rows. `ReserveInv`: a call that has picked a name and has not
  released it has it reserved, alone. `NewNamesApart` speaks of the moment at
  which a name is picked: nobody else holds it then, as a reservation or in a
  binding. That two calls never hold one name afterwards is false: a user who
  types `agr open` with the new name into the pane of an older call hands it a
  second one.
- The sessions. A session is started, relabelled or ends (`SessStep`), so one
  that is gone stays gone (`GoneStays`), though its name may be back.
- The reaps. `Left` says at each point of a reap which of the children it found
  are gone, will be killed, or were passed over. A child has to stay recorded
  while the reap is on its way, and another script may record it under somebody
  else. It cannot if no two names have side panes of one name; that is the
  hypothesis `ChildApart` of `ReapsTakeChildren`, and it holds of the code, where
  that name is the session's and `-2`. In the instance for TLC names run out and
  two of them do share one, without harm to the property.
- `agr end`. `EndInv` follows each session that it was asked about: it is still
  to do, or gone, or `agr end` has failed; and a reap that goes on without its
  named session has not found it or has killed it (`NamedGone`). It gives
  `ClosedMeansEnded`, with no hypothesis.

`RowEventsProofs`. The channel that the loop holds is never newer than the one
that was current when it subscribed, so a reset that came later has closed it.

Only model-checked, and out of the prover's reach, are the liveness
properties under fairness (`CallsReturn`, `SignalCloses`, `StopReturns`,
`StaleSocketRecovers`, `LevelRestored`, `ShutdownReturns`, `PageGoes`,
`SubscribedToAgterm`), since ENABLED is not supported. Induction over recursive
definitions would be, too, but no module here has one.

## 5. Not modelled, and the plan

Not modelled: the daemon client's automatic start and the control socket it
dials, whose race with a closing daemon comes down to the flock that
`HostLifecycle` has; doctor, setup, ls, pick, paste, shell and skill, which run
from top to bottom on data nobody else writes; install and probe, a fixed list
of commands that can be repeated; the pasteboard, which is I/O on macOS; paths,
tokens and settings, which keep no state. Formatting, quoting, HTML and wire
formats are text. In the parts that are modelled the paragraphs above say what
is left out.

What is left, in this order:

1. Proofs: what `HudShowsLoss` becomes while agterm is away, with the recovery
   in the invariant; that `RowSessions` and `PaneHooks` implement
   `Bindings` from the bindings a scenario starts with; that after a reset one
   subscription at most is served (`RowEvents`).
2. `ImplementsHostSlot` used: `BoundHosts` over `HostSlot` in place of its own
   set `up`.
3. What a teardown that timed out leaves running: a watcher that writes its
   state into the successor (`resync.go:38`) and a shutdown whose `releaseHost`
   meets the pages of the next runtime (`daemon.go:721`).
4. Several sessions of a host in `ProxyCalls`: a pane that is bound to another
   session while grants for it are stored.
5. The daemon client: automatic start racing other clients and a closing daemon.
