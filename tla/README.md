# otp-js in TLA+

otp-js is Erlang/OTP for JavaScript: processes with mailboxes, links and monitors inside a *node*,
behaviours on top of them (`gen_server`, `supervisor`), and transports that join nodes into a network.
This directory models its core in TLA+. TLC checks the models on small instances; TLAPS proves the
theorems for all values of the constants. Every definition is translated from the source; `PROJECT.json` names its
lines (`map`), the hazards the properties are for, and the disagreements found.

    tlc -workers 2 -config Processes.cfg MCProcesses.tla     # a run
    tlapm Processes_proofs.tla                               # the proofs of a module

## The system

Paths are below `src/`. The `lib` directories are built from the sources and not considered.

| Component | State | Operations | Interacts with |
|---|---|---|---|
| mailbox, `packages/core/src/message-box.js` | the array of messages; `#pending`, the one receive that waits; its timer | `push`, `pop`, `#defer`, `clear` | driven by the context of its process |
| context, `packages/core/src/context.js` | flags, links, monitors, mailbox, the death promise, `#dead` | `receive`, `receiveBlock`, `signal` and its handlers, `die`, `destroy` | signals of other contexts through the node; timers and microtasks of the event loop |
| node, `packages/core/src/node.js` (processes) | processes, monitor targets, registered names | `signal`, `link`, `monitor`, `register`, `spawn`..., `deliver` | all contexts of the node |
| node (router) | `#routers`, `#routersById`, `#routersByPid`, `#bridges`, `#monitors` | `registerRouter`, `unregisterRouter`, `updatePeers`, `monitorNode`, `getRouterId` | transports and serializers |
| `transports/socket.io` | a context per connection, `running` | connect, disconnect, discover, lost, message and signal handlers; the forwarding loop | the node's router, the socket |
| `serializers/json` | none of its own | encodes terms; the node ids of pids become names and back | creates router entries while it reads |
| `gen`, `proc_lib`, `gen_server` under `packages/` | the server's loop and state; calls under way | `start`, `initAck`, `call`, `cast`, `reply`, the receive loop, `terminate` | monitors, receives with timeouts |
| `packages/supervisor` | specifications, children, restarts within the period | start, restart by four strategies, shutdown of children | a gen_server; links, EXIT messages, timers |
| `packages/types`, `packages/matching` | none | lists, tuples, pids, references; patterns | everywhere |
| `dnp/*` | the distribution protocol: handshake, framing, codes; epmd; the term format | connect, relay, parse, encode | the router, sockets |

What is hard in each, and what makes it correct:

* **Mailbox.** `push` and `pop` decide separately whether a message meets a receive; a receive may time out; a
  handler of `receiveBlock` runs inside the scan of the box. Correct means: no message is lost or taken twice, no
  receive sleeps while its message is there, a timer only ever cancels its own receive.
* **Context and node.** Every local signal, and the start of every spawned function, is a `setTimeout` without a
  delay, so the node has one first-in first-out queue of timers; dying resolves a promise, and `destroy` follows
  in a microtask. A process can die between any call and the handling of the signal the call sent, and user code
  of a killed process keeps running. Correct means: one DOWN per monitor, after the death; links that agree; a
  death that reaches everyone linked; names that go away with their process.
* **Router and transports.** Four Maps that must agree; discoveries and losses that travel along bridges and
  overtake each other; reconnects noticed at different times; pids whose meaning differs from node to node.
  Correct means: routes that remain lead where they say, connected nodes know each other, disconnected ones go away,
  and a pid means the same process wherever it travels.
* **gen, gen_server, proc_lib.** Two starts under one name, a child that dies before its `init_ack`, a late reply or
  DOWN after a call timed out, a handler that throws. Correct means: a call ends with its own reply, the server's
  death or its timeout, and a start with one answer.
* **Supervisor.** Deaths while a restart is under way, dynamic children, starts that fail, a shutdown that races with the
  child's death. Correct means: no death is missed, no process runs that nobody will ever restart or stop, the order
  of the children survives, and a permanent child that died lives again or the supervisor is gone.
* **Types and matching.** Lists are copied up to the place that changes and may be improper; patterns nest, have
  spreads and tails; clauses are collected in reverse. Correct means: a list is the sequence it
  stands for, a pattern matches what it says, the first clause that matches wins.
* **dnp.** Bytes left over between handshake and parser, signals that have no route. Correct means: the frames
  parsed are the frames sent, in order.

## Modules

| Module | Models | Extends |
|---|---|---|
| `MessageBox` | the mailbox and the receives of one process | |
| `MessageBox_proofs` | its theorems | `MessageBox` |
| `Monitoring` | what monitors promise: the abstract specification | |
| `Processes` | the processes of one node: `context.js` and the local half of `node.js`; implements `Monitoring` | `Monitoring` (INSTANCE) |
| `Processes_proofs`, `ProcessesSpawn_proofs`, `ProcessesLoss_proofs` | its theorems, each module on those before | `Processes` |
| `Router` | the router tables of a node as operators on a record of its Maps, and the translation of pids | |
| `Network` | several nodes and both ends of their socket.io connections | `Router` |
| `Network_proofs` | its theorems, for all networks | `Network` |
| `NetworkHub_proofs` | its theorems for networks around one server | `Network_proofs` |
| `Call` | what a call of a gen_server promises: the abstract specification | |
| `GenServer` | servers and their callers: `gen`, `gen_server` and `proc_lib`; implements `Call` | `Call` (INSTANCE) |
| `GenServer_proofs` | its theorems, the refinement included | `GenServer` |
| `Supervisor` | a supervisor and the children it starts | |
| `Supervisor_proofs` | its theorems | `Supervisor` |
| `Lists`, `Matching` | lists and patterns as operators | `Matching` extends `Lists` |
| `Terms` | lists under operations, and patterns collected into clauses | `Matching` |
| `MCMessageBox`, `MCProcesses`, `MCNetwork`, `MCGenServer`, `MCSupervisor`, `MCTerms` | instances for TLC | the module in their name |

In each module, a faulty variant of a definition may stand right before it, with a name that says what is wrong
(`SettleKeepsTimer`, `RegisterUnwatched`). No specification uses one; each is a plausible
bug that the property `PROJECT.json` pairs it with detects.

### MessageBox

`mb` is the array, `pending` the `#pending` record (a pattern and a timer), `armed` the timers that are set. A
JavaScript turn is atomic, so an action is one `push`, `pop` or `clear`, or one expiry. A pattern is the set of messages its
evaluator accepts. `push` hands a message to the waiting receive (`PushToReceiver`) or stores it
(`PushStored`); `pop` takes the first match (`PopTake`) or waits (`PopDefer`).
`PopNestedTake` and `PopNestedDefer` are a `receiveBlock` whose handler starts a receive before its first
`await`: the code runs the handler while it scans, before the outer message is spliced out. A second `pop`
while one waits is refused (`already_receiving`) and changes nothing, so it has no action. `sent`, `taken`, `dropped` and `nested` are history.

### Processes

`queue` is the one queue of timers; its head is the next to fire, and each handler of `Context.#signal` is one
action (`OnLink`, `OnExit`, ...). `phase` goes from alive to dying (the death promise is resolved, first reason
wins) to dead (`destroy` has run); the names of a process go away after that, in the callbacks that its `register` calls left
(`Cleanup`). `Tick` is enabled only when no microtask is due. A step of user code
(`UserStep`) is a call to the context; it needs `code = "running"`, not a living process: the function of a killed
process goes on. Signals go out only if the receiver is not destroyed (`ToPid`), as `#signalLocal` does,
and are not checked again when they are handled. `watcher`, `notified`, `late`,
`exits`, `orphaned`, `cancelled`, `atSpawn` and `parent` are history; `watcher` also keeps `demonitor` to the process that holds
the reference.
The order in which a table of links or monitors is walked is left open; which message a
receive takes is `MessageBox`'s business and left open here. Registering a taken name throws and changes nothing,
so it has no action. A context that was garbage-collected behaves like a dead one and has no action of its own.

`Monitoring` is what the asker of a monitor may rely on, without signals, queues and tables: one DOWN for a reference, only
of a subject that is gone, to the asker; none only if the asker went away, withdrew, or asked so late that the
death came first, and that never if it watches from the birth of the subject. `Monitored` in `Processes` maps the one to the other: asked are the
references of the monitor signals in the queue, standing those with an entry in the table of a process that is not
destroyed, sure those of `spawnMonitor`, withdrawn the cancelled ones, coming the DOWNs in the queue, told those that have been handled. A process
that is dying counts as up, since only `destroy` walks its table.

### Router and Network

`Router` has one operator per method of the router, on a record with a sequence or set per Map; a JavaScript Map keeps its order of
insertion, and the code walks `#routers` and `#bridges` in that order. What a method delivers is collected in
`out` and put into the boxes of the transports by the action that calls it. A pid is a node id and a
process; ids are local to a node, 0 is the node itself. `PidToWire` and
`PidFromWire` translate the id to a name and back, and reading an unknown name creates a router without a pid.
`Delivery` follows a pid over as many hops as there are routers (`Hop`, one call of `#signalRemote`); a way that is longer is a circle, where the
code overflows its stack and `signal` returns an error. A message in relays in relays is its sender, who is
the same in all of them, and the list of the pids it is relayed to.
`unregisterRouter` calls itself while it walks the routers; `Unregistering` is one step of that, on a stack of what is left to do, and
`Unregistered` the state after a number of steps, `StepsToUnregister`, that is proved to be enough (`UnregisterReturns`).

`Network` has a `Connection` for each life of a socket; each of its ends makes a context of its own when it connects, and
handles its disconnect at a time of its own. `box` stands for the signals to that context (queue and mailbox
together, both first-in first-out), `wire` for the events on the socket, which arrive in order or are lost with the
connection. `Forward` is one turn of `recycle`. The actions `HandleDiscover`, `HandleLost` and `HandleMessage`
are whole handlers, the deserialisation with its changes to the tables included.

A behaviour has a *scenario*: which connections there are, which nodes' transports bridge, whether connections
break, whether a client may be back before its server has noticed (`overlap`), and where user
processes send and monitor nodes.

### Call and GenServer

`Call` is what a caller may rely on, whatever dies: a request is executed at most once and never by a process that is
gone, the caller gets one answer, a reply only after the execution and a DOWN only of a server that is gone. It has
four variables and four actions. `GenServer` has the code's: again one queue of timers, a `name`, and
for each server whether its context lives (`life`), where its function is (`code`), the message it handles, its inbox
and its monitors; for each client what it waits for. `Promise` in `GenServer` maps the one to the other: asked are the calls that have a
caller, executed is how often `handleCall` got the call, gone are the calls to a dead context.

`Start` is `gen.start` up to the wait for the `init_ack`; `OnGo` the initializer in the child, which registers the
name or finds it taken; `InitOk` and `InitFail` what `callbacks.init` may return. `Take` is the head of
`enterLoop`, part of every action that ends the handling of a message. `HandleReply`, `HandleNoReply`
and `Stop` are the replies that `gen_server` understands, an exception and an unknown answer included;
`Terminated` is `terminate` with the death. `Kill` is an exit signal of anybody: the code
of a killed server goes on without a context, as in Processes, and what it sends still goes out. `Call` monitors and asks, `Timeout`
gives up and takes neither back, `OnReply` demonitors. `late`, `killed`, `handled` and `strays` are history.

Clients never die, and start without a link (`Processes` has links). A call to a name only looks the pid up first; a
start of a taken name and a call of a free one return at once and change nothing. Callbacks
end, the calls they make to other servers left out.

### Supervisor

The supervisor is a gen_server that traps exits. It works on one message at a time and waits inside it: for the
`init_ack` of a child, for the DOWN after a kill, for the EXIT that `unlinkFlush` takes. `pc` says where it is, `job`
holds the local variables of the functions it is in, `children` is `state.children`. The three actions
`doOneForOneRestart`, `doOneForAllRestart`, `doRestForOneRestart` decide what to terminate and what to start;
`TerminateNext` and `StartNext` do it one child at a time, with the waits between. `Crash`, `InitFail` and
`StartChild` are what others do meanwhile. A configuration is the strategy, the specifications and what
is added later; their ids tell them apart (`Sound`), which the code takes for granted.
A supervisor of one child at a time (`RestartsOne`) starts it as `childSpecs` declares it, whatever stands in the list; a
temporary child that does not start ends the supervisor or not, by the path it is started on (`Unforgiving`).

`Fails` is every way in which a supervisor ends by its own errors, and these are many: undefined names and wrong
types in the code (see the map's entry) make it end where the code seems to go on.
A start that throws, one that fails with the reason `normal`, two specifications with one id, and
`which_children` and `count_children` are left out; so is everything that sends replies to the callers of `startChild`.

### Lists, Matching and Terms

`Lists` has an operator for each method of `list.js`, on cells and `nil`. `Matching` has `Compare`, the comparators of
`core.js` with the three outcomes yes, no and throws; a guard is the set it accepts. `Terms` puts
them to work: its actions apply any list operation after any others, beside the sequence the list stands for, and
collect patterns as `buildCase`, `clauses` and `gen_server.callbacks` do. `Means` says what a pattern means in one
definition, without the code's walks and stacks, and is what the run compares with. Their operators are
recursive, so nothing is proved about them.

## Runs

| Run | Question | Bounds | Result |
|---|---|---|---|
| `mailbox` | Is a message ever lost or doubled, a waiter forgotten, a timer left behind? | 3 messages, 2 timers, every pattern | holds |
| `mailbox-nested-receive` | Do two receives ever take the same message? | the same | **violated** |
| `processes` | Deaths, DOWN, EXIT, links, names and spawns in every order | 3 processes, 2 references, 1 name, queue 3, inbox 2 | holds |
| `processes-live` | Are watchers and links of a dying process always served? | 3 processes, 1 reference, queue 1 | holds |
| `processes-lost-down` | Does every monitor of a dead process get its DOWN? | 2 processes, 1 reference | **violated** |
| `network` | Do routes, names and pids stay right while nodes come, go and come back? | A and C as clients of B, one reconnect | holds |
| `network-reconnect` | ... if the client is back before the server has noticed? | A and B, two lives of the socket | **violated** |
| `network-triangle` | ... if two nodes have a hub and a direct connection? | A, B, C, three connections | **violated** |
| `network-echo` | Does a disconnected node stay away when all transports bridge? | A and C as clients of B | **violated** |
| `genserver` | Do servers keep the promise of `Call` whatever dies? Does one run under a name, and does every start and call end? | 2 clients, 2 servers, 1 call, queue 2, inbox 1 | holds |
| `supervisor` | Is a death ever missed, a process forgotten, the order lost, a permanent child left dead? | 11 configurations, 9 pids, 2 retries, 2 messages | holds |
| `terms` | Do lists agree with sequences, patterns with their meaning, clauses with their order? | lists to 3 of 2 values, 2 clauses of 94 patterns, 37 terms | holds |

### Why the bounds are enough

*Mailbox.* Three messages are an accepted one between two others, so scanning, splicing at an index and a shift of
the index all occur; a second timer can be armed while the first has fired or been cleared.

*Processes.* A race here involves a subject, a counterpart and at most one bystander (a second watcher, a name's
next owner, a link to propagate over), hence three. Two references tell a DOWN that comes twice from two DOWNs. `MaxQueue` and
`MaxInbox` stop user code while the queue or an inbox is long; they never stop a handler, so handlers may
exceed them. To keep the number of states small, a behaviour picks a *program*, the calls that its user code makes
(watching, linking, killing, spawning, naming); within a program all orders are explored. Interactions between programs
(a register between a link and its death, say) are not run; the theorems hold for any programs, all calls
together included.

*Network.* With B in the middle, A and C are neighbours of a bridge and know each other only through it; one
reconnect of A gives it a second context, a second pid and, for a temporary router, a second id at B. B is
permanent, A and C are temporary, so both sorts of uninstalling occur.
`MaxScore` caps scores at more than a route of three nodes can have, and is more than 1, so that a neighbour's score differs from others. `MaxHello` is the number of messages that
processes send; one, at every moment, to any pid that was ever known. `Infinity` is a number above `MaxScore`.

*Servers.* Two servers and two clients are what a contest for the name and a call to the loser's or the dead server's
pid take; a call touches one server and one caller, so one reference shows every order of its signals
with deaths, casts, timeouts and other starts. `MaxQueue` and `MaxInbox` stop clients, never servers. The theorems hold
for any number of calls, and two calls to one server have been checked apart.

*Supervisor.* Three children are one that dies, one before and one after it; two messages are a death during the
restart of another and a `startChild`. `MaxRetries` is 2 for the code's 10: one retry and the last. Pids are used again
once nobody mentions them, nine are enough that one is always free. The configurations have every strategy, restart type
and shutdown value, children that trap exits and starts that return `ignore`.

*Terms.* Patterns and terms nest once; a walk over three cells has a first, an inner and a last one.

### What holds

* `Conserved`: each pushed message is stored, received once, or dropped by a clear. `NoLostWakeup`: no
  receive waits for a message that lies in the box. `TimerOwnsReceive`: the only armed timer is that of the waiting
  receive. `TimedReceiveEnds`: a receive with a timeout ends.
* `DownAtMostOnce`: a reference gets one DOWN at most.
  `DownLostOnlyByRace`: a DOWN is missing only if the death overtook the monitor signal;
  `SpawnMonitorNeverLate`: never with `spawnMonitor`. `MonitoringKept`: `Processes` implements `Monitoring`.
* `LinksAgree`: when the queue is empty, living processes agree about being linked. `ExitLostOnlyByRace`: an EXIT is missing only if
  the death overtook the link signal. `StartsLinked`: a child of `spawnLink` runs only with both links set.
* `NamesOfLiving`: when no microtask is left, no name leads to a destroyed process.
  `DeathIsFinal`: the first reason stands.
* `WatchersAreTold`, `LinkedDieTogether` (liveness): those in the tables of a dying process are
  told, or die.
* `RoutesLead`: when the network is quiet, a route leads over connected ends to the node it names.
  `RoutesAgree`: `#routers` and `#routersById` agree. `NeighboursKnown`, `BridgedKnown`:
  connected nodes, and nodes connected to one bridge, know each other. `NoCircles`: the score of a route is
  the number of connections it leads over, one more than that of the route behind it, so it never goes in a circle. These four in the scenarios of the run only (see below). `Addressed`, `IdsKeepNames`: a pid means the same process on every node, and an id the same node for
  ever. `WatchersHear`: who monitors a node is told in the step that takes its route away.
* `CallPromise`: `GenServer` implements `Call`. `OneServer`: one server runs under the name, although `gen.start` looks
  long before the child registers. `StraysExplained`: a reply that stays behind in the caller's inbox comes after a timeout or the
  DOWN of a killed server, a DOWN after a timeout or a reply. `StartsAnswered`, `CallsEnd` (liveness): a start is answered even by a child that is
  killed, and a call without a timeout hangs only if the server keeps it for later or died between monitor and the signal of it.
* `NoDeathMissed`: between two messages, the EXIT of every listed child that is dead is still to come. `NoOrphans`: no process
  runs unlisted, except one whose id `startChild` gave to another; and when the supervisor has ended, which it mostly does by an error
  in the middle of a message, an exit signal is on its way to every process that is left, listed, half started or put aside. `OrderKept`: children stay in the declared
  order. `RestartedOrGivenUp` (liveness): a permanent child lives again, unless the supervisor gave up or hangs. The last two
  are claimed only of supervisors that are `Steady`: see below.
* `ListsAgree`, `MatchingAgrees`, `FirstMatchWins`: lists are the sequences they stand for, improper tails included
  (`map`, `filter`, `reverse` and `slice` drop one, `push` throws); patterns match what they mean; the first clause wins.

### What does not hold

1. **A receive inside a `receiveBlock` handler** (`mailbox-nested-receive`). The evaluator runs the handler before the message
   is spliced out (`message-box.js:97-105`, `context.js:194-196`): the inner receive takes the outer message again, and the outer
   splice then removes another one.
2. **A lost DOWN** (`processes-lost-down`). `monitor` looks at the target when it sends, `#monitor` does not
   look again: a target that dies between the two never reports.
3. **A quick reconnect is forgotten** (`network-reconnect`). The new connection has the same score as the old one and is
   ignored; the late disconnect of the old one then takes the client out.
4. **A direct route goes with the detour** (`network-triangle`). `registerRouter` leaves the replaced pid in
   `#routersByPid`; a later `lost` for it removes the better route.
5. **An echo revives a node** (`network-echo`). Where all transports bridge, as in the transport's tests, a client
   sends a discovery back to the hub, which may have lost that node since. Such a route leads in a circle.

Met while modelling, and part of the models as the code has it:

* A destroyed process goes on sending, against `packages/core/README.md:58-60`: only the receiver is looked at (`UserStep`, `Kill`).
* `brutal_kill` of a child that traps exits hangs the supervisor, for `kill` is only a message to it; and so does a child that dies
  between `monitor` and its signal, finding 2 again (`Hangs`). A numeric shutdown is an immediate kill, any other value ends the supervisor.
* `simple_one_for_one` restarts, the restart of a child that `startChild` added, and some failures of temporary children end the
  supervisor with a TypeError or ReferenceError (`Fails`). Nothing bounds restarts over time. `startChild` with an id in use leaves the old process
  running and unlisted (`replaced`). An EXIT of the parent is ignored.
* A restart of a group drops its temporary children for good; `startChild` with the id of one puts it at the end, after those it
  was declared before. A permanent child that `startChild` puts in the place of a declared temporary one restarts, under
  `one_for_one`, as the temporary one. `Steady` excludes both, by saying what may be added.
* A call that times out throws a TypeError, since `OTPError` is called without `new`.
* A pattern of an object with a spread matches objects without its other keys; against `null` it throws.

## Fairness

*MessageBox*: weak fairness of each timer's expiry; a timer that is set and not cleared fires. *Processes*: weak
fairness of microtasks and of timers, since the event loop drains the former and runs every timer that is set. User code is
never obliged to call anything or to return. *GenServer*: weak fairness of timers, of the timer of a call, and of
the callbacks `init`, `handle...` and `terminate`, which the liveness of a start and of a call depends on; a handler that never
ends would keep its callers waiting, and is the user's. `Kill`, `WakeUp` and clients are never obliged.
*Supervisor*: weak fairness of its own steps, of timers, and of the `init` of children. *Terms*: none. *Network*: none; a connection may stay silent for ever, and no liveness
is claimed. `RoutesLead`, `NeighboursKnown` and `BridgedKnown` are therefore stated about quiet
states: everything on its way has been handled, and both ends know what the other knows.
`CHECK_DEADLOCK FALSE` in all configurations but the mailbox's: a node whose processes have died, a network whose
connections are gone, clients that have made their calls, a supervisor that gave up, and a builder that returned really stop.

## Proofs

**Mailbox** (`MessageBox_proofs`), for any sets of messages and timers, from `MessageBoxAssumption` (the null values are distinct from
timers and receives). `TypeOK`, `NoLostWakeup`, `TimerOwnsReceive` and `Conserved` are proved together as the
inductive invariant `Inv`. Each of the three needs types, none needs another:
`NoLostWakeup` because `push` stores only what the pending pattern rejects and `pop` waits only when the scan finds nothing;
`TimerOwnsReceive` because every way to settle a receive disarms its timer; `Conserved` from lemmas on what
`RemoveAt` and `Append` do to a sequence without repetitions. `Conserved` speaks of behaviours without a nested
receive; with one it is false (`mailbox-nested-receive`).

**Types of Processes** (`Processes_proofs`): `TypeCorrect`, for any finite sets of processes and references, any programs
and any bounds, from `ProcessesAssumption`. The work is in showing what a signal at the head of the queue
may carry (`SignalFields`), and that `destroy`, which appends a signal for each watcher and link in some order, appends signals only.

**Deaths and DOWN** (`Processes_proofs`). `DeathsAreFinal` from a description of what one step may do to a death
(`DeathStep`). `NamesLeadToLiving`: `destroy` leaves the names, but a callback of `register` waits for the death of every process that
has one (`NamesWatched`), also if it comes after the death. `DownsAreOfTheDead` and `DownsComeOnce` are
not inductive by themselves: nothing in them says whom an entry of a monitor table concerns. The invariant `DownInv` adds `MonitorsKnown`:
every entry in the monitors of a process, and every monitor signal on its way, has that process as the target of its
reference and the asking process as its watcher. So a process has one entry per reference. `destroy` turns the entries into DOWNs once, when
its process becomes dead; before that, `DownMeansDead` says that no DOWN of theirs exists, so these are the first.
`monitor` answers a dead target itself, but under a new reference, of which no DOWN exists either, for the same reason.
Two lemmas do the bookkeeping: what a step that only adds signals to the queue preserves, and what a step that handles its head does.

**Spawning** (`ProcessesSpawn_proofs`). `MonitorsBeforeBirth` and `ChildrenStartLinked` rest on the order of the one queue. The
invariant `SpawnInv` says that as long as the go of a child of `spawnLink`, or the monitor signal of a `spawnMonitor`, is queued, the child is alive and has
not run (`Newborn`), and no signal before it could kill the child, start it or undo its links (`Untouched`); for a go, that both links are
set or stand before it (`LinkBefore`). New signals go to the end, so they cannot come between; handling the head only removes one that
is harmless. `Made` (no signal names a process that was never made) is needed since a fresh process must find no signal of its own in the queue.

**What is lost** (`ProcessesLoss_proofs`). The three properties speak of a quiet node; the invariants say where the thing is while the node is not quiet.
`DueInv`: the DOWN of each reference has come, is queued, is due from its monitor signal or from the table of a living target, or
there is a reason why it never comes (late, cancelled, watcher dead). Cancelled covers `demonitor` only because every queued demonitor is of a cancelled
reference. `LinkInv` compares not the links but what they will be: `WillLink(p, q)` says that the last link or unlink signal from q on its way to
p is a link, or there is none and p has q in its table. Handling a signal never changes what will be (`WillHandled`), so two reachable processes agree about it
at every moment, and a step has only to be shown to send to both. And a process that will be linked to a dead one has been told,
will be told by a queued EXIT, or is an orphan, also one whose own link signal is still on its way to the dead (`Told`); `destroy` keeps this since, by the
agreement, whoever will be linked to the dying process is in its table or has a link signal queued. `LinkedAgree` and `ExitsAreNotLost` are the two halves at a quiet moment.
`MonitorsKeepPromise` in the same module is the refinement `Spec => MonitoringKept`. Its invariant `MonInv` adds to `DueInv` that the
monitor signal of a reference is queued once (`MonitorsOnce`): otherwise handling one would not end the asking.
`Conforms` says that each action is a step of `Monitoring` or a stutter: `destroy` is `Die` because the entries in its table are the standing references
that watch it and `DownInv` knows their watchers; the handling of a monitor signal is `Stand`, or `Miss` if the target is dead, which
`SpawnInv` excludes for a reference that is sure.

**Servers and callers** (`GenServer_proofs`), for any clients and servers, finitely many calls and any bounds, from
`GenServerAssumption`. `KeepsPromise` is the refinement `Spec => CallPromise`: `Kept` says that a step is a step of `Call` or a stutter, and each
action is shown to be one together with the inductive invariant `Inv`. Why `Inv` is needed: that a request is not executed twice depends on where it may
be. So `SignalsFit` says that a call is at most once in the queue, and then in no inbox; `ServersFit` that it is at most
once in the inbox of its own server; both that what is there was not executed; and what a server handles or keeps (`task`, `saved`) was. That a
reply or a DOWN may be handed out needs the same of the signals on their way: a reply is of an executed call, a DOWN of a dead
server. `Forward` is what no step takes back, so that a signal that fits goes on fitting. A waiting client has a call without an answer (`ClientsFit`), whence
one answer. `TypeCorrect` comes with `Inv`. `OneServerRuns` rests on `NameHeld`, inductive with the types alone: a living server past the
initializer is registered.
`Strayed` is `StraysExplained`. That a message is left behind must be excluded while its call still waits for it, and explained after, so the
invariant `Story`, inductive with `Inv`, follows what belongs to one call. `StartsFit`: a client starts one server at a time and gets one
acknowledgement for it; therefore a call that has not returned is still what its caller waits for (`Awaited`). `OneReply`: an executed call is in hand (`task`,
`saved`), or has one reply on the way, or had it, never two of these, although the code of a killed server goes on. `OneDown`: the same of
the monitor signal, the entry in `watchers` and the DOWN. `RepliesFirst`: a server that is dead and was not killed has ended, so that
its replies stand in the queue before every DOWN of it. Each part has a lemma on what a step may do to it (`RepliesStep`, `DownsStep`, ...) and each action one
that shows it does no more.

**Supervisors** (`Supervisor_proofs`), for any finite set of pids, any configurations that are `Sound` and any bounds, from
`SupervisorAssumption`. The four invariants speak of the moments between two messages; the inductive invariant `Inv` says
what holds inside one, and has three parts.
`Base` is types and the protocol of signals: one go or ack at most, and only while the supervisor waits for the process in `job.pid`
(`StartingFit`); one monitor signal or DOWN at most, and only while it waits for that (`EndingFit`); what `job` holds in each place (`JobFit`), above
all that no two children of the lists have one pid; and that `start_children` comes first (`BootFit`). It is needed since a
pid that nobody mentions is used again: the process that starts must not be one whose EXIT is still on its way.
`Tally` follows processes. `DeathsFit`: of every pid that will be listed when the message is done (`Due`), the process is alive or its EXIT is still to come;
`unlinkFlush` takes an EXIT only of the child that it has just seen die, whose pid `Terminated` clears. `OrphansFit`:
every living process is in the lists that will be put together (`Reached`), is the one being started, or was replaced.
`Doomed` is the other half of `NoOrphans`: the supervisor is linked to every process that lives, since it starts them all with `spawnLink` and unlinks
none that lives, so its end sends an exit signal to each.
`Orderly` follows order: `children` and the list at work (`Work`) are in the declared order, whatever is at work has a specification that is
known (`KnownFit`), and every declared id that may be added again stays in the list (`Has`), so that `startChild` replaces it and never puts it last.
Each of `Tally` and `Orderly` needs `Base`; neither needs the other. A supervisor that failed has lost its lists and is exempt (`Goes`).
Most of the work is in what `SubSeq`, `RemoveAt`, `EXCEPT` and the filter `Remaining` do to a list and to the pairs in it (`AllPairs`). `Remaining` is a
recursive function; that it is defined for every list, and what it keeps, is shown by looking at the least index for which it
were not (`KeptDefined`, `RemainingIs`).

**Routers and the network** (`Network_proofs`), for any nodes and connections, any scenarios, and any bounds, from
`NetworkAssumption` and `ScenariosAssumption` (`NoPid` is no pid; `none` is no node). The properties speak of names, ids and routes; the inductive
invariant `Inv` says what every pid in the system *means*, and has two parts. `Fits`: in the tables of a node (`TablesFit`) an id stands for
the name in `routersById`, a router in the list is the one with its id, the pid of a router is a context of a
connection to the node of the router's name, and what stands in `routersByPid` and behind bridges does
likewise; and each signal in a box or on a wire (`Signals`) is a notice or a message of the user, in any number of
relays, whose pids stand for the nodes its sender and addressee live on. The other part is `Addressed`.
The same set `Signals` describes what is in a box, where pids carry ids, and what is on a wire, where they carry names: its parameter is the
function from node numbers to names, `NameOf(t)` in a box and `OnWire`, the identity, on a wire, so that `ToWire` and `FromWire` are both
shown to rename and to keep the meaning (`Renamed`).
`Onward` is what no operation of a node takes back: ids keep their names (`Extends`), and a router that leads somewhere goes on doing so, or its watchers
are told, or nobody watches. Each operation of `Router` has a lemma that its tables fit and go onward (`InstalledFits`, `CalledFits`,
`UnregisterFits`, ...), and each action of `Network` one that it performs such operations on one node (`...Keeps`); what fits the
old ids fits the new ones, so all that is in other boxes is left alone.
`NetworkTypeOK`, `NetworkRoutesAgree` and `NetworkAddressed` follow from `Inv`, `NetworkIdsKeepNames` and `NetworkWatchersHear` from `Onward` for each step. That
`Addressed` holds over many hops is an induction over the hops of one message (`DeliveryFits`), by its least counterexample, as there is
no other way to do an induction with these provers; the functions by which `Picked`, `FlattenSeq`, `Heard` and the
others recurse are shown to be defined in the same way.
`UnregisterReturns` says that `unregisterRouter` ends on any tables that fit, circles of sources included. `Load` bounds the steps of what is left to do, a
visit of the loop counting twice, since it may become a call. A call that finds a router takes its pid out of `routersByPid`, for ever, and adds a visit for each router in the list,
which grows by one at most (a permanent router whose name went away with its bridge); so each of the c pids costs at most twice the routers that there can be, and one.

**Networks around one server** (`NetworkHub_proofs`), for any nodes, connections and bounds, from the same assumptions. `RoutesLead`, `NeighboursKnown`,
`BridgedKnown` and `NoCircles` fail in some networks (see *What does not hold*), so the theorems are about the behaviours whose scenario is
`Hubbed`: one node is the server of every connection, no client bridges, and no client is back before the server has heard that it
was gone. How many clients there are, how often each comes back, what breaks off when, and whether the server bridges is left
open. Three of the four scenarios of the run `network` are such networks, and the fourth, where all bridge and nothing breaks off, is not.
The invariant `HubInv` is inductive together with `Inv`:
`Lifetimes`: a client has one connection at a time, and its server is there before it.
`Routes`: a router in use (`Lively`) is, on the server, over an open connection of its own, and on a client over its own connection, or through the
server with the larger score; the Maps agree about these routers, and a node that bridges has them all as bridges (`Settled`). That is why `unregisterRouter` on
a client takes all its routers away when it loses the server, and on the server one only.
`Items`: which discoveries and losses can be on their way, and to whom; the server is told of nobody but by the greeting of a client.
`Handshake`: the greeting is the first thing on the wire and still there, or its receiver has the router already.
`Streams` is the heart, and why a state between two quiet ones is right. The news on the way to a client, in the wire and then in the box, make a list
(`Stream`). `Consistent` compares that list and what the client knows with the bridges of the server: a client that the server tells of others
knows each of those bridges, or will hear of it; for any other that it knows or will hear of, the loss is still to come; the loss of a context comes
after its discovery, and the discovery of a client's new context after the loss of its old one. The last is needed since `registerRouter` drops a discovery of a name that is in use by a
router that is as near: would it come first, the client would be lost for good. A client that is not told yet knows nobody, and nothing is on its way to it.
Each operation has a lemma that says what it does to the routers in use (`Registered`, `UnregisterOne`, `UnregisterAll`, ...) and, for the server, how
it extends the list (`TellsThere`, `LostNews`, `StreamHeard`); each action has one for the client and one for the server.
When all is quiet the list is empty, and `Consistent` says that a client knows just those the server has as bridges.
`HubsNoCircles` needs no quiet: `Routes` fixes the two sorts of routers there are, and `Items` the scores that can be told, so a score is
1 over a context of this node, and one more than that of the router in front of it otherwise. `HubsWaysEnd` says the same of ids, without scores: no set of
ids of a node lead through each other only (`Circle`), so `signalRemote` does not come back to an id.

The assumptions are evaluated by TLC in the runs.

**Only model-checked.** Liveness (`TimedReceiveEnds`, `WatchersAreTold`, `LinkedDieTogether`, `StartsAnswered`, `CallsEnd`, `RestartedOrGivenUp`): beyond the prover.
Of Network, `RoutesLead`, `NeighboursKnown`, `BridgedKnown` and `NoCircles` in the scenarios of the run that are not around one server, which is one where
all nodes bridge and nothing breaks off. No theorem over all
scenarios can state them: `network-triangle` also breaks `BridgedKnown`, and the echo of `network-echo` also breaks `RoutesLead` and
`NoCircles`. All of Lists, Matching and Terms: lists and patterns
recurse over terms, and recursive operators are beyond the prover as well.

## Not modelled

* Of the context: the process dictionary, the async_hooks bookkeeping, `_processInfo`, and an `OTPError(timeout)`
  thrown by a handler, which `receiveBlock` takes for its own timeout: what handlers throw is not in the models.
* Of the router: signals to names on other nodes, and a pid that carries several names, which no
  transport registers. A node has one user process here, so a name has at most one watcher.
* Of the transport: links, unlinks, monitors, demonitors, EXIT and DOWN between nodes (they are relayed as messages are
  and change nothing in the transport), buffers, `destroy` (a disconnect of one's own), and a forward that throws,
  after which `recycle` stops.
* Of gen, gen_server and supervisor: what the sections on them name; calls to servers of other nodes.
* Of types and matching: printing, regular expressions, the cache of compiled patterns.
* `dnp/tcp`: every handshake ends in a ReferenceError (`src/handshake` uses an undefined `assert`; the tests are
  `describe.skip`), so that no state of a connection past it can be reached, and a model of it would show nothing about
  the program. `dnp/ertf` is a codec of single terms: nothing interleaves in it.
* epmd, global and rpc are thin or unfinished. Tests, examples and build files are not part of the program.

## Plan

Done: the mailbox, the processes of a node with what their monitors promise, the router and its transport (routes proved right around one server), servers and callers with their abstract
specification, supervisors, lists and patterns.

1. The weakest conditions on scenarios under which `NoCircles` and `RoutesLead` hold, beyond networks around one server: trees with several
   bridges, where news travel over more than one hop, and networks where all bridge and nothing breaks off.
2. The framing of `dnp/tcp`, once its handshake ends.
