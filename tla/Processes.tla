----------------------------- MODULE Processes ------------------------------
(***************************************************************************)
(* The processes of one node: packages/core/src/context.js and the local   *)
(* half of packages/core/src/node.js (signals, links, monitors, exits,     *)
(* registered names, spawning).                                            *)
(*                                                                         *)
(* Every local signal, and the start of every spawned function, is a       *)
(* setTimeout without a delay: one first-in first-out queue of timers for  *)
(* the whole node.  A timer callback is one atomic action.  Resolving the  *)
(* death promise only schedules destroy, a microtask: the code that is     *)
(* running may go on first, but no timer fires before it has run.          *)
(***************************************************************************)
EXTENDS Integers, SequencesExt

CONSTANTS
    Pid,        \* processes of this node, those that may be spawned included
    System,     \* systemPid, which only sends here
    Name,       \* atoms that processes register under
    Ref,        \* monitor references
    Message,    \* payloads of ordinary messages
    UserReason, \* reasons user code gives to exit, die or throw
    NoPid,      \* undefined where a pid is expected
    Programs,   \* what user code does: [ops : its calls, roots : how many
                \* processes exist from the start, made by makeContext]
    MaxQueue,   \* bound: user code acts only while the queue is shorter
    MaxInbox    \* bound: user code acts only while every inbox is shorter

ASSUME ProcessesAssumption ==
    /\ System \notin Pid /\ NoPid \notin Pid \cup {System}
    /\ UserReason \subseteq STRING
    /\ MaxQueue \in Nat /\ MaxInbox \in Nat
    /\ IsFiniteSet(Pid) /\ IsFiniteSet(Ref)
    /\ \A g \in Programs : DOMAIN g = {"ops", "roots"}

VARIABLES
    program,        \* the calls that user code makes in this behaviour
    queue,          \* timers that are set: signals and spawned functions
    phase,          \* none, alive, dying (death resolved) or dead (destroyed)
    reason,         \* what the death promise resolved to
    code,           \* the process's function: none, pending, running, finished
    trap,           \* #flags has trap_exit
    links,          \* #links; its order is left open
    monitors,       \* #monitors: who watches this process, under which ref
    inbox,          \* #mb; which message a receive takes is left open
    target,         \* the WeakMap monitors of node.js: whom a ref watches
    registrations,  \* #registrations
    cleanups,       \* processes whose death a callback of register awaits
    watcher,        \* history: who asked for a ref
    notified,       \* history: refs whose DOWN reached the watcher
    late,           \* history: refs whose monitor reached a dead process
    exits,          \* history: <<p, q>>, an EXIT from p reached q
    orphaned,       \* history: <<p, q>>, p linked to a q that was dead by then
    cancelled,      \* history: refs the watcher demonitored
    atSpawn,        \* history: refs made by spawnMonitor
    parent          \* history: who spawned a process with spawnLink

core == <<phase, reason, code, trap, links, monitors, inbox>>
tables == <<target, registrations, cleanups>>
monitoring == <<watcher, notified, late, cancelled, atSpawn>>
linking == <<exits, orphaned, parent>>
history == <<monitoring, linking>>
vars == <<program, queue, core, tables, history>>

-----------------------------------------------------------------------------
Reason == UserReason \cup {"normal", "kill", "killed", "noproc", "badarg"}

Notice ==
         [kind : {"msg"}, body : Message]
    \cup [kind : {"DOWN"}, ref : Ref, pid : Pid, reason : Reason]
    \cup [kind : {"EXIT"}, pid : Pid \cup {System}, reason : Reason]

Signal ==
         [kind : {"relay"}, to : Pid, from : Pid, body : Message]
    \cup [kind : {"link", "unlink"}, to : Pid, from : Pid]
    \cup [kind : {"monitor", "demonitor"}, to : Pid, from : Pid, ref : Ref]
    \cup [kind : {"exit"}, to : Pid, from : Pid \cup {System}, reason : Reason]
    \cup [kind : {"down"}, to : Pid, from : Pid, ref : Ref, reason : Reason]
    \cup [kind : {"go"}, to : Pid]

RelaySig(p, q, m) == [kind |-> "relay", to |-> q, from |-> p, body |-> m]
LinkSig(p, q) == [kind |-> "link", to |-> q, from |-> p]
UnlinkSig(p, q) == [kind |-> "unlink", to |-> q, from |-> p]
MonitorSig(p, q, r) == [kind |-> "monitor", to |-> q, from |-> p, ref |-> r]
DemonitorSig(p, q, r) ==
    [kind |-> "demonitor", to |-> q, from |-> p, ref |-> r]
ExitSig(p, q, why) == [kind |-> "exit", to |-> q, from |-> p, reason |-> why]
DownSig(p, q, r, why) ==
    [kind |-> "down", to |-> q, from |-> p, ref |-> r, reason |-> why]
GoSig(p) == [kind |-> "go", to |-> p]

(* Faulty variants of the definitions below stand right before them, each  *)
(* with a name that says what is wrong; the properties must detect them.   *)
(* #signalLocal looks at dead, which destroy sets, when a signal is sent.  *)
Deliverable(q) == phase[q] \in {"alive", "dying"}

ToPid(q, signal) == IF Deliverable(q) THEN <<signal>> ELSE <<>>

ResolveAgain(p, why) ==
    /\ phase' = [phase EXCEPT ![p] = "dying"]
    /\ reason' = [reason EXCEPT ![p] = why]

(* ctx.die: only the first reason counts. *)
Resolve(p, why) ==
    IF phase[p] = "alive"
    THEN /\ phase' = [phase EXCEPT ![p] = "dying"]
         /\ reason' = [reason EXCEPT ![p] = why]
    ELSE UNCHANGED <<phase, reason>>

(* #deliver: a destroyed process has no message box. *)
Delivered(q, notice) ==
    IF Deliverable(q) THEN [inbox EXCEPT ![q] = Append(@, notice)] ELSE inbox

Init ==
    /\ \E g \in Programs, root \in SUBSET Pid :
        /\ Cardinality(root) = g.roots
        /\ program = g.ops
        /\ phase = [p \in Pid |-> IF p \in root THEN "alive" ELSE "none"]
        /\ code = [p \in Pid |-> IF p \in root THEN "running" ELSE "none"]
    /\ queue = <<>>
    /\ reason = [p \in Pid |-> "normal"]
    /\ trap = [p \in Pid |-> FALSE]
    /\ links = [p \in Pid |-> {}]
    /\ monitors = [p \in Pid |-> {}]
    /\ inbox = [p \in Pid |-> <<>>]
    /\ target = [r \in Ref |-> NoPid]
    /\ registrations = [n \in Name |-> NoPid]
    /\ cleanups = {}
    /\ watcher = [r \in Ref |-> NoPid]
    /\ notified = {}
    /\ late = {}
    /\ exits = {}
    /\ orphaned = {}
    /\ cancelled = {}
    /\ atSpawn = {}
    /\ parent = [p \in Pid |-> NoPid]

-----------------------------------------------------------------------------
(* Operations of user code.  Code that runs for a process that was killed  *)
(* meanwhile may still perform them.                                       *)
Runs(p, op) ==
    /\ op \in program
    /\ code[p] = "running"
    /\ Len(queue) < MaxQueue
    /\ \A q \in Pid : Len(inbox[q]) < MaxInbox

Send(p, q, m) ==
    /\ Runs(p, "send")
    /\ queue' = queue \o ToPid(q, RelaySig(p, q, m))
    /\ UNCHANGED <<core, tables, history>>

(* #signalLocalName: whoever sends to a name nobody has is sent an EXIT. *)
SendToName(p, n, m) ==
    /\ Runs(p, "sendname")
    /\ LET q == registrations[n]
       IN  queue' = queue \o
             IF q # NoPid
             THEN ToPid(q, RelaySig(p, q, m))
             ELSE ToPid(p, ExitSig(System, p, "badarg"))
    /\ UNCHANGED <<core, tables, history>>

LinkSignals(p, q) == ToPid(q, LinkSig(p, q)) \o ToPid(p, LinkSig(q, p))

Link(p, q) ==
    /\ Runs(p, "link")
    /\ phase[q] # "none"
    /\ queue' = queue \o LinkSignals(p, q)
    /\ orphaned' = orphaned \cup (IF Deliverable(q) THEN {} ELSE {<<p, q>>})
                            \cup (IF Deliverable(p) THEN {} ELSE {<<q, p>>})
    /\ UNCHANGED <<core, tables, monitoring, exits, parent>>

UnlinkOneSided(p, q) ==
    /\ Runs(p, "unlink")
    /\ phase[q] # "none"
    /\ queue' = queue \o ToPid(q, UnlinkSig(p, q))
    /\ UNCHANGED <<core, tables, history>>

Unlink(p, q) ==
    /\ Runs(p, "unlink")
    /\ phase[q] # "none"
    /\ queue' = queue \o ToPid(q, UnlinkSig(p, q)) \o ToPid(p, UnlinkSig(q, p))
    /\ UNCHANGED <<core, tables, history>>

MonitorSignalsUnanswered(p, q, r) == ToPid(q, MonitorSig(p, q, r))

(* A monitor on a process known to be dead is answered at once. *)
MonitorSignals(p, q, r) ==
    IF Deliverable(q) THEN <<MonitorSig(p, q, r)>>
                      ELSE ToPid(p, DownSig(q, p, r, "noproc"))

NewRef(p, q, r) ==
    /\ target[r] = NoPid
    /\ target' = [target EXCEPT ![r] = q]
    /\ watcher' = [watcher EXCEPT ![r] = p]

Monitor(p, q, r) ==
    /\ Runs(p, "monitor")
    /\ phase[q] # "none"
    /\ NewRef(p, q, r)
    /\ queue' = queue \o MonitorSignals(p, q, r)
    /\ UNCHANGED <<core, registrations, cleanups>>
    /\ UNCHANGED <<notified, late, cancelled, atSpawn, linking>>

Demonitor(p, r) ==
    /\ Runs(p, "demonitor")
    /\ watcher[r] = p
    /\ LET q == target[r] IN queue' = queue \o ToPid(q, DemonitorSig(p, q, r))
    /\ cancelled' = cancelled \cup {r}
    /\ UNCHANGED <<core, tables, watcher, notified, late, atSpawn, linking>>

Exit(p, q, why) ==
    /\ Runs(p, "exit")
    /\ queue' = queue \o ToPid(q, ExitSig(p, q, why))
    /\ UNCHANGED <<core, tables, history>>

(* ctx.die called by the process's own code, which then goes on. *)
Die(p, why) ==
    /\ Runs(p, "die")
    /\ Resolve(p, why)
    /\ UNCHANGED <<queue, code, trap, links, monitors, inbox>>
    /\ UNCHANGED <<tables, history>>

(* The process's function returns (normal) or throws. *)
Finish(p, why) ==
    /\ Runs(p, "finish")
    /\ code' = [code EXCEPT ![p] = "finished"]
    /\ Resolve(p, why)
    /\ UNCHANGED <<queue, trap, links, monitors, inbox>>
    /\ UNCHANGED <<tables, history>>

TrapExit(p) ==
    /\ Runs(p, "trap_exit")
    /\ trap' = [trap EXCEPT ![p] = TRUE]
    /\ UNCHANGED <<queue, phase, reason, code, links, monitors, inbox>>
    /\ UNCHANGED <<tables, history>>

Receive(p) ==
    /\ Runs(p, "receive")
    /\ \E i \in 1..Len(inbox[p]) :
            inbox' = [inbox EXCEPT ![p] = RemoveAt(@, i)]
    /\ UNCHANGED <<queue, phase, reason, code, trap, links, monitors>>
    /\ UNCHANGED <<tables, history>>

RegisterUnwatched(p, n) ==
    /\ Runs(p, "register")
    /\ registrations[n] = NoPid
    /\ registrations' = [registrations EXCEPT ![n] = p]
    /\ UNCHANGED <<queue, core, target, cleanups, history>>

(* register waits for the death, which may have been resolved already.     *)
Register(p, n) ==
    /\ Runs(p, "register")
    /\ registrations[n] = NoPid
    /\ registrations' = [registrations EXCEPT ![n] = p]
    /\ cleanups' = cleanups \cup {p}
    /\ UNCHANGED <<queue, core, target, history>>

(* unregister does not ask whose name it is. *)
Unregister(p, n) ==
    /\ Runs(p, "unregister")
    /\ registrations' = [registrations EXCEPT ![n] = NoPid]
    /\ UNCHANGED <<queue, core, target, cleanups, history>>

(* makeContext and doSpawn. *)
NewContext(p, q) ==
    /\ phase[q] = "none"
    /\ phase' = [phase EXCEPT ![q] = "alive"]
    /\ code' = [code EXCEPT ![q] = "pending"]
    /\ UNCHANGED <<reason, trap, links, monitors, inbox>>

Spawn(p, q) ==
    /\ Runs(p, "spawn")
    /\ NewContext(p, q)
    /\ queue' = Append(queue, GoSig(q))
    /\ UNCHANGED <<tables, history>>

SpawnLinkTooLate(p, q) ==
    /\ Runs(p, "spawnLink")
    /\ NewContext(p, q)
    /\ parent' = [parent EXCEPT ![q] = p]
    /\ queue' = queue \o <<GoSig(q), LinkSig(p, q)>> \o ToPid(p, LinkSig(q, p))
    /\ UNCHANGED <<tables, monitoring, exits, orphaned>>

SpawnLink(p, q) ==
    /\ Runs(p, "spawnLink")
    /\ NewContext(p, q)
    /\ parent' = [parent EXCEPT ![q] = p]
    /\ queue' = queue \o <<LinkSig(p, q)>> \o ToPid(p, LinkSig(q, p))
                      \o <<GoSig(q)>>
    /\ orphaned' = orphaned \cup (IF Deliverable(p) THEN {} ELSE {<<q, p>>})
    /\ UNCHANGED <<tables, monitoring, exits>>

SpawnMonitorTooLate(p, q, r) ==
    /\ Runs(p, "spawnMonitor")
    /\ NewContext(p, q)
    /\ NewRef(p, q, r)
    /\ queue' = queue \o <<GoSig(q), MonitorSig(p, q, r)>>
    /\ atSpawn' = atSpawn \cup {r}
    /\ UNCHANGED <<registrations, cleanups>>
    /\ UNCHANGED <<notified, late, cancelled, linking>>

SpawnMonitor(p, q, r) ==
    /\ Runs(p, "spawnMonitor")
    /\ NewContext(p, q)
    /\ NewRef(p, q, r)
    /\ queue' = queue \o <<MonitorSig(p, q, r), GoSig(q)>>
    /\ atSpawn' = atSpawn \cup {r}
    /\ UNCHANGED <<registrations, cleanups>>
    /\ UNCHANGED <<notified, late, cancelled, linking>>

-----------------------------------------------------------------------------
(* Microtasks.  They run before the next timer.                            *)
Drained ==
    \A p \in Pid :
        phase[p] # "dying" /\ (phase[p] = "dead" => p \notin cleanups)

DownsForgotten(p) == {}

ExitsForgotten(p) == {}

(* destroy.  The order in which one Map or List is walked is left open;    *)
(* DOWN signals go out before EXIT signals.                                *)
Downs(p) ==
    {DownSig(p, m.watcher, m.ref, reason[p]) :
        m \in {e \in monitors[p] : e.watcher # p /\ Deliverable(e.watcher)}}

Exits(p) ==
    {ExitSig(p, q, reason[p]) : q \in {l \in links[p] \ {p} : Deliverable(l)}}

Destroy(p) ==
    /\ phase[p] = "dying"
    /\ phase' = [phase EXCEPT ![p] = "dead"]
    /\ \E downs \in SetToSeqs(Downs(p)), exs \in SetToSeqs(Exits(p)) :
            queue' = queue \o downs \o exs
    /\ links' = [links EXCEPT ![p] = {}]
    /\ inbox' = [inbox EXCEPT ![p] = <<>>]
    /\ UNCHANGED <<reason, code, trap, monitors, tables, history>>

(* The finally callbacks of register come behind destroy, which waited     *)
(* for the death first; each takes all names of the process.               *)
Cleanup(p) ==
    /\ p \in cleanups /\ phase[p] = "dead"
    /\ cleanups' = cleanups \ {p}
    /\ registrations' = [n \in Name |-> IF registrations[n] = p THEN NoPid
                                                       ELSE registrations[n]]
    /\ UNCHANGED <<queue, core, target, history>>

-----------------------------------------------------------------------------
(* Timers: the handlers of Context.#signal, and go of doSpawn.             *)
Fires(kind) ==
    /\ queue # <<>> /\ Drained
    /\ Head(queue).kind = kind
    /\ queue' = Tail(queue)

OnGo ==
    /\ Fires("go")
    /\ code' = [code EXCEPT ![Head(queue).to] = "running"]
    /\ UNCHANGED <<phase, reason, trap, links, monitors, inbox>>
    /\ UNCHANGED <<tables, history>>

OnRelay ==
    /\ Fires("relay")
    /\ LET s == Head(queue)
       IN  inbox' = Delivered(s.to, [kind |-> "msg", body |-> s.body])
    /\ UNCHANGED <<phase, reason, code, trap, links, monitors>>
    /\ UNCHANGED <<tables, history>>

(* #link on a destroyed process throws, and signal swallows the error. *)
OnLink ==
    /\ Fires("link")
    /\ LET s == Head(queue)
       IN  IF Deliverable(s.to)
           THEN /\ links' = [links EXCEPT ![s.to] = @ \cup {s.from}]
                /\ UNCHANGED orphaned
           ELSE /\ orphaned' = orphaned \cup {<<s.from, s.to>>}
                /\ UNCHANGED links
    /\ UNCHANGED <<phase, reason, code, trap, monitors, inbox>>
    /\ UNCHANGED <<tables, monitoring, exits, parent>>

OnUnlink ==
    /\ Fires("unlink")
    /\ LET s == Head(queue)
       IN  links' = [links EXCEPT ![s.to] = @ \ {s.from}]
    /\ UNCHANGED <<phase, reason, code, trap, monitors, inbox>>
    /\ UNCHANGED <<tables, history>>

OnMonitorSwapsArguments ==
    /\ Fires("monitor")
    /\ LET s == Head(queue)
       IN  monitors' = [monitors EXCEPT ![s.to] =
                              @ \cup {[ref |-> s.from, watcher |-> s.ref]}]
    /\ UNCHANGED <<phase, reason, code, trap, links, inbox>>
    /\ UNCHANGED <<tables, history>>

(* #monitor does not ask whether the process is dead by now. *)
OnMonitor ==
    /\ Fires("monitor")
    /\ LET s == Head(queue)
       IN  /\ monitors' = [monitors EXCEPT ![s.to] =
                              @ \cup {[ref |-> s.ref, watcher |-> s.from]}]
           /\ late' = IF Deliverable(s.to) THEN late ELSE late \cup {s.ref}
    /\ UNCHANGED <<phase, reason, code, trap, links, inbox>>
    /\ UNCHANGED <<tables, watcher, notified, cancelled, atSpawn, linking>>

OnDemonitorAllOfWatcher ==
    /\ Fires("demonitor")
    /\ LET s == Head(queue)
       IN  monitors' = [monitors EXCEPT ![s.to] = {m \in @ : m.watcher # s.from}]
    /\ UNCHANGED <<phase, reason, code, trap, links, inbox>>
    /\ UNCHANGED <<tables, history>>

OnDemonitor ==
    /\ Fires("demonitor")
    /\ LET s == Head(queue)
       IN  monitors' = [monitors EXCEPT ![s.to] = {m \in @ : m.ref # s.ref}]
    /\ UNCHANGED <<phase, reason, code, trap, links, inbox>>
    /\ UNCHANGED <<tables, history>>

(* #exit.  A process that traps exits gets even a kill as a message. *)
OnExit ==
    /\ Fires("exit")
    /\ LET s == Head(queue)
           notice == [kind |-> "EXIT", pid |-> s.from, reason |-> s.reason]
       IN  /\ IF trap[s.to]
              THEN /\ inbox' = Delivered(s.to, notice)
                   /\ UNCHANGED <<phase, reason>>
              ELSE /\ Resolve(s.to, IF s.reason = "kill" THEN "killed"
                                                         ELSE s.reason)
                   /\ UNCHANGED inbox
           /\ exits' = IF s.from # System /\ phase[s.from] = "dead"
                       THEN exits \cup {<<s.from, s.to>>} ELSE exits
    /\ UNCHANGED <<code, trap, links, monitors>>
    /\ UNCHANGED <<tables, monitoring, orphaned, parent>>

OnDown ==
    /\ Fires("down")
    /\ LET s == Head(queue)
           notice == [kind |-> "DOWN", ref |-> s.ref, pid |-> s.from,
                      reason |-> s.reason]
       IN  /\ inbox' = Delivered(s.to, notice)
           /\ notified' = notified \cup {s.ref}
    /\ UNCHANGED <<phase, reason, code, trap, links, monitors>>
    /\ UNCHANGED <<tables, watcher, late, cancelled, atSpawn, linking>>

-----------------------------------------------------------------------------
UserStep ==
    \E p \in Pid :
        \/ \E q \in Pid, m \in Message : Send(p, q, m)
        \/ \E n \in Name, m \in Message : SendToName(p, n, m)
        \/ \E q \in Pid : Link(p, q) \/ Unlink(p, q)
        \/ \E q \in Pid, r \in Ref : Monitor(p, q, r) \/ SpawnMonitor(p, q, r)
        \/ \E r \in Ref : Demonitor(p, r)
        \/ \E q \in Pid, why \in UserReason : Exit(p, q, why)
        \/ \E why \in UserReason : Die(p, why)
        \/ \E why \in UserReason \cup {"normal"} : Finish(p, why)
        \/ TrapExit(p) \/ Receive(p)
        \/ \E n \in Name : Register(p, n) \/ Unregister(p, n)
        \/ \E q \in Pid : Spawn(p, q) \/ SpawnLink(p, q)

Microtask == \E p \in Pid : Destroy(p) \/ Cleanup(p)

Tick ==
    \/ OnGo \/ OnRelay \/ OnLink \/ OnUnlink
    \/ OnMonitor \/ OnDemonitor \/ OnExit \/ OnDown

Next == (UserStep \/ Microtask \/ Tick) /\ UNCHANGED program

(* The event loop drains its microtasks and runs every timer that is set.  *)
(* Nobody is obliged to call anything, or ever to return.                  *)
Fairness ==
    /\ WF_vars(Microtask /\ UNCHANGED program)
    /\ WF_vars(Tick /\ UNCHANGED program)

Spec == Init /\ [][Next]_vars /\ Fairness

-----------------------------------------------------------------------------
TypeOK ==
    /\ queue \in Seq(Signal)
    /\ phase \in [Pid -> {"none", "alive", "dying", "dead"}]
    /\ reason \in [Pid -> Reason]
    /\ code \in [Pid -> {"none", "pending", "running", "finished"}]
    /\ trap \in [Pid -> BOOLEAN]
    /\ links \in [Pid -> SUBSET Pid]
    /\ monitors \in [Pid -> SUBSET [ref : Ref, watcher : Pid]]
    /\ inbox \in [Pid -> Seq(Notice)]
    /\ target \in [Ref -> Pid \cup {NoPid}]
    /\ registrations \in [Name -> Pid \cup {NoPid}]
    /\ cleanups \in SUBSET Pid
    /\ watcher \in [Ref -> Pid \cup {NoPid}]
    /\ notified \in SUBSET Ref /\ late \in SUBSET Ref
    /\ cancelled \in SUBSET Ref /\ atSpawn \in SUBSET Ref
    /\ exits \in SUBSET (Pid \X Pid) /\ orphaned \in SUBSET (Pid \X Pid)
    /\ parent \in [Pid -> Pid \cup {NoPid}]

Quiet == queue = <<>> /\ Drained

DownsQueued(r) ==
    {i \in 1..Len(queue) : queue[i].kind = "down" /\ queue[i].ref = r}

(* DOWN comes from two places, the answer of node.monitor and destroy:     *)
(* never twice for one reference, whatever the order of death, monitor and *)
(* demonitor.                                                              *)
DownAtMostOnce ==
    \A r \in Ref :
        /\ \A i, j \in DownsQueued(r) : i = j
        /\ r \in notified => DownsQueued(r) = {}

(* When everything has been handled, a living watcher of a dead process    *)
(* has its DOWN, unless it cancelled, or the monitor signal was overtaken  *)
(* by the death (late), the one way in which this code loses a DOWN.       *)
DownLostOnlyByRace ==
    Quiet => \A r \in Ref :
        (/\ target[r] # NoPid /\ phase[target[r]] = "dead"
         /\ phase[watcher[r]] = "alive")
        => r \in notified \cup late \cup cancelled

(* What the tests of monitor say: the watcher is always told.  The code    *)
(* drops the DOWN of a process that dies between the monitor call and the  *)
(* monitor signal.                                                         *)
DownAlwaysArrives ==
    Quiet => \A r \in Ref :
        (/\ target[r] # NoPid /\ phase[target[r]] = "dead"
         /\ phase[watcher[r]] = "alive")
        => r \in notified \cup cancelled

(* spawnMonitor sets its monitor before the child can run, so that race    *)
(* is closed for it.                                                       *)
SpawnMonitorNeverLate == atSpawn \cap late = {}

(* link and unlink change two processes by two signals: once these are     *)
(* handled, living processes agree about being linked.                     *)
LinksAgree ==
    Quiet => \A p, q \in Pid :
        phase[p] = "alive" /\ phase[q] = "alive"
            => (q \in links[p] <=> p \in links[q])

(* A living process linked to a dead one has had its EXIT (and so traps    *)
(* exits), unless the death overtook the link.                             *)
ExitLostOnlyByRace ==
    Quiet => \A p, q \in Pid :
        phase[p] = "alive" /\ q \in links[p] /\ phase[q] = "dead"
            => <<q, p>> \in exits \/ <<p, q>> \in orphaned

(* A child of spawnLink runs only when both links stand, so a crash in its *)
(* first line reaches a parent that lives.                                 *)
StartsLinked ==
    [][\A q \in Pid :
          code[q] = "pending" /\ code'[q] = "running" /\ parent[q] # NoPid
            => /\ parent[q] \in links[q]
               /\ phase[parent[q]] = "alive" => q \in links[parent[q]]]_vars

(* No name leads to a destroyed process when a timer runs: names go away   *)
(* with the process, also those it takes after its death.                  *)
NamesOfLiving ==
    Drained => \A n \in Name :
        registrations[n] # NoPid => phase[registrations[n]] # "dead"

(* The reason of a death never changes once it is given, and nothing       *)
(* revives a process.                                                      *)
DeathIsFinal ==
    [][\A p \in Pid :
          phase[p] \in {"dying", "dead"} =>
             /\ phase'[p] \in {phase[p], "dead"}
             /\ reason'[p] = reason[p]]_vars

(* Every DOWN that is due comes: a watcher in the table of a process that  *)
(* dies is told, unless it dies as well.                                   *)
WatchersAreTold ==
    \A r \in Ref, p, q \in Pid :
        (phase[q] = "dying" /\ [ref |-> r, watcher |-> p] \in monitors[q])
            ~> (r \in notified \/ phase[p] = "dead")

(* A linked pair goes down together, or the survivor gets the EXIT.        *)
LinkedDieTogether ==
    \A p, q \in Pid :
        (phase[q] = "dying" /\ p \in links[q])
            ~> (<<q, p>> \in exits \/ phase[p] = "dead")

(* What the asker of a monitor is promised, and how signals, queue and     *)
(* tables keep it.  A process that is dying counts as up until destroy.    *)
Queued(kind) ==
    {queue[i] : i \in {j \in 1..Len(queue) : queue[j].kind = kind}}

(* The entry of r stands in the table of a process that is not destroyed.  *)
Watched(r) ==
    /\ phase[target[r]] # "dead"
    /\ [ref |-> r, watcher |-> watcher[r]] \in monitors[target[r]]

Life(p) ==
    CASE phase[p] = "none" -> "none"
      [] phase[p] \in {"alive", "dying"} -> "up"
      [] phase[p] = "dead" -> "gone"

Monitored ==
    INSTANCE Monitoring WITH
        life <- [p \in Pid |-> Life(p)],
        asker <- watcher,
        subject <- target,
        asked <- {s.ref : s \in Queued("monitor")},
        standing <- {r \in Ref : target[r] # NoPid /\ Watched(r)},
        sure <- atSpawn,
        withdrawn <- cancelled,
        coming <- Queued("down"),
        told <- notified

(* The monitors of context.js and node.js keep what Monitoring promises:   *)
(* whatever order monitor, demonitor, deaths and signals come in, each     *)
(* step is one that Monitoring allows or none of its business.             *)
MonitoringKept == Monitored!Spec
=============================================================================
