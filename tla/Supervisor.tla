------------------------------ MODULE Supervisor ------------------------------
(***************************************************************************)
(* The supervisor: packages/supervisor/src/index.js, a gen_server that     *)
(* traps exits and is linked to the children it starts.                    *)
(*                                                                         *)
(* Signals are timers of one first-in first-out queue.  Between two timers *)
(* the supervisor runs until it has to wait, for a message, an init_ack, a *)
(* DOWN or the flush of an EXIT: its steps are actions of their own, and   *)
(* no timer fires and no child acts while it Runs.  A child is linked from *)
(* the moment it is spawned (module Processes, StartsLinked).  A signal    *)
(* kill is only a message to a process that traps exits, so the supervisor *)
(* ends by its own errors alone.                                           *)
(***************************************************************************)
EXTENDS Integers, SequencesExt, TLC

CONSTANTS
    Id,         \* ids of child specifications
    Pid,        \* bound: processes; one that nobody mentions is used again
    Config,     \* [strategy, specs]: what the user's init may return, and
                \* extra: the specifications that others pass to startChild
    MaxRetries, \* MAX_RETRIES, 10 in the code
    MaxMessages,\* bound: others act, and init fails, only while fewer
                \* messages are on their way to the supervisor
    MaxAlive    \* bound: startChild only while fewer processes are alive

ChildSpec == [id : Id,
              restart : {"permanent", "transient", "temporary"},
              shutdown : {"kill", "other"},   \* brutal_kill, an integer, none; or else
              traps : BOOLEAN,                \* whether the process traps exits
              start : {"server", "ignore"}]   \* whether start spawns or returns ignore

Strategy == {"one_for_one", "one_for_all", "rest_for_one",
             "simple_one_for_one"}

(* The ids of a supervisor's specifications tell them apart, which the     *)
(* code takes for granted; simple_one_for_one has one specification.       *)
Sound(c) ==
    /\ \A i, j \in DOMAIN c.specs : c.specs[i].id = c.specs[j].id => i = j
    /\ c.strategy = "simple_one_for_one" => Len(c.specs) = 1

ASSUME SupervisorAssumption ==
    /\ Pid \subseteq Nat \ {0} /\ IsFiniteSet(Pid)
    /\ Config \subseteq [strategy : Strategy, specs : Seq(ChildSpec),
                         extra : SUBSET ChildSpec]
    /\ \A c \in Config : Sound(c)
    /\ MaxRetries \in Nat \ {0}
    /\ MaxMessages \in Nat /\ MaxAlive \in Nat

VARIABLES
    config,     \* state.strategy and state.childSpecs
    queue,      \* timers that are set
    life,       \* pending, init, up, dead; zombie: dead, and init goes on
    born,       \* the specification a live process was started by
    watched,    \* processes that the supervisor monitors
    inbox,      \* messages the supervisor has not taken
    pc,         \* where the supervisor is
    children,   \* state.children: the specification and the pid of each
    job,        \* the message it works on
    replaced    \* history: processes startChild has put another one before

processes == <<life, born, watched>>
vars == <<config, queue, processes, inbox, pc, children, job, replaced>>

-----------------------------------------------------------------------------
Child == [spec : ChildSpec, pid : Pid \cup {0}]      \* 0 is null

Job == [kind : {"none", "start", "restart", "add"},
        before : Seq(Child),        \* children that stay as they are
        group : Seq(Child),         \* the ones to terminate and to start
        after : Seq(Child),
        at : Nat,                   \* position in the group
        tries : 0 .. MaxRetries - 1,
        pid : Pid \cup {0}]         \* the process it waits for

NoJob == [kind |-> "none", before |-> <<>>, group |-> <<>>, after |-> <<>>,
          at |-> 1, tries |-> 0, pid |-> 0]

JobOf(kind, before, group, after) ==
    [NoJob EXCEPT !.kind = kind, !.before = before, !.group = group,
                  !.after = after]

Sig(kind, p) == [kind |-> kind, pid |-> p]
Ack(p, how) == [kind |-> "ack", pid |-> p, how |-> how]
Exit(p, why) == [kind |-> "EXIT", pid |-> p, why |-> why]
StartChildren == [kind |-> "start_children"]
StartChildOf(spec) == [kind |-> "start_child", spec |-> spec]

Signal ==
         [kind : {"go", "monitor", "exit", "down", "flush"}, pid : Pid]
    \cup [kind : {"ack"}, pid : Pid, how : {"ok", "error"}]
Message ==
         [kind : {"EXIT"}, pid : Pid, why : {"normal", "error", "killed"}]
    \cup {StartChildren} \cup [kind : {"start_child"}, spec : ChildSpec]

Simple == config.strategy = "simple_one_for_one"
Alive(p) == life[p] \in {"pending", "init", "up"}
Runs == pc \in {"take", "terminate", "start", "fail"}

Room ==
    Len(SelectSeq(queue \o inbox, LAMBDA s : s.kind \in {"EXIT", "start_child"}))
        < MaxMessages

(* What goes to the supervisor, if it still has a context. *)
ToSupervisor(signals) == IF pc = "dead" THEN <<>> ELSE signals

Pids(list) == {list[i].pid : i \in DOMAIN list}

(* Pids that nothing mentions any more. *)
Mentioned ==
    Pids(children) \cup Pids(job.group) \cup {job.pid}
        \cup {m.pid : m \in {s \in ToSet(queue \o inbox) :
                               s.kind \notin {"start_children", "start_child"}}}
Fresh == {p \in Pid : life[p] = "dead" /\ p \notin Mentioned}

Init ==
    /\ config \in Config
    /\ queue = <<StartChildren>>
    /\ life = [p \in Pid |-> "dead"]
    /\ born = <<>>
    /\ watched = {}
    /\ inbox = <<>>
    /\ pc = "idle"
    /\ children = <<>>
    /\ job = NoJob
    /\ replaced = {}

-----------------------------------------------------------------------------
(* The processes of the children, and others.                              *)

(* The signals of a death, to the supervisor: the DOWN before the EXIT. *)
DeathOf(p, why) ==
    ToSupervisor((IF p \in watched THEN <<Sig("down", p)>> ELSE <<>>)
                    \o <<Exit(p, why)>>)

(* The context is destroyed; a process in its init runs on without it. *)
Dies(p) ==
    /\ life' = [life EXCEPT ![p] = IF @ = "init" THEN "zombie" ELSE "dead"]
    /\ born' = Restrict(born, DOMAIN born \ {p})
    /\ watched' = watched \ {p}

Crash(p, why) ==
    /\ ~Runs /\ Room
    /\ life[p] \in {"init", "up"}
    /\ Dies(p)
    /\ queue' = queue \o DeathOf(p, why)
    /\ UNCHANGED <<config, inbox, pc, children, job, replaced>>

InitOk(p) ==
    /\ ~Runs
    /\ life[p] \in {"init", "zombie"}
    /\ life' = [life EXCEPT ![p] = IF @ = "init" THEN "up" ELSE "dead"]
    /\ queue' = queue \o ToSupervisor(<<Ack(p, "ok")>>)
    /\ UNCHANGED <<config, born, watched, inbox, pc, children, job, replaced>>

(* The user's init fails, for a reason other than normal. *)
InitFail(p) ==
    /\ ~Runs /\ Room
    /\ life[p] \in {"init", "zombie"}
    /\ life' = [life EXCEPT ![p] = "dead"]
    /\ born' = Restrict(born, DOMAIN born \ {p})
    /\ watched' = watched \ {p}
    /\ queue' = queue \o ToSupervisor(<<Ack(p, "error")>>)
                      \o IF life[p] = "init" THEN DeathOf(p, "error") ELSE <<>>
    /\ UNCHANGED <<config, inbox, pc, children, job, replaced>>

(* supervisor.startChild of anybody: a call. *)
StartChild(spec) ==
    /\ ~Runs /\ Room /\ pc # "dead"
    /\ StartChildOf(spec) \notin ToSet(queue \o inbox)
    /\ Cardinality({p \in Pid : Alive(p)}) < MaxAlive
    /\ queue' = Append(queue, StartChildOf(spec))
    /\ UNCHANGED <<config, processes, inbox, pc, children, job, replaced>>

-----------------------------------------------------------------------------
(* The supervisor between two timers.                                      *)

(* A handler throws or returns nonsense: the gen_server terminates, and    *)
(* every process that is linked gets an exit signal.                       *)
Fails ==
    /\ pc' = "dead"
    /\ inbox' = <<>>
    /\ children' = <<>>
    /\ job' = NoJob
    /\ \E exits \in SetToSeqs({Sig("exit", p) : p \in {q \in Pid : Alive(q)}}) :
            queue' = queue \o exits
    /\ UNCHANGED <<config, processes, replaced>>

(* The head of the gen_server's loop. *)
Rest ==
    /\ pc = "take" /\ inbox = <<>>
    /\ pc' = "idle"
    /\ UNCHANGED <<config, queue, processes, inbox, children, job, replaced>>

Takes(kind) == pc = "take" /\ inbox # <<>> /\ Head(inbox).kind = kind

Begin(next, where) ==
    /\ inbox' = Tail(inbox)
    /\ job' = next
    /\ pc' = where
    /\ UNCHANGED <<config, queue, processes, children, replaced>>

AsChild(spec) == [spec |-> spec, pid |-> 0]
Declared(id) == SelectInSeq(config.specs, LAMBDA s : s.id = id)

StartAll ==
    /\ Takes("start_children")
    /\ Begin(JobOf("start", <<>>,
                   IF Simple THEN <<>> ELSE [i \in DOMAIN config.specs |->
                                                AsChild(config.specs[i])],
                   <<>>), "start")

(* children.replaceWhere(.., child, true); cons for simple_one_for_one,    *)
(* where the specification is the declared one.                            *)
AddChild ==
    /\ Takes("start_child")
    /\ LET spec == IF Simple THEN config.specs[1] ELSE Head(inbox).spec
           i == SelectInSeq(children, LAMBDA c : c.spec.id = spec.id)
           new == <<AsChild(spec)>>
       IN  Begin(IF Simple THEN JobOf("add", <<>>, new, children)
                 ELSE IF i = 0 THEN JobOf("add", children, new, <<>>)
                 ELSE JobOf("add", SubSeq(children, 1, i - 1), new,
                            SubSeq(children, i + 1, Len(children))), "start")

RestartsUnlessNormal(child, why) ==
    child.spec.restart # "temporary" /\ why # "normal"

Restarts(child, why) ==
    \/ child.spec.restart = "permanent"
    \/ child.spec.restart = "transient" /\ why # "normal"

Dead == SelectInSeq(children, LAMBDA c : c.pid = Head(inbox).pid)

(* doRestart of a process that is not, or no longer, a child. *)
Unknown ==
    /\ Takes("EXIT") /\ Dead = 0
    /\ Begin(NoJob, "take")

(* ... of a child that is not to be restarted. *)
Forget ==
    /\ Takes("EXIT") /\ Dead # 0
    /\ ~Restarts(children[Dead], Head(inbox).why)
    /\ children' = IF Simple THEN RemoveAt(children, Dead)
                             ELSE [children EXCEPT ![Dead].pid = 0]
    /\ inbox' = Tail(inbox)
    /\ UNCHANGED <<config, queue, processes, pc, job, replaced>>

Restart(strategy) ==
    /\ Takes("EXIT") /\ Dead # 0
    /\ Restarts(children[Dead], Head(inbox).why)
    /\ config.strategy = strategy

(* children[id] is undefined. *)
doSimpleOneForOneRestart == Restart("simple_one_for_one") /\ Fails

doOneForOneRestart ==
    /\ Restart("one_for_one")
    /\ IF Declared(children[Dead].spec.id) = 0
       THEN Fails
       ELSE Begin(JobOf("restart", SubSeq(children, 1, Dead - 1),
                        <<[children[Dead] EXCEPT !.pid = 0]>>,
                        SubSeq(children, Dead + 1, Len(children))), "start")

OneForAllUnterminated ==
    /\ Restart("one_for_all")
    /\ Begin(JobOf("restart", <<>>, children, <<>>), "start")

doOneForAllRestart ==
    /\ Restart("one_for_all")
    /\ Begin(JobOf("restart", <<>>, [children EXCEPT ![Dead].pid = 0], <<>>),
             "terminate")

RestForOneInFront ==
    /\ Restart("rest_for_one")
    /\ Begin(JobOf("restart", <<>>, SubSeq(children, Dead, Len(children)),
                   SubSeq(children, 1, Dead - 1)), "terminate")

(* The child that died is in the group, with the pid that is dead. *)
doRestForOneRestart ==
    /\ Restart("rest_for_one")
    /\ Begin(JobOf("restart", SubSeq(children, 1, Dead - 1),
                   SubSeq(children, Dead, Len(children)), <<>>), "terminate")

Running == SelectInSeq(job.group, LAMBDA c : c.pid # 0)

(* terminateChildren: doTerminate and _shutdown of the next child.  A      *)
(* shutdown that no clause knows throws.                                   *)
TerminateNext ==
    /\ pc = "terminate" /\ Running # 0
    /\ LET child == job.group[Running]
           p == child.pid
       IN  IF child.spec.shutdown = "other"
           THEN Fails
           ELSE /\ queue' = queue \o (IF Alive(p)
                                      THEN <<Sig("monitor", p), Sig("exit", p)>>
                                      ELSE <<Sig("down", p)>>)
                /\ job' = [job EXCEPT !.pid = p]
                /\ pc' = "down"
                /\ UNCHANGED <<config, processes, inbox, children, replaced>>

Permanently(child) == child.spec.restart # "temporary"

(* The children that are not marked for removal. *)
Remaining(list) ==
    LET kept[i \in 0..Len(list)] ==
            IF i = 0 THEN <<>>
            ELSE IF Permanently(list[i]) THEN Append(kept[i - 1], list[i])
            ELSE kept[i - 1]
    IN  kept[Len(list)]

AllTerminated ==
    /\ pc = "terminate" /\ Running = 0
    /\ job' = [job EXCEPT !.group = Remaining(@)]
    /\ pc' = "start"
    /\ UNCHANGED <<config, queue, processes, inbox, children, replaced>>

(* After unlinkFlush. *)
Terminated == [job EXCEPT !.group[Running].pid = 0, !.pid = 0]

(* A child restarts as declared, whatever was added under its id since. *)
RestartsOne == config.strategy = "one_for_one" /\ job.kind = "restart"

StartSpec ==
    LET spec == job.group[job.at].spec
    IN  IF RestartsOne
        THEN config.specs[Declared(spec.id)] ELSE spec

Temporary == StartSpec.restart = "temporary"

StartsNext == pc = "start" /\ job.at <= Len(job.group)

(* _doStartChild: the start function spawns a process and waits for it. *)
StartNext ==
    /\ StartsNext /\ StartSpec.start = "server" /\ Fresh # {}
    /\ LET p == Min(Fresh)
       IN  /\ life' = [life EXCEPT ![p] = "pending"]
           /\ born' = [q \in DOMAIN born \cup {p} |->
                         IF q = p THEN StartSpec ELSE born[q]]
           /\ job' = [job EXCEPT !.pid = p]
           /\ queue' = Append(queue, Sig("go", p))
           /\ replaced' = replaced \ {p}
    /\ pc' = "ack"
    /\ UNCHANGED <<config, watched, inbox, children>>

(* The start function returns ignore: a child without a process, or none   *)
(* if it is temporary.  startChild and doOneForOneRestart then read the    *)
(* pid of undefined.                                                       *)
Ignored ==
    /\ StartsNext /\ StartSpec.start = "ignore"
    /\ job' = IF Simple \/ Temporary
              THEN [job EXCEPT !.group = RemoveAt(@, job.at)]
              ELSE [job EXCEPT !.at = @ + 1]
    /\ pc' = IF ~Simple /\ Temporary /\ (job.kind = "add" \/ RestartsOne)
             THEN "fail" ELSE pc
    /\ UNCHANGED <<config, queue, processes, inbox, children, replaced>>

(* The next state of the supervisor has the new list of children. *)
AllStarted ==
    /\ pc = "start" /\ job.at > Len(job.group)
    /\ LET new == job.before \o job.group \o job.after
       IN  /\ children' = new
           /\ replaced' = IF job.kind = "add"
                          THEN replaced \cup (Pids(children) \ (Pids(new) \cup {0}))
                          ELSE replaced
    /\ job' = NoJob
    /\ pc' = "take"
    /\ UNCHANGED <<config, queue, processes, inbox>>

-----------------------------------------------------------------------------
(* Timers.                                                                 *)
Fires(kinds) == ~Runs /\ queue # <<>> /\ Head(queue).kind \in kinds

OnGo ==
    /\ Fires({"go"})
    /\ life' = [life EXCEPT ![Head(queue).pid] = "init"]
    /\ queue' = Tail(queue)
    /\ UNCHANGED <<config, born, watched, inbox, pc, children, job, replaced>>

OnMonitor ==
    /\ Fires({"monitor"})
    /\ watched' = IF Alive(Head(queue).pid) THEN watched \cup {Head(queue).pid}
                                            ELSE watched
    /\ queue' = Tail(queue)
    /\ UNCHANGED <<config, life, born, inbox, pc, children, job, replaced>>

(* An exit signal of the supervisor. *)
OnExit ==
    /\ Fires({"exit"})
    /\ LET p == Head(queue).pid
       IN  IF Alive(p) /\ ~born[p].traps
           THEN Dies(p) /\ queue' = Tail(queue) \o DeathOf(p, "killed")
           ELSE queue' = Tail(queue) /\ UNCHANGED processes
    /\ UNCHANGED <<config, inbox, pc, children, job, replaced>>

IsFlush(s) == s.kind = "flush"

(* A message: it waits in the inbox, unless it is the EXIT of the child    *)
(* that unlinkFlush looks for.                                             *)
OnMessage ==
    /\ Fires({"EXIT", "start_children", "start_child"})
    /\ LET m == Head(queue)
           flushed == pc = "flush" /\ m.kind = "EXIT" /\ m.pid = job.pid
       IN  CASE pc = "dead" ->
                    /\ queue' = Tail(queue)
                    /\ UNCHANGED <<inbox, pc, job>>
             [] flushed ->
                    /\ queue' = RemoveFirstMatch(Tail(queue), IsFlush)
                    /\ job' = Terminated
                    /\ pc' = "terminate"
                    /\ UNCHANGED inbox
             [] OTHER ->
                    /\ queue' = Tail(queue)
                    /\ inbox' = Append(inbox, m)
                    /\ pc' = IF pc = "idle" THEN "take" ELSE pc
                    /\ UNCHANGED job
    /\ UNCHANGED <<config, processes, children, replaced>>

FlushAll(p) == SelectSeq(inbox, LAMBDA m : m.kind # "EXIT")

(* unlinkFlush: the EXIT of the process, once. *)
Flush(p) == RemoveFirstMatch(inbox, LAMBDA m : m.kind = "EXIT" /\ m.pid = p)

(* The DOWN that doBrutalKill waits for. *)
OnDown ==
    /\ Fires({"down"}) /\ pc = "down"
    /\ LET p == Head(queue).pid
           found == Flush(p) # inbox
       IN  IF found
           THEN /\ queue' = Tail(queue)
                /\ inbox' = Flush(p)
                /\ job' = Terminated
                /\ pc' = "terminate"
           ELSE /\ queue' = Append(Tail(queue), Sig("flush", p))
                /\ pc' = "flush"
                /\ UNCHANGED <<inbox, job>>
    /\ UNCHANGED <<config, processes, children, replaced>>

(* receive(.., 0) ran out of time. *)
OnFlush ==
    /\ Fires({"flush"})
    /\ queue' = Tail(queue)
    /\ job' = Terminated
    /\ pc' = "terminate"
    /\ UNCHANGED <<config, processes, inbox, children, replaced>>

(* A temporary child that does not start is fatal, except to startChild    *)
(* and to doOneForOneRestart, which takes the reason for a specification.  *)
Unforgiving == Simple \/ (job.kind # "add" /\ ~RestartsOne)

FatalOneLate == IF Temporary THEN Unforgiving ELSE job.tries >= MaxRetries

(* Others get MAX_RETRIES attempts. *)
Fatal == IF Temporary THEN Unforgiving ELSE job.tries + 1 >= MaxRetries

(* init_ack. *)
OnAck ==
    /\ Fires({"ack"})
    /\ LET ok == Head(queue).how = "ok"
       IN  CASE ok ->
                    /\ job' = [job EXCEPT !.group[job.at].pid = job.pid,
                                          !.pid = 0, !.at = @ + 1, !.tries = 0]
                    /\ pc' = "start"
             [] ~ok /\ Fatal ->
                    pc' = "fail" /\ UNCHANGED job
             [] ~ok /\ ~Fatal /\ Temporary /\ ~RestartsOne ->
                    pc' = "take" /\ job' = NoJob
             [] ~ok /\ ~Fatal /\ Temporary /\ RestartsOne ->
                    /\ job' = [job EXCEPT !.pid = 0, !.at = @ + 1]
                    /\ pc' = "start"
             [] ~ok /\ ~Fatal /\ ~Temporary ->
                    /\ job' = [job EXCEPT !.pid = 0, !.tries = @ + 1]
                    /\ pc' = "start"
    /\ queue' = Tail(queue)
    /\ UNCHANGED <<config, processes, inbox, children, replaced>>

GiveUp == pc = "fail" /\ Fails

-----------------------------------------------------------------------------
Supervise ==
    \/ Rest \/ StartAll \/ AddChild \/ Unknown \/ Forget
    \/ doSimpleOneForOneRestart \/ doOneForOneRestart
    \/ doOneForAllRestart \/ doRestForOneRestart
    \/ TerminateNext \/ AllTerminated
    \/ StartNext \/ Ignored \/ AllStarted \/ GiveUp

Tick ==
    \/ OnGo \/ OnMonitor \/ OnExit \/ OnMessage
    \/ OnDown \/ OnFlush \/ OnAck

Next ==
    \/ Supervise \/ Tick
    \/ \E p \in Pid :
            \/ InitOk(p) \/ InitFail(p)
            \/ \E why \in {"normal", "error"} : Crash(p, why)
    \/ \E spec \in config.extra : StartChild(spec)

(* The supervisor runs, timers fire, and init returns. *)
Fairness ==
    /\ WF_vars(Supervise) /\ WF_vars(Tick)
    /\ \A p \in Pid : WF_vars(InitOk(p) \/ InitFail(p))

Spec == Init /\ [][Next]_vars /\ Fairness

-----------------------------------------------------------------------------
TypeOK ==
    /\ config \in Config
    /\ queue \in Seq(Signal \cup Message)
    /\ life \in [Pid -> {"pending", "init", "up", "zombie", "dead"}]
    /\ born \in [{p \in Pid : Alive(p)} -> ChildSpec]
    /\ watched \subseteq Pid
    /\ inbox \in Seq(Message)
    /\ pc \in {"idle", "take", "terminate", "down", "flush", "start", "ack",
               "fail", "dead"}
    /\ children \in Seq(Child)
    /\ job \in Job
    /\ replaced \subseteq Pid

Between == pc \in {"idle", "take"}

(* No death of a child is missed: when the supervisor is between two       *)
(* messages, the EXIT of every process that is listed and dead is still to *)
(* come, however many flushes, restarts and late init_acks went before.    *)
NoDeathMissed ==
    Between =>
        \A p \in Pids(children) \ {0} :
            Alive(p) \/ \E m \in ToSet(queue \o inbox) :
                            m.kind = "EXIT" /\ m.pid = p

(* No process runs unlisted, where no restart and no one_for_all would     *)
(* reach it, except one that startChild put another of its id before.  And *)
(* when the supervisor has ended, in the middle of whatever it did, the    *)
(* exit signal is on its way to every process that it ever started and     *)
(* that kill can end: to the ones half started, in no list yet, and to the *)
(* ones put aside by startChild as well.                                   *)
NoOrphans ==
    /\ Between => \A p \in Pid : Alive(p) => p \in Pids(children) \cup replaced
    /\ pc = "dead" => \A p \in Pid :
           Alive(p) => Sig("exit", p) \in ToSet(queue) \/ born[p].traps

(* Nobody starts a child again that a restart may have dropped, or another *)
(* under its id.                                                           *)
Steady ==
    \A spec \in config.extra : Declared(spec.id) # 0 =>
        /\ spec.restart # "temporary"
        /\ config.specs[Declared(spec.id)].restart # "temporary"

Rank(child) == Declared(child.spec.id)

(* Children stay in the order they were declared in, which is the order    *)
(* that rest_for_one goes by, through all restarts; and none is doubled.   *)
(* A temporary child that a restart dropped and startChild starts again    *)
(* comes last.                                                             *)
OrderKept ==
    Between /\ ~Simple /\ Steady =>
        \A i, j \in DOMAIN children :
            i < j /\ Rank(children[i]) # 0 /\ Rank(children[j]) # 0
                => Rank(children[i]) < Rank(children[j])

(* The supervisor waits for the DOWN of a process that traps exits, so     *)
(* that kill did not end it, or one that died before the monitor came.     *)
Hangs ==
    /\ pc = "down"
    /\ Alive(job.pid) => born[job.pid].traps

Died(id) ==
    \E i \in DOMAIN children :
        /\ children[i].spec.id = id /\ children[i].spec.restart = "permanent"
        /\ children[i].pid # 0 /\ ~Alive(children[i].pid)

Lives(id) == \E p \in DOMAIN born : born[p].id = id

(* A permanent child that died lives again, by retries and restarts that   *)
(* other deaths interrupt, unless the supervisor gave up or hangs; but not *)
(* one that startChild put in the place of a temporary one.                *)
RestartedOrGivenUp ==
    \A id \in Id :
        Died(id) /\ Steady ~> (Lives(id) \/ pc = "dead" \/ Hangs)
=============================================================================
