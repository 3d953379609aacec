------------------------------ MODULE GenServer ------------------------------
(***************************************************************************)
(* Servers and their callers: packages/gen_server, packages/gen and        *)
(* packages/proc_lib/src/index.js.  Clients start servers under one name,  *)
(* call them by pid and cast to them; servers run the callbacks of their   *)
(* user; anybody may kill a server at any time.                            *)
(*                                                                         *)
(* As in Processes, every signal is a timer of one first-in first-out      *)
(* queue, and an action is the code that runs from one timer, or one       *)
(* promise of the user's callbacks, to the next.  The signals that end a   *)
(* process (DOWN) are sent in the turn it dies.  A process that is killed  *)
(* while a callback runs loses its context, and its code goes on.          *)
(***************************************************************************)
EXTENDS Integers, SequencesExt

CONSTANTS
    Client,     \* processes that start and call servers; they never die here
    Server,     \* processes that a start may spawn
    Ref,        \* references of calls; the reference of the monitor goes along
    Nobody,     \* undefined
    MaxQueue,   \* bound: clients act only while the queue is shorter
    MaxInbox    \* bound: clients cast only while the inbox is shorter

ASSUME GenServerAssumption ==
    /\ Nobody \notin Client \cup Server \cup Ref
    /\ Ref \cap {"cast", "timeout", "none"} = {}
    /\ IsFiniteSet(Ref)
    /\ MaxQueue \in Nat /\ MaxInbox \in Nat

VARIABLES
    queue,      \* timers that are set
    name,       \* who is registered under the name
    life,       \* none, up or down: the context of a server
    code,       \* where the function of a server is
    task,       \* the message it is handling
    answering,  \* it stops, and the call it handles gets a reply
    timed,      \* it waits for a message with a timeout
    inbox,      \* messages it has not taken
    watchers,   \* the calls that monitor it
    owner,      \* who spawned it
    response,   \* what it answered to the start
    pc,         \* ready, starting or calling: what a client does
    wait,       \* the server or the call a client waits for
    caller,     \* who made a call
    callee,     \* and to whom
    patient,    \* calls with timeout Infinity
    saved,      \* calls that got noreply and are answered later, if ever
    late,       \* history: calls whose monitor reached a dead server
    killed,     \* history: servers that did not end by themselves
    handled,    \* history: how often a call was given to handleCall
    result,     \* what a call returned, or why it threw
    strays      \* history: messages left behind in the inbox of a caller

servers == <<name, life, code, task, answering, timed, inbox, watchers>>
starts == <<owner, response>>
clients == <<pc, wait>>
requests == <<caller, callee, patient>>
calls == <<saved, late, killed, handled, result, strays>>
vars == <<queue, servers, starts, clients, requests, calls>>

-----------------------------------------------------------------------------
Task == Ref \cup {"cast", "timeout"}

Signal ==
         [kind : {"go", "cast"}, to : Server]
    \cup [kind : {"call", "monitor", "demonitor"}, to : Server, ref : Ref]
    \cup [kind : {"reply", "down"}, to : Client, ref : Ref]
    \cup [kind : {"ack"}, to : Client, from : Server]

Go(s) == [kind |-> "go", to |-> s]
CastTo(s) == [kind |-> "cast", to |-> s]
ToServer(kind, s, r) == [kind |-> kind, to |-> s, ref |-> r]

ToServed(kind, r) == [kind |-> kind, to |-> callee[r], ref |-> r]

ToCaller(kind, r) == [kind |-> kind, to |-> caller[r], ref |-> r]

AckTo(c, s) == [kind |-> "ack", to |-> c, from |-> s]

(* Orders in which a set of DOWN signals goes out. *)
Downs(s) == SetToSeqs({ToCaller("down", r) : r \in watchers[s]})

(* What goes to a server, if it still has a context. *)
IfUp(s, signals) == IF life[s] = "up" THEN signals ELSE <<>>

Room == Len(queue) < MaxQueue

Init ==
    /\ queue = <<>>
    /\ name = Nobody
    /\ life = [s \in Server |-> "none"]
    /\ code = [s \in Server |-> "none"]
    /\ task = [s \in Server |-> "none"]
    /\ answering = [s \in Server |-> FALSE]
    /\ timed = [s \in Server |-> FALSE]
    /\ inbox = [s \in Server |-> <<>>]
    /\ watchers = [s \in Server |-> {}]
    /\ owner = [s \in Server |-> Nobody]
    /\ response = [s \in Server |-> "none"]
    /\ pc = [c \in Client |-> "ready"]
    /\ wait = [c \in Client |-> Nobody]
    /\ caller = [r \in Ref |-> Nobody]
    /\ callee = [r \in Ref |-> Nobody]
    /\ patient = {}
    /\ saved = {}
    /\ late = {}
    /\ killed = {}
    /\ handled = [r \in Ref |-> 0]
    /\ result = [r \in Ref |-> "none"]
    /\ strays = {}

-----------------------------------------------------------------------------
(* Clients.                                                                *)

(* gen.start: the name is looked up here and registered by the child.      *)
Start(c, s) ==
    /\ pc[c] = "ready" /\ code[s] = "none" /\ Room
    /\ name = Nobody
    /\ life' = [life EXCEPT ![s] = "up"]
    /\ code' = [code EXCEPT ![s] = "pending"]
    /\ owner' = [owner EXCEPT ![s] = c]
    /\ pc' = [pc EXCEPT ![c] = "starting"]
    /\ wait' = [wait EXCEPT ![c] = s]
    /\ queue' = Append(queue, Go(s))
    /\ UNCHANGED <<name, task, answering, timed, inbox, watchers, response>>
    /\ UNCHANGED <<requests, calls>>

(* A pid is known to others once the server has had the name. *)
Known(s) == code[s] \notin {"none", "pending"} /\ response[s] # "taken"

AskUnwatched(c, s, r) == IfUp(s, <<ToServer("call", s, r)>>)

(* A dead server is answered for by node.monitor; the request is dropped.  *)
MonitorAndAsk(c, s, r) ==
    IF life[s] = "up"
    THEN <<ToServer("monitor", s, r), ToServer("call", s, r)>>
    ELSE <<[kind |-> "down", to |-> c, ref |-> r]>>

Call(c, s, r, forever) ==
    /\ pc[c] = "ready" /\ Known(s) /\ caller[r] = Nobody /\ Room
    /\ caller' = [caller EXCEPT ![r] = c]
    /\ callee' = [callee EXCEPT ![r] = s]
    /\ patient' = IF forever THEN patient \cup {r} ELSE patient
    /\ pc' = [pc EXCEPT ![c] = "calling"]
    /\ wait' = [wait EXCEPT ![c] = r]
    /\ queue' = queue \o MonitorAndAsk(c, s, r)
    /\ UNCHANGED <<servers, starts, calls>>

Cast(c, s) ==
    /\ pc[c] = "ready" /\ Known(s) /\ Room /\ Len(inbox[s]) < MaxInbox
    /\ queue' = queue \o IfUp(s, <<CastTo(s)>>)
    /\ UNCHANGED <<servers, starts, clients, requests, calls>>

Return(r, how) ==
    /\ result' = [result EXCEPT ![r] = how]
    /\ pc' = [pc EXCEPT ![caller[r]] = "ready"]
    /\ wait' = [wait EXCEPT ![caller[r]] = Nobody]

(* The timer of a call: neither the monitor nor the request is taken back. *)
Timeout(c) ==
    /\ pc[c] = "calling" /\ wait[c] \notin patient
    /\ Return(wait[c], "timeout")
    /\ UNCHANGED <<queue, servers, starts, requests>>
    /\ UNCHANGED <<saved, late, killed, handled, strays>>

-----------------------------------------------------------------------------
(* The server's code.                                                      *)
Takes(m) == handled' = IF m \in Ref THEN [handled EXCEPT ![m] = @ + 1]
                                       ELSE handled

TakeAgain(s, wake) ==
    IF life[s] = "up" /\ inbox[s] # <<>>
    THEN /\ code' = [code EXCEPT ![s] = "busy"]
         /\ task' = [task EXCEPT ![s] = Head(inbox[s])]
         /\ Takes(Head(inbox[s]))
         /\ UNCHANGED <<inbox, timed>>
    ELSE /\ code' = [code EXCEPT ![s] = IF life[s] = "up" THEN "idle"
                                                           ELSE "ended"]
         /\ timed' = [timed EXCEPT ![s] = wake]
         /\ task' = [task EXCEPT ![s] = "none"]
         /\ UNCHANGED <<inbox, handled>>

(* The head of enterLoop's loop.  Without a context receiveBlock throws,   *)
(* and the function ends.                                                  *)
Take(s, wake) ==
    IF life[s] = "up" /\ inbox[s] # <<>>
    THEN /\ code' = [code EXCEPT ![s] = "busy"]
         /\ task' = [task EXCEPT ![s] = Head(inbox[s])]
         /\ inbox' = [inbox EXCEPT ![s] = Tail(@)]
         /\ Takes(Head(inbox[s]))
         /\ UNCHANGED timed
    ELSE /\ code' = [code EXCEPT ![s] = IF life[s] = "up" THEN "idle"
                                                           ELSE "ended"]
         /\ timed' = [timed EXCEPT ![s] = wake /\ life[s] = "up"]
         /\ task' = [task EXCEPT ![s] = "none"]
         /\ UNCHANGED <<inbox, handled>>

DiesFirst(s, before) ==
    /\ life' = [life EXCEPT ![s] = "down"]
    /\ name' = IF name = s THEN Nobody ELSE name
    /\ inbox' = [inbox EXCEPT ![s] = <<>>]
    /\ watchers' = [watchers EXCEPT ![s] = {}]
    /\ timed' = [timed EXCEPT ![s] = FALSE]
    /\ IF life[s] = "up"
       THEN \E downs \in Downs(s) : queue' = queue \o downs \o before
       ELSE queue' = queue \o before

(* die and destroy, with the signals that were sent in this turn before.   *)
Dies(s, before) ==
    /\ life' = [life EXCEPT ![s] = "down"]
    /\ name' = IF name = s THEN Nobody ELSE name
    /\ inbox' = [inbox EXCEPT ![s] = <<>>]
    /\ watchers' = [watchers EXCEPT ![s] = {}]
    /\ timed' = [timed EXCEPT ![s] = FALSE]
    /\ IF life[s] = "up"
       THEN \E downs \in Downs(s) : queue' = queue \o before \o downs
       ELSE queue' = queue \o before

Ack(s) == <<AckTo(owner[s], s)>>

(* callbacks.init returned ok. *)
InitOk(s) ==
    /\ code[s] = "init"
    /\ response' = [response EXCEPT ![s] = "ok"]
    /\ queue' = queue \o Ack(s)
    /\ Take(s, FALSE)
    /\ UNCHANGED <<name, life, answering, watchers, owner, clients, requests>>
    /\ UNCHANGED <<saved, late, killed, result, strays>>

InitFailSilently(s) ==
    /\ code[s] = "init"
    /\ response' = [response EXCEPT ![s] = "error"]
    /\ Dies(s, <<>>)
    /\ code' = [code EXCEPT ![s] = "ended"]
    /\ UNCHANGED <<task, answering, owner, clients>>
    /\ UNCHANGED <<requests, calls>>

(* It returned stop or nonsense, or threw: acknowledged, then dead. *)
InitFail(s) ==
    /\ code[s] = "init"
    /\ response' = [response EXCEPT ![s] = "error"]
    /\ Dies(s, Ack(s))
    /\ code' = [code EXCEPT ![s] = "ended"]
    /\ UNCHANGED <<task, answering, owner, clients>>
    /\ UNCHANGED <<requests, calls>>

(* handleCall returned a reply; with a timeout if wake. *)
HandleReply(s, wake) ==
    /\ code[s] = "busy" /\ task[s] \in Ref
    /\ queue' = Append(queue, ToCaller("reply", task[s]))
    /\ Take(s, wake)
    /\ UNCHANGED <<name, life, answering, watchers, starts, clients>>
    /\ UNCHANGED <<requests, saved, late, killed, result, strays>>

(* A callback returned noreply; the user may keep from for a later reply.  *)
HandleNoReply(s, wake) ==
    /\ code[s] = "busy"
    /\ saved' = saved \cup ({task[s]} \cap Ref)
    /\ Take(s, wake)
    /\ UNCHANGED <<queue, name, life, answering, watchers, starts, clients>>
    /\ UNCHANGED <<requests, late, killed, result, strays>>

(* A callback answers a call that an earlier one left open. *)
ReplySaved(s, r) ==
    /\ code[s] = "busy" /\ r \in saved /\ callee[r] = s
    /\ saved' = saved \ {r}
    /\ queue' = Append(queue, ToCaller("reply", r))
    /\ UNCHANGED <<servers, starts, clients, requests>>
    /\ UNCHANGED <<late, killed, handled, result, strays>>

(* stop with a reply; or stop without one, an error that was thrown, a     *)
(* message nobody handles, a return value nobody knows: terminate.         *)
Stop(s, replies) ==
    /\ code[s] = "busy"
    /\ replies => task[s] \in Ref
    /\ code' = [code EXCEPT ![s] = "stopping"]
    /\ answering' = [answering EXCEPT ![s] = replies]
    /\ UNCHANGED <<queue, name, life, task, timed, inbox, watchers>>
    /\ UNCHANGED <<starts, clients, requests, calls>>

(* callbacks.terminate is through: the reply goes out before the DOWN. *)
Terminated(s) ==
    /\ code[s] = "stopping"
    /\ Dies(s, IF answering[s] THEN <<ToCaller("reply", task[s])>> ELSE <<>>)
    /\ code' = [code EXCEPT ![s] = "ended"]
    /\ task' = [task EXCEPT ![s] = "none"]
    /\ answering' = [answering EXCEPT ![s] = FALSE]
    /\ UNCHANGED <<starts, clients>>
    /\ UNCHANGED <<requests, calls>>

(* The timeout of the loop's receive: a message to handleInfo. *)
WakeUp(s) ==
    /\ code[s] = "idle" /\ timed[s]
    /\ code' = [code EXCEPT ![s] = "busy"]
    /\ task' = [task EXCEPT ![s] = "timeout"]
    /\ timed' = [timed EXCEPT ![s] = FALSE]
    /\ UNCHANGED <<queue, name, life, answering, inbox, watchers>>
    /\ UNCHANGED <<starts, clients, requests, calls>>

(* An exit signal of anybody.  The receive of an idle server rejects; any  *)
(* other code goes on without a context.                                   *)
Kill(s) ==
    /\ Known(s) /\ life[s] = "up" /\ Room
    /\ Dies(s, <<>>)
    /\ code' = [code EXCEPT ![s] = IF @ = "idle" THEN "ended" ELSE @]
    /\ killed' = killed \cup {s}
    /\ UNCHANGED <<task, answering, starts, clients>>
    /\ UNCHANGED <<requests, saved, late, handled, result, strays>>

-----------------------------------------------------------------------------
(* Timers.                                                                 *)
Fires(kind) == queue # <<>> /\ Head(queue).kind = kind

OnGoUnregistered ==
    /\ Fires("go")
    /\ LET s == Head(queue).to
       IN  /\ name' = s
           /\ code' = [code EXCEPT ![s] = "init"]
    /\ queue' = Tail(queue)
    /\ UNCHANGED <<life, task, answering, timed, inbox, watchers, starts>>
    /\ UNCHANGED <<clients, requests, calls>>

(* gen's initializer: the child whose name is taken says so and ends. *)
OnGo ==
    /\ Fires("go")
    /\ LET s == Head(queue).to
       IN  IF name = Nobody
           THEN /\ name' = s
                /\ code' = [code EXCEPT ![s] = "init"]
                /\ queue' = Tail(queue)
                /\ UNCHANGED <<life, response>>
           ELSE /\ life' = [life EXCEPT ![s] = "down"]
                /\ code' = [code EXCEPT ![s] = "ended"]
                /\ response' = [response EXCEPT ![s] = "taken"]
                /\ queue' = Tail(queue) \o Ack(s)
                /\ UNCHANGED name
    /\ UNCHANGED <<task, answering, timed, inbox, watchers, owner>>
    /\ UNCHANGED <<clients, requests, calls>>

OnAck ==
    /\ Fires("ack")
    /\ pc' = [pc EXCEPT ![Head(queue).to] = "ready"]
    /\ wait' = [wait EXCEPT ![Head(queue).to] = Nobody]
    /\ queue' = Tail(queue)
    /\ UNCHANGED <<servers, starts, requests, calls>>

(* A message for a server: taken at once by one that waits. *)
Arrives(s, m) ==
    CASE life[s] # "up" -> UNCHANGED <<code, task, timed, inbox, handled>>
      [] life[s] = "up" /\ code[s] = "idle" ->
            /\ code' = [code EXCEPT ![s] = "busy"]
            /\ task' = [task EXCEPT ![s] = m]
            /\ Takes(m)
            /\ timed' = [timed EXCEPT ![s] = FALSE]
            /\ UNCHANGED inbox
      [] OTHER ->
            /\ inbox' = [inbox EXCEPT ![s] = Append(@, m)]
            /\ UNCHANGED <<code, task, timed, handled>>

OnCall ==
    /\ Fires("call")
    /\ queue' = Tail(queue)
    /\ Arrives(Head(queue).to, Head(queue).ref)
    /\ UNCHANGED <<name, life, answering, watchers, starts, clients>>
    /\ UNCHANGED <<requests, saved, late, killed, result, strays>>

OnCast ==
    /\ Fires("cast")
    /\ queue' = Tail(queue)
    /\ Arrives(Head(queue).to, "cast")
    /\ UNCHANGED <<name, life, answering, watchers, starts, clients>>
    /\ UNCHANGED <<requests, saved, late, killed, result, strays>>

OnMonitor ==
    /\ Fires("monitor")
    /\ queue' = Tail(queue)
    /\ LET s == Head(queue).to
           r == Head(queue).ref
       IN  IF life[s] = "up"
           THEN /\ watchers' = [watchers EXCEPT ![s] = @ \cup {r}]
                /\ UNCHANGED late
           ELSE /\ late' = late \cup {r}
                /\ UNCHANGED watchers
    /\ UNCHANGED <<name, life, code, task, answering, timed, inbox, starts>>
    /\ UNCHANGED <<clients, requests, saved, killed, handled, result, strays>>

OnDemonitor ==
    /\ Fires("demonitor")
    /\ queue' = Tail(queue)
    /\ watchers' = [watchers EXCEPT ![Head(queue).to] = @ \ {Head(queue).ref}]
    /\ UNCHANGED <<name, life, code, task, answering, timed, inbox, starts>>
    /\ UNCHANGED <<clients, requests, calls>>

Waiting(r) == pc[caller[r]] = "calling" /\ wait[caller[r]] = r

Strays(r, kind) == strays' = strays \cup {<<r, kind>>}

(* The reply that doCall waits for: it demonitors in the same turn. *)
OnReply ==
    /\ Fires("reply")
    /\ LET r == Head(queue).ref
           s == callee[r]
       IN  IF Waiting(r)
           THEN /\ Return(r, "reply")
                /\ queue' = Tail(queue) \o
                            IfUp(s, <<ToServer("demonitor", s, r)>>)
                /\ UNCHANGED strays
           ELSE /\ Strays(r, "reply")
                /\ queue' = Tail(queue)
                /\ UNCHANGED <<clients, result>>
    /\ UNCHANGED <<servers, starts, requests, saved, late, killed, handled>>

OnDown ==
    /\ Fires("down")
    /\ queue' = Tail(queue)
    /\ LET r == Head(queue).ref
       IN  IF Waiting(r)
           THEN Return(r, "down") /\ UNCHANGED strays
           ELSE Strays(r, "down") /\ UNCHANGED <<clients, result>>
    /\ UNCHANGED <<servers, starts, requests, saved, late, killed, handled>>

-----------------------------------------------------------------------------
ClientStep ==
    \E c \in Client, s \in Server :
        \/ Start(c, s) \/ Cast(c, s)
        \/ \E r \in Ref, forever \in BOOLEAN : Call(c, s, r, forever)

Initializes(s) == InitOk(s) \/ InitFail(s)

Handles(s) ==
    \/ \E b \in BOOLEAN : HandleReply(s, b) \/ HandleNoReply(s, b) \/ Stop(s, b)
    \/ Terminated(s)

Tick ==
    \/ OnGo \/ OnAck \/ OnCall \/ OnCast
    \/ OnMonitor \/ OnDemonitor \/ OnReply \/ OnDown

Next ==
    \/ ClientStep
    \/ \E c \in Client : Timeout(c)
    \/ \E s \in Server :
            \/ Initializes(s) \/ Handles(s) \/ WakeUp(s) \/ Kill(s)
            \/ \E r \in Ref : ReplySaved(s, r)
    \/ Tick

(* Timers fire, that of a call included, and callbacks end: neither init   *)
(* nor a handler nor terminate waits for ever.                             *)
Fairness ==
    /\ WF_vars(Tick)
    /\ \A c \in Client : WF_vars(Timeout(c))
    /\ \A s \in Server : WF_vars(Initializes(s)) /\ WF_vars(Handles(s))

Spec == Init /\ [][Next]_vars /\ Fairness

-----------------------------------------------------------------------------
TypeOK ==
    /\ queue \in Seq(Signal)
    /\ name \in Server \cup {Nobody}
    /\ life \in [Server -> {"none", "up", "down"}]
    /\ code \in [Server -> {"none", "pending", "init", "idle", "busy",
                            "stopping", "ended"}]
    /\ task \in [Server -> Task \cup {"none"}]
    /\ answering \in [Server -> BOOLEAN] /\ timed \in [Server -> BOOLEAN]
    /\ inbox \in [Server -> Seq(Task)]
    /\ watchers \in [Server -> SUBSET Ref]
    /\ owner \in [Server -> Client \cup {Nobody}]
    /\ response \in [Server -> {"none", "ok", "error", "taken"}]
    /\ pc \in [Client -> {"ready", "starting", "calling"}]
    /\ wait \in [Client -> Server \cup Ref \cup {Nobody}]
    /\ caller \in [Ref -> Client \cup {Nobody}]
    /\ callee \in [Ref -> Server \cup {Nobody}]
    /\ patient \subseteq Ref /\ saved \subseteq Ref /\ late \subseteq Ref
    /\ killed \subseteq Server
    /\ handled \in [Ref -> Nat]
    /\ result \in [Ref -> {"none", "reply", "down", "timeout"}]
    /\ strays \subseteq Ref \X {"reply", "down"}

(* A call is what module Call promises: executed at most once and never by *)
(* a server that is gone, although the code of a killed server goes on;    *)
(* a reply is the reply to this request, and DOWN is never a false alarm.  *)
Promise ==
    INSTANCE Call WITH
        asked <- {r \in Ref : caller[r] # Nobody},
        executed <- handled,
        gone <- {r \in Ref : callee[r] # Nobody /\ life[callee[r]] = "down"},
        answer <- result

CallPromise == Promise!Spec

(* gen.start checks the name long before the child takes it: still only    *)
(* one server runs under the name, however starts and deaths interleave.   *)
OneServer ==
    \A s, t \in Server :
        /\ life[s] = "up" /\ code[s] # "pending"
        /\ life[t] = "up" /\ code[t] # "pending"
        => s = t

(* What stays behind in the caller's inbox, where a gen_server would take  *)
(* it for an info: a reply only after a timeout or after the DOWN of a     *)
(* server that was killed, a DOWN only after a timeout or a reply.         *)
StraysExplained ==
    /\ \A r \in Ref : <<r, "reply">> \in strays =>
            \/ result[r] = "timeout"
            \/ result[r] = "down" /\ callee[r] \in killed
    /\ \A r \in Ref : <<r, "down">> \in strays =>
            result[r] \in {"timeout", "reply"}

(* A start is always answered, also by a server that is killed while it    *)
(* initializes: without a timeout nothing else would end the wait.         *)
StartsAnswered == \A c \in Client : pc[c] = "starting" ~> pc[c] # "starting"

(* A call ends.  One without a timeout hangs only if its server keeps the  *)
(* call for later or died between monitor and the signal of it.            *)
CallsEnd ==
    \A r \in Ref :
        caller[r] # Nobody
            ~> (result[r] # "none" \/ r \in patient \cap (saved \cup late))
=============================================================================
