------------------------------ MODULE Network ------------------------------
(***************************************************************************)
(* Nodes that find each other over socket.io: the router tables of each    *)
(* node (Router), and transports/socket.io/src/index.js at both ends of    *)
(* every connection.                                                       *)
(*                                                                         *)
(* A connection is one life of a socket between a client and a server.     *)
(* Each of its two ends has a context of its own; signals to that context  *)
(* wait in its box, and what it emits is carried in order to the other end *)
(* until that end hears of the disconnect.                                 *)
(***************************************************************************)
EXTENDS Router

CONSTANTS
    Node,       \* names of the nodes
    Connection, \* <<client, server, n>>: the n-th life of that client's socket
    Scenarios,  \* what happens in a behaviour, see Scenario
    MaxScore,   \* bound: scores do not grow further; 2 tells a neighbour
                \* from a node behind it
    MaxHello    \* bound: how many ordinary messages are sent

ASSUME NetworkAssumption ==
    /\ Node \subseteq STRING /\ "none" \notin Node
    /\ Connection \subseteq Node \X Node \X Nat
    /\ MaxScore \in Nat /\ MaxScore > 1 /\ MaxHello \in Nat
    /\ Infinity \in Nat /\ Infinity > MaxScore

VARIABLES
    scenario,   \* the scenario of this behaviour
    tables,     \* the Maps of each node
    status,     \* of each end: off, on (context made), gone (disconnected)
    box,        \* signals on their way to an end's context
    wire,       \* events emitted by an end, not yet handled by the other
    hellos,     \* history: how many ordinary messages were sent
    arrived,    \* history: who got them
    told        \* history: <<n, m>>, the user of n was sent a nodedown for m

history == <<hellos, arrived, told>>
vars == <<scenario, tables, status, box, wire, history>>

(* The connections there are, the options of the transports of each node,  *)
(* whether connections break, whether a client may be back before its      *)
(* server has heard that the old connection is gone, and the nodes where a *)
(* process sends messages or monitors nodes.                               *)
Scenario ==
    [connections : SUBSET Connection, bridge : [Node -> BOOLEAN],
     type : [Node -> {"temporary", "permanent"}],
     cuts : BOOLEAN, overlap : BOOLEAN,
     senders : SUBSET Node, watchers : SUBSET Node]

End == Connection \X {"client", "server"}

ASSUME ScenariosAssumption ==
    /\ Scenarios \subseteq Scenario
    /\ NoPid \notin [node : Nat \cup Node, proc : End \cup {System, User}]

At(e) == IF e[2] = "client" THEN e[1][1] ELSE e[1][2]
Other(e) == <<e[1], IF e[2] = "client" THEN "server" ELSE "client">>

(* The same client and server had this connection before. *)
Before(c) == {d \in Connection : d[1] = c[1] /\ d[2] = c[2] /\ d[3] < c[3]}

Hello(src, dest, from) ==
    [kind |-> "hello", src |-> src, dest |-> dest, from |-> from]

Init ==
    /\ scenario \in Scenarios
    /\ tables = [n \in Node |-> NewTables(n)]
    /\ status = [e \in End |-> "off"]
    /\ box = [e \in End |-> <<>>]
    /\ wire = [e \in End |-> <<>>]
    /\ hellos = 0
    /\ arrived = {}
    /\ told = {}

-----------------------------------------------------------------------------
(* An operation of a node has left the tables t: what it delivered goes    *)
(* into the boxes of the transports that still forward, or to the user.    *)
Posted(t) ==
    [e \in End |->
        IF At(e) # t.name \/ status[e] # "on" THEN box[e] ELSE
        LET mine == Picked(t.out, {i \in DOMAIN t.out : t.out[i].to = Local(e)})
        IN  box[e] \o [i \in DOMAIN mine |-> mine[i].item]]

Notified(t) ==
    {<<t.name, d.item.name>> :
        d \in {x \in ToSet(t.out) : x.item.kind = "nodedown"}}

Performed(t) ==
    /\ tables' = [tables EXCEPT ![t.name] = [t EXCEPT !.out = <<>>]]
    /\ box' = Posted(t)
    /\ told' = told \cup Notified(t)

(* handleConnect: a new context, and our side of the greeting.  A socket   *)
(* is accepted before its client hears that it is connected, and a client  *)
(* has one connection at a time.                                           *)
Connect(e) ==
    /\ status[e] = "off" /\ e[1] \in scenario.connections
    /\ IF e[2] = "client" THEN status[Other(e)] # "off"
       ELSE \A d \in Before(e[1]) :
                /\ status[<<d, "client">>] = "gone"
                /\ scenario.overlap \/ status[<<d, "server">>] = "gone"
    /\ status' = [status EXCEPT ![e] = "on"]
    /\ wire' = [wire EXCEPT ![e] = Append(@,
           Discover("none", 0, At(e), scenario.type[At(e)], NoPid))]
    /\ UNCHANGED <<scenario, tables, box, history>>

(* handleDisconnect.  drain rejects the receive that recycle waits for, so *)
(* nothing is forwarded any more.                                          *)
Disconnect(e) ==
    /\ status[e] = "on"
    /\ status' = [status EXCEPT ![e] = "gone"]
    /\ LET t == UnregisterRouter(tables[At(e)], Local(e))
       IN  /\ tables' = [tables EXCEPT ![At(e)] = [t EXCEPT !.out = <<>>]]
           /\ box' = [Posted(t) EXCEPT ![e] = <<>>]
           /\ told' = told \cup Notified(t)
    /\ wire' = [wire EXCEPT ![Other(e)] = <<>>]
    /\ UNCHANGED <<scenario, hellos, arrived>>

(* The connection breaks, and an end is the first to hear of it. *)
Cut(e) ==
    /\ scenario.cuts
    /\ status[Other(e)] # "gone"
    /\ Disconnect(e)

(* The other end hears of it, or the connect was never completed. *)
Follow(e) ==
    /\ status[Other(e)] = "gone"
    /\ Disconnect(e)

(* recycle and forward: one signal becomes one event. *)
Forward(e) ==
    /\ status[e] = "on" /\ box[e] # <<>>
    /\ box' = [box EXCEPT ![e] = Tail(@)]
    /\ wire' = IF status[Other(e)] = "gone" THEN wire ELSE
               [wire EXCEPT ![e] = Append(@, ToWire(tables[At(e)], Head(box[e])))]
    /\ UNCHANGED <<scenario, tables, status, history>>

-----------------------------------------------------------------------------
(* The handlers of the socket's events. *)
Event(e, kind) ==
    /\ status[e] = "on"
    /\ wire[Other(e)] # <<>>
    /\ Head(wire[Other(e)]).kind = kind
    /\ wire' = [wire EXCEPT ![Other(e)] = Tail(@)]

Received(e) == Head(wire[Other(e)])
Hearing(e) == Heard(tables[At(e)], Received(e))

(* TRANSPORT_COST *)
Farther(score) == IF score < MaxScore THEN score + 1 ELSE MaxScore

SourceAsTold(n, source) == source

(* A node that announces itself is a neighbour of this one. *)
SourceNode(n, source) == IF source = "none" THEN n ELSE source

HandleDiscover(e) ==
    /\ Event(e, "discover")
    /\ LET n == At(e)
           d == FromWire(Hearing(e), Received(e))
           source == SourceNode(n, d.source)
           pid == IF d.pid = NoPid THEN Local(e) ELSE d.pid
       IN  Performed(RegisterRouter(Hearing(e), source, Farther(d.score), d.name,
                                    pid, scenario.bridge[n], d.type))
    /\ UNCHANGED <<scenario, status, hellos, arrived>>

HandleLost(e) ==
    /\ Event(e, "lost")
    /\ LET d == FromWire(Hearing(e), Received(e))
       IN  Performed(UnregisterRouter(Hearing(e), d.pid))
    /\ UNCHANGED <<scenario, status, hellos, arrived>>

(* A message for a process of this node, or of a node behind it. *)
HandleMessage(e) ==
    /\ Event(e, "relay")
    /\ LET n == At(e)
           r == FromWire(Hearing(e), Received(e))
           d == Delivery(Hearing(e), r.from, Head(r.to), Unwrapped(r))
       IN  /\ Performed([Hearing(e) EXCEPT !.out = <<d>>])
           /\ arrived' = IF d.to = Local(User)
                 THEN arrived \cup {[src |-> d.item.src, dest |-> d.item.dest,
                        at |-> n,
                        from |-> PidToWire(Hearing(e), d.item.from).node]}
                 ELSE arrived
    /\ UNCHANGED <<scenario, status, hellos>>

(* The user's process sends to a process whose pid it has once seen. *)
SendHello(n) ==
    /\ n \in scenario.senders /\ hellos < MaxHello
    /\ hellos' = hellos + 1
    /\ \E id \in 1..Len(tables[n].routersById) - 1 :
            LET t == tables[n]
                hello == Hello(n, RouterById(t, id).name, Local(User))
            IN  Performed([t EXCEPT
                    !.out = <<Delivery(t, Local(User), Pid(id, User), hello)>>])
    /\ UNCHANGED <<scenario, status, wire, arrived>>

Monitor(n) ==
    /\ n \in scenario.watchers
    /\ \E m \in Node \ {n} :
            /\ m \notin tables[n].monitors /\ <<n, m>> \notin told
            /\ Performed(MonitorNode(tables[n], m))
    /\ UNCHANGED <<scenario, status, wire, hellos, arrived>>

Handle(e) == HandleDiscover(e) \/ HandleLost(e) \/ HandleMessage(e)

Next ==
    \/ \E e \in End : Connect(e) \/ Cut(e) \/ Follow(e)
    \/ \E e \in End : Forward(e) \/ Handle(e)
    \/ \E n \in Node : SendHello(n) \/ Monitor(n)

Spec == Init /\ [][Next]_vars

-----------------------------------------------------------------------------
RouterRecords ==
    [id : Nat, source : Node \cup {"none"}, score : Nat, name : Node,
     pid : [node : Nat, proc : End \cup {System}] \cup {NoPid},
     type : {"temporary", "permanent", "none"}]

TypeOK ==
    /\ scenario \in Scenario
    /\ \A n \in Node :
        /\ tables[n].name = n
        /\ tables[n].routers \in Seq(RouterRecords)
        /\ tables[n].routersById \in Seq(RouterRecords)
        /\ \A i \in DOMAIN tables[n].routersById :
                LET router == tables[n].routersById[i]
                IN  router.id = i - 1 /\ (router.source = "none" <=> i = 1)
        /\ \A e \in tables[n].routersByPid :
                e.pid \in [node : Nat, proc : End \cup {System}]
                /\ e.router \in RouterRecords
        /\ \A i \in DOMAIN tables[n].bridges :
                tables[n].bridges[i].names \in Seq(Node)
        /\ tables[n].monitors \subseteq Node
        /\ tables[n].out = <<>>
    /\ status \in [End -> {"off", "on", "gone"}]
    /\ hellos \in 0..MaxHello
    /\ told \subseteq Node \X Node

Live(n, m) == Knows(tables[n], m) /\ RouterOf(tables[n], m).pid # NoPid

(* Nothing is on its way, and the two ends of every connection agree. *)
Quiet ==
    \A e \in End :
        /\ box[e] = <<>>
        /\ status[e] = "on" => status[Other(e)] = "on" /\ wire[Other(e)] = <<>>

Connected(n, m) ==
    \E e \in End : /\ At(e) = n /\ At(Other(e)) = m
                   /\ status[e] = "on" /\ status[Other(e)] = "on"

(* The router record of one node leads over contexts that are connected,   *)
(* the next node's included, to the node it names.                         *)
LeadsTo(n, router) ==
    LET e == router.pid.proc
    IN  /\ status[e] = "on" /\ status[Other(e)] = "on"
        /\ At(Other(e)) = router.name
        /\ At(e) = RouterById(tables[n], router.pid.node).name
        /\ At(e) # n => Live(n, At(e))

(* Once the network has settled, every id that a pid may carry either      *)
(* leads to the node it stands for or is known to have no connection: a    *)
(* disconnect takes away every route over the lost end, on all nodes, in   *)
(* all of the Maps.                                                        *)
RoutesLead ==
    Quiet => \A n \in Node : \A i \in DOMAIN tables[n].routersById :
        LET router == tables[n].routersById[i]
        IN  i > 1 /\ router.pid # NoPid => LeadsTo(n, router)

(* Signals to a name of a node and signals to a pid there take one way:    *)
(* routers and routersById never differ about a router in the list.        *)
RoutesAgree ==
    \A n \in Node : \A i \in DOMAIN tables[n].routers :
        LET router == tables[n].routers[i]
        IN  RouterById(tables[n], router.id) = router

(* README of the transport: on reconnect, registers a node again.  Nodes   *)
(* that are connected know each other, once the greetings are handled.     *)
NeighboursKnown ==
    Quiet => \A n, m \in Node : Connected(n, m) => Live(n, m)

(* Two nodes connected to one bridge know each other, whoever came first   *)
(* and however often one of them came back.                                *)
BridgedKnown ==
    Quiet => \A n, hub, m \in Node :
        n # m /\ scenario.bridge[hub] /\ Connected(n, hub) /\ Connected(hub, m)
            => Live(n, m)

(* A pid means the same process on every node it travels to: messages      *)
(* arrive on the node of their pid, and the sender's pid still names its   *)
(* node there, with the ids that each node gives out for itself.           *)
Addressed == \A a \in arrived : a.at = a.dest /\ a.from = a.src

(* An id stands for one node for ever: pids in the hands of processes are  *)
(* not redirected when nodes come and go.                                  *)
IdsKeepNames ==
    [][\A n \in Node : \A i \in DOMAIN tables[n].routersById :
         tables'[n].routersById[i].name = tables[n].routersById[i].name]_vars

(* Whoever monitors a node that can be reached is sent a nodedown in the   *)
(* same step that takes the route away, whether the node itself was lost,  *)
(* or the bridge before it.                                                *)
WatchersHear ==
    [][\A n, m \in Node :
         m \in tables[n].monitors /\ Live(n, m) /\ ~Live(n, m)'
            => <<n, m>> \in told']_vars

(* README of the transport: on disconnect, the remote node is deregistered *)
(* from the local node.  A discovery echoed by a bridge may be older.      *)
DisconnectedStaysAway ==
    \A n \in Node, e \in End :
        status[e] = "gone" /\ At(e) = n =>
            \A i \in DOMAIN tables[n].routers :
                tables[n].routers[i].pid # Local(e)

(* No route goes round in a circle: the score of a router is the number of *)
(* connections on its way.  A way is followed by the ids that each pid     *)
(* carries; the router of the next id is one connection nearer, until a    *)
(* context of the node itself is left, which has one connection to go.  A  *)
(* node that hears its own discovery echoed never takes the echo for a     *)
(* route, and never tells it on, as long as it has not lost the node that  *)
(* the echo is about (DisconnectedStaysAway).                              *)
NoCircles ==
    \A n \in Node : \A i \in DOMAIN tables[n].routersById :
        LET router == tables[n].routersById[i]
            next == RouterById(tables[n], router.pid.node)
        IN  i > 1 /\ router.pid # NoPid =>
                IF router.pid.node = 0
                THEN router.score = 1
                ELSE next.pid # NoPid /\ router.score = next.score + 1
=============================================================================
