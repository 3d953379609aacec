------------------------------- MODULE Router -------------------------------
(***************************************************************************)
(* The router tables of one node (packages/core/src/node.js) as operators  *)
(* on the record of its Maps.  A Map keeps the order of its insertions, so *)
(* routers and bridges are sequences; ids count up from 0 and are never    *)
(* deleted, so routersById is a sequence too.  Messages that an operation  *)
(* delivers are collected in the field out, in the order of the calls.     *)
(*                                                                         *)
(* A pid [node |-> i, proc |-> x] means process x of the node that has the *)
(* id i here, 0 being this node.  On the wire a pid carries a name instead *)
(* of the id (serializers/json).                                           *)
(***************************************************************************)
EXTENDS Integers, SequencesExt

CONSTANTS
    NoPid,      \* null where a pid is expected
    Infinity    \* the score of a node known by name only
(* The two other processes of a node that matter here. *)
System == <<"system">>
User == <<"user">>

Pid(i, x) == [node |-> i, proc |-> x]
Local(x) == Pid(0, x)

Discover(source, score, name, type, pid) ==
    [kind |-> "discover", source |-> source, score |-> score, name |-> name,
     type |-> type, pid |-> pid]
Lost(pid) == [kind |-> "lost", pid |-> pid]
Nodedown(name) == [kind |-> "nodedown", name |-> name]

(* A message in a relay in a relay: who sent it, which is the same in all  *)
(* of them, the pids that it is relayed to, from the outermost relay to    *)
(* the innermost, and the message.                                         *)
Relay(from, to, body) ==
    [kind |-> "relay", from |-> from, to |-> to, body |-> body]

Relayed(from, pid, item) ==
    IF item.kind = "relay" THEN Relay(from, <<pid>> \o item.to, item.body)
                           ELSE Relay(from, <<pid>>, item)

Unwrapped(relay) ==
    IF Len(relay.to) = 1 THEN relay.body
                         ELSE Relay(relay.from, Tail(relay.to), relay.body)

(* The elements of a sequence at these indices, in their order. *)
Picked(s, indices) ==
    LET picked[i \in 0..Len(s)] ==
            IF i = 0 THEN <<>>
            ELSE IF i \in indices THEN Append(picked[i - 1], s[i])
                 ELSE picked[i - 1]
    IN  picked[Len(s)]

RouterRecord(id, source, score, name, pid, type) ==
    [id |-> id, source |-> source, score |-> score, name |-> name,
     pid |-> pid, type |-> type]

(* The constructor of Node; the node is its own router, with id 0. *)
NewTables(name) ==
    LET self == RouterRecord(0, "none", 0, name, Local(System), "none")
    IN  [name |-> name, routers |-> <<self>>, routersById |-> <<self>>,
         routersByPid |-> {[pid |-> self.pid, router |-> self]},
         bridges |-> <<>>, monitors |-> {}, out |-> <<>>]

Knows(t, name) == \E i \in DOMAIN t.routers : t.routers[i].name = name

RouterOf(t, name) ==
    t.routers[CHOOSE i \in DOMAIN t.routers : t.routers[i].name = name]

RouterById(t, id) == t.routersById[id + 1]

(* routers.set(router.name, router) *)
PutRouter(routers, router) ==
    IF \E i \in DOMAIN routers : routers[i].name = router.name
    THEN [i \in DOMAIN routers |->
            IF routers[i].name = router.name THEN router ELSE routers[i]]
    ELSE Append(routers, router)

Without(routers, names) ==
    Picked(routers, {i \in DOMAIN routers : routers[i].name \notin names})

(* routersByPid.set(pid, router) *)
PutPid(byPid, pid, router) ==
    {e \in byPid : e.pid # pid} \cup {[pid |-> pid, router |-> router]}

(* signalRemote: one step on the way to a pid of another node. *)
Hop(t, from, d) ==
    IF d.to = NoPid \/ d.to.node = 0 THEN d
    ELSE [to |-> RouterById(t, d.to.node).pid,
          item |-> Relayed(from, d.to, d.item)]

(* signal to a pid: the local process that gets the item, wrapped for each *)
(* router on the way; NoPid without a connection.  After as many hops as   *)
(* there are routers the way is a circle, where the code overflows its     *)
(* stack and signal returns an error.                                      *)
Delivery(t, from, pid, item) ==
    LET hops == Len(t.routersById)
        way[k \in 0..hops] == IF k = 0 THEN [to |-> pid, item |-> item]
                                       ELSE Hop(t, from, way[k - 1])
        last == way[hops]
    IN  IF last.to # NoPid /\ last.to.node = 0 THEN last
                                              ELSE [to |-> NoPid, item |-> item]

-----------------------------------------------------------------------------
(* _discover and _lost: what a notice says of another name and pid. *)
Said(notice, name, pid) ==
    IF notice.kind = "lost" THEN Lost(pid)
    ELSE [notice EXCEPT !.name = name, !.pid = pid]

DeliveriesToBridges(t, notice) ==
    [i \in DOMAIN t.bridges |->
        Delivery(t, Local(System), t.bridges[i].pid, notice)]

(* updatePeers: every bridge is told of the router, and the router's pid   *)
(* of every name behind every bridge, with the score of the new router.    *)
Deliveries(t, notice) ==
    FlattenSeq([i \in DOMAIN t.bridges |->
        LET b == t.bridges[i]
        IN  <<Delivery(t, Local(System), b.pid, notice)>> \o
            [j \in DOMAIN b.names |->
                Delivery(t, Local(System), notice.pid,
                         Said(notice, b.names[j], b.pid))]])

SaveBridge(bridges, name, pid) ==
    IF \E i \in DOMAIN bridges : bridges[i].pid = pid
    THEN [i \in DOMAIN bridges |->
            IF bridges[i].pid = pid /\ name \notin ToSet(bridges[i].names)
            THEN [bridges[i] EXCEPT !.names = Append(@, name)]
            ELSE bridges[i]]
    ELSE Append(bridges, [pid |-> pid, names |-> <<name>>])

(* The new router becomes a bridge. *)
Bridged(t, router, bridge) ==
    IF ~bridge THEN t ELSE
    [t EXCEPT
        !.out = @ \o Deliveries(t, Discover(router.source, router.score,
                                    router.name, router.type, router.pid)),
        !.bridges = SaveBridge(@, router.name, router.pid)]

(* The router takes over its name and its id. *)
Installed(t, router) ==
    [t EXCEPT !.routers = PutRouter(@, router),
              !.routersById =
                  IF router.id < Len(@) THEN [@ EXCEPT ![router.id + 1] = router]
                                        ELSE Append(@, router),
              !.routersByPid =
                  IF router.pid = NoPid THEN @
                                        ELSE PutPid(@, router.pid, router)]

BetterAlways(old, score, pid) == TRUE

BetterThanTheDead(old, score, pid) == pid # old.pid /\ score < old.score

(* No echo of the current router, and better connectivity, unless the last *)
(* router died.                                                            *)
Better(old, score, pid) ==
    old.pid = NoPid \/ (pid # old.pid /\ score < old.score)

(* An id is taken for ever, also when its router is gone. *)
NextIdReused(t) == Len(t.routers)

NextId(t) == Len(t.routersById)

RegisterRouter(t, source, score, name, pid, bridge, type) ==
    LET id == IF Knows(t, name) THEN RouterOf(t, name).id ELSE NextId(t)
        router == RouterRecord(id, source, score, name, pid, type)
    IN  IF Knows(t, name) /\ ~Better(RouterOf(t, name), score, pid)
        THEN t
        ELSE Bridged(Installed(t, router), router, bridge /\ pid # NoPid)

-----------------------------------------------------------------------------
(* The names behind a bridge go away with it, from routers only. *)
BridgeDropped(t, pid) ==
    LET gone == {i \in DOMAIN t.bridges : t.bridges[i].pid = pid}
    IN  [t EXCEPT
            !.bridges = Picked(@, DOMAIN @ \ gone),
            !.routers = Without(@, UNION {ToSet(t.bridges[i].names) : i \in gone})]

(* The watchers of the name are told, and forgotten. *)
WatchersForgotten(t, name) == [t EXCEPT !.monitors = @ \ {name}]

WatchersTold(t, name) ==
    IF name \in t.monitors
    THEN [t EXCEPT
            !.monitors = @ \ {name},
            !.out = Append(@, [to |-> Local(User), item |-> Nodedown(name)])]
    ELSE t

UninstalledFromList(t, router, pid) ==
    [t EXCEPT
        !.routers = IF router.type = "permanent"
                    THEN PutRouter(@, [router EXCEPT !.pid = NoPid])
                    ELSE Without(@, {router.name}),
        !.routersByPid = {e \in @ : e.pid # pid}]

(* A permanent node stays in the list without a pid. *)
Uninstalled(t, router, pid) ==
    LET gone == [router EXCEPT !.pid = NoPid]
    IN  [t EXCEPT
            !.routers = IF router.type = "permanent"
                        THEN PutRouter(@, gone)
                        ELSE Without(@, {router.name}),
            !.routersById = [@ EXCEPT ![router.id + 1] = gone],
            !.routersByPid = {e \in @ : e.pid # pid}]

(* unregisterRouter calls itself for the routers that lead through the     *)
(* lost node, and goes on when that call returns.  What is left to do is a *)
(* sequence: calls, visits of a router in the loop, and peers to tell.     *)
Call(pid) == [does |-> "call", pid |-> pid]
Visit(name, source) == [does |-> "visit", name |-> name, source |-> source]
Tell(pid) == [does |-> "tell", pid |-> pid]

DependentsKept(t, source) == <<>>

(* The loop over the routers, in the order of the Map. *)
DependentsLost(t, source) ==
    [i \in DOMAIN t.routers |-> Visit(t.routers[i].name, source)]

PeersToldLost(t, pid) ==
    [t EXCEPT !.out = @ \o Deliveries(t, Lost(pid))]

Called(t, pid, rest) ==
    LET u == BridgeDropped(t, pid)
    IN  IF \A e \in u.routersByPid : e.pid # pid
        THEN [tables |-> u, todo |-> rest]
        ELSE LET router == (CHOOSE e \in u.routersByPid : e.pid = pid).router
                 removed == Uninstalled(WatchersTold(u, router.name), router, pid)
             IN  [tables |-> removed,
                  todo |-> DependentsLost(removed, router.name) \o
                               <<Tell(pid)>> \o rest]

(* A router is unregistered if it leads through the source. *)
Visited(t, name, source, rest) ==
    [tables |-> t,
     todo |-> IF Knows(t, name) /\ RouterOf(t, name).source = source
                    /\ RouterOf(t, name).pid # NoPid
              THEN <<Call(RouterOf(t, name).pid)>> \o rest
              ELSE rest]

Unregistering(u) ==
    IF u.todo = <<>> THEN u ELSE
    LET now == Head(u.todo)
        rest == Tail(u.todo)
    IN  CASE now.does = "call" -> Called(u.tables, now.pid, rest)
          [] now.does = "visit" -> Visited(u.tables, now.name, now.source, rest)
          [] OTHER -> [tables |-> PeersToldLost(u.tables, now.pid), todo |-> rest]

(* A call that finds the pid takes it away, adds a router at most, visits  *)
(* every router and tells the peers; a visit is one call at most.          *)
StepsToUnregister(t) ==
    LET pids == Cardinality(t.routersByPid)
    IN  1 + pids * (2 * (Len(t.routers) + pids) + 1)

Unregistered(t, pid) ==
    LET steps == StepsToUnregister(t)
        run[k \in 0..steps] ==
            IF k = 0 THEN [tables |-> t, todo |-> <<Call(pid)>>]
                     ELSE Unregistering(run[k - 1])
    IN  run[steps]

UnregisterRouter(t, pid) == Unregistered(t, pid).tables

(* monitorNode of the user's process. *)
MonitorNode(t, name) ==
    IF Knows(t, name)
    THEN [t EXCEPT !.monitors = @ \cup {name}]
    ELSE [t EXCEPT
            !.out = Append(@, [to |-> Local(User), item |-> Nodedown(name)])]

-----------------------------------------------------------------------------
(* getRouterId: a name that was never heard of becomes a router without a  *)
(* pid.                                                                    *)
Acquainted(t, name) ==
    IF Knows(t, name) THEN t
    ELSE RegisterRouter(t, t.name, Infinity, name, NoPid, FALSE, "temporary")

-----------------------------------------------------------------------------
(* Serializing: ids become names, with getRouterName. *)
PidToWire(t, pid) == [pid EXCEPT !.node = RouterById(t, @).name]

ToWire(t, item) ==
    LET Named(body) == IF body.kind = "hello"
                       THEN [body EXCEPT !.from = PidToWire(t, @)]
                       ELSE [body EXCEPT !.pid = PidToWire(t, @)]
    IN  IF item.kind = "relay"
        THEN Relay(PidToWire(t, item.from),
                   [i \in DOMAIN item.to |-> PidToWire(t, item.to[i])],
                   Named(item.body))
        ELSE Named(item)

(* The names in an item, in the order in which it is read. *)
NamesInBody(body) ==
    IF body.kind = "hello" THEN <<body.from.node>>
    ELSE IF body.pid = NoPid THEN <<>> ELSE <<body.pid.node>>

NamesIn(item) ==
    IF item.kind = "relay"
    THEN <<item.from.node>> \o [i \in DOMAIN item.to |-> item.to[i].node]
             \o NamesInBody(item.body)
    ELSE NamesInBody(item)

(* Deserializing: names become ids, new ones where they have to. *)
Heard(t, item) ==
    LET names == NamesIn(item)
        heard[i \in 0..Len(names)] == IF i = 0 THEN t
                                      ELSE Acquainted(heard[i - 1], names[i])
    IN  heard[Len(names)]

PidFromWireAsLocal(t, pid) == [pid EXCEPT !.node = 0]

(* t has heard of the name. *)
PidFromWire(t, pid) == [pid EXCEPT !.node = RouterOf(t, @).id]

FromWire(t, item) ==
    LET Numbered(body) == IF body.kind = "hello"
                          THEN [body EXCEPT !.from = PidFromWire(t, @)]
                          ELSE IF body.pid = NoPid THEN body
                          ELSE [body EXCEPT !.pid = PidFromWire(t, @)]
    IN  IF item.kind = "relay"
        THEN Relay(PidFromWire(t, item.from),
                   [i \in DOMAIN item.to |-> PidFromWire(t, item.to[i])],
                   Numbered(item.body))
        ELSE Numbered(item)
=============================================================================
