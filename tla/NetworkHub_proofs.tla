------------------------- MODULE NetworkHub_proofs -------------------------
(* The routes of a network around one server, for any number of clients    *)
(* and of connections of each, whether the server bridges or not: every    *)
(* route leads where it says, neighbours know each other, the clients of a *)
(* bridge know each other, and no route goes in a circle: scores count the *)
(* connections on a way, so that every way ends.                           *)
(*                                                                         *)
(* The invariant is HubInv, and needs Inv of Network_proofs.  Lifetimes    *)
(* says which ends can be on together.  Routes describes the tables: the   *)
(* server has routers over its own connections only, a client one over     *)
(* its own and the others through it, and the Maps agree about them        *)
(* (Settled).  Items says which news can be on its way, Handshake that a   *)
(* greeting comes first and a router comes of it.  Streams relates a       *)
(* client to its server: what the client knows, changed by the news in     *)
(* the wire and the box on their way to it, one after the other, is what   *)
(* the server would tell it now.                                           *)
(*                                                                         *)
(* An operation of a node is described first by what it does to the        *)
(* routers in use (Registering, Unlisted); the lemmas Leaf... and Hub...   *)
(* show that it keeps HubInv when a client or the server performs it.      *)
EXTENDS Network_proofs

-----------------------------------------------------------------------------
(* Routers in use.                                                         *)

(* The routers of other nodes that have a pid. *)
Lively(t) == {r \in ToSet(t.routers) : r.pid # NoPid /\ r.name # t.name}

(* The Maps agree about them: no id leads past the list, and the pids are  *)
(* those of the routers.                                                   *)
Entry(r) == [pid |-> r.pid, router |-> r]
Tidy(t) ==
    /\ \A i \in 2..Len(t.routersById) :
          t.routersById[i].pid # NoPid => t.routersById[i] \in Lively(t)
    /\ t.routersByPid = {Entry(r) : r \in Lively(t) \cup {Self(t.name)}}

(* A node that bridges tells all of them, one name for a pid, and a node   *)
(* that does not bridge tells nobody.                                      *)
BridgeTo(r) == [pid |-> r.pid, names |-> <<r.name>>]
Bridging(t, yes) ==
    /\ \A b \in ToSet(t.bridges) : \E r \in Lively(t) : b = BridgeTo(r)
    /\ yes => \A r \in Lively(t) : \E b \in ToSet(t.bridges) : b.pid = r.pid
    /\ ~yes => t.bridges = <<>>

Settled(t, yes) == Tidy(t) /\ Bridging(t, yes)

(* What fits says of the routers in use. *)
LEMMA LivelyFits ==
    ASSUME NEW t, TablesFit(t)
    PROVE  /\ \A r \in Lively(t) :
                 /\ r \in RouterRecords /\ r \in ToSet(t.routers) /\ r.name # t.name
                 /\ r.pid \in ContextPid(Ids(t)) /\ r.pid # NoPid
                 /\ r.name = Towards(r.pid.proc) /\ r.name \in Node
                 /\ r.pid.proc \in End /\ r.pid # Local(System)
                 /\ r.id \in Ids(t) /\ r.id # 0 /\ t.routersById[r.id + 1] = r
           /\ \A r, q \in Lively(t) : r.name = q.name \/ r.pid = q.pid => r = q
           /\ Self(t.name).name = t.name /\ Self(t.name).pid = Local(System)
           /\ Self(t.name).source = "none" /\ Self(t.name).score = 0
           /\ Self(t.name).id = 0
<1>1. /\ Self(t.name).name = t.name /\ Self(t.name).pid = Local(System)
      /\ Self(t.name).source = "none" /\ Self(t.name).score = 0
      /\ Self(t.name).id = 0
  BY DEF Self, RouterRecord
<1>2. /\ ListFits(t) /\ ByIdFits(t) /\ t.name \in Node
      /\ \A id \in Ids(t) : id + 1 \in 1..Len(t.routersById)
      /\ Ids(t) \subseteq Nat
  BY IdsOf DEF TablesFit
<1>3. ASSUME NEW r \in Lively(t)
      PROVE  /\ r \in RouterRecords /\ r \in ToSet(t.routers) /\ r.name # t.name
             /\ r.pid \in ContextPid(Ids(t)) /\ r.pid # NoPid
             /\ r.name = Towards(r.pid.proc) /\ r.name \in Node
             /\ r.pid.proc \in End /\ r.pid # Local(System)
             /\ r.id \in Ids(t) /\ r.id # 0 /\ t.routersById[r.id + 1] = r
  <2>1. r \in ToSet(t.routers) /\ r.pid # NoPid /\ r.name # t.name
    BY DEF Lively
  <2>2. r.id \in Ids(t) /\ t.routersById[r.id + 1] = r
    BY <1>2, <2>1 DEF ListFits
  <2>3. r.id # 0
    <3>1. t.routersById[1] = Self(t.name)
      BY <1>2 DEF ByIdFits
    <3>2. ASSUME r.id = 0 PROVE FALSE
      <4>1. t.routersById[0 + 1] = r
        BY <2>2, <3>2
      <4>2. r = Self(t.name)
        BY <3>1, <4>1
      <4>. QED
        BY <1>1, <2>1, <4>2
    <3>. QED
      BY <3>2
  <2>4. r.id + 1 \in 1..Len(t.routersById) /\ r.id + 1 > 1
    BY <1>2, <2>2, <2>3
  <2>5. RouterFits(t, r)
    BY <1>2, <2>2, <2>4 DEF ByIdFits
  <2>6. r.pid \in ContextPid(Ids(t)) /\ r.pid.proc \in End
    BY <2>1, <2>5 DEF RouterFits, ContextPid
  <2>7. r.pid # Local(System)
    BY <2>6, Ends DEF Local, Pid
  <2>. QED
    BY <2>1, <2>2, <2>3, <2>5, <2>6, <2>7 DEF RouterFits, RouterRecords
<1>4. ASSUME NEW r \in Lively(t), NEW q \in Lively(t),
             r.name = q.name \/ r.pid = q.pid
      PROVE  r = q
  BY <1>2, <1>3, <1>4 DEF ListFits
<1>. QED
  BY <1>1, <1>3, <1>4

(* A router of a name that was not in use is in use, if it has a pid.      *)
LEMMA InstalledTidy ==
    ASSUME NEW t, TablesFit(t), Tidy(t), NEW r, Installable(t, r),
           \A q \in Lively(t) : q.name # r.name,
           NEW u, u = Installed(t, r)
    PROVE  /\ Tidy(u) /\ u.name = t.name /\ u.bridges = t.bridges /\ u.out = t.out
           /\ Lively(u) = Lively(t) \cup (IF r.pid = NoPid THEN {} ELSE {r})
<1>1. /\ u.name = t.name
      /\ u.routersByPid = IF r.pid = NoPid THEN t.routersByPid
                          ELSE PutPid(t.routersByPid, r.pid, r)
      /\ u.bridges = t.bridges /\ u.out = t.out
  BY DEF Installed, TablesFit, IsTables
<1>2. /\ r.name # t.name
      /\ r.pid # NoPid => r.pid \in ContextPid(Ids(t)) /\ r.name = Towards(r.pid.proc)
  BY DEF Installable
<1>3. /\ r.id # 0 /\ r.id \in Nat /\ r.id + 1 \in 1..Len(u.routersById)
      /\ \A i \in 1..Len(u.routersById) :
            IF i = r.id + 1 THEN u.routersById[i] = r
            ELSE i \in 1..Len(t.routersById) /\ u.routersById[i] = t.routersById[i]
  BY InstalledById
<1>4. ToSet(u.routers) = {q \in ToSet(t.routers) : q.name # r.name} \cup {r}
  BY InstalledFits
<1>5. Lively(u) = Lively(t) \cup (IF r.pid = NoPid THEN {} ELSE {r})
  BY <1>1, <1>2, <1>4 DEF Lively
<1>6. ASSUME NEW i \in 2..Len(u.routersById), u.routersById[i].pid # NoPid
      PROVE  u.routersById[i] \in Lively(u)
  <2>1. CASE i = r.id + 1
    BY <1>3, <1>5, <1>6, <2>1
  <2>2. CASE i # r.id + 1
    <3>1. i \in 2..Len(t.routersById) /\ u.routersById[i] = t.routersById[i]
      BY <1>3, <2>2
    <3>. QED
      BY <1>5, <1>6, <3>1 DEF Tidy
  <2>. QED
    BY <2>1, <2>2
<1>7. u.routersByPid = {Entry(q) : q \in Lively(u) \cup {Self(u.name)}}
  <2>1. CASE r.pid = NoPid
    BY <1>1, <1>5, <2>1 DEF Tidy
  <2>2. CASE r.pid # NoPid
    <3>1. \A q \in Lively(t) \cup {Self(t.name)} : q.pid # r.pid
      <4>1. \A q \in Lively(t) : q.pid # r.pid
        BY <1>2, <2>2, LivelyFits
      <4>2. Self(t.name).pid # r.pid
        BY <1>2, <2>2, LivelyFits, Ends DEF ContextPid, Local, Pid
      <4>. QED
        BY <4>1, <4>2
    <3>2. u.routersByPid = {e \in t.routersByPid : e.pid # r.pid} \cup {Entry(r)}
      BY <1>1, <2>2 DEF PutPid, Entry
    <3>3. t.routersByPid = {Entry(q) : q \in Lively(t) \cup {Self(t.name)}}
      BY DEF Tidy
    <3>4. \A q : Entry(q).pid = q.pid
      BY DEF Entry
    <3>5. {e \in t.routersByPid : e.pid # r.pid} = t.routersByPid
      BY <3>1, <3>3, <3>4
    <3>. QED
      BY <1>1, <1>5, <2>2, <3>2, <3>3, <3>5
  <2>. QED
    BY <2>1, <2>2
<1>. QED
  BY <1>1, <1>5, <1>6, <1>7 DEF Tidy

(* A name that is heard of for the first time is not in use.               *)
LEMMA AcquaintedTidy ==
    ASSUME NEW t, TablesFit(t), Tidy(t), NEW name \in Node,
           NEW u, u = Acquainted(t, name)
    PROVE  /\ Tidy(u) /\ Lively(u) = Lively(t)
           /\ u.name = t.name /\ u.bridges = t.bridges /\ u.out = t.out
<1>1. CASE Knows(t, name)
  BY <1>1 DEF Acquainted
<1>2. CASE ~Knows(t, name)
  <2>1. PICK r : r = RouterRecord(Len(t.routersById), t.name, Infinity, name,
                                  NoPid, "temporary")
    OBVIOUS
  <2>2. u = Bridged(Installed(t, r), r, FALSE /\ NoPid # NoPid)
    BY <1>2, <2>1 DEF Acquainted, RegisterRouter, NextId
  <2>3. u = Installed(t, r)
    BY <2>2 DEF Bridged
  <2>4. /\ r.id = Len(t.routersById) /\ r.source = t.name /\ r.name = name
        /\ r.pid = NoPid /\ r.score = Infinity /\ r.type = "temporary"
        /\ r \in RouterRecords
    <3>1. Infinity \in Nat /\ t.name \in Node
      BY NetworkAssumption DEF TablesFit
    <3>2. Len(t.routersById) \in Nat
      BY <3>1, IdsOf DEF TablesFit
    <3>. QED
      BY <2>1, <3>1, <3>2 DEF RouterRecord, RouterRecords
  <2>5. ListFits(t) /\ t.name \in Node
    BY DEF TablesFit
  <2>6. \A q \in ToSet(t.routers) : q.name # name
    BY <1>2, <2>5, KnowsName
  <2>7. name # t.name
    BY <2>5, <2>6, LivelyFits DEF ListFits
  <2>8. Installable(t, r)
    BY <2>4, <2>5, <2>6, <2>7 DEF Installable
  <2>9. \A q \in Lively(t) : q.name # r.name
    BY <2>4, <2>6 DEF Lively
  <2>10. /\ Tidy(u) /\ u.name = t.name /\ u.bridges = t.bridges /\ u.out = t.out
         /\ Lively(u) = Lively(t) \cup (IF r.pid = NoPid THEN {} ELSE {r})
    BY <2>3, <2>8, <2>9, InstalledTidy
  <2>. QED
    BY <2>4, <2>10
<1>. QED
  BY <1>1, <1>2

(* u has the routers in use and the bridges of t. *)
Same(t, u) ==
    /\ u.name = t.name /\ Lively(u) = Lively(t) /\ u.bridges = t.bridges
    /\ Tidy(t) => Tidy(u)

(* Reading an event brings no router in use. *)
LEMMA HeardSame ==
    ASSUME NEW t, TablesFit(t), Tidy(t), NEW x, NamesIn(x) \in Seq(Node),
           NEW u, u = Heard(t, x)
    PROVE  Same(t, u) /\ Tidy(u)
<1> DEFINE n == Len(NamesIn(x))
<1>1. n \in Nat /\ \A i \in 1..n : NamesIn(x)[i] \in Node
  BY Elements
<1>2. PICK f : /\ f[0] = t
               /\ \A k \in 1..n : f[k] = Acquainted(f[k - 1], NamesIn(x)[k])
               /\ Heard(t, x) = f[n]
  BY <1>1, Hears
<1> DEFINE Right(v) == TablesFit(v) /\ Same(t, v) /\ Tidy(v)
           T == {k \in 0..n : ~Right(f[k])}
<1>3. T = {}
  <2>1. SUFFICES ASSUME T # {} PROVE FALSE
    OBVIOUS
  <2>2. PICK k \in T : \A y \in T : k <= y
    <3>1. T \subseteq Nat
      BY <1>1
    <3>. QED
      BY <2>1, <3>1, Least
  <2>3. k # 0
    <3>1. Right(f[0])
      BY <1>2 DEF Same
    <3> HIDE DEF Right
    <3>. QED
      BY <2>2, <3>1
  <2>4. k \in 1..n /\ k - 1 \in 0..n /\ k - 1 \notin T
    <3> HIDE DEF Right
    <3>1. k \in 1..n
      BY <1>1, <2>3
    <3>2. k - 1 \in 0..n
      BY <1>1, <3>1
    <3> HIDE DEF T
    <3>. QED
      BY <1>1, <2>2, <3>1, <3>2
  <2>5. PICK v : v = f[k - 1]
    OBVIOUS
  <2>6. Right(v)
    <3> HIDE DEF Right
    <3>. QED
      BY <2>4, <2>5
  <2>7. PICK w, name : name = NamesIn(x)[k] /\ w = Acquainted(v, name)
    OBVIOUS
  <2>8. name \in Node /\ f[k] = w
    BY <1>1, <1>2, <2>4, <2>5, <2>7
  <2>9. /\ TablesFit(w) /\ Tidy(w) /\ Lively(w) = Lively(v)
        /\ w.name = v.name /\ w.bridges = v.bridges
    <3>1. TablesFit(v) /\ Tidy(v)
      BY <2>6
    <3>2. TablesFit(w)
      BY <2>7, <2>8, <3>1, AcquaintedFits
    <3>3. Tidy(w) /\ Lively(w) = Lively(v) /\ w.name = v.name /\ w.bridges = v.bridges
      BY <2>7, <2>8, <3>1, AcquaintedTidy
    <3>. QED
      BY <3>2, <3>3
  <2>11. Right(w)
    BY <2>6, <2>9 DEF Same
  <2> HIDE DEF Right
  <2>. QED
    BY <2>2, <2>8, <2>11
<1>4. Right(f[n])
  <2>1. n \in 0..n
    BY <1>1
  <2> HIDE DEF Right
  <2>. QED
    BY <1>3, <2>1
<1>. QED
  BY <1>2, <1>4

(* u is t, where a router of this name is in use, or t with a new one. *)
Registering(t, u, source, score, name, pid, type, yes) ==
    \/ u = t /\ \E r \in Lively(t) : r.name = name
    \/ \E r, v :
          /\ r.name = name /\ r.pid = pid /\ r.source = source
          /\ r.score = score
          /\ \A q \in Lively(t) : q.name # name
          /\ Lively(u) = Lively(t) \cup {r} /\ u.name = t.name
          /\ Settled(u, yes)
          /\ ~yes => u.out = t.out
          /\ TablesFit(v) /\ v.bridges = t.bridges
          /\ yes => /\ u.out = t.out \o Deliveries(v,
                             Discover(source, score, name, type, pid))
                    /\ ToSet(u.bridges) = ToSet(t.bridges) \cup {BridgeTo(r)}

(* Registering a router of a name in use changes nothing if it is as far;  *)
(* of another name, it brings the router in use, and the bridges are told. *)
LEMMA Registered ==
    ASSUME NEW t, TablesFit(t), NEW yes \in BOOLEAN, Settled(t, yes),
           NEW source \in Node, NEW score \in Nat, NEW name \in Node,
           NEW pid \in ContextPid(Ids(t)), NEW type \in Types,
           name = Towards(pid.proc), name # t.name,
           \A r \in Lively(t) : r.name = name => r.score = score,
           NEW u, u = RegisterRouter(t, source, score, name, pid, yes, type)
    PROVE  Registering(t, u, source, score, name, pid, type, yes)
<1>1. PICK id : id = IF Knows(t, name) THEN RouterOf(t, name).id ELSE NextId(t)
  OBVIOUS
<1>2. PICK r : r = RouterRecord(id, source, score, name, pid, type)
  OBVIOUS
<1>3. u = IF Knows(t, name) /\ ~Better(RouterOf(t, name), score, pid) THEN t
          ELSE Bridged(Installed(t, r), r, yes /\ pid # NoPid)
  BY <1>1, <1>2 DEF RegisterRouter
<1>4. /\ ListFits(t) /\ ByIdFits(t) /\ t.name \in Node
      /\ Len(t.routersById) \in Nat /\ Ids(t) \subseteq Nat
  BY IdsOf DEF TablesFit
<1>5. pid # NoPid /\ pid.proc \in End
  <2>1. pid \in ContextPid(Nat)
    BY <1>4 DEF ContextPid
  <2>. QED
    BY <2>1, NoPids DEF ContextPid
<1>6. ASSUME NEW q \in Lively(t), q.name = name
      PROVE  u = t
  <2>1. q \in ToSet(t.routers) /\ q.pid # NoPid /\ q.score = score
    BY <1>6 DEF Lively
  <2>2. Knows(t, name)
    BY <1>4, <1>6, <2>1, KnowsName
  <2>3. RouterOf(t, name) = q
    BY <1>4, <1>6, <2>1, <2>2, KnownRouter, SMTT(30) DEF ListFits
  <2>4. score \in Nat /\ ~(score < score)
    OBVIOUS
  <2>5. ~Better(RouterOf(t, name), score, pid)
    BY <2>1, <2>3, <2>4 DEF Better
  <2>. QED
    BY <1>3, <2>2, <2>5
<1>7. ASSUME \A q \in Lively(t) : q.name # name
      PROVE  \E v :
                 /\ r.name = name /\ r.pid = pid /\ r.source = source
                 /\ r.score = score
                 /\ Lively(u) = Lively(t) \cup {r} /\ u.name = t.name
                 /\ Settled(u, yes)
                 /\ ~yes => u.out = t.out
                 /\ TablesFit(v) /\ v.bridges = t.bridges
                 /\ yes => /\ u.out = t.out \o Deliveries(v,
                                    Discover(source, score, name, type, pid))
                           /\ ToSet(u.bridges) = ToSet(t.bridges) \cup {BridgeTo(r)}
  <2>1. id \in Nat
    BY <1>1, <1>4, KnownRouter DEF NextId
  <2>2. pid \in [node : Nat, proc : End \cup {System}]
    BY <1>4 DEF ContextPid
  <2>3. /\ r.id = id /\ r.source = source /\ r.score = score /\ r.name = name
        /\ r.pid = pid /\ r.type = type /\ r \in RouterRecords
    BY <1>2, <2>1, <2>2 DEF RouterRecord, RouterRecords, Types
  <2>4. Knows(t, name) => /\ RouterOf(t, name) \in ToSet(t.routers)
                          /\ RouterOf(t, name).name = name
                          /\ RouterOf(t, name).pid = NoPid
    BY <1>4, <1>7, KnownRouter DEF Lively
  <2>5. u = Bridged(Installed(t, r), r, yes /\ pid # NoPid)
    BY <1>3, <2>4 DEF Better
  <2>6. Installable(t, r)
    <3>1. CASE Knows(t, name)
      <4>1. /\ RouterOf(t, name) \in ToSet(t.routers)
            /\ RouterOf(t, name).name = name /\ RouterOf(t, name).id = id
        BY <1>1, <2>4, <3>1
      <4>. QED
        BY <1>5, <2>3, <4>1 DEF Installable
    <3>2. CASE ~Knows(t, name)
      <4>1. id = Len(t.routersById)
        BY <1>1, <3>2 DEF NextId
      <4>2. \A q \in ToSet(t.routers) : q.name # name
        BY <1>4, <3>2, KnowsName
      <4>. QED
        BY <2>3, <4>1, <4>2 DEF Installable
    <3>. QED
      BY <3>1, <3>2
  <2>7. PICK v : v = Installed(t, r)
    OBVIOUS
  <2>8. /\ Tidy(v) /\ v.name = t.name /\ v.bridges = t.bridges /\ v.out = t.out
        /\ Lively(v) = Lively(t) \cup (IF r.pid = NoPid THEN {} ELSE {r})
    BY <1>7, <2>3, <2>6, <2>7, InstalledTidy DEF Settled
  <2>9. Lively(v) = Lively(t) \cup {r} /\ TablesFit(v) /\ IsTables(v)
    BY <1>5, <2>3, <2>6, <2>7, <2>8, InstalledFits DEF TablesFit
  <2>10. Bridging(t, yes)
    BY DEF Settled
  <2>11. CASE ~yes
    <3>1. u = v
      BY <2>5, <2>7, <2>11 DEF Bridged
    <3>2. Bridging(u, yes)
      BY <2>8, <2>9, <2>10, <2>11, <3>1 DEF Bridging
    <3>. QED
      BY <2>3, <2>8, <2>9, <2>11, <3>1, <3>2 DEF Settled
  <2>12. CASE yes
    <3>1. PICK notice : notice = Discover(source, score, name, type, pid)
      OBVIOUS
    <3>2. u = [v EXCEPT !.out = @ \o Deliveries(v, notice),
                        !.bridges = SaveBridge(@, name, pid)]
      BY <1>5, <2>3, <2>5, <2>7, <2>12, <3>1 DEF Bridged
    <3>3. /\ u.name = v.name /\ u.routers = v.routers
          /\ u.routersById = v.routersById /\ u.routersByPid = v.routersByPid
          /\ u.out = v.out \o Deliveries(v, notice)
          /\ u.bridges = SaveBridge(v.bridges, name, pid)
      BY <2>9, <3>2 DEF IsTables
    <3>4. Lively(u) = Lively(v) /\ Tidy(u)
      BY <2>8, <3>3 DEF Lively, Tidy
    <3>5. \A b \in ToSet(t.bridges) : b.pid # pid
      <4>1. TAKE b \in ToSet(t.bridges)
      <4>2. PICK q \in Lively(t) : b = BridgeTo(q)
        BY <2>10 DEF Bridging
      <4>3. b.pid = q.pid /\ q.name = Towards(q.pid.proc)
        BY <4>2, LivelyFits DEF BridgeTo
      <4>. QED
        BY <1>7, <4>3
    <3>6. t.bridges \in Seq([pid : ContextPid(Ids(t)), names : Seq(Node)])
      BY DEF TablesFit, BridgesFit
    <3>7. PICK new : new = [pid |-> pid, names |-> <<name>>]
      OBVIOUS
    <3>8. new \in [pid : ContextPid(Ids(t)), names : Seq(Node)] /\ new = BridgeTo(r)
      BY <2>3, <3>7, One DEF BridgeTo
    <3>9. u.bridges = Append(t.bridges, new)
      <4>1. ~\E i \in DOMAIN t.bridges : t.bridges[i].pid = pid
        BY <3>5, <3>6, Elements
      <4>. QED
        BY <2>8, <3>3, <3>7, <4>1 DEF SaveBridge
    <3>10. ToSet(u.bridges) = ToSet(t.bridges) \cup {BridgeTo(r)}
      <4>1. PICK S : S = [pid : ContextPid(Ids(t)), names : Seq(Node)]
        OBVIOUS
      <4>2. t.bridges \in Seq(S) /\ new \in S
        BY <3>6, <3>8, <4>1
      <4>3. ToSet(Append(t.bridges, new)) = ToSet(t.bridges) \cup {new}
        BY <4>2, Appended
      <4>. QED
        BY <3>8, <3>9, <4>3
    <3>11. Bridging(u, yes)
      <4>1. BridgeTo(r).pid = r.pid
        BY DEF BridgeTo
      <4>. QED
        BY <2>9, <2>10, <2>12, <3>4, <3>10, <4>1 DEF Bridging
    <3>. QED
      BY <2>3, <2>8, <2>9, <2>12, <3>1, <3>3, <3>4, <3>10, <3>11 DEF Settled
  <2>. QED
    BY <2>11, <2>12
<1>8. r.name = name /\ r.pid = pid /\ r.source = source /\ r.score = score
  BY <1>2 DEF RouterRecord
<1>. QED
  BY <1>6, <1>7, <1>8 DEF Registering
-----------------------------------------------------------------------------
(* Deliveries of a node that its neighbours are connected to.              *)

(* What the sequences in a row are made of.                                *)
LEMMA FlattenedSet ==
    ASSUME NEW D, NEW ss \in Seq(Seq(D))
    PROVE  /\ FlattenSeq(ss) \in Seq(D)
           /\ \A x : x \in ToSet(FlattenSeq(ss)) <=>
                        \E i \in 1..Len(ss) : x \in ToSet(ss[i])
<1>0. Len(ss) \in Nat /\ \A i \in 1..Len(ss) : ss[i] \in Seq(D)
  BY Elements
<1>1. CASE Len(ss) = 0
  <2>1. ss = <<>> /\ FlattenSeq(ss) = ss
    BY <1>1, EmptySeq DEF FlattenSeq
  <2>2. ToSet(<<>>) = {} /\ <<>> \in Seq(D)
    BY Empty
  <2>3. ToSet(FlattenSeq(ss)) = {} /\ FlattenSeq(ss) \in Seq(D)
    BY <2>1, <2>2
  <2>4. ~\E i : i \in 1..Len(ss)
    BY <1>1
  <2>. QED
    BY <2>3, <2>4
<1>2. CASE Len(ss) # 0
  <2>1. PICK f : /\ f[1] = ss[1]
                 /\ \A k \in 2..Len(ss) : f[k] = f[k - 1] \o ss[k]
                 /\ FlattenSeq(ss) = f[Len(ss)]
    BY <1>2, Flattens
  <2> DEFINE Right(k) == /\ f[k] \in Seq(D)
                         /\ \A x : x \in ToSet(f[k]) <=>
                                      \E i \in 1..k : x \in ToSet(ss[i])
             T == {k \in 1..Len(ss) : ~Right(k)}
  <2>2. T = {}
    <3>1. SUFFICES ASSUME T # {} PROVE FALSE
      OBVIOUS
    <3>2. PICK k \in T : \A y \in T : k <= y
      <4>1. T \subseteq Nat
        BY <1>0
      <4>. QED
        BY <3>1, <4>1, Least
    <3>3. k \in 1..Len(ss) /\ k # 1
      <4>1. Right(1)
        BY <1>0, <1>2, <2>1
      <4> HIDE DEF Right
      <4>. QED
        BY <3>2, <4>1
    <3>4. k - 1 \in 1..Len(ss) /\ k - 1 < k /\ k \in 2..Len(ss)
      BY <1>0, <3>3
    <3>5. k - 1 \notin T
      <4> HIDE DEF T
      <4>. QED
        BY <1>0, <3>2, <3>3, <3>4
    <3>6. Right(k - 1) /\ ss[k] \in Seq(D)
      <4> HIDE DEF Right
      <4>. QED
        BY <1>0, <3>4, <3>5, <3>3
    <3>7. /\ f[k - 1] \o ss[k] \in Seq(D)
          /\ ToSet(f[k - 1] \o ss[k]) = ToSet(f[k - 1]) \cup ToSet(ss[k])
      BY <3>6, Joined
    <3>8. f[k] \in Seq(D) /\ ToSet(f[k]) = ToSet(f[k - 1]) \cup ToSet(ss[k])
      BY <2>1, <3>4, <3>7
    <3>9. ASSUME NEW x
          PROVE  x \in ToSet(f[k]) <=> \E i \in 1..k : x \in ToSet(ss[i])
      <4>1. \A i \in 1..k : i = k \/ i \in 1..k - 1
        BY <1>0, <3>3
      <4>2. \A i \in 1..k - 1 : i \in 1..k
        BY <1>0, <3>3
      <4>3. k \in 1..k
        BY <1>0, <3>3
      <4>. QED
        BY <3>6, <3>8, <4>1, <4>2, <4>3
    <3>. QED
      BY <3>2, <3>8, <3>9
  <2>3. Len(ss) \in 1..Len(ss)
    BY <1>0, <1>2
  <2>4. Right(Len(ss))
    <3> HIDE DEF Right
    <3>. QED
      BY <2>2, <2>3
  <2>. QED
    BY <2>1, <2>4
<1>. QED
  BY <1>1, <1>2

(* A message of the user, or a relay of one. *)
Plain(x) == x.kind = "hello" \/ (x.kind = "relay" /\ x.body.kind = "hello")

(* However many relays a message of the user is in, it is one.             *)
LEMMA PlainRelayed ==
    /\ \A from, pid, x : Plain(x) => Plain(Relayed(from, pid, x))
    /\ \A x : Plain(x) /\ x.kind = "relay" => Plain(Unwrapped(x))
    /\ \A x : Plain(x) => x.kind \notin {"discover", "lost", "nodedown"}
BY DEF Plain, Relayed, Unwrapped, Relay

(* A local process gets what is sent to it, and messages remain messages.  *)
LEMMA DeliveryIs ==
    ASSUME NEW t, Len(t.routersById) \in Nat, NEW from, NEW pid, NEW item
    PROVE  /\ pid # NoPid /\ pid.node = 0 =>
                 Delivery(t, from, pid, item) = [to |-> pid, item |-> item]
           /\ Plain(item) => Plain(Delivery(t, from, pid, item).item)
<1>1. PICK n \in Nat : n = Len(t.routersById)
  OBVIOUS
<1>2. PICK f : /\ f[0] = [to |-> pid, item |-> item]
               /\ \A k \in 1..n : f[k] = Hop(t, from, f[k - 1])
               /\ Delivery(t, from, pid, item) =
                     IF f[n].to # NoPid /\ f[n].to.node = 0
                     THEN f[n] ELSE [to |-> NoPid, item |-> item]
  BY <1>1, Ways
<1> DEFINE Here == pid # NoPid /\ pid.node = 0
           Right(d) == /\ Here => d = [to |-> pid, item |-> item]
                       /\ Plain(item) => Plain(d.item)
           T == {k \in 0..n : ~Right(f[k])}
<1>3. ASSUME NEW d, Right(d)
      PROVE  Right(Hop(t, from, d))
  <2>1. Here => Hop(t, from, d) = d
    BY <1>3 DEF Hop
  <2>2. Plain(item) => Plain(Hop(t, from, d).item)
    <3>1. Hop(t, from, d).item \in {d.item, Relayed(from, d.to, d.item)}
      BY DEF Hop
    <3>. QED
      BY <1>3, <3>1, PlainRelayed
  <2>. QED
    BY <1>3, <2>1, <2>2
<1>4. T = {}
  <2>1. SUFFICES ASSUME T # {} PROVE FALSE
    OBVIOUS
  <2>2. PICK k \in T : \A y \in T : k <= y
    <3>1. T \subseteq Nat
      OBVIOUS
    <3>. QED
      BY <2>1, <3>1, Least
  <2>3. k # 0
    <3>1. Right(f[0])
      BY <1>2
    <3> HIDE DEF Right
    <3>. QED
      BY <2>2, <3>1
  <2> HIDE DEF Right
  <2>4. k \in 1..n /\ k - 1 \in 0..n
    BY <2>3
  <2>5. k - 1 \notin T
    <3>1. k \in Nat /\ ~(k <= k - 1)
      BY <2>4
    <3> HIDE DEF T
    <3>. QED
      BY <2>2, <3>1
  <2>6. Right(f[k - 1])
    BY <2>4, <2>5
  <2>7. Right(f[k])
    BY <1>2, <1>3, <2>4, <2>6
  <2>. QED
    BY <2>2, <2>7
<1>5. Right(f[n])
  <2>1. n \in 0..n
    OBVIOUS
  <2> HIDE DEF Right
  <2>. QED
    BY <1>4, <2>1
<1>. QED
  BY <1>2, <1>5

(* A node without bridges tells nobody.                                    *)
LEMMA DeliveriesNone ==
    ASSUME NEW t, t.bridges = <<>>, NEW notice
    PROVE  Deliveries(t, notice) = <<>>
<1>1. PICK ss : ss = [i \in DOMAIN t.bridges |->
        LET b == t.bridges[i]
        IN  <<Delivery(t, Local(System), b.pid, notice)>> \o
            [j \in DOMAIN b.names |->
                Delivery(t, Local(System), notice.pid,
                         Said(notice, b.names[j], b.pid))]]
  OBVIOUS
<1>2. Deliveries(t, notice) = FlattenSeq(ss)
  BY <1>1 DEF Deliveries
<1>3. ss = <<>>
  BY <1>1
<1>. QED
  BY <1>2, <1>3 DEF FlattenSeq

(* Every bridge is told of the pid, and whoever is behind the pid of every *)
(* bridge.                                                                 *)
LEMMA DeliveriesLocal ==
    ASSUME NEW t, TablesFit(t), NEW notice \in Notices(NameOf(t)),
           notice.pid.node = 0,
           \A b \in ToSet(t.bridges) : b.pid.node = 0 /\ \E m : b.names = <<m>>
    PROVE  \A d : d \in ToSet(Deliveries(t, notice)) <=>
              \E b \in ToSet(t.bridges) :
                 \/ d = [to |-> b.pid, item |-> notice]
                 \/ d = [to |-> notice.pid,
                         item |-> Said(notice, b.names[1], b.pid)]
<1>1. PICK R : R = [pid : ContextPid(Ids(t)), names : Seq(Node)]
  OBVIOUS
<1>2. /\ t.name \in Node /\ Len(t.routersById) \in Nat /\ Ids(t) \subseteq Nat
      /\ DOMAIN NameOf(t) = Ids(t) /\ t.bridges \in Seq(R)
  BY <1>1, IdsOf DEF TablesFit, BridgesFit
<1>3. /\ Len(t.bridges) \in Nat /\ DOMAIN t.bridges = 1..Len(t.bridges)
      /\ \A i \in 1..Len(t.bridges) :
            t.bridges[i] \in R /\ t.bridges[i] \in ToSet(t.bridges)
      /\ \A b \in ToSet(t.bridges) : \E i \in 1..Len(t.bridges) : b = t.bridges[i]
  BY <1>2, Elements
<1>4. \A pid \in ContextPid(Ids(t)) : pid # NoPid
  BY <1>2, NoPids DEF ContextPid
<1>5. notice.pid \in ContextPid(Ids(t))
  BY <1>2, Kinds
<1> DEFINE Part(b) == <<Delivery(t, Local(System), b.pid, notice)>> \o
                         [j \in DOMAIN b.names |->
                             Delivery(t, Local(System), notice.pid,
                                      Said(notice, b.names[j], b.pid))]
           To(b) == [to |-> b.pid, item |-> notice]
           Of(b) == [to |-> notice.pid, item |-> Said(notice, b.names[1], b.pid)]
<1>7. ASSUME NEW b \in ToSet(t.bridges)
      PROVE  /\ Part(b) \in Seq({To(b), Of(b)})
             /\ ToSet(Part(b)) = {To(b), Of(b)}
  <2>1. PICK m : b.names = <<m>>
    OBVIOUS
  <2>2. b.pid \in ContextPid(Ids(t))
    BY <1>1, <1>3
  <2>3. Delivery(t, Local(System), b.pid, notice) = To(b)
    BY <1>2, <1>4, <2>2, DeliveryIs
  <2>4. Delivery(t, Local(System), notice.pid,
                 Said(notice, b.names[1], b.pid)) = Of(b)
    BY <1>2, <1>4, <1>5, DeliveryIs
  <2>5. [j \in DOMAIN b.names |->
             Delivery(t, Local(System), notice.pid,
                      Said(notice, b.names[j], b.pid))] = <<Of(b)>>
    <3>1. DOMAIN b.names = 1..1
      BY <2>1
    <3>. QED
      BY <2>4, <3>1
  <2>6. Part(b) = <<To(b)>> \o <<Of(b)>>
    BY <2>3, <2>5
  <2>7. PICK x, y : x = To(b) /\ y = Of(b)
    OBVIOUS
  <2>8. <<x>> \o <<y>> \in Seq({x, y}) /\ ToSet(<<x>> \o <<y>>) = {x, y}
    <3>1. /\ <<x>> \in Seq({x, y}) /\ ToSet(<<x>>) = {x}
          /\ <<y>> \in Seq({x, y}) /\ ToSet(<<y>>) = {y}
      BY One
    <3>2. PICK p, q, S : p = <<x>> /\ q = <<y>> /\ S = {x, y}
      OBVIOUS
    <3>3. p \o q \in Seq(S) /\ ToSet(p \o q) = ToSet(p) \cup ToSet(q)
      <4>1. p \in Seq(S) /\ q \in Seq(S)
        BY <3>1, <3>2
      <4>. QED
        BY <4>1, Joined
    <3>. QED
      BY <3>1, <3>2, <3>3
  <2>. QED
    BY <2>6, <2>7, <2>8
<1>8. PICK ss : ss = [i \in DOMAIN t.bridges |-> Part(t.bridges[i])]
  OBVIOUS
<1>9. Deliveries(t, notice) = FlattenSeq(ss)
  BY <1>8 DEF Deliveries
<1> HIDE DEF Part
<1>10. PICK E : E = UNION {{To(b), Of(b)} : b \in ToSet(t.bridges)}
  OBVIOUS
<1> HIDE DEF To, Of
<1>11. ss \in Seq(Seq(E)) /\ Len(ss) = Len(t.bridges)
  <2>1. ss = [i \in 1..Len(t.bridges) |-> ss[i]]
    BY <1>3, <1>8
  <2>2. ASSUME NEW i \in 1..Len(t.bridges)
        PROVE  ss[i] \in Seq(E)
    <3>1. PICK b \in ToSet(t.bridges) : b = t.bridges[i] /\ ss[i] = Part(b)
      BY <1>3, <1>8
    <3>2. {To(b), Of(b)} \subseteq E
      BY <1>10
    <3>. QED
      BY <1>7, <3>1, <3>2, Wider
  <2>3. PICK n \in Nat : n = Len(t.bridges)
    BY <1>3
  <2>4. PICK Q : Q = Seq(E)
    OBVIOUS
  <2>5. ss = [i \in 1..n |-> ss[i]] /\ \A i \in 1..n : ss[i] \in Q
    BY <2>1, <2>2, <2>3, <2>4
  <2>6. ss \in Seq(Q) /\ Len(ss) = n
    BY <2>5, Filled
  <2>. QED
    BY <2>3, <2>4, <2>6
<1>12. \A d : d \in ToSet(FlattenSeq(ss)) <=>
                 \E i \in 1..Len(ss) : d \in ToSet(ss[i])
  BY <1>11, FlattenedSet
<1>13. \A i \in 1..Len(ss) :
          \E b \in ToSet(t.bridges) : ToSet(ss[i]) = {To(b), Of(b)}
  BY <1>3, <1>7, <1>8, <1>11
<1>14. \A b \in ToSet(t.bridges) :
          \E i \in 1..Len(ss) : ToSet(ss[i]) = {To(b), Of(b)}
  BY <1>3, <1>7, <1>8, <1>11
<1>15. \A d : d \in ToSet(FlattenSeq(ss)) <=>
                 \E b \in ToSet(t.bridges) : d = To(b) \/ d = Of(b)
  <2>1. ASSUME NEW d \in ToSet(FlattenSeq(ss))
        PROVE  \E b \in ToSet(t.bridges) : d = To(b) \/ d = Of(b)
    <3>1. PICK i \in 1..Len(ss) : d \in ToSet(ss[i])
      BY <1>12
    <3>. QED
      BY <1>13, <3>1
  <2>2. ASSUME NEW b \in ToSet(t.bridges), NEW d, d = To(b) \/ d = Of(b)
        PROVE  d \in ToSet(FlattenSeq(ss))
    <3>1. PICK i \in 1..Len(ss) : ToSet(ss[i]) = {To(b), Of(b)}
      BY <1>14
    <3>. QED
      BY <1>12, <2>2, <3>1
  <2>. QED
    BY <2>1, <2>2
<1>. QED
  BY <1>9, <1>15 DEF To, Of
-----------------------------------------------------------------------------
(* Unregistering.                                                          *)

(* What the user is told is not told to the peers. *)
OnlyUser(t, u) ==
    /\ ToSet(t.out) \subseteq ToSet(u.out)
    /\ \A d \in ToSet(u.out) : d \in ToSet(t.out) \/ d.to = Local(User)

(* A sequence without elements is empty.                                   *)
LEMMA NoElements ==
    ASSUME NEW S, NEW q \in Seq(S), ToSet(q) = {}
    PROVE  q = <<>>
BY Elements, EmptySeq

(* u is t without the router of the pid. *)
Less(t, u, pid) ==
    /\ u.name = t.name
    /\ Lively(u) = {r \in Lively(t) : r.pid # pid}
    /\ ToSet(u.bridges) = {b \in ToSet(t.bridges) : b.pid # pid}

(* u is t without the bridge of the pid. *)
Dropped(t, u, pid) ==
    /\ ToSet(u.bridges) = {b \in ToSet(t.bridges) : b.pid # pid}
    /\ u.routers \in Seq(RouterRecords)
    /\ ToSet(u.routers) \subseteq ToSet(t.routers)
    /\ \A q \in ToSet(t.routers) :
          q \in ToSet(u.routers) \/ (q \in Lively(t) /\ q.pid = pid)

(* The bridge of the pid goes, and the router behind it.                   *)
LEMMA DroppedTidy ==
    ASSUME NEW t, TablesFit(t), NEW yes \in BOOLEAN, Settled(t, yes),
           NEW pid \in ContextPid(Ids(t)),
           NEW u, u = BridgeDropped(t, pid)
    PROVE  Dropped(t, u, pid)
<1>1. PICK R : R = [pid : ContextPid(Ids(t)), names : Seq(Node)]
  OBVIOUS
<1>2. t.bridges \in Seq(R) /\ t.routers \in Seq(RouterRecords)
  BY <1>1 DEF TablesFit, BridgesFit, ListFits
<1>3. /\ Len(t.bridges) \in Nat /\ DOMAIN t.bridges = 1..Len(t.bridges)
      /\ \A i \in 1..Len(t.bridges) : t.bridges[i] \in ToSet(t.bridges)
      /\ \A b \in ToSet(t.bridges) : \E i \in 1..Len(t.bridges) : b = t.bridges[i]
  BY <1>2, Elements
<1>4. PICK gone : gone = {i \in DOMAIN t.bridges : t.bridges[i].pid = pid}
  OBVIOUS
<1>5. PICK names : names = UNION {ToSet(t.bridges[i].names) : i \in gone}
  OBVIOUS
<1>6. /\ u.bridges = Picked(t.bridges, DOMAIN t.bridges \ gone)
      /\ u.routers = Without(t.routers, names)
  BY <1>4, <1>5 DEF BridgeDropped, TablesFit, IsTables
<1>7. PICK I : I = DOMAIN t.bridges \ gone
  OBVIOUS
<1>8. /\ u.bridges \in Seq(R)
      /\ ToSet(u.bridges) = {t.bridges[i] : i \in I \cap (1..Len(t.bridges))}
  BY <1>2, <1>6, <1>7, PickedSet
<1>9. ToSet(u.bridges) = {b \in ToSet(t.bridges) : b.pid # pid}
  <2>1. \A i : i \in I <=> i \in 1..Len(t.bridges) /\ t.bridges[i].pid # pid
    BY <1>3, <1>4, <1>7
  <2>2. ASSUME NEW b \in ToSet(u.bridges)
        PROVE  b \in ToSet(t.bridges) /\ b.pid # pid
    BY <1>3, <1>8, <2>1, <2>2
  <2>3. ASSUME NEW b \in ToSet(t.bridges), b.pid # pid
        PROVE  b \in ToSet(u.bridges)
    BY <1>3, <1>8, <2>1, <2>3
  <2>. QED
    BY <2>2, <2>3
<1>10. /\ u.routers \in Seq(RouterRecords)
       /\ ToSet(u.routers) = {q \in ToSet(t.routers) : q.name \notin names}
  BY <1>2, <1>6, WithoutSet
<1>11. ASSUME NEW q \in ToSet(t.routers), q.name \in names
       PROVE  q \in Lively(t) /\ q.pid = pid
  <2>1. PICK i \in gone : q.name \in ToSet(t.bridges[i].names)
    BY <1>5, <1>11
  <2>2. t.bridges[i] \in ToSet(t.bridges) /\ t.bridges[i].pid = pid
    BY <1>3, <1>4
  <2>3. PICK r \in Lively(t) : t.bridges[i] = BridgeTo(r)
    BY <2>2 DEF Settled, Bridging
  <2>4. r.pid = pid /\ t.bridges[i].names = <<r.name>>
    BY <2>2, <2>3 DEF BridgeTo
  <2>5. ToSet(<<r.name>>) = {r.name}
    BY One
  <2>6. q.name = r.name /\ r \in ToSet(t.routers)
    BY <2>1, <2>4, <2>5 DEF Lively
  <2>7. q = r
    BY <2>6 DEF TablesFit, ListFits
  <2>. QED
    BY <2>4, <2>7
<1>. QED
  BY <1>9, <1>10, <1>11 DEF Dropped

(* Only the user hears of the watched name.                                *)
LEMMA WatchersOnlyUser ==
    ASSUME NEW t, TablesFit(t), NEW name \in Node,
           NEW u, u = WatchersTold(t, name)
    PROVE  OnlyUser(t, u)
<1>1. CASE name \notin t.monitors
  BY <1>1 DEF WatchersTold, OnlyUser
<1>2. CASE name \in t.monitors
  <2>1. PICK d : d = [to |-> Local(User), item |-> Nodedown(name)]
    OBVIOUS
  <2>2. u.out = Append(t.out, d)
    BY <1>2, <2>1 DEF WatchersTold, TablesFit, IsTables
  <2>3. PICK D : D = Delivered(t)
    OBVIOUS
  <2>4. t.out \in Seq(D) /\ d \in D
    BY <2>1, <2>3 DEF TablesFit, Delivered
  <2>5. ToSet(Append(t.out, d)) = ToSet(t.out) \cup {d}
    BY <2>4, Appended
  <2>6. d.to = Local(User)
    BY <2>1
  <2>. QED
    BY <2>2, <2>5, <2>6 DEF OnlyUser
<1>. QED
  BY <1>1, <1>2

(* A call with the pid has left c, and the rest is still to do. *)
CalledOff(t, c, pid, rest, yes) ==
    /\ Less(t, c.tables, pid) /\ Settled(c.tables, yes)
    /\ OnlyUser(t, c.tables)
    /\ (\A r \in Lively(t) : r.pid # pid) => c.todo = rest
    /\ \A r \in Lively(t) : r.pid = pid =>
          c.todo = DependentsLost(c.tables, r.name) \o <<Tell(pid)>> \o rest

(* A call of unregisterRouter takes the router of the pid away, and leaves *)
(* the others to visit and the peers to tell.                              *)
LEMMA CalledTidy ==
    ASSUME NEW t, TablesFit(t), NEW yes \in BOOLEAN, Settled(t, yes),
           NEW pid \in ContextPid(Ids(t)), NEW rest,
           NEW c, c = Called(t, pid, rest)
    PROVE  CalledOff(t, c, pid, rest, yes)
<1>1. PICK u : u = BridgeDropped(t, pid)
  OBVIOUS
<1>2. /\ ToSet(u.bridges) = {b \in ToSet(t.bridges) : b.pid # pid}
      /\ u.routers \in Seq(RouterRecords)
      /\ ToSet(u.routers) \subseteq ToSet(t.routers)
      /\ \A q \in ToSet(t.routers) :
            q \in ToSet(u.routers) \/ (q \in Lively(t) /\ q.pid = pid)
  <2>1. Dropped(t, u, pid)
    BY <1>1, DroppedTidy
  <2>. QED
    BY <2>1 DEF Dropped
<1>3. /\ TablesFit(u) /\ u.name = t.name
      /\ u.routersById = t.routersById /\ u.routersByPid = t.routersByPid
      /\ u.monitors = t.monitors /\ u.out = t.out
  <2>1. Debridged(t, pid, u)
    BY <1>1, BridgeDroppedFits
  <2>. QED
    BY <2>1 DEF Debridged
<1>4. t.routersByPid = {Entry(r) : r \in Lively(t) \cup {Self(t.name)}}
  BY DEF Settled, Tidy
<1>5. Self(t.name).pid # pid
  BY LivelyFits, Ends DEF ContextPid, Local, Pid
<1>6. \A r : Entry(r).pid = r.pid /\ Entry(r).router = r
  BY DEF Entry
<1>7. ASSUME NEW w, w.name = t.name,
             ToSet(w.bridges) = ToSet(u.bridges), w.bridges = u.bridges,
             Lively(w) = {r \in Lively(t) : r.pid # pid}
      PROVE  Bridging(w, yes) /\ Less(t, w, pid)
  <2>1. Bridging(t, yes)
    BY DEF Settled
  <2>2. ASSUME NEW b \in ToSet(w.bridges)
        PROVE  \E r \in Lively(w) : b = BridgeTo(r)
    <3>1. b \in ToSet(t.bridges) /\ b.pid # pid
      BY <1>2, <1>7
    <3>2. PICK r \in Lively(t) : b = BridgeTo(r)
      BY <2>1, <3>1 DEF Bridging
    <3>3. r.pid # pid
      BY <3>1, <3>2 DEF BridgeTo
    <3>. QED
      BY <1>7, <3>2, <3>3
  <2>3. yes => \A r \in Lively(w) : \E b \in ToSet(w.bridges) : b.pid = r.pid
    BY <1>2, <1>7, <2>1 DEF Bridging
  <2>4. ASSUME ~yes PROVE w.bridges = <<>>
    <3>1. ToSet(t.bridges) = {}
      BY <2>1, <2>4, Empty DEF Bridging
    <3>2. ToSet(u.bridges) = {}
      BY <1>2, <3>1
    <3>3. PICK S : S = [pid : ContextPid(Ids(u)), names : Seq(Node)]
      OBVIOUS
    <3>4. u.bridges \in Seq(S)
      BY <1>3, <3>3 DEF TablesFit, BridgesFit
    <3>5. u.bridges = <<>>
      BY <3>2, <3>4, NoElements
    <3>. QED
      BY <1>7, <3>5
  <2>. QED
    BY <1>2, <1>7, <2>2, <2>3, <2>4 DEF Bridging, Less
<1>8. CASE \A r \in Lively(t) : r.pid # pid
  <2>1. \A e \in u.routersByPid : e.pid # pid
    BY <1>3, <1>4, <1>5, <1>6, <1>8
  <2>2. c = [tables |-> u, todo |-> rest]
    BY <1>1, <2>1 DEF Called
  <2>3. Lively(u) = Lively(t)
    BY <1>2, <1>3, <1>8 DEF Lively
  <2>4. Bridging(u, yes) /\ Less(t, u, pid)
    BY <1>3, <1>7, <1>8, <2>3
  <2>5. Tidy(u)
    BY <1>3, <2>3 DEF Settled, Tidy
  <2>6. OnlyUser(t, u)
    BY <1>3 DEF OnlyUser
  <2>. QED
    BY <1>8, <2>2, <2>4, <2>5, <2>6 DEF Settled, CalledOff
<1>9. ASSUME NEW r \in Lively(t), r.pid = pid
      PROVE  /\ Less(t, c.tables, pid) /\ Settled(c.tables, yes)
             /\ OnlyUser(t, c.tables)
             /\ c.todo = DependentsLost(c.tables, r.name) \o <<Tell(pid)>> \o rest
  <2>1. /\ r \in RouterRecords /\ r.name # t.name /\ r.name \in Node
        /\ r.pid # NoPid /\ r.id \in Ids(t) /\ r.id # 0
        /\ t.routersById[r.id + 1] = r
        /\ \A q \in Lively(t) : q.name = r.name \/ q.pid = r.pid => q = r
    BY LivelyFits
  <2>2. Entry(r) \in u.routersByPid /\ Entry(r).pid = pid
    BY <1>3, <1>4, <1>6, <1>9
  <2>3. \A e \in u.routersByPid : e.pid = pid => e = Entry(r)
    BY <1>3, <1>4, <1>5, <1>6, <1>9, <2>1
  <2>4. (CHOOSE e \in u.routersByPid : e.pid = pid) = Entry(r)
    BY <2>2, <2>3
  <2>5. PICK v : v = WatchersTold(u, r.name)
    OBVIOUS
  <2>6. PICK w : w = Uninstalled(v, r, pid)
    OBVIOUS
  <2>7. c = [tables |-> w, todo |-> DependentsLost(w, r.name) \o
                                       <<Tell(pid)>> \o rest]
    <3>1. Entry(r).router = r
      BY DEF Entry
    <3>2. PICK en : en = Entry(r)
      OBVIOUS
    <3>3. /\ ~ \A e \in u.routersByPid : e.pid # pid
          /\ (CHOOSE e \in u.routersByPid : e.pid = pid).router = r
      BY <2>2, <2>4, <3>1, <3>2
    <3>4. PICK f : f = (CHOOSE e \in u.routersByPid : e.pid = pid).router
      OBVIOUS
    <3>5. c = [tables |-> Uninstalled(WatchersTold(u, f.name), f, pid),
               todo |-> DependentsLost(Uninstalled(WatchersTold(u, f.name), f, pid),
                                       f.name) \o <<Tell(pid)>> \o rest]
      BY <1>1, <1>6, <3>3, <3>4 DEF Called
    <3>. QED
      BY <2>5, <2>6, <3>3, <3>4, <3>5
  <2>8. /\ TablesFit(v) /\ v.name = u.name /\ v.routers = u.routers
        /\ v.routersById = u.routersById
        /\ v.routersByPid = u.routersByPid /\ v.bridges = u.bridges
    BY <1>3, <2>1, <2>5, WatchersToldFit
  <2>9. OnlyUser(u, v)
    BY <1>3, <2>1, <2>5, WatchersOnlyUser
  <2>10. PICK gone : gone = [r EXCEPT !.pid = NoPid]
    OBVIOUS
  <2>11. gone.pid = NoPid /\ gone.name = r.name /\ gone \in RouterRecords
    BY <2>1, <2>10 DEF RouterRecords
  <2>12. /\ w.name = v.name /\ w.out = v.out /\ w.bridges = v.bridges
         /\ w.routers = IF r.type = "permanent" THEN PutRouter(v.routers, gone)
                        ELSE Without(v.routers, {r.name})
         /\ w.routersById = [v.routersById EXCEPT ![r.id + 1] = gone]
         /\ w.routersByPid = {e \in v.routersByPid : e.pid # pid}
    BY <2>6, <2>8, <2>10 DEF Uninstalled, TablesFit, IsTables
  <2>13. \A q : q.pid # NoPid => (q \in ToSet(w.routers) <=>
                                     q \in ToSet(u.routers) /\ q.name # r.name)
    <3>1. v.routers \in Seq(RouterRecords)
      BY <1>2, <2>8
    <3>2. CASE r.type = "permanent"
      <4>1. ToSet(PutRouter(v.routers, gone)) =
               {q \in ToSet(v.routers) : q.name # gone.name} \cup {gone}
        BY <2>11, <3>1, PutRouterSet
      <4>. QED
        BY <2>8, <2>11, <2>12, <3>2, <4>1
    <3>3. CASE r.type # "permanent"
      <4>1. PICK names : names = {r.name}
        OBVIOUS
      <4>2. ToSet(Without(v.routers, names)) =
               {q \in ToSet(v.routers) : q.name \notin names}
        BY <3>1, WithoutSet
      <4>. QED
        BY <2>8, <2>12, <3>3, <4>1, <4>2
    <3>. QED
      BY <3>2, <3>3
  <2>14. Lively(w) = {q \in Lively(t) : q.pid # pid}
    <3>1. w.name = t.name
      BY <1>3, <2>8, <2>12
    <3>2. ASSUME NEW q \in Lively(w) PROVE q \in Lively(t) /\ q.pid # pid
      <4>1. q \in ToSet(u.routers) /\ q.name # r.name /\ q.pid # NoPid
        BY <2>13 DEF Lively
      <4>2. q \in Lively(t)
        BY <1>2, <3>1, <4>1 DEF Lively
      <4>. QED
        BY <1>9, <2>1, <4>1, <4>2
    <3>3. ASSUME NEW q \in Lively(t), q.pid # pid PROVE q \in Lively(w)
      <4>1. q \in ToSet(u.routers) /\ q.pid # NoPid /\ q.name # t.name
        BY <1>2, <3>3 DEF Lively
      <4>2. q.name # r.name
        BY <1>9, <2>1, <3>3
      <4>. QED
        BY <2>13, <3>1, <4>1, <4>2 DEF Lively
    <3>. QED
      BY <3>2, <3>3
  <2>15. w.routersByPid = {Entry(q) : q \in Lively(w) \cup {Self(w.name)}}
    <3>1. w.routersByPid = {e \in t.routersByPid : e.pid # pid} /\ w.name = t.name
      BY <1>3, <2>8, <2>12
    <3>. QED
      BY <1>4, <1>5, <1>6, <2>14, <3>1
  <2>16. ASSUME NEW i \in 2..Len(w.routersById), w.routersById[i].pid # NoPid
         PROVE  w.routersById[i] \in Lively(w)
    <3>1. t.routersById \in Seq(RouterRecords) /\ ByIdFits(t)
      BY DEF TablesFit, ByIdFits
    <3>2. r.id + 1 \in 1..Len(t.routersById)
      BY <2>1, <3>1, IdsOf DEF TablesFit
    <3>3. /\ Len(w.routersById) = Len(t.routersById)
          /\ \A k \in 1..Len(t.routersById) :
                w.routersById[k] = IF k = r.id + 1 THEN gone ELSE t.routersById[k]
      BY <1>3, <2>8, <2>11, <2>12, <3>1, <3>2, Overwritten
    <3>4. i \in 1..Len(t.routersById) /\ i \in 2..Len(t.routersById)
      BY <3>1, <3>3, Elements
    <3>5. i # r.id + 1 /\ w.routersById[i] = t.routersById[i]
      BY <2>11, <2>16, <3>3, <3>4
    <3>6. t.routersById[i] \in Lively(t)
      BY <2>16, <3>4, <3>5 DEF Settled, Tidy
    <3>7. t.routersById[i].id = i - 1
      BY <3>1, <3>4 DEF ByIdFits
    <3>8. t.routersById[i] # r
      <4>1. r.id \in Int /\ i \in Int
        BY <2>1, <3>4 DEF Ids
      <4>. QED
        BY <3>5, <3>7, <4>1
    <3>9. t.routersById[i].pid # pid
      BY <1>9, <2>1, <3>6, <3>8
    <3>. QED
      BY <2>14, <3>5, <3>6, <3>9
  <2>17. Bridging(w, yes) /\ Less(t, w, pid)
    BY <1>3, <1>7, <2>8, <2>12, <2>14
  <2>18. Settled(w, yes)
    BY <2>15, <2>16, <2>17 DEF Settled, Tidy
  <2>19. OnlyUser(t, w)
    BY <1>3, <2>9, <2>12 DEF OnlyUser
  <2>. QED
    BY <2>7, <2>17, <2>18, <2>19
<1>. QED
  BY <1>8, <1>9 DEF CalledOff

(* unregisterRouter(pid) begins with the call, and is at the end when       *)
(* nothing is left to do.                                                  *)
Begun(t, pid) == [tables |-> t, todo |-> <<Call(pid)>>]
Ended(t, pid, G) ==
    \E u \in G : /\ Unregisterable(t, u) /\ u.todo = <<>>
                 /\ UnregisterRouter(t, pid) = u.tables

(* What the call has and every step keeps, unregisterRouter ends with.      *)
LEMMA UnregisterSteps ==
    ASSUME NEW t, TablesFit(t), NEW pid \in ContextPid(Ids(t))
    PROVE  \E Y : /\ Begun(t, pid) \in Y
                  /\ \A u \in Y : Unregisterable(t, u) /\ Unregistering(u) \in Y
                  /\ \A G \in SUBSET Y :
                        Begun(t, pid) \in G /\ (\A u \in G : Unregistering(u) \in G)
                           => Ended(t, pid, G)
<1>1. PICK n : n = StepsToUnregister(t)
  OBVIOUS
<1>2. n \in Nat
  <2>1. Cardinality(t.routersByPid) \in Nat
    BY FS_CardinalityType DEF TablesFit, ByPidFits
  <2>2. Len(t.routers) \in Nat
    BY Elements DEF TablesFit, ListFits
  <2>3. PICK a \in Nat : a = Cardinality(t.routersByPid)
    BY <2>1
  <2>4. PICK b \in Nat : b = 2 * (Len(t.routers) + a) + 1
    BY <2>2
  <2>5. n = 1 + a * b
    BY <1>1, <2>3, <2>4 DEF StepsToUnregister
  <2>6. a * b \in Nat
    OBVIOUS
  <2>. QED
    BY <2>5, <2>6
<1>3. PICK f : /\ f[0] = [tables |-> t, todo |-> <<Call(pid)>>]
               /\ \A k \in 1..n : f[k] = Unregistering(f[k - 1])
               /\ Unregistered(t, pid) = f[n]
  BY <1>1, <1>2, Unregisters
<1>4. f[0] = Begun(t, pid) /\ Unregisterable(t, f[0])
  <2>1. PICK T : T = Tasks(Ids(t))
    OBVIOUS
  <2>2. Call(pid) \in T
    BY <2>1 DEF Call, Tasks
  <2>3. <<Call(pid)>> \in Seq(T)
    BY <2>2, One
  <2>. QED
    BY <1>3, <2>1, <2>3, OnwardSame DEF Unregisterable, Begun
<1>5. ASSUME NEW G, f[0] \in G,
             \A k \in 1..n : f[k - 1] \in G => f[k] \in G
      PROVE  \A k \in 0..n : f[k] \in G
  <2> DEFINE Wrong == {k \in 0..n : f[k] \notin G}
  <2>1. SUFFICES ASSUME Wrong # {} PROVE FALSE
    OBVIOUS
  <2>2. PICK k \in Wrong : \A j \in Wrong : k <= j
    <3>1. Wrong \in SUBSET Nat
      BY <1>2
    <3> HIDE DEF Wrong
    <3>. QED
      BY <2>1, <3>1, Least
  <2>3. k \in 0..n /\ f[k] \notin G
    OBVIOUS
  <2>4. k # 0
    BY <1>5, <2>3
  <2>5. k \in 1..n /\ k - 1 \in 0..n /\ ~(k <= k - 1)
    BY <1>2, <2>3, <2>4
  <2>6. f[k - 1] \in G
    BY <2>2, <2>5
  <2>. QED
    BY <1>5, <2>3, <2>5, <2>6
<1>6. PICK Y : Y = {f[k] : k \in 0..n}
  OBVIOUS
<1>7. \A u \in Y : Unregisterable(t, u)
  <2>1. PICK U : U = {u \in Y : Unregisterable(t, u)}
    OBVIOUS
  <2>2. f[0] \in U
    BY <1>2, <1>4, <1>6, <2>1
  <2>3. \A k \in 1..n : f[k - 1] \in U => f[k] \in U
    <3>1. TAKE k \in 1..n
    <3>2. HAVE f[k - 1] \in U
    <3>3. Unregisterable(t, f[k])
      BY <1>3, <2>1, <3>2, UnregisteringFits
    <3>4. k \in 0..n
      BY <1>2
    <3>. QED
      BY <1>6, <2>1, <3>3, <3>4
  <2>4. \A k \in 0..n : f[k] \in U
    BY <1>5, <2>2, <2>3
  <2>. QED
    BY <1>6, <2>1, <2>4
<1>8. f[n].todo = <<>>
  BY <1>3, UnregisterReturns
<1>9. \A u \in Y : Unregistering(u) \in Y
  <2>1. TAKE u \in Y
  <2>2. PICK k \in 0..n : u = f[k]
    BY <1>6
  <2>3. CASE k = n
    BY <1>8, <2>2, <2>3 DEF Unregistering
  <2>4. CASE k # n
    <3>1. k + 1 \in 1..n /\ k + 1 - 1 = k /\ k + 1 \in 0..n
      BY <1>2, <2>4
    <3>2. f[k + 1] = Unregistering(u)
      BY <1>3, <2>2, <3>1
    <3>. QED
      BY <1>6, <3>1, <3>2
  <2>. QED
    BY <2>3, <2>4
<1>10. ASSUME NEW G \in SUBSET Y, Begun(t, pid) \in G,
              \A u \in G : Unregistering(u) \in G
       PROVE  Ended(t, pid, G)
  <2>1. \A k \in 1..n : f[k - 1] \in G => f[k] \in G
    BY <1>3, <1>10
  <2>2. f[0] \in G
    BY <1>4, <1>10
  <2>3. \A k \in 0..n : f[k] \in G
    BY <1>5, <2>1, <2>2
  <2>4. f[n] \in G
    BY <1>2, <2>3
  <2>5. Unregisterable(t, f[n])
    BY <1>7, <2>4
  <2>. QED
    BY <1>3, <1>8, <2>4, <2>5 DEF Ended, UnregisterRouter
<1>11. Begun(t, pid) \in Y
  BY <1>2, <1>4, <1>6
<1>. QED
  BY <1>7, <1>9, <1>10, <1>11

(* The visit w of a router takes it on if it leads through the source. *)
VisitIs(w, t, name, source, rest) ==
    /\ (\A r \in Lively(t) : ~(r.name = name /\ r.source = source)) =>
          w = [tables |-> t, todo |-> rest]
    /\ \A r \in Lively(t) : r.name = name /\ r.source = source =>
          w = [tables |-> t, todo |-> <<Call(r.pid)>> \o rest]

(* A visit is a call if the router leads through the source.               *)
LEMMA VisitedOne ==
    ASSUME NEW t, TablesFit(t), NEW name, NEW source \in Node, NEW rest
    PROVE  VisitIs(Visited(t, name, source, rest), t, name, source, rest)
<1>1. ListFits(t) /\ ByIdFits(t)
  BY DEF TablesFit
<1>2. ASSUME NEW r \in Lively(t), r.name = name
      PROVE  Knows(t, name) /\ RouterOf(t, name) = r /\ r.pid # NoPid
  <2>1. r \in ToSet(t.routers) /\ r.pid # NoPid
    BY DEF Lively
  <2>2. Knows(t, name)
    BY <1>1, <1>2, <2>1, KnowsName
  <2>. QED
    BY <1>1, <1>2, <2>1, <2>2, KnownRouter DEF ListFits
<1>3. ASSUME \A r \in Lively(t) : ~(r.name = name /\ r.source = source)
      PROVE  Visited(t, name, source, rest) = [tables |-> t, todo |-> rest]
  <2>1. ASSUME Knows(t, name), RouterOf(t, name).source = source,
               RouterOf(t, name).pid # NoPid
        PROVE  FALSE
    <3>1. /\ RouterOf(t, name) \in ToSet(t.routers)
          /\ RouterOf(t, name).name = name
      BY <1>1, <2>1, KnownRouter
    <3>2. name = t.name
      BY <1>3, <2>1, <3>1 DEF Lively
    <3>3. RouterOf(t, name) = Self(t.name)
      BY <3>1, <3>2, LivelyFits DEF TablesFit, ListFits
    <3>4. source = "none"
      BY <2>1, <3>3, LivelyFits
    <3>. QED
      BY <3>4, NetworkAssumption
  <2>2. Visited(t, name, source, rest) = [tables |-> t, todo |-> rest]
    BY <2>1 DEF Visited
  <2>. QED
    BY <1>3, <2>2
<1>4. ASSUME NEW r \in Lively(t), r.name = name, r.source = source
      PROVE  Visited(t, name, source, rest) =
                [tables |-> t, todo |-> <<Call(r.pid)>> \o rest]
  BY <1>2, <1>4 DEF Visited
<1>. QED
  BY <1>3, <1>4 DEF VisitIs

(* u is t without the router of the pid, and the peers are told if there   *)
(* was one.                                                                *)
Unlisted(t, u, pid, yes) ==
    /\ Less(t, u, pid) /\ Settled(u, yes)
    /\ IF \E r \in Lively(t) : r.pid = pid
       THEN \E v : /\ TablesFit(v) /\ Less(t, v, pid) /\ Bridging(v, yes)
                   /\ Ids(v) = Ids(t) /\ OnlyUser(t, v)
                   /\ u.out = v.out \o Deliveries(v, Lost(pid))
       ELSE OnlyUser(t, u)

(* Unregistering a router that no other leads through.                     *)
LEMMA UnregisterOne ==
    ASSUME NEW t, TablesFit(t), NEW yes \in BOOLEAN, Settled(t, yes),
           NEW pid \in ContextPid(Ids(t)),
           \A r, q \in Lively(t) : r.pid = pid => q.source # r.name,
           NEW u, u = UnregisterRouter(t, pid)
    PROVE  Unlisted(t, u, pid, yes)
<1>1. PICK c : c = Called(t, pid, <<>>)
  OBVIOUS
<1>2. /\ Less(t, c.tables, pid) /\ Settled(c.tables, yes)
      /\ OnlyUser(t, c.tables)
      /\ (\A r \in Lively(t) : r.pid # pid) => c.todo = <<>>
      /\ \A r \in Lively(t) : r.pid = pid =>
            c.todo = DependentsLost(c.tables, r.name) \o <<Tell(pid)>> \o <<>>
  <2>1. PICK e : e = <<>>
    OBVIOUS
  <2>2. c = Called(t, pid, e)
    BY <1>1, <2>1
  <2>3. /\ Less(t, c.tables, pid) /\ Settled(c.tables, yes)
        /\ OnlyUser(t, c.tables)
        /\ (\A r \in Lively(t) : r.pid # pid) => c.todo = e
        /\ \A r \in Lively(t) : r.pid = pid =>
              c.todo = DependentsLost(c.tables, r.name) \o <<Tell(pid)>> \o e
    <3>1. CalledOff(t, c, pid, e, yes)
      BY <2>2, CalledTidy
    <3>. QED
      BY <3>1 DEF CalledOff
  <2>. QED
    BY <2>1, <2>3
<1>3. PICK v : v = c.tables
  OBVIOUS
<1>4. PICK T : T = Tasks(Ids(t))
  OBVIOUS
<1>5. PICK Y : /\ Begun(t, pid) \in Y
               /\ \A s \in Y : Unregisterable(t, s) /\ Unregistering(s) \in Y
               /\ \A G \in SUBSET Y :
                     Begun(t, pid) \in G /\ (\A s \in G : Unregistering(s) \in G)
                        => Ended(t, pid, G)
  BY UnregisterSteps
<1>6. Unregistering(Begun(t, pid)) = c
  <2>1. PICK b : b = <<Call(pid)>>
    OBVIOUS
  <2>2. b # <<>> /\ Head(b) = Call(pid) /\ Tail(b) = <<>>
    BY <2>1
  <2>3. Begun(t, pid).tables = t /\ Begun(t, pid).todo = b
    BY <2>1 DEF Begun
  <2>4. Call(pid).does = "call" /\ Call(pid).pid = pid
    BY DEF Call
  <2>. QED
    BY <1>1, <2>2, <2>3, <2>4 DEF Unregistering
<1>7. Begun(t, pid).todo # <<>>
  BY DEF Begun
<1>8. c \in Y /\ Unregisterable(t, c)
  BY <1>5, <1>6
<1>9. TablesFit(v) /\ Ids(v) = Ids(t) /\ c.todo \in Seq(T)
  BY <1>3, <1>4, <1>8 DEF Unregisterable
<1>10. CASE \A r \in Lively(t) : r.pid # pid
  <2>1. Unregistering(c) = c
    BY <1>2, <1>10 DEF Unregistering
  <2>2. PICK G : G = {Begun(t, pid), c}
    OBVIOUS
  <2>3. G \in SUBSET Y /\ \A s \in G : Unregistering(s) \in G
    BY <1>5, <1>6, <1>8, <2>1, <2>2
  <2>4. Ended(t, pid, G)
    BY <1>5, <2>2, <2>3
  <2>5. u = v
    BY <1>3, <1>7, <2>2, <2>4 DEF Ended
  <2>. QED
    BY <1>2, <1>3, <1>10, <2>5 DEF Unlisted
<1>11. ASSUME NEW r \in Lively(t), r.pid = pid
       PROVE  u = PeersToldLost(v, pid)
  <2>1. r.name \in Node
    BY LivelyFits
  <2> DEFINE Visiting(x) == x.does = "visit" /\ x.source = r.name
             Mid(s) == /\ s.tables = v /\ s.todo # <<>>
                       /\ s.todo[Len(s.todo)] = Tell(pid)
                       /\ \A i \in 1..Len(s.todo) - 1 : Visiting(s.todo[i])
             Fin(s) == s.todo = <<>> => s.tables = PeersToldLost(v, pid)
  <2>2. PICK visits : visits = DependentsLost(v, r.name)
    OBVIOUS
  <2>3. visits \in Seq(T) /\ \A i \in 1..Len(visits) : Visiting(visits[i])
    <3>1. v.routers \in Seq(RouterRecords)
      BY <1>9 DEF TablesFit, ListFits
    <3>2. /\ Len(v.routers) \in Nat /\ DOMAIN v.routers = 1..Len(v.routers)
          /\ \A i \in 1..Len(v.routers) : v.routers[i] \in RouterRecords
      BY <3>1, Elements
    <3>3. visits = [i \in 1..Len(v.routers) |-> Visit(v.routers[i].name, r.name)]
      BY <2>2, <3>2 DEF DependentsLost
    <3>4. \A i \in 1..Len(v.routers) : visits[i] \in T
      BY <1>4, <2>1, <3>2, <3>3 DEF RouterRecords, Visit, Tasks
    <3>5. visits = [i \in 1..Len(v.routers) |-> visits[i]]
      BY <3>3
    <3>6. visits \in Seq(T) /\ Len(visits) = Len(v.routers)
      BY <3>2, <3>4, <3>5, Filled
    <3>. QED
      BY <3>3, <3>6 DEF Visit
  <2>4. Tell(pid) \in T
    BY <1>4 DEF Tell, Tasks
  <2>5. PICK last : last = <<Tell(pid)>>
    OBVIOUS
  <2>6. last \in Seq(T) /\ Len(last) = 1 /\ last[1] = Tell(pid)
    BY <2>4, <2>5, One
  <2>7. /\ visits \o last \in Seq(T) /\ Len(visits) \in Nat
        /\ Len(visits \o last) = Len(visits) + 1
        /\ \A i \in 1..Len(visits) + 1 :
              (visits \o last)[i] = IF i <= Len(visits) THEN visits[i]
                                    ELSE last[i - Len(visits)]
    BY <2>3, <2>6, Joined, SMTT(30)
  <2>8. c.todo = visits \o last
    <3>1. c.todo = (visits \o last) \o <<>>
      BY <1>2, <1>3, <1>11, <2>2, <2>5
    <3>. QED
      BY <2>7, <3>1, ConcatEmptySeq
  <2>9. Mid(c)
    <3>1. c.todo # <<>> /\ Len(c.todo) = Len(visits) + 1
      BY <2>7, <2>8, Empty
    <3>2. c.todo[Len(c.todo)] = Tell(pid)
      <4>1. Len(visits) + 1 \in 1..Len(visits) + 1 /\ ~(Len(visits) + 1 <= Len(visits))
            /\ Len(visits) + 1 - Len(visits) = 1
        BY <2>7
      <4>. QED
        BY <2>6, <2>7, <2>8, <3>1, <4>1
    <3>3. ASSUME NEW i \in 1..Len(c.todo) - 1 PROVE Visiting(c.todo[i])
      <4>1. i \in 1..Len(visits) /\ i \in 1..Len(visits) + 1 /\ i <= Len(visits)
        BY <2>7, <3>1
      <4>2. c.todo[i] = visits[i]
        BY <2>7, <2>8, <4>1
      <4>. QED
        BY <2>3, <4>1, <4>2
    <3>. QED
      BY <1>3, <3>1, <3>2, <3>3
  <2>10. PICK G : G = {s \in Y : s = Begun(t, pid) \/ Mid(s)
                                 \/ (s.todo = <<>> /\ s.tables = PeersToldLost(v, pid))}
    OBVIOUS
  <2>11. ASSUME NEW s \in Y, Mid(s)
         PROVE  Unregistering(s) \in G
    <3>1. s.todo \in Seq(T) /\ Unregistering(s) \in Y
      BY <1>4, <1>5 DEF Unregisterable
    <3>2. PICK todo \in Seq(T) : todo = s.todo /\ todo # <<>>
      BY <2>11, <3>1
    <3>3. /\ Len(todo) \in Nat /\ Len(todo) >= 1
          /\ Head(todo) = todo[1]
          /\ Tail(todo) \in Seq(T) /\ Len(Tail(todo)) = Len(todo) - 1
          /\ \A i \in 1..Len(todo) - 1 : Tail(todo)[i] = todo[i + 1]
      BY <3>2, Rested
    <3>4. CASE Len(todo) = 1
      <4>1. Head(todo) = Tell(pid) /\ Tail(todo) = <<>>
        <5>1. todo[Len(todo)] = Tell(pid)
          BY <2>11, <3>2
        <5>2. Head(todo) = Tell(pid)
          BY <3>3, <3>4, <5>1
        <5>3. PICK rest : rest = Tail(todo)
          OBVIOUS
        <5>4. rest \in Seq(T) /\ Len(rest) = 0
          BY <3>3, <3>4, <5>3
        <5>5. rest = <<>>
          BY <5>4, EmptySeq
        <5>. QED
          BY <5>2, <5>3, <5>5
      <4>2. Unregistering(s) = [tables |-> PeersToldLost(v, pid), todo |-> <<>>]
        BY <2>11, <3>2, <4>1 DEF Unregistering, Tell
      <4>. QED
        BY <2>10, <3>1, <4>2
    <3>5. CASE Len(todo) # 1
      <4>1. 1 \in 1..Len(todo) - 1 /\ Len(todo) - 1 \in 1..Len(todo) - 1
        BY <3>3, <3>5
      <4>2. Visiting(Head(todo))
        BY <2>11, <3>2, <3>3, <4>1
      <4>3. PICK name, rest : name = Head(todo).name /\ rest = Tail(todo)
        OBVIOUS
      <4>4. Unregistering(s) = Visited(v, name, r.name, rest)
        BY <2>11, <3>2, <4>2, <4>3 DEF Unregistering
      <4>5. \A q \in Lively(v) : q.source # r.name
        BY <1>2, <1>3, <1>11 DEF Less
      <4>6. Unregistering(s) = [tables |-> v, todo |-> rest]
        <5>1. (\A p \in Lively(v) : ~(p.name = name /\ p.source = r.name)) =>
                 Visited(v, name, r.name, rest) = [tables |-> v, todo |-> rest]
          BY <1>9, <2>1, VisitedOne DEF VisitIs
        <5>2. Visited(v, name, r.name, rest) = [tables |-> v, todo |-> rest]
          BY <4>5, <5>1
        <5>. QED
          BY <4>4, <5>2
      <4>7. rest # <<>>
        <5>1. Len(rest) # 0
          BY <3>3, <4>1, <4>3
        <5>. QED
          BY <5>1, Empty
      <4>8. Tail(todo)[Len(Tail(todo))] = Tell(pid)
        <5>1. Tail(todo)[Len(todo) - 1] = todo[Len(todo) - 1 + 1]
          BY <3>3, <4>1
        <5>2. Len(todo) - 1 + 1 = Len(todo)
          BY <3>3
        <5>. QED
          BY <2>11, <3>2, <3>3, <5>1, <5>2
      <4>9. ASSUME NEW i \in 1..Len(Tail(todo)) - 1
            PROVE  Visiting(Tail(todo)[i])
        <5>1. i \in 1..Len(todo) - 1 /\ i + 1 \in 1..Len(todo) - 1
          BY <3>3
        <5>2. Tail(todo)[i] = todo[i + 1]
          BY <3>3, <5>1
        <5>. QED
          BY <2>11, <3>2, <5>1, <5>2
      <4>10. Mid(Unregistering(s))
        <5>1. PICK w : w = Unregistering(s)
          OBVIOUS
        <5>2. w.tables = v /\ w.todo = rest
          BY <4>6, <5>1
        <5>3. Mid(w)
          BY <4>3, <4>7, <4>8, <4>9, <5>2
        <5> HIDE DEF Mid
        <5>. QED
          BY <5>1, <5>3
      <4> HIDE DEF Mid
      <4>. QED
        BY <2>10, <3>1, <4>10
    <3>. QED
      BY <3>4, <3>5
  <2>12. ASSUME NEW s \in G PROVE Unregistering(s) \in G
    <3>1. CASE s = Begun(t, pid)
      <4> HIDE DEF Mid
      <4>. QED
        BY <1>6, <1>8, <2>9, <2>10, <3>1
    <3>2. CASE Mid(s)
      <4> HIDE DEF Mid
      <4>. QED
        BY <2>10, <2>11, <3>2
    <3>3. CASE s.todo = <<>>
      BY <3>3 DEF Unregistering
    <3> HIDE DEF Mid
    <3>. QED
      BY <2>10, <3>1, <3>2, <3>3
  <2>13. Begun(t, pid) \in G /\ G \in SUBSET Y
    BY <1>5, <2>10
  <2>14. Ended(t, pid, G)
    BY <1>5, <2>12, <2>13
  <2>15. PICK s \in G : s.todo = <<>> /\ UnregisterRouter(t, pid) = s.tables
    BY <2>14 DEF Ended
  <2>16. ~Mid(s) /\ s # Begun(t, pid)
    BY <1>7, <2>15
  <2> HIDE DEF Mid
  <2>. QED
    BY <2>10, <2>15, <2>16
<1>12. CASE \E r \in Lively(t) : r.pid = pid
  <2>1. u = PeersToldLost(v, pid)
    BY <1>11, <1>12
  <2>2. /\ u.name = v.name /\ u.routers = v.routers
        /\ u.routersById = v.routersById /\ u.routersByPid = v.routersByPid
        /\ u.bridges = v.bridges /\ u.out = v.out \o Deliveries(v, Lost(pid))
    BY <1>9, <2>1 DEF PeersToldLost, TablesFit, IsTables
  <2>3. Lively(u) = Lively(v)
    BY <2>2 DEF Lively
  <2>4. Settled(u, yes) /\ Less(t, u, pid)
    BY <1>2, <1>3, <2>2, <2>3 DEF Settled, Tidy, Bridging, Less
  <2>5. Less(t, v, pid) /\ Bridging(v, yes) /\ OnlyUser(t, v)
    BY <1>2, <1>3 DEF Settled
  <2>. QED
    BY <1>9, <1>12, <2>2, <2>4, <2>5 DEF Unlisted
<1>. QED
  BY <1>10, <1>12

(* The loop visits every router.                                           *)
LEMMA VisitsFit ==
    ASSUME NEW t, TablesFit(t), NEW source \in Node, NEW ids,
           NEW visits, visits = DependentsLost(t, source)
    PROVE  /\ visits \in Seq(Tasks(ids))
           /\ \A r \in Lively(t) : Visit(r.name, source) \in ToSet(visits)
<1>1. t.routers \in Seq(RouterRecords)
  BY DEF TablesFit, ListFits
<1>2. /\ Len(t.routers) \in Nat /\ DOMAIN t.routers = 1..Len(t.routers)
      /\ \A i \in 1..Len(t.routers) : t.routers[i] \in RouterRecords
      /\ \A r \in ToSet(t.routers) : \E i \in 1..Len(t.routers) : r = t.routers[i]
  BY <1>1, Elements
<1>3. PICK T : T = Tasks(ids)
  OBVIOUS
<1>4. visits = [i \in 1..Len(t.routers) |-> Visit(t.routers[i].name, source)]
  BY <1>2 DEF DependentsLost
<1>5. \A i \in 1..Len(t.routers) : visits[i] \in T
  BY <1>2, <1>3, <1>4 DEF RouterRecords, Visit, Tasks
<1>6. visits = [i \in 1..Len(t.routers) |-> visits[i]]
  BY <1>4
<1>7. visits \in Seq(T) /\ Len(visits) = Len(t.routers)
  BY <1>2, <1>5, <1>6, Filled
<1>8. ASSUME NEW r \in Lively(t) PROVE Visit(r.name, source) \in ToSet(visits)
  <2>1. r \in ToSet(t.routers)
    BY DEF Lively
  <2>2. PICK i \in 1..Len(t.routers) : r = t.routers[i]
    BY <1>2, <2>1
  <2>3. visits[i] = Visit(r.name, source)
    BY <1>4, <2>2
  <2>4. visits[i] \in ToSet(visits)
    BY <1>7, Elements
  <2>. QED
    BY <2>3, <2>4
<1>. QED
  BY <1>3, <1>7, <1>8

(* The first of a sequence, and the set of the others.                     *)
LEMMA RestedSet ==
    ASSUME NEW S, NEW q \in Seq(S), q # <<>>
    PROVE  ToSet(q) = {Head(q)} \cup ToSet(Tail(q))
<1>1. /\ Len(q) \in Nat /\ Len(q) >= 1 /\ Head(q) = q[1] /\ Head(q) \in ToSet(q)
      /\ Tail(q) \in Seq(S) /\ Len(Tail(q)) = Len(q) - 1
      /\ \A i \in 1..Len(q) - 1 : Tail(q)[i] = q[i + 1]
  BY Rested
<1>2. PICK p \in Seq(S) : p = Tail(q)
  BY <1>1
<1>3. /\ \A i \in 1..Len(q) : q[i] \in ToSet(q)
      /\ \A x \in ToSet(q) : \E i \in 1..Len(q) : x = q[i]
      /\ \A i \in 1..Len(p) : p[i] \in ToSet(p)
      /\ \A x \in ToSet(p) : \E i \in 1..Len(p) : x = p[i]
  BY Elements
<1>4. ASSUME NEW x \in ToSet(q), x # Head(q) PROVE x \in ToSet(p)
  <2>1. PICK i \in 1..Len(q) : x = q[i]
    BY <1>3
  <2>2. i - 1 \in 1..Len(q) - 1 /\ i - 1 + 1 = i
    BY <1>1, <1>4, <2>1
  <2>3. p[i - 1] = x /\ i - 1 \in 1..Len(p)
    BY <1>1, <1>2, <2>1, <2>2
  <2>. QED
    BY <1>3, <2>3
<1>5. ASSUME NEW x \in ToSet(p) PROVE x \in ToSet(q)
  <2>1. PICK i \in 1..Len(q) - 1 : x = p[i]
    BY <1>1, <1>2, <1>3
  <2>2. i + 1 \in 1..Len(q) /\ x = q[i + 1]
    BY <1>1, <1>2, <2>1
  <2>. QED
    BY <1>3, <2>2
<1>. QED
  BY <1>1, <1>2, <1>4, <1>5

(* A node that does not bridge loses the router that all others lead       *)
(* through, and with it all of them.                                       *)
LEMMA UnregisterAll ==
    ASSUME NEW t, TablesFit(t), Settled(t, FALSE), NEW q \in Lively(t),
           \A r \in Lively(t) : r = q \/ r.source = q.name,
           NEW u, u = UnregisterRouter(t, q.pid)
    PROVE  Lively(u) = {} /\ Settled(u, FALSE) /\ OnlyUser(t, u) /\ u.name = t.name
<1>1. PICK pid, from : pid = q.pid /\ from = q.name
  OBVIOUS
<1>2. pid \in ContextPid(Ids(t)) /\ from \in Node
  BY <1>1, LivelyFits
<1>3. PICK T : T = Tasks(Ids(t))
  OBVIOUS
<1>4. PICK Y : /\ Begun(t, pid) \in Y
               /\ \A s \in Y : Unregisterable(t, s) /\ Unregistering(s) \in Y
               /\ \A G \in SUBSET Y :
                     Begun(t, pid) \in G /\ (\A s \in G : Unregistering(s) \in G)
                        => Ended(t, pid, G)
  BY <1>2, UnregisterSteps
<1> DEFINE Due(r, todo) == \/ Visit(r.name, from) \in ToSet(todo)
                           \/ Call(r.pid) \in ToSet(todo)
           Good(s) == /\ Settled(s.tables, FALSE) /\ s.tables.name = t.name
                      /\ Lively(s.tables) \subseteq Lively(t) \ {q}
                      /\ OnlyUser(t, s.tables)
                      /\ \A r \in Lively(s.tables) : Due(r, s.todo)
<1>5. Begun(t, pid).todo # <<>>
  BY DEF Begun
<1>6. \A s \in Y : /\ TablesFit(s.tables) /\ Ids(s.tables) = Ids(t)
                   /\ s.todo \in Seq(T)
  BY <1>3, <1>4 DEF Unregisterable
<1>7. ASSUME NEW s, TablesFit(s.tables), Ids(s.tables) = Ids(t),
             Settled(s.tables, FALSE), NEW p \in ContextPid(Ids(t)),
             NEW rest \in Seq(T), NEW c, c = Called(s.tables, p, rest)
      PROVE  /\ Settled(c.tables, FALSE) /\ OnlyUser(s.tables, c.tables)
             /\ Less(s.tables, c.tables, p)
             /\ ToSet(rest) \subseteq ToSet(c.todo)
             /\ \A r \in Lively(s.tables) : r.pid = p =>
                   \A x \in Lively(c.tables) :
                      Visit(x.name, r.name) \in ToSet(c.todo)
  <2>1. PICK v : v = s.tables
    OBVIOUS
  <2>2. TablesFit(v) /\ Settled(v, FALSE) /\ p \in ContextPid(Ids(v))
        /\ c = Called(v, p, rest)
    BY <1>7, <2>1
  <2>3. CalledOff(v, c, p, rest, FALSE)
    BY <2>2, CalledTidy
  <2>4. Less(v, c.tables, p) /\ Settled(c.tables, FALSE) /\ OnlyUser(v, c.tables)
    BY <2>3 DEF CalledOff
  <2>5. CASE \A r \in Lively(v) : r.pid # p
    <3>1. c.todo = rest
      BY <2>3, <2>5 DEF CalledOff
    <3>. QED
      BY <2>1, <2>4, <2>5, <3>1
  <2>6. ASSUME NEW r \in Lively(v), r.pid = p
        PROVE  /\ ToSet(rest) \subseteq ToSet(c.todo)
               /\ \A x \in Lively(c.tables) : Visit(x.name, r.name) \in ToSet(c.todo)
    <3>1. PICK visits : visits = DependentsLost(c.tables, r.name)
      OBVIOUS
    <3>2. PICK tell : tell = <<Tell(p)>>
      OBVIOUS
    <3>3. c.todo = visits \o tell \o rest
      BY <2>3, <2>6, <3>1, <3>2 DEF CalledOff
    <3>4. r.name \in Node
      BY <2>2, LivelyFits
    <3>5. TablesFit(c.tables)
      <4>1. rest \in Seq(Tasks(Ids(v)))
        BY <1>3, <1>7, <2>1
      <4>2. Unregisterable(v, c)
        BY <2>2, <4>1, CalledFits
      <4>. QED
        BY <4>2 DEF Unregisterable
    <3>6. /\ visits \in Seq(Tasks(Ids(t)))
          /\ \A x \in Lively(c.tables) : Visit(x.name, r.name) \in ToSet(visits)
      BY <3>1, <3>4, <3>5, VisitsFit
    <3>7. tell \in Seq(T)
      <4>1. Tell(p) \in T
        BY <1>3 DEF Tell, Tasks
      <4>. QED
        BY <3>2, <4>1, One
    <3>8. /\ visits \o tell \in Seq(T)
          /\ ToSet(visits \o tell) = ToSet(visits) \cup ToSet(tell)
      BY <1>3, <3>6, <3>7, Joined
    <3>9. ToSet(visits \o tell \o rest) = ToSet(visits \o tell) \cup ToSet(rest)
      <4>1. PICK x : x = visits \o tell
        OBVIOUS
      <4>2. x \in Seq(T) /\ rest \in Seq(T)
        BY <3>8, <4>1
      <4>3. ToSet(x \o rest) = ToSet(x) \cup ToSet(rest)
        BY <4>2, Joined
      <4>. QED
        BY <4>1, <4>3
    <3>. QED
      BY <3>3, <3>6, <3>8, <3>9
  <2>7. ASSUME NEW r \in Lively(v), r.pid = p
        PROVE  ToSet(rest) \subseteq ToSet(c.todo)
    BY <2>6, <2>7
  <2>8. ToSet(rest) \subseteq ToSet(c.todo)
    <3>1. CASE \A r \in Lively(v) : r.pid # p
      BY <2>3, <3>1 DEF CalledOff
    <3>. QED
      BY <2>7, <3>1
  <2>. QED
    BY <2>1, <2>4, <2>6, <2>8
<1>8. Good(Unregistering(Begun(t, pid)))
  <2>1. PICK c : c = Unregistering(Begun(t, pid))
    OBVIOUS
  <2>2. PICK e : e = <<>>
    OBVIOUS
  <2>3. PICK b : b = <<Call(pid)>>
    OBVIOUS
  <2>4. b # <<>> /\ Head(b) = Call(pid) /\ Tail(b) = e
    BY <2>2, <2>3
  <2>5. PICK s : s = Begun(t, pid)
    OBVIOUS
  <2>6. s.tables = t /\ s.todo = b
    BY <2>3, <2>5 DEF Begun
  <2>7. Call(pid).does = "call" /\ Call(pid).pid = pid
    BY DEF Call
  <2>8. c = Called(s.tables, pid, e)
    BY <2>1, <2>4, <2>5, <2>6, <2>7 DEF Unregistering
  <2>9. e \in Seq(T)
    BY <2>2, Empty
  <2>10. /\ Settled(c.tables, FALSE) /\ OnlyUser(s.tables, c.tables)
         /\ Less(s.tables, c.tables, pid)
         /\ \A r \in Lively(s.tables) : r.pid = pid =>
               \A x \in Lively(c.tables) :
                  Visit(x.name, r.name) \in ToSet(c.todo)
    BY <1>2, <1>7, <2>6, <2>8, <2>9
  <2>11. \A x \in Lively(c.tables) : Visit(x.name, from) \in ToSet(c.todo)
    BY <1>1, <2>6, <2>10
  <2>12. Lively(c.tables) \subseteq Lively(t) \ {q}
    BY <1>1, <2>6, <2>10 DEF Less
  <2>. QED
    BY <2>1, <2>6, <2>10, <2>11, <2>12 DEF Less
<1>9. ASSUME NEW s \in Y, Good(s), s.todo # <<>>
      PROVE  Good(Unregistering(s))
  <2>1. PICK now, rest, v : now = Head(s.todo) /\ rest = Tail(s.todo) /\ v = s.tables
    OBVIOUS
  <2>2. /\ now \in T /\ rest \in Seq(T)
        /\ ToSet(s.todo) = {now} \cup ToSet(rest)
    BY <1>6, <1>9, <2>1, Rested, RestedSet
  <2>3. /\ TablesFit(v) /\ Ids(v) = Ids(t) /\ Settled(v, FALSE) /\ v.name = t.name
        /\ Lively(v) \subseteq Lively(t) \ {q} /\ OnlyUser(t, v)
    BY <1>6, <1>9, <2>1
  <2>4. \A r \in Lively(v) : \/ Visit(r.name, from) \in {now} \cup ToSet(rest)
                             \/ Call(r.pid) \in {now} \cup ToSet(rest)
    BY <1>9, <2>1, <2>2
  <2>5. PICK w : w = Unregistering(s)
    OBVIOUS
  <2>6. CASE now.does = "call"
    <3>1. PICK p \in ContextPid(Ids(t)) : p = now.pid
      BY <1>3, <2>2, <2>6 DEF Tasks
    <3>2. w = Called(s.tables, p, rest)
      BY <1>9, <2>1, <2>5, <2>6, <3>1 DEF Unregistering
    <3>3. /\ Settled(w.tables, FALSE) /\ OnlyUser(v, w.tables)
          /\ Less(v, w.tables, p)
          /\ ToSet(rest) \subseteq ToSet(w.todo)
      BY <1>7, <2>1, <2>2, <2>3, <3>2
    <3>4. ASSUME NEW r \in Lively(w.tables) PROVE Due(r, w.todo)
      <4>1. r \in Lively(v) /\ r.pid # p
        BY <3>3 DEF Less
      <4>2. Visit(r.name, from) # now /\ Call(r.pid) # now
        BY <2>6, <3>1, <4>1 DEF Visit, Call
      <4>. QED
        BY <2>4, <3>3, <4>1, <4>2
    <3>5. OnlyUser(t, w.tables)
      BY <2>3, <3>3 DEF OnlyUser
    <3>6. w.tables.name = t.name /\ Lively(w.tables) \subseteq Lively(t) \ {q}
      BY <2>3, <3>3 DEF Less
    <3>. QED
      BY <2>5, <3>3, <3>4, <3>5, <3>6
  <2>7. CASE now.does = "visit"
    <3>1. PICK name, source : name = now.name /\ source = now.source
      OBVIOUS
    <3>2. source \in Node
      BY <1>3, <2>2, <2>7, <3>1 DEF Tasks
    <3>3. w = Visited(v, name, source, rest)
      BY <1>9, <2>1, <2>5, <2>7, <3>1 DEF Unregistering
    <3>4. /\ (\A r \in Lively(v) : ~(r.name = name /\ r.source = source)) =>
                w = [tables |-> v, todo |-> rest]
          /\ \A r \in Lively(v) : r.name = name /\ r.source = source =>
                w = [tables |-> v, todo |-> <<Call(r.pid)>> \o rest]
      <4>1. TablesFit(v)
        BY <2>3
      <4>2. VisitIs(Visited(v, name, source, rest), v, name, source, rest)
        BY <3>2, <4>1, VisitedOne
      <4>3. VisitIs(w, v, name, source, rest)
        BY <3>3, <4>2
      <4>. QED
        BY <4>3 DEF VisitIs
    <3>5. ASSUME NEW r \in Lively(v)
          PROVE  /\ ToSet(<<Call(r.pid)>> \o rest) = {Call(r.pid)} \cup ToSet(rest)
                 /\ Visit(r.name, from) = now => r.name = name /\ r.source = source
                 /\ Call(r.pid) # now
      <4>1. r.pid \in ContextPid(Ids(t))
        BY <2>3, LivelyFits
      <4>2. Call(r.pid) \in T
        BY <1>3, <4>1 DEF Call, Tasks
      <4>3. PICK x : x = <<Call(r.pid)>>
        OBVIOUS
      <4>4. x \in Seq(T) /\ ToSet(x) = {Call(r.pid)}
        BY <4>2, <4>3, One
      <4>5. ToSet(x \o rest) = ToSet(x) \cup ToSet(rest)
        BY <2>2, <4>4, Joined
      <4>6. r.source = from
        BY <1>1, <2>3
      <4>. QED
        BY <2>7, <3>1, <4>3, <4>4, <4>5, <4>6 DEF Visit, Call
    <3>6. w.tables = v
      <4>1. w.tables \in {Visited(v, name, source, rest).tables}
        BY <3>3
      <4>2. Visited(v, name, source, rest).tables = v
        BY DEF Visited
      <4>. QED
        BY <4>1, <4>2
    <3>7. ASSUME NEW r \in Lively(v) PROVE Due(r, w.todo)
      <4>1. CASE \A x \in Lively(v) : ~(x.name = name /\ x.source = source)
        <5>1. w.todo = rest
          BY <3>4, <4>1
        <5>2. Visit(r.name, from) # now /\ Call(r.pid) # now
          BY <3>5, <4>1
        <5>. QED
          BY <2>4, <5>1, <5>2
      <4>2. ASSUME NEW x \in Lively(v), x.name = name, x.source = source
            PROVE  Due(r, w.todo)
        <5>1. w.todo = <<Call(x.pid)>> \o rest
          BY <3>4, <4>2
        <5>2. ToSet(w.todo) = {Call(x.pid)} \cup ToSet(rest)
          BY <3>5, <5>1
        <5>3. CASE r.name = name
          <6>1. r = x
            BY <2>3, <4>2, <5>3, LivelyFits
          <6>. QED
            BY <5>2, <6>1
        <5>4. CASE r.name # name
          <6>1. Visit(r.name, from) # now /\ Call(r.pid) # now
            BY <3>5, <5>4
          <6>. QED
            BY <2>4, <5>2, <6>1
        <5>. QED
          BY <5>3, <5>4
      <4>. QED
        BY <4>1, <4>2
    <3>. QED
      BY <2>3, <2>5, <3>6, <3>7
  <2>8. CASE now.does \notin {"call", "visit"}
    <3>1. w = [tables |-> PeersToldLost(v, now.pid), todo |-> rest]
      BY <1>9, <2>1, <2>5, <2>8 DEF Unregistering
    <3>2. v.bridges = <<>>
      BY <2>3 DEF Settled, Bridging
    <3>3. PICK x : x = w.tables
      OBVIOUS
    <3>4. /\ x.name = v.name /\ x.routers = v.routers
          /\ x.routersById = v.routersById /\ x.routersByPid = v.routersByPid
          /\ x.bridges = v.bridges /\ x.out = v.out \o <<>>
      BY <2>3, <3>1, <3>2, <3>3, DeliveriesNone DEF PeersToldLost, TablesFit, IsTables
    <3>5. x.out = v.out
      <4>1. PICK D : v.out \in Seq(D)
        BY <2>3 DEF TablesFit
      <4>. QED
        BY <3>4, <4>1, ConcatEmptySeq
    <3>6. Lively(x) = Lively(v)
      BY <3>4 DEF Lively
    <3>7. Settled(x, FALSE)
      BY <2>3, <3>4, <3>6 DEF Settled, Tidy, Bridging
    <3>8. OnlyUser(t, x)
      BY <2>3, <3>5 DEF OnlyUser
    <3>9. ASSUME NEW r \in Lively(v) PROVE Due(r, rest)
      <4>1. Visit(r.name, from) # now /\ Call(r.pid) # now
        BY <2>8 DEF Visit, Call
      <4>. QED
        BY <2>4, <4>1
    <3>10. w.todo = rest
      BY <3>1
    <3>. QED
      BY <2>3, <2>5, <3>3, <3>4, <3>6, <3>7, <3>8, <3>9, <3>10
  <2>. QED
    BY <2>6, <2>7, <2>8
<1> HIDE DEF Good
<1>10. PICK G : G = {s \in Y : s = Begun(t, pid) \/ Good(s)}
  OBVIOUS
<1>11. ASSUME NEW s \in G PROVE Unregistering(s) \in G
  <2>1. s \in Y /\ Unregistering(s) \in Y
    BY <1>4, <1>10
  <2>2. CASE s = Begun(t, pid)
    BY <1>8, <1>10, <2>1, <2>2
  <2>3. CASE Good(s) /\ s.todo # <<>>
    BY <1>9, <1>10, <2>1, <2>3
  <2>4. CASE s.todo = <<>>
    BY <2>4 DEF Unregistering
  <2>. QED
    BY <1>10, <2>2, <2>3, <2>4
<1>12. Ended(t, pid, G)
  BY <1>4, <1>10, <1>11
<1>13. PICK s \in G : s.todo = <<>> /\ UnregisterRouter(t, pid) = s.tables
  BY <1>12 DEF Ended
<1>14. Good(s) /\ u = s.tables
  BY <1>1, <1>5, <1>10, <1>13
<1>15. ToSet(s.todo) = {}
  BY <1>13, Empty
<1>. QED
  BY <1>14, <1>15 DEF Good

-----------------------------------------------------------------------------
(* Boxes.                                                                  *)

(* The items q are delivered to e at the end of its box b.                 *)
Gets(t, e, b, new) ==
    \E q, S : /\ b \in Seq(S) /\ q \in Seq(S) /\ new = b \o q
              /\ \A x : x \in ToSet(q) <=>
                           \E d \in ToSet(t.out) : d.to = Local(e) /\ x = d.item

(* The contexts of the node get what is delivered to them, in addition.    *)
LEMMA PostedTo ==
    ASSUME Fits, NEW t, TablesFit(t), Onward(tables[t.name], t), NEW e \in End
    PROVE  /\ At(e) # t.name \/ status[e] # "on" => Posted(t)[e] = box[e]
           /\ At(e) = t.name /\ status[e] = "on" => Gets(t, e, box[e], Posted(t)[e])
<1>1. box[e] \in Seq(Signals(NameOf(tables[At(e)])))
  BY DEF Fits
<1>2. CASE At(e) # t.name \/ status[e] # "on"
  BY <1>2 DEF Posted
<1>3. CASE At(e) = t.name /\ status[e] = "on"
  <2>1. PICK mine : mine = Picked(t.out, {i \in DOMAIN t.out : t.out[i].to = Local(e)})
    OBVIOUS
  <2>2. PICK items : items = [i \in DOMAIN mine |-> mine[i].item]
    OBVIOUS
  <2>3. Posted(t)[e] = box[e] \o items
    BY <1>3, <2>1, <2>2 DEF Posted
  <2>4. PICK D : D = Delivered(t)
    OBVIOUS
  <2>5. t.out \in Seq(D)
    BY <2>4 DEF TablesFit
  <2>6. PICK I : I = {i \in DOMAIN t.out : t.out[i].to = Local(e)}
    OBVIOUS
  <2>7. mine \in Seq(D) /\ ToSet(mine) = {t.out[i] : i \in I \cap (1..Len(t.out))}
    BY <2>1, <2>5, <2>6, PickedSet
  <2>8. /\ DOMAIN t.out = 1..Len(t.out)
        /\ \A i \in 1..Len(t.out) : t.out[i] \in D /\ t.out[i] \in ToSet(t.out)
        /\ \A d \in ToSet(t.out) : \E i \in 1..Len(t.out) : d = t.out[i]
    BY <2>5, Elements
  <2>9. ToSet(mine) = {d \in ToSet(t.out) : d.to = Local(e)}
    BY <2>6, <2>7, <2>8
  <2>10. /\ Len(mine) \in Nat /\ DOMAIN mine = 1..Len(mine)
         /\ \A i \in 1..Len(mine) : mine[i] \in ToSet(mine)
         /\ \A d \in ToSet(mine) : \E i \in 1..Len(mine) : d = mine[i]
    BY <2>7, Elements
  <2>11. PICK S : S = Signals(NameOf(tables[At(e)])) \cup {d.item : d \in ToSet(t.out)}
    OBVIOUS
  <2>12. items \in Seq(S) /\ Len(items) = Len(mine)
    <3>1. items = [i \in 1..Len(mine) |-> items[i]]
      BY <2>2, <2>10
    <3>2. \A i \in 1..Len(mine) : items[i] \in S
      BY <2>2, <2>9, <2>10, <2>11
    <3>. QED
      BY <2>10, <3>1, <3>2, Filled
  <2>13. box[e] \in Seq(S)
    BY <1>1, <2>11, Wider
  <2>14. ASSUME NEW x \in ToSet(items)
         PROVE  \E d \in ToSet(t.out) : d.to = Local(e) /\ x = d.item
    <3>1. PICK i \in 1..Len(mine) : x = items[i]
      BY <2>12, Elements
    <3>. QED
      BY <2>2, <2>9, <2>10, <3>1
  <2>15. ASSUME NEW d \in ToSet(t.out), d.to = Local(e)
         PROVE  d.item \in ToSet(items)
    <3>1. PICK i \in 1..Len(mine) : d = mine[i]
      BY <2>9, <2>10, <2>15
    <3>2. items[i] = d.item
      BY <2>2, <2>10, <3>1
    <3>. QED
      BY <2>12, <3>1, <3>2, Elements
  <2>. QED
    BY <1>3, <2>3, <2>12, <2>13, <2>14, <2>15 DEF Gets
<1>. QED
  BY <1>2, <1>3

-----------------------------------------------------------------------------
(* The news of a bridge.                                                   *)

(* What an item says: that there is a context, or that it is gone, or      *)
(* nothing of either.                                                      *)
There(d) == [says |-> "there", of |-> d]
Gone(d) == [says |-> "gone", of |-> d]
Nothing == [says |-> "nothing", of |-> NoPid]
News(x) ==
    IF x.kind = "discover" /\ x.pid # NoPid THEN There(x.pid.proc)
    ELSE IF x.kind = "lost" THEN Gone(x.pid.proc)
    ELSE Nothing

Stream(w, b) == LET q == w \o b IN [i \in 1..Len(q) |-> News(q[i])]

(* Nothing, there and gone are told apart.                                 *)
LEMMA NewsApart ==
    \A d, f : /\ There(d) # Gone(f) /\ There(d) # Nothing /\ Gone(d) # Nothing
              /\ There(d) = There(f) <=> d = f
              /\ Gone(d) = Gone(f) <=> d = f
BY DEF There, Gone, Nothing

(* The server of a connection and its client. *)
ServerEnd(c) == <<c, "server">>
ClientEnd(c) == <<c, "client">>
ClientOf(e) == e[1][1]

(* The news s on their way to the client of the context me, which knows    *)
(* the contexts known and is told of the contexts told: it will know what  *)
(* it is told, and nothing else, and it never hears of a new life of a     *)
(* client before the end of the one it knows.                              *)
Consistent(s, known, told1, me, gone) ==
    /\ \A i, j \in 1..Len(s) : \A d \in End :
          s[i] = Gone(d) /\ s[j] = There(d) => j < i
    /\ \A i \in 1..Len(s) : \A d, f \in End :
          s[i] = There(d) /\ f # d /\ ClientOf(f) = ClientOf(d)
          /\ (f \in known \/ \E j \in 1..Len(s) : j < i /\ s[j] = There(f))
             => \E k \in 1..Len(s) : k < i /\ s[k] = Gone(f)
    /\ \A d \in told1 : \/ d = me \/ d \in known
                        \/ \E i \in 1..Len(s) : s[i] = There(d)
    /\ \A d \in End : d \in known \/ (\E i \in 1..Len(s) : s[i] = There(d))
          => d \in told1 \/ \E i \in 1..Len(s) : s[i] = Gone(d)
    /\ \A i \in 1..Len(s) : \A d \in End : s[i] = Gone(d) => d \in gone

Silent(s) == \A i \in 1..Len(s) : s[i] = Nothing

(* A client that the bridge tells of others, or not yet. *)
StreamFits(s, known, told1, me, gone) ==
    IF me \in told1 THEN Consistent(s, known, told1, me, gone)
                    ELSE known = {} /\ Silent(s)

(* What a client knows once it has heard x. *)
After(known, x) == {d \in known : x # Gone(d)} \cup {d \in End : x = There(d)}

(* Hearing the next of the news.                                           *)
LEMMA StreamHeard ==
    ASSUME NEW s, Len(s) \in Nat, Len(s) >= 1, NEW r, Len(r) = Len(s) - 1,
           \A i \in 1..Len(s) - 1 : r[i] = s[i + 1],
           NEW known \in SUBSET End, NEW told1 \in SUBSET End, NEW me, NEW gone,
           told1 \cap gone = {},
           StreamFits(s, known, told1, me, gone)
    PROVE  StreamFits(r, After(known, s[1]), told1, me, gone)
<1>1. 1 \in 1..Len(s)
  OBVIOUS
<1>2. CASE me \notin told1
  <2>1. s[1] = Nothing /\ known = {} /\ Silent(s)
    BY <1>1, <1>2 DEF StreamFits, Silent
  <2>2. After(known, s[1]) = {}
    BY <2>1, NewsApart DEF After
  <2>3. Silent(r)
    <3>1. \A i \in 1..Len(r) : i + 1 \in 1..Len(s) /\ r[i] = s[i + 1]
      OBVIOUS
    <3>. QED
      BY <2>1, <3>1 DEF Silent
  <2>. QED
    BY <1>2, <2>2, <2>3 DEF StreamFits
<1>3. CASE me \in told1
  <2>1. Consistent(s, known, told1, me, gone)
    BY <1>3 DEF StreamFits
  <2>2. /\ \A i \in 1..Len(r) : i + 1 \in 1..Len(s) /\ r[i] = s[i + 1]
        /\ \A i \in 1..Len(s) : i = 1 \/ (i - 1 \in 1..Len(r) /\ s[i] = r[i - 1])
    <3>1. \A i \in 1..Len(s) : i # 1 => i - 1 \in 1..Len(s) - 1 /\ i - 1 + 1 = i
      OBVIOUS
    <3>. QED
      BY <3>1
  <2>3. PICK after : after = After(known, s[1])
    OBVIOUS
  <2>4. \A d \in End : d \in after <=> (d \in known /\ s[1] # Gone(d)) \/ s[1] = There(d)
    BY <2>3 DEF After
  <2>5. \A i, j \in 1..Len(r) : \A d \in End :
           r[i] = Gone(d) /\ r[j] = There(d) => j < i
    <3>1. TAKE i, j \in 1..Len(r)
    <3>2. TAKE d \in End
    <3>3. HAVE r[i] = Gone(d) /\ r[j] = There(d)
    <3>4. i + 1 \in 1..Len(s) /\ j + 1 \in 1..Len(s) /\ s[i + 1] = Gone(d)
          /\ s[j + 1] = There(d)
      BY <2>2, <3>3
    <3>5. \A m, n \in 1..Len(s) : s[m] = Gone(d) /\ s[n] = There(d) => n < m
      BY <2>1 DEF Consistent
    <3>6. j + 1 < i + 1
      BY <3>4, <3>5
    <3>. QED
      BY <3>6
  <2>6. ASSUME NEW d \in End, s[1] = Gone(d)
        PROVE  \A j \in 1..Len(s) : s[j] # There(d)
    <3>1. TAKE j \in 1..Len(s)
    <3>2. SUFFICES ASSUME s[j] = There(d) PROVE FALSE
      OBVIOUS
    <3>3. j < 1
      BY <1>1, <2>1, <2>6, <3>2 DEF Consistent
    <3>. QED
      BY <3>3
  <2>7. ASSUME NEW d \in End, d \in after \/ \E j \in 1..Len(r) : r[j] = There(d)
        PROVE  s[1] # Gone(d) /\ (d \in known \/ \E j \in 1..Len(s) : s[j] = There(d))
    BY <1>1, <2>2, <2>4, <2>6, <2>7, NewsApart
  <2>8. ASSUME NEW i \in 1..Len(r), NEW d \in End, NEW f \in End,
               r[i] = There(d), f # d, ClientOf(f) = ClientOf(d),
               f \in after \/ \E j \in 1..Len(r) : j < i /\ r[j] = There(f)
        PROVE  \E k \in 1..Len(r) : k < i /\ r[k] = Gone(f)
    <3>1. i + 1 \in 1..Len(s) /\ s[i + 1] = There(d)
      BY <2>2, <2>8
    <3>2. f \in known \/ \E j \in 1..Len(s) : j < i + 1 /\ s[j] = There(f)
      <4>1. CASE f \in after
        BY <1>1, <2>4, <4>1
      <4>2. ASSUME NEW j \in 1..Len(r), j < i, r[j] = There(f)
            PROVE  j + 1 \in 1..Len(s) /\ j + 1 < i + 1 /\ s[j + 1] = There(f)
        BY <2>2, <4>2
      <4>. QED
        BY <2>8, <4>1, <4>2
    <3>3. PICK k \in 1..Len(s) : k < i + 1 /\ s[k] = Gone(f)
      <4>1. \A n \in 1..Len(s) :
               /\ s[n] = There(d)
               /\ f \in known \/ \E j \in 1..Len(s) : j < n /\ s[j] = There(f)
               => \E k \in 1..Len(s) : k < n /\ s[k] = Gone(f)
        BY <2>1, <2>8 DEF Consistent
      <4>2. PICK n \in 1..Len(s) : n = i + 1
        BY <3>1
      <4>3. s[n] = There(d)
        BY <3>1, <4>2
      <4>4. f \in known \/ \E j \in 1..Len(s) : j < n /\ s[j] = There(f)
        BY <3>2, <4>2
      <4>5. \E k \in 1..Len(s) : k < n /\ s[k] = Gone(f)
        BY <4>1, <4>3, <4>4
      <4>. QED
        BY <4>2, <4>5
    <3>4. s[1] # Gone(f)
      BY <2>7, <2>8
    <3>5. k - 1 \in 1..Len(r) /\ r[k - 1] = Gone(f) /\ k - 1 < i
      BY <2>2, <3>3, <3>4
    <3>. QED
      BY <3>5
  <2>9. ASSUME NEW d \in told1, d # me
        PROVE  d \in after \/ \E i \in 1..Len(r) : r[i] = There(d)
    <3>1. d \in End /\ d \notin gone
      OBVIOUS
    <3>2. s[1] # Gone(d)
      BY <1>1, <2>1, <3>1 DEF Consistent
    <3>3. d \in known \/ \E i \in 1..Len(s) : s[i] = There(d)
      BY <2>1, <2>9 DEF Consistent
    <3>. QED
      BY <2>2, <2>4, <3>1, <3>2, <3>3, SMTT(30)
  <2>10. ASSUME NEW d \in End, d \in after \/ \E i \in 1..Len(r) : r[i] = There(d)
         PROVE  d \in told1 \/ \E i \in 1..Len(r) : r[i] = Gone(d)
    <3>1. s[1] # Gone(d) /\ (d \in known \/ \E j \in 1..Len(s) : s[j] = There(d))
      BY <2>7, <2>10
    <3>2. d \in told1 \/ \E i \in 1..Len(s) : s[i] = Gone(d)
      BY <2>1, <3>1 DEF Consistent
    <3>. QED
      BY <2>2, <3>1, <3>2
  <2>11. \A i \in 1..Len(r) : \A d \in End : r[i] = Gone(d) => d \in gone
    <3>1. TAKE i \in 1..Len(r)
    <3>2. TAKE d \in End
    <3>3. HAVE r[i] = Gone(d)
    <3>4. i + 1 \in 1..Len(s) /\ s[i + 1] = Gone(d)
      BY <2>2, <3>3
    <3>5. \A n \in 1..Len(s) : s[n] = Gone(d) => d \in gone
      BY <2>1 DEF Consistent
    <3>. QED
      BY <3>4, <3>5
  <2>12. Consistent(r, after, told1, me, gone)
    <3>1. \A i \in 1..Len(r) : \A d, f \in End :
             r[i] = There(d) /\ f # d /\ ClientOf(f) = ClientOf(d)
             /\ (f \in after \/ \E j \in 1..Len(r) : j < i /\ r[j] = There(f))
                => \E k \in 1..Len(r) : k < i /\ r[k] = Gone(f)
      BY <2>8
    <3>2. \A d \in told1 : \/ d = me \/ d \in after
                           \/ \E i \in 1..Len(r) : r[i] = There(d)
      BY <2>9
    <3>3. \A d \in End : d \in after \/ (\E i \in 1..Len(r) : r[i] = There(d))
             => d \in told1 \/ \E i \in 1..Len(r) : r[i] = Gone(d)
      BY <2>10
    <3>. QED
      BY <2>5, <2>11, <3>1, <3>2, <3>3 DEF Consistent
  <2>. QED
    BY <1>3, <2>3, <2>12 DEF StreamFits
<1>. QED
  BY <1>2, <1>3

(* r is s and, after it, what is in N. *)
Continues(s, r, N) ==
    /\ Len(s) \in Nat /\ Len(r) \in Nat /\ Len(s) <= Len(r)
    /\ \A i \in 1..Len(s) : r[i] = s[i]
    /\ \A i \in 1..Len(r) : i <= Len(s) \/ r[i] \in N
    /\ \A x \in N : \E i \in 1..Len(r) : i > Len(s) /\ r[i] = x

(* No news.                                                                *)
LEMMA StreamQuiet ==
    ASSUME NEW s, NEW r, NEW N \in SUBSET {Nothing}, Continues(s, r, N),
           NEW known, NEW told1, NEW me, NEW gone, NEW later, gone \subseteq later,
           StreamFits(s, known, told1, me, gone)
    PROVE  StreamFits(r, known, told1, me, later)
<1>1. /\ Len(s) \in Nat /\ Len(r) \in Nat /\ Len(s) <= Len(r)
      /\ \A i \in 1..Len(s) : i \in 1..Len(r) /\ r[i] = s[i]
      /\ \A i \in 1..Len(r) : i \in 1..Len(s) \/ r[i] = Nothing
  BY DEF Continues
<1>2. \A i \in 1..Len(r) : r[i] # Nothing => i \in 1..Len(s) /\ r[i] = s[i]
  BY <1>1
<1>3. CASE me \notin told1
  <2>1. known = {} /\ Silent(s)
    BY <1>3 DEF StreamFits
  <2>2. Silent(r)
    BY <1>2, <2>1 DEF Silent
  <2>. QED
    BY <1>3, <2>1, <2>2 DEF StreamFits
<1>4. CASE me \in told1
  <2>1. Consistent(s, known, told1, me, gone)
    BY <1>4 DEF StreamFits
  <2>2. \A i \in 1..Len(r) : \A d :
           /\ r[i] = There(d) => i \in 1..Len(s) /\ s[i] = There(d)
           /\ r[i] = Gone(d) => i \in 1..Len(s) /\ s[i] = Gone(d)
    BY <1>2, NewsApart
  <2>3. \A i \in 1..Len(s) : \A d :
           /\ s[i] = There(d) => i \in 1..Len(r) /\ r[i] = There(d)
           /\ s[i] = Gone(d) => i \in 1..Len(r) /\ r[i] = Gone(d)
    BY <1>1
  <2>4. \A i, j \in 1..Len(r) : \A d \in End :
           r[i] = Gone(d) /\ r[j] = There(d) => j < i
    BY <2>1, <2>2 DEF Consistent
  <2>5. ASSUME NEW i \in 1..Len(r), NEW d \in End, NEW f \in End,
               r[i] = There(d), f # d, ClientOf(f) = ClientOf(d),
               f \in known \/ \E j \in 1..Len(r) : j < i /\ r[j] = There(f)
        PROVE  \E k \in 1..Len(r) : k < i /\ r[k] = Gone(f)
    <3>1. i \in 1..Len(s) /\ s[i] = There(d)
      BY <2>2, <2>5
    <3>2. f \in known \/ \E j \in 1..Len(s) : j < i /\ s[j] = There(f)
      BY <2>2, <2>5
    <3>3. PICK k \in 1..Len(s) : k < i /\ s[k] = Gone(f)
      BY <2>1, <2>5, <3>1, <3>2 DEF Consistent
    <3>. QED
      BY <2>3, <3>3
  <2>6. \A d \in told1 : \/ d = me \/ d \in known
                         \/ \E i \in 1..Len(r) : r[i] = There(d)
    BY <2>1, <2>3 DEF Consistent
  <2>7. ASSUME NEW d \in End, d \in known \/ \E i \in 1..Len(r) : r[i] = There(d)
        PROVE  d \in told1 \/ \E i \in 1..Len(r) : r[i] = Gone(d)
    <3>1. d \in known \/ \E i \in 1..Len(s) : s[i] = There(d)
      BY <2>2, <2>7
    <3>2. d \in told1 \/ \E i \in 1..Len(s) : s[i] = Gone(d)
      BY <2>1, <3>1 DEF Consistent
    <3>. QED
      BY <2>3, <3>2
  <2>8. \A i \in 1..Len(r) : \A d \in End : r[i] = Gone(d) => d \in later
    BY <2>1, <2>2 DEF Consistent
  <2>9. Consistent(r, known, told1, me, later)
    BY <2>4, <2>5, <2>6, <2>7, <2>8 DEF Consistent
  <2>. QED
    BY <1>4, <2>9 DEF StreamFits
<1>. QED
  BY <1>3, <1>4

(* A new context, of a client that the bridge does not tell of already.    *)
LEMMA StreamThere ==
    ASSUME NEW s, NEW r, NEW b \in End, Continues(s, r, {There(b)}),
           NEW known, NEW told1 \in SUBSET End, NEW me \in told1, NEW gone,
           b \notin gone, \A d \in told1 : ClientOf(d) # ClientOf(b),
           StreamFits(s, known, told1, me, gone)
    PROVE  StreamFits(r, known, told1 \cup {b}, me, gone)
<1>1. /\ Len(s) \in Nat /\ Len(r) \in Nat /\ Len(s) <= Len(r)
      /\ \A i \in 1..Len(s) : i \in 1..Len(r) /\ r[i] = s[i]
      /\ \A i \in 1..Len(r) : i \in 1..Len(s) \/ (i > Len(s) /\ r[i] = There(b))
      /\ \E i \in 1..Len(r) : i > Len(s) /\ r[i] = There(b)
  BY DEF Continues
<1>2. Consistent(s, known, told1, me, gone)
  BY DEF StreamFits
<1>3. \A i \in 1..Len(r) : \A d :
         /\ r[i] = There(d) => (i \in 1..Len(s) /\ s[i] = There(d)) \/ (i > Len(s) /\ d = b)
         /\ r[i] = Gone(d) => i \in 1..Len(s) /\ s[i] = Gone(d)
  BY <1>1, NewsApart
<1>4. \A i \in 1..Len(s) : \A d :
         /\ s[i] = There(d) => i \in 1..Len(r) /\ r[i] = There(d)
         /\ s[i] = Gone(d) => i \in 1..Len(r) /\ r[i] = Gone(d)
  BY <1>1
<1>5. \A i \in 1..Len(r) : r[i] # Gone(b)
  BY <1>2, <1>3 DEF Consistent
<1>6. ASSUME NEW i \in 1..Len(r), NEW j \in 1..Len(r), NEW d \in End,
             r[i] = Gone(d), r[j] = There(d)
      PROVE  j < i
  <2>1. d # b
    BY <1>5, <1>6
  <2>2. i \in 1..Len(s) /\ s[i] = Gone(d) /\ j \in 1..Len(s) /\ s[j] = There(d)
    BY <1>3, <1>6, <2>1
  <2>. QED
    BY <1>2, <2>2 DEF Consistent
<1>7. ASSUME NEW i \in 1..Len(r), NEW d \in End, NEW f \in End,
             r[i] = There(d), f # d, ClientOf(f) = ClientOf(d),
             f \in known \/ \E j \in 1..Len(r) : j < i /\ r[j] = There(f)
      PROVE  \E k \in 1..Len(r) : k < i /\ r[k] = Gone(f)
  <2>1. CASE i \in 1..Len(s)
    <3>1. s[i] = There(d)
      BY <1>1, <1>7, <2>1
    <3>2. f \in known \/ \E j \in 1..Len(s) : j < i /\ s[j] = There(f)
      BY <1>1, <1>3, <1>7, <2>1
    <3>3. PICK k \in 1..Len(s) : k < i /\ s[k] = Gone(f)
      BY <1>2, <1>7, <2>1, <3>1, <3>2 DEF Consistent
    <3>. QED
      BY <1>4, <3>3
  <2>2. CASE i \notin 1..Len(s)
    <3>1. d = b /\ i > Len(s)
      BY <1>3, <1>7, <2>2
    <3>2. f \in known \/ \E j \in 1..Len(s) : s[j] = There(f)
      BY <1>3, <1>7, <3>1
    <3>3. f \notin told1
      BY <1>7, <3>1
    <3>4. PICK k \in 1..Len(s) : s[k] = Gone(f)
      BY <1>2, <3>2, <3>3 DEF Consistent
    <3>. QED
      BY <1>1, <1>4, <3>1, <3>4
  <2>. QED
    BY <2>1, <2>2
<1>8. \A d \in told1 \cup {b} : \/ d = me \/ d \in known
                                \/ \E i \in 1..Len(r) : r[i] = There(d)
  BY <1>1, <1>2, <1>4 DEF Consistent
<1>9. ASSUME NEW d \in End, d \in known \/ \E i \in 1..Len(r) : r[i] = There(d)
      PROVE  d \in told1 \cup {b} \/ \E i \in 1..Len(r) : r[i] = Gone(d)
  <2>1. d = b \/ d \in known \/ \E i \in 1..Len(s) : s[i] = There(d)
    BY <1>3, <1>9
  <2>2. d = b \/ d \in told1 \/ \E i \in 1..Len(s) : s[i] = Gone(d)
    BY <1>2, <2>1 DEF Consistent
  <2>. QED
    BY <1>4, <2>2
<1>10. \A i \in 1..Len(r) : \A d \in End : r[i] = Gone(d) => d \in gone
  BY <1>2, <1>3 DEF Consistent
<1>11. Consistent(r, known, told1 \cup {b}, me, gone)
  BY <1>6, <1>7, <1>8, <1>9, <1>10 DEF Consistent
<1>. QED
  BY <1>11 DEF StreamFits

(* A context that is told of everything that the bridge tells of.          *)
LEMMA StreamBegins ==
    ASSUME NEW told1 \in SUBSET End,
           NEW s, NEW r, Continues(s, r, {There(b) : b \in told1}),
           NEW known, NEW me, me \notin told1, NEW gone,
           \A d, f \in told1 : ClientOf(d) = ClientOf(f) => d = f,
           StreamFits(s, known, told1, me, gone)
    PROVE  StreamFits(r, known, told1 \cup {me}, me, gone)
<1>1. /\ Len(s) \in Nat /\ Len(r) \in Nat /\ Len(s) <= Len(r)
      /\ \A i \in 1..Len(s) : i \in 1..Len(r) /\ r[i] = s[i]
      /\ \A i \in 1..Len(r) : i \in 1..Len(s) \/ \E b \in told1 : r[i] = There(b)
      /\ \A b \in told1 : \E i \in 1..Len(r) : r[i] = There(b)
  BY DEF Continues
<1>2. known = {} /\ Silent(s)
  BY DEF StreamFits
<1>3. \A i \in 1..Len(r) : \A d :
         r[i] # Gone(d) /\ (r[i] = There(d) => d \in told1)
  BY <1>1, <1>2, NewsApart DEF Silent
<1>4. Consistent(r, known, told1 \cup {me}, me, gone)
  BY <1>1, <1>2, <1>3 DEF Consistent
<1>. QED
  BY <1>4 DEF StreamFits

(* A context of another client is gone.                                    *)
LEMMA StreamGone ==
    ASSUME NEW s, NEW r, NEW b \in End, Continues(s, r, {Gone(b)}),
           NEW known, NEW told1 \in SUBSET End, NEW me \in told1, b # me,
           NEW gone, NEW later, gone \subseteq later, b \in later,
           StreamFits(s, known, told1, me, gone)
    PROVE  StreamFits(r, known, told1 \ {b}, me, later)
<1>1. /\ Len(s) \in Nat /\ Len(r) \in Nat /\ Len(s) <= Len(r)
      /\ \A i \in 1..Len(s) : i \in 1..Len(r) /\ r[i] = s[i]
      /\ \A i \in 1..Len(r) : i \in 1..Len(s) \/ (i > Len(s) /\ r[i] = Gone(b))
      /\ \E i \in 1..Len(r) : i > Len(s) /\ r[i] = Gone(b)
  BY DEF Continues
<1>2. Consistent(s, known, told1, me, gone)
  BY DEF StreamFits
<1>3. \A i \in 1..Len(r) : \A d :
         /\ r[i] = There(d) => i \in 1..Len(s) /\ s[i] = There(d)
         /\ r[i] = Gone(d) => (i \in 1..Len(s) /\ s[i] = Gone(d)) \/ (i > Len(s) /\ d = b)
  BY <1>1, NewsApart
<1>4. \A i \in 1..Len(s) : \A d :
         /\ s[i] = There(d) => i \in 1..Len(r) /\ r[i] = There(d)
         /\ s[i] = Gone(d) => i \in 1..Len(r) /\ r[i] = Gone(d)
  BY <1>1
<1>5. ASSUME NEW i \in 1..Len(r), NEW j \in 1..Len(r), NEW d \in End,
             r[i] = Gone(d), r[j] = There(d)
      PROVE  j < i
  <2>1. j \in 1..Len(s) /\ s[j] = There(d)
    BY <1>3, <1>5
  <2>2. CASE i \in 1..Len(s)
    <3>1. s[i] = Gone(d)
      BY <1>1, <1>5, <2>2
    <3>. QED
      BY <1>2, <2>1, <2>2, <3>1 DEF Consistent
  <2>3. CASE i \notin 1..Len(s)
    BY <1>1, <2>1, <2>3
  <2>. QED
    BY <2>2, <2>3
<1>6. ASSUME NEW i \in 1..Len(r), NEW d \in End, NEW f \in End,
             r[i] = There(d), f # d, ClientOf(f) = ClientOf(d),
             f \in known \/ \E j \in 1..Len(r) : j < i /\ r[j] = There(f)
      PROVE  \E k \in 1..Len(r) : k < i /\ r[k] = Gone(f)
  <2>1. i \in 1..Len(s) /\ s[i] = There(d)
    BY <1>3, <1>6
  <2>2. f \in known \/ \E j \in 1..Len(s) : j < i /\ s[j] = There(f)
    BY <1>3, <1>6
  <2>3. PICK k \in 1..Len(s) : k < i /\ s[k] = Gone(f)
    BY <1>2, <1>6, <2>1, <2>2 DEF Consistent
  <2>. QED
    BY <1>4, <2>3
<1>7. \A d \in told1 \ {b} : \/ d = me \/ d \in known
                             \/ \E i \in 1..Len(r) : r[i] = There(d)
  BY <1>2, <1>4 DEF Consistent
<1>8. ASSUME NEW d \in End, d \in known \/ \E i \in 1..Len(r) : r[i] = There(d)
      PROVE  d \in told1 \ {b} \/ \E i \in 1..Len(r) : r[i] = Gone(d)
  <2>1. d \in known \/ \E i \in 1..Len(s) : s[i] = There(d)
    BY <1>3, <1>8
  <2>2. d \in told1 \/ \E i \in 1..Len(s) : s[i] = Gone(d)
    BY <1>2, <2>1 DEF Consistent
  <2>. QED
    BY <1>1, <1>4, <2>2
<1>9. \A i \in 1..Len(r) : \A d \in End : r[i] = Gone(d) => d \in later
  BY <1>2, <1>3 DEF Consistent
<1>10. Consistent(r, known, told1 \ {b}, me, later)
  BY <1>5, <1>6, <1>7, <1>8, <1>9 DEF Consistent
<1>. QED
  BY <1>10 DEF StreamFits

(* The stream of a wire, and of the box that follows.                      *)
LEMMA StreamIs ==
    ASSUME NEW S, NEW w \in Seq(S), NEW b \in Seq(S)
    PROVE  /\ Len(w) \in Nat /\ Len(b) \in Nat
           /\ Len(Stream(w, b)) = Len(w) + Len(b)
           /\ Stream(w, b) = [i \in 1..Len(w) + Len(b) |-> Stream(w, b)[i]]
           /\ \A i \in 1..Len(w) + Len(b) :
                 Stream(w, b)[i] = IF i <= Len(w) THEN News(w[i])
                                                  ELSE News(b[i - Len(w)])
<1>1. PICK q : q = w \o b
  OBVIOUS
<1>2. /\ Len(w) \in Nat /\ Len(b) \in Nat /\ Len(q) = Len(w) + Len(b)
      /\ \A i \in 1..Len(w) + Len(b) :
            q[i] = IF i <= Len(w) THEN w[i] ELSE b[i - Len(w)]
  BY <1>1, Joined
<1>3. PICK s : s = Stream(w, b)
  OBVIOUS
<1>4. s = [i \in 1..Len(w) + Len(b) |-> News(q[i])]
  BY <1>1, <1>2, <1>3 DEF Stream
<1>5. PICK n \in Nat : n = Len(w) + Len(b)
  BY <1>2
<1>6. Len(s) = n
  <2>1. PICK N : N = {News(q[i]) : i \in 1..n}
    OBVIOUS
  <2>2. s = [i \in 1..n |-> s[i]] /\ \A i \in 1..n : s[i] \in N
    BY <1>4, <1>5, <2>1
  <2>. QED
    BY <2>2, Filled
<1>7. \A i \in 1..Len(w) + Len(b) :
         s[i] = IF i <= Len(w) THEN News(w[i]) ELSE News(b[i - Len(w)])
  BY <1>2, <1>4
<1>8. s = [i \in 1..Len(w) + Len(b) |-> s[i]]
  BY <1>4
<1>. QED
  BY <1>2, <1>3, <1>5, <1>6, <1>7, <1>8

(* The first event is handled.                                             *)
LEMMA StreamTail ==
    ASSUME NEW S, NEW w \in Seq(S), w # <<>>, NEW b \in Seq(S),
           NEW s, s = Stream(w, b), NEW r, r = Stream(Tail(w), b)
    PROVE  /\ Len(s) \in Nat /\ Len(s) >= 1 /\ Len(r) = Len(s) - 1
           /\ \A i \in 1..Len(s) - 1 : r[i] = s[i + 1]
           /\ s[1] = News(Head(w))
<1>1. /\ Len(w) \in Nat /\ Len(w) >= 1 /\ Head(w) = w[1]
      /\ Tail(w) \in Seq(S) /\ Len(Tail(w)) = Len(w) - 1
      /\ \A i \in 1..Len(w) - 1 : Tail(w)[i] = w[i + 1]
  BY Rested
<1>2. PICK v \in Seq(S) : v = Tail(w)
  BY <1>1
<1>3. /\ Len(b) \in Nat /\ Len(s) = Len(w) + Len(b)
      /\ \A i \in 1..Len(w) + Len(b) :
            s[i] = IF i <= Len(w) THEN News(w[i]) ELSE News(b[i - Len(w)])
  BY StreamIs
<1>4. /\ Len(v) = Len(w) - 1 /\ \A i \in 1..Len(w) - 1 : v[i] = w[i + 1]
  BY <1>1, <1>2
<1>5. /\ Len(r) = Len(w) - 1 + Len(b)
      /\ \A i \in 1..Len(w) - 1 + Len(b) :
            r[i] = IF i <= Len(w) - 1 THEN News(v[i]) ELSE News(b[i - (Len(w) - 1)])
  <2>1. r = Stream(v, b)
    BY <1>2
  <2>2. /\ Len(r) = Len(v) + Len(b)
        /\ \A i \in 1..Len(v) + Len(b) :
              r[i] = IF i <= Len(v) THEN News(v[i]) ELSE News(b[i - Len(v)])
    BY <2>1, StreamIs
  <2>. QED
    BY <1>4, <2>2
<1>6. ASSUME NEW i \in 1..Len(s) - 1
      PROVE  r[i] = s[i + 1]
  <2>1. i \in 1..Len(w) - 1 + Len(b) /\ i + 1 \in 1..Len(w) + Len(b)
    BY <1>1, <1>3
  <2>2. CASE i <= Len(w) - 1
    <3>1. i \in 1..Len(w) - 1 /\ i + 1 <= Len(w)
      BY <1>1, <2>1, <2>2
    <3>. QED
      BY <1>3, <1>4, <1>5, <2>1, <2>2, <3>1
  <2>3. CASE ~(i <= Len(w) - 1)
    <3>1. ~(i + 1 <= Len(w)) /\ i - (Len(w) - 1) = i + 1 - Len(w)
      BY <1>1, <2>1, <2>3
    <3>. QED
      BY <1>3, <1>5, <2>1, <2>3, <3>1
  <2>. QED
    BY <2>2, <2>3
<1>7. s[1] = News(w[1])
  <2>1. 1 \in 1..Len(w) + Len(b) /\ 1 <= Len(w)
    BY <1>1, <1>3
  <2>. QED
    BY <1>3, <2>1
<1>8. Len(s) \in Nat /\ Len(s) >= 1 /\ Len(r) = Len(s) - 1
  BY <1>1, <1>3, <1>5
<1>. QED
  BY <1>1, <1>6, <1>7, <1>8

(* Signals come to a box.                                                  *)
LEMMA StreamJoined ==
    ASSUME NEW S, NEW w \in Seq(S), NEW b \in Seq(S), NEW q \in Seq(S)
    PROVE  Continues(Stream(w, b), Stream(w, b \o q), {News(x) : x \in ToSet(q)})
<1>1. PICK s, r, v : s = Stream(w, b) /\ v = b \o q /\ r = Stream(w, v)
  OBVIOUS
<1>2. /\ v \in Seq(S) /\ Len(b) \in Nat /\ Len(q) \in Nat
      /\ Len(v) = Len(b) + Len(q)
      /\ \A i \in 1..Len(b) + Len(q) :
            v[i] = IF i <= Len(b) THEN b[i] ELSE q[i - Len(b)]
  BY <1>1, Joined
<1>3. /\ Len(w) \in Nat /\ Len(s) = Len(w) + Len(b)
      /\ \A i \in 1..Len(w) + Len(b) :
            s[i] = IF i <= Len(w) THEN News(w[i]) ELSE News(b[i - Len(w)])
  BY <1>1, StreamIs
<1>4. /\ Len(r) = Len(w) + (Len(b) + Len(q))
      /\ \A i \in 1..Len(w) + (Len(b) + Len(q)) :
            r[i] = IF i <= Len(w) THEN News(w[i]) ELSE News(v[i - Len(w)])
  <2>1. /\ Len(r) = Len(w) + Len(v)
        /\ \A i \in 1..Len(w) + Len(v) :
              r[i] = IF i <= Len(w) THEN News(w[i]) ELSE News(v[i - Len(w)])
    <3>1. /\ Len(Stream(w, v)) = Len(w) + Len(v)
          /\ \A i \in 1..Len(w) + Len(v) :
                Stream(w, v)[i] = IF i <= Len(w) THEN News(w[i])
                                                ELSE News(v[i - Len(w)])
      <4>1. PICK x \in Seq(S) : x = v
        BY <1>2
      <4>2. /\ Len(Stream(w, x)) = Len(w) + Len(x)
            /\ \A i \in 1..Len(w) + Len(x) :
                  Stream(w, x)[i] = IF i <= Len(w) THEN News(w[i])
                                                  ELSE News(x[i - Len(w)])
        BY StreamIs
      <4>. QED
        BY <4>1, <4>2
    <3>. QED
      BY <1>1, <3>1
  <2>. QED
    BY <1>2, <2>1
<1>5. /\ \A i \in 1..Len(q) : q[i] \in ToSet(q)
      /\ \A x \in ToSet(q) : \E i \in 1..Len(q) : x = q[i]
  BY Elements
<1>6. ASSUME NEW i \in 1..Len(s)
      PROVE  r[i] = s[i]
  <2>1. CASE i <= Len(w)
    BY <1>2, <1>3, <1>4, <2>1
  <2>2. CASE ~(i <= Len(w))
    <3>1. i - Len(w) \in 1..Len(b)
      BY <1>2, <1>3, <2>2
    <3>2. v[i - Len(w)] = b[i - Len(w)]
      BY <1>2, <3>1
    <3>. QED
      BY <1>2, <1>3, <1>4, <2>2, <3>2
  <2>. QED
    BY <2>1, <2>2
<1>7. ASSUME NEW j \in 1..Len(q)
      PROVE  /\ Len(s) + j \in 1..Len(r) /\ Len(s) + j > Len(s)
             /\ r[Len(s) + j] = News(q[j])
  <2>1. Len(s) + j \in 1..Len(r) /\ Len(s) + j > Len(s)
    BY <1>2, <1>3, <1>4
  <2>2. PICK k \in 1..Len(r) : k = Len(s) + j
    BY <2>1
  <2>3. ~(k <= Len(w)) /\ k - Len(w) = Len(b) + j
    BY <1>2, <1>3, <2>2
  <2>4. r[k] = News(v[Len(b) + j])
    BY <1>4, <2>3
  <2>5. PICK m : m = Len(b) + j
    OBVIOUS
  <2>6. m \in 1..Len(b) + Len(q) /\ ~(m <= Len(b)) /\ m - Len(b) = j
    BY <1>2, <2>5
  <2>7. v[m] = q[j]
    BY <1>2, <2>6
  <2>. QED
    BY <2>1, <2>2, <2>4, <2>5, <2>7
<1>8. \A i \in 1..Len(r) : i <= Len(s) \/ r[i] \in {News(x) : x \in ToSet(q)}
  <2>1. TAKE i \in 1..Len(r)
  <2>2. SUFFICES ASSUME ~(i <= Len(s)) PROVE r[i] \in {News(x) : x \in ToSet(q)}
    OBVIOUS
  <2>3. i - Len(s) \in 1..Len(q) /\ Len(s) + (i - Len(s)) = i
    BY <1>2, <1>3, <1>4, <2>2
  <2>4. PICK j \in 1..Len(q) : j = i - Len(s)
    BY <2>3
  <2>5. r[i] = News(q[j])
    BY <1>7, <2>3, <2>4
  <2>. QED
    BY <1>5, <2>5
<1>9. \A y \in {News(x) : x \in ToSet(q)} :
         \E i \in 1..Len(r) : i > Len(s) /\ r[i] = y
  BY <1>5, <1>7
<1>10. Len(s) \in Nat /\ Len(r) \in Nat /\ Len(s) <= Len(r)
  BY <1>2, <1>3, <1>4
<1>. QED
  BY <1>1, <1>6, <1>8, <1>9, <1>10 DEF Continues

(* A signal becomes an event.                                              *)
LEMMA StreamForwarded ==
    ASSUME NEW S, NEW w \in Seq(S), NEW b \in Seq(S), b # <<>>, NEW y \in S,
           News(y) = News(Head(b))
    PROVE  Stream(Append(w, y), Tail(b)) = Stream(w, b)
<1>1. /\ Len(b) \in Nat /\ Len(b) >= 1 /\ Head(b) = b[1]
      /\ Tail(b) \in Seq(S) /\ Len(Tail(b)) = Len(b) - 1
      /\ \A i \in 1..Len(b) - 1 : Tail(b)[i] = b[i + 1]
  BY Rested
<1>2. PICK v \in Seq(S), c \in Seq(S) : v = Append(w, y) /\ c = Tail(b)
  BY <1>1, Appended
<1>3. /\ Len(w) \in Nat /\ Len(v) = Len(w) + 1 /\ v[Len(w) + 1] = y
      /\ \A i \in 1..Len(w) : v[i] = w[i]
  BY <1>2, Appended
<1>4. /\ Len(c) = Len(b) - 1 /\ \A i \in 1..Len(b) - 1 : c[i] = b[i + 1]
  BY <1>1, <1>2
<1>5. PICK s, r : s = Stream(w, b) /\ r = Stream(v, c)
  OBVIOUS
<1>6. /\ s = [i \in 1..Len(w) + Len(b) |-> s[i]]
      /\ \A i \in 1..Len(w) + Len(b) :
            s[i] = IF i <= Len(w) THEN News(w[i]) ELSE News(b[i - Len(w)])
  BY <1>5, StreamIs, SMTT(30)
<1>7. Len(v) + Len(c) = Len(w) + Len(b)
  BY <1>1, <1>3, <1>4
<1>8. /\ r = [i \in 1..Len(w) + Len(b) |-> r[i]]
      /\ \A i \in 1..Len(w) + Len(b) :
            r[i] = IF i <= Len(v) THEN News(v[i]) ELSE News(c[i - Len(v)])
  <2>1. /\ r = [i \in 1..Len(v) + Len(c) |-> r[i]]
        /\ \A i \in 1..Len(v) + Len(c) :
              r[i] = IF i <= Len(v) THEN News(v[i]) ELSE News(c[i - Len(v)])
    <3>1. /\ Stream(v, c) = [i \in 1..Len(v) + Len(c) |-> Stream(v, c)[i]]
          /\ \A i \in 1..Len(v) + Len(c) :
                Stream(v, c)[i] = IF i <= Len(v) THEN News(v[i])
                                                ELSE News(c[i - Len(v)])
      BY StreamIs
    <3>. QED
      BY <1>5, <3>1
  <2>. QED
    BY <1>7, <2>1
<1>9. ASSUME NEW i \in 1..Len(w) + Len(b)
      PROVE  r[i] = s[i]
  <2>1. CASE i <= Len(w)
    <3>1. i \in 1..Len(w) /\ i <= Len(v)
      BY <1>1, <1>3, <2>1
    <3>. QED
      BY <1>3, <1>6, <1>8, <2>1, <3>1
  <2>2. CASE i = Len(w) + 1
    <3>1. i <= Len(v) /\ ~(i <= Len(w)) /\ i - Len(w) = 1
      BY <1>1, <1>3, <2>2
    <3>2. r[i] = News(y) /\ s[i] = News(b[1])
      BY <1>3, <1>6, <1>8, <2>2, <3>1
    <3>. QED
      BY <1>1, <3>2
  <2>3. CASE i > Len(w) + 1
    <3>1. ~(i <= Len(v)) /\ ~(i <= Len(w)) /\ i - Len(v) = i - Len(w) - 1
          /\ i - Len(w) - 1 \in 1..Len(b) - 1 /\ i - Len(w) - 1 + 1 = i - Len(w)
      BY <1>1, <1>3, <2>3
    <3>2. PICK k \in 1..Len(b) - 1 : k = i - Len(w) - 1
      BY <3>1
    <3>3. r[i] = News(c[k]) /\ s[i] = News(b[k + 1])
      BY <1>6, <1>8, <3>1, <3>2
    <3>. QED
      BY <1>4, <3>3
  <2>. QED
    BY <1>3, <2>1, <2>2, <2>3
<1>10. r = s
  BY <1>6, <1>8, <1>9
<1>. QED
  BY <1>2, <1>5, <1>10

-----------------------------------------------------------------------------
(* A hub.                                                                  *)

(* All connections are to one server, nobody but the server bridges, and   *)
(* no client is back before the server has heard that it was gone.         *)
Hub(s, h) ==
    /\ h \in Node /\ ~s.overlap
    /\ \A n \in Node : s.bridge[n] => n = h
    /\ \A c \in s.connections : c[2] = h /\ c[1] # h

(* The scores of a neighbour, and of a node behind it. *)
Near == Farther(0)
Far == Farther(Near)

(* A client connects after the server, and for one connection at a time.   *)
(* An end that is not on has an empty box.                                 *)
Lifetimes ==
    /\ \A c \in Connection :
          status[ClientEnd(c)] # "off" => status[ServerEnd(c)] # "off"
    /\ \A c, d \in Connection :
          c[1] = d[1] /\ c[2] = d[2] /\ c[3] < d[3] /\ status[ServerEnd(d)] # "off"
             => status[ServerEnd(c)] = "gone" /\ status[ClientEnd(c)] = "gone"
    /\ \A e \in End : /\ status[e] # "off" => e[1] \in scenario.connections
                      /\ status[e] # "on" => box[e] = <<>>
                      /\ status[e] = "off" => wire[e] = <<>>

(* The server has routers over its connections, a client has one over its  *)
(* own, and through it the others.                                         *)
HubRoute(r, h) ==
    /\ r.source = h /\ r.score = Near
    /\ \E c \in scenario.connections :
          r.pid = Local(ServerEnd(c)) /\ status[ServerEnd(c)] = "on"

LeafRoute(n, routers, r, h) ==
    /\ r.name = h =>
          /\ r.source = n /\ r.score = Near
          /\ \E c \in scenario.connections :
                c[1] = n /\ r.pid = Local(ClientEnd(c)) /\ status[ClientEnd(c)] = "on"
    /\ r.name # h =>
          /\ r.source = h /\ r.score = Far
          /\ \E c \in scenario.connections : r.pid.proc = ServerEnd(c)
          /\ \E q \in routers : q.name = h /\ r.pid.node = q.id

Routes(h) ==
    /\ \A n \in Node : Settled(tables[n], scenario.bridge[n])
    /\ \A r \in Lively(tables[h]) : HubRoute(r, h)
    /\ \A n \in Node \ {h} : \A r \in Lively(tables[n]) :
          LeafRoute(n, Lively(tables[n]), r, h)

(* A client is told of the other clients, and the server of nobody.        *)
Greeting(x) == x.kind = "discover" /\ x.pid = NoPid
NewsItem(x, node, c, h) ==
    /\ x.kind \in {"discover", "lost"} /\ x.pid # NoPid /\ x.pid.node = node
    /\ \E d \in scenario.connections : x.pid.proc = ServerEnd(d) /\ d[1] # c[1]
    /\ x.kind = "discover" => x.source = h /\ x.score = Near

Items(h) ==
    \A c \in scenario.connections :
       /\ \A x \in ToSet(box[ServerEnd(c)]) : Plain(x) \/ NewsItem(x, 0, c, h)
       /\ \A x \in ToSet(wire[ServerEnd(c)]) :
             Greeting(x) \/ Plain(x) \/ NewsItem(x, h, c, h)
       /\ \A x \in ToSet(box[ClientEnd(c)]) : Plain(x)
       /\ \A x \in ToSet(wire[ClientEnd(c)]) : Greeting(x) \/ Plain(x)

(* The greeting comes first, and brings the router of the neighbour.       *)
Over(t, e) == \E r \in Lively(t) : r.pid = Local(e)
Greets(w) == w # <<>> /\ Greeting(Head(w))

Handshake ==
    \A c \in scenario.connections :
       /\ status[ServerEnd(c)] # "off" /\ status[ClientEnd(c)] # "gone" =>
             \/ Over(tables[c[1]], ClientEnd(c))
             \/ Greets(wire[ServerEnd(c)])
       /\ status[ServerEnd(c)] = "on" /\ status[ClientEnd(c)] # "off" =>
             \/ Over(tables[c[2]], ServerEnd(c))
             \/ Greets(wire[ClientEnd(c)])

(* The contexts a client knows of, and those the server tells of.          *)
KnownTo(t, h) == {r.pid.proc : r \in {q \in Lively(t) : q.name # h}}
ToldBy(t) == {b.pid.proc : b \in ToSet(t.bridges)}
GoneEnds == {e \in End : status[e] = "gone"}

StreamOf(c, h) ==
    StreamFits(Stream(wire[ServerEnd(c)], box[ServerEnd(c)]),
               KnownTo(tables[c[1]], h), ToldBy(tables[h]), ServerEnd(c), GoneEnds)

Streams(h) ==
    \A c \in scenario.connections :
       status[ServerEnd(c)] = "on" /\ status[ClientEnd(c)] # "gone" => StreamOf(c, h)

HubInv(h) ==
    Lifetimes /\ Routes(h) /\ Items(h) /\ Handshake /\ Streams(h)

(* The ends of a connection.                                               *)
LEMMA EndsOf ==
    /\ \A c \in Connection :
          /\ ServerEnd(c) \in End /\ ClientEnd(c) \in End
          /\ At(ServerEnd(c)) = c[2] /\ At(ClientEnd(c)) = c[1]
          /\ Other(ServerEnd(c)) = ClientEnd(c) /\ Other(ClientEnd(c)) = ServerEnd(c)
          /\ Towards(ServerEnd(c)) = c[1] /\ Towards(ClientEnd(c)) = c[2]
          /\ ClientOf(ServerEnd(c)) = c[1] /\ ClientOf(ClientEnd(c)) = c[1]
          /\ ServerEnd(c)[1] = c /\ ClientEnd(c)[1] = c
          /\ c[1] \in Node /\ c[2] \in Node /\ c[3] \in Nat
    /\ \A c, d : /\ ServerEnd(c) # ClientEnd(d)
                 /\ ServerEnd(c) = ServerEnd(d) => c = d
                 /\ ClientEnd(c) = ClientEnd(d) => c = d
    /\ \A e \in End : e[1] \in Connection /\ e \in {ServerEnd(e[1]), ClientEnd(e[1])}
    /\ \A c, d \in Connection : c[1] = d[1] /\ c[2] = d[2] /\ c[3] = d[3] => c = d
<1>1. Connection \subseteq Node \X Node \X Nat
  BY NetworkAssumption
<1>2. \A c \in Connection : c[1] \in Node /\ c[2] \in Node /\ c[3] \in Nat
  BY <1>1
<1>3. \A c, d \in Connection : c[1] = d[1] /\ c[2] = d[2] /\ c[3] = d[3] => c = d
  BY <1>1
<1>4. \A e \in End : e[1] \in Connection /\ e \in {ServerEnd(e[1]), ClientEnd(e[1])}
  BY DEF End, ServerEnd, ClientEnd
<1>5. \A c, d : /\ ServerEnd(c) # ClientEnd(d)
                /\ ServerEnd(c) = ServerEnd(d) => c = d
                /\ ClientEnd(c) = ClientEnd(d) => c = d
  BY DEF ServerEnd, ClientEnd
<1>6. \A c : /\ At(ServerEnd(c)) = c[2] /\ At(ClientEnd(c)) = c[1]
             /\ Other(ServerEnd(c)) = ClientEnd(c) /\ Other(ClientEnd(c)) = ServerEnd(c)
             /\ ClientOf(ServerEnd(c)) = c[1] /\ ClientOf(ClientEnd(c)) = c[1]
             /\ ServerEnd(c)[1] = c /\ ClientEnd(c)[1] = c
  BY DEF ServerEnd, ClientEnd, At, Other, ClientOf
<1>7. \A c \in Connection : ServerEnd(c) \in End /\ ClientEnd(c) \in End
  BY DEF End, ServerEnd, ClientEnd
<1>. QED
  BY <1>2, <1>3, <1>4, <1>5, <1>6, <1>7 DEF Towards

(* The context of a pid.                                                   *)
LEMMA LocalIs ==
    \A e, d : /\ Local(e).node = 0 /\ Local(e).proc = e
              /\ Local(e) = Local(d) => e = d
BY DEF Local, Pid

(* A client has one connection at a time, and a server one to a client.    *)
LEMMA OneLife ==
    ASSUME Lifetimes, NEW h, Hub(scenario, h), scenario.connections \subseteq Connection,
           NEW c \in scenario.connections, NEW d \in scenario.connections, c[1] = d[1]
    PROVE  /\ status[ClientEnd(c)] = "on" /\ status[ServerEnd(d)] # "off"
              /\ status[ClientEnd(d)] # "gone" => c = d
           /\ status[ServerEnd(c)] = "on" /\ status[ServerEnd(d)] = "on" => c = d
<1>1. c \in Connection /\ d \in Connection /\ c[2] = d[2] /\ c[3] \in Nat /\ d[3] \in Nat
  BY EndsOf DEF Hub
<1>2. c[3] < d[3] \/ d[3] < c[3] \/ c[3] = d[3]
  BY <1>1
<1>3. CASE c[3] = d[3]
  BY <1>1, <1>3, EndsOf
<1>4. CASE c[3] < d[3]
  BY <1>1, <1>4 DEF Lifetimes
<1>5. CASE d[3] < c[3]
  BY <1>1, <1>5 DEF Lifetimes
<1>. QED
  BY <1>2, <1>3, <1>4, <1>5

(* What was delivered is on its way, and nothing else has changed.         *)
LEMMA ClearedSame ==
    ASSUME NEW t, TablesFit(t), NEW u, u = [t EXCEPT !.out = <<>>]
    PROVE  /\ u.name = t.name /\ u.routers = t.routers /\ u.bridges = t.bridges
           /\ u.routersById = t.routersById /\ Lively(u) = Lively(t)
           /\ \A yes : Settled(t, yes) => Settled(u, yes)
<1>1. /\ u.name = t.name /\ u.routers = t.routers
      /\ u.routersById = t.routersById /\ u.routersByPid = t.routersByPid
      /\ u.bridges = t.bridges
  BY DEF TablesFit, IsTables
<1>2. Lively(u) = Lively(t)
  BY <1>1 DEF Lively
<1>. QED
  BY <1>1, <1>2 DEF Settled, Tidy, Bridging

(* An operation of n has left the tables t.                                *)
Operated(n, t) ==
    /\ TablesFit(t) /\ Onward(tables[n], t) /\ t.name = n
    /\ Performed(t) /\ UNCHANGED <<scenario, status>>

(* It was the handler of an event, or not. *)
Took(e) ==
    /\ status[e] = "on" /\ wire[Other(e)] # <<>>
    /\ wire' = [wire EXCEPT ![Other(e)] = Tail(@)]
Wired(n) == UNCHANGED wire \/ \E e \in End : At(e) = n /\ Took(e)

(* The tables, the wires and the boxes after an operation.                 *)
LEMMA Operating ==
    ASSUME Inv, NEW n \in Node, NEW t, Operated(n, t), Wired(n)
    PROVE  /\ \A m \in Node : m # n => tables'[m] = tables[m]
           /\ tables'[n].name = n /\ Lively(tables'[n]) = Lively(t)
           /\ tables'[n].bridges = t.bridges
           /\ \A yes : Settled(t, yes) => Settled(tables'[n], yes)
           /\ \A e \in End :
                 /\ At(e) # n \/ status[e] # "on" => box'[e] = box[e]
                 /\ At(e) = n /\ status[e] = "on" => Gets(t, e, box[e], box'[e])
           /\ \A e \in End : \/ wire'[e] = wire[e]
                             \/ wire[e] # <<>> /\ wire'[e] = Tail(wire[e])
                                /\ Took(Other(e)) /\ At(Other(e)) = n
<1>1. /\ TablesFit(t) /\ Onward(tables[n], t) /\ t.name = n /\ Performed(t)
  BY DEF Operated
<1>2. PICK u : u = [t EXCEPT !.out = <<>>]
  OBVIOUS
<1>3. tables' = [tables EXCEPT ![n] = u] /\ box' = Posted(t)
  BY <1>1, <1>2 DEF Performed
<1>4. tables = [m \in Node |-> tables[m]] /\ wire = [e \in End |-> wire[e]] /\ Fits
  BY DEF Inv, Fits
<1>5. \A m \in Node : tables'[m] = IF m = n THEN u ELSE tables[m]
  BY <1>3, <1>4
<1>6. /\ u.name = t.name /\ u.bridges = t.bridges /\ Lively(u) = Lively(t)
      /\ \A yes : Settled(t, yes) => Settled(u, yes)
  BY <1>1, <1>2, ClearedSame
<1>7. ASSUME NEW e \in End
      PROVE  /\ At(e) # n \/ status[e] # "on" => box'[e] = box[e]
             /\ At(e) = n /\ status[e] = "on" => Gets(t, e, box[e], box'[e])
  BY <1>1, <1>3, <1>4, PostedTo
<1>8. ASSUME NEW e \in End
      PROVE  \/ wire'[e] = wire[e]
             \/ wire[e] # <<>> /\ wire'[e] = Tail(wire[e])
                /\ Took(Other(e)) /\ At(Other(e)) = n
  <2>1. CASE UNCHANGED wire
    BY <2>1
  <2>2. ASSUME NEW f \in End, At(f) = n, Took(f)
        PROVE  \/ wire'[e] = wire[e]
               \/ wire[e] # <<>> /\ wire'[e] = Tail(wire[e])
                  /\ Took(Other(e)) /\ At(Other(e)) = n
    <3>1. wire' = [wire EXCEPT ![Other(f)] = Tail(@)] /\ wire[Other(f)] # <<>>
      BY <2>2 DEF Took
    <3>2. wire'[e] = IF e = Other(f) THEN Tail(wire[e]) ELSE wire[e]
      BY <1>4, <3>1, Ends
    <3>3. e = Other(f) => Other(e) = f
      BY Ends
    <3>. QED
      BY <2>2, <3>1, <3>2, <3>3
  <2>. QED
    BY <2>1, <2>2 DEF Wired
<1>. QED
  BY <1>1, <1>5, <1>6, <1>7, <1>8

(* Ends live on.                                                           *)
LEMMA LifetimesOperated ==
    ASSUME Inv, NEW n \in Node, NEW t, Operated(n, t), Wired(n), Lifetimes
    PROVE  Lifetimes'
<1>1. UNCHANGED <<scenario, status>>
  BY DEF Operated
<1>2. \A e \in End : /\ status[e] # "on" => box'[e] = box[e]
                     /\ wire'[e] = wire[e] \/ wire[e] # <<>>
  BY Operating
<1>3. \A e \in End : /\ status[e] # "off" => e[1] \in scenario.connections
                     /\ status[e] # "on" => box'[e] = <<>>
                     /\ status[e] = "off" => wire'[e] = <<>>
  BY <1>2 DEF Lifetimes
<1>. QED
  BY <1>1, <1>3 DEF Lifetimes

(* Boxes and wires are sequences.                                          *)
LEMMA SeqsFit ==
    ASSUME Fits
    PROVE  \E S : \A e \in End : wire[e] \in Seq(S) /\ box[e] \in Seq(S)
<1>1. PICK B, W, G : /\ B = UNION {Signals(NameOf(tables[n])) : n \in Node}
                     /\ W = Signals(OnWire)
                     /\ G = UNION {Greetings(n) : n \in Node}
  OBVIOUS
<1>. DEFINE S == B \cup W \cup G
<1>2. ASSUME NEW e \in End
      PROVE  wire[e] \in Seq(S) /\ box[e] \in Seq(S)
  <2>1. PICK n \in Node : n = At(e)
    BY Ends
  <2>2. /\ Signals(NameOf(tables[At(e)])) \subseteq S
        /\ Signals(OnWire) \cup Greetings(At(e)) \subseteq S
    <3>1. ASSUME NEW x \in Signals(NameOf(tables[n])) PROVE x \in B
      BY <1>1, <3>1
    <3>2. ASSUME NEW x \in Greetings(n) PROVE x \in G
      BY <1>1, <3>2
    <3>3. Signals(OnWire) = W
      BY <1>1
    <3>4. Signals(NameOf(tables[n])) \subseteq S /\ Signals(OnWire) \cup Greetings(n) \subseteq S
      BY <3>1, <3>2, <3>3
    <3>. QED
      BY <2>1, <3>4
  <2>3. /\ box[e] \in Seq(Signals(NameOf(tables[At(e)])))
        /\ wire[e] \in Seq(Signals(OnWire) \cup Greetings(At(e)))
    BY DEF Fits
  <2>. QED
    BY <2>2, <2>3, Wider
<1>. QED
  BY <1>2

(* What was in the box, and what has come to it.                           *)
LEMMA GetsSet ==
    ASSUME NEW t, NEW e, NEW b, NEW new, Gets(t, e, b, new)
    PROVE  \A x \in ToSet(new) :
              x \in ToSet(b) \/ \E d \in ToSet(t.out) : d.to = Local(e) /\ x = d.item
<1>1. PICK q, S : /\ b \in Seq(S) /\ q \in Seq(S) /\ new = b \o q
                  /\ \A x : x \in ToSet(q) <=>
                        \E d \in ToSet(t.out) : d.to = Local(e) /\ x = d.item
  BY DEF Gets
<1>2. ToSet(b \o q) = ToSet(b) \cup ToSet(q)
  BY <1>1, Joined
<1>. QED
  BY <1>1, <1>2

(* Clients are told of the others, if the server tells them so.            *)
LEMMA ItemsOperated ==
    ASSUME Inv, NEW n \in Node, NEW t, Operated(n, t), Wired(n),
           NEW h, Hub(scenario, h), Items(h),
           \A c \in scenario.connections : \A d \in ToSet(t.out) :
              /\ n = h /\ status[ServerEnd(c)] = "on" /\ d.to = Local(ServerEnd(c))
                    => Plain(d.item) \/ NewsItem(d.item, 0, c, h)
              /\ n = c[1] /\ d.to = Local(ClientEnd(c)) => Plain(d.item)
    PROVE  Items(h)'
<1>1. UNCHANGED <<scenario, status>>
  BY DEF Operated
<1>2. scenario.connections \subseteq Connection
  BY DEF Inv, Scenario
<1>3. PICK S : \A e \in End : wire[e] \in Seq(S) /\ box[e] \in Seq(S)
  BY SeqsFit DEF Inv
<1>4. ASSUME NEW e \in End
      PROVE  ToSet(wire'[e]) \subseteq ToSet(wire[e])
  <2>1. wire'[e] = wire[e] \/ (wire[e] # <<>> /\ wire'[e] = Tail(wire[e]))
    BY Operating
  <2>. QED
    BY <1>3, <2>1, RestedSet
<1>5. ASSUME NEW e \in End, NEW x \in ToSet(box'[e])
      PROVE  \/ x \in ToSet(box[e])
             \/ /\ At(e) = n /\ status[e] = "on"
                /\ \E d \in ToSet(t.out) : d.to = Local(e) /\ x = d.item
  <2>1. /\ At(e) # n \/ status[e] # "on" => box'[e] = box[e]
        /\ At(e) = n /\ status[e] = "on" => Gets(t, e, box[e], box'[e])
    BY Operating
  <2>. QED
    BY <1>5, <2>1, GetsSet
<1>6. ASSUME NEW c \in scenario.connections
      PROVE  /\ \A x \in ToSet(box'[ServerEnd(c)]) : Plain(x) \/ NewsItem(x, 0, c, h)
             /\ \A x \in ToSet(wire'[ServerEnd(c)]) :
                   Greeting(x) \/ Plain(x) \/ NewsItem(x, h, c, h)
             /\ \A x \in ToSet(box'[ClientEnd(c)]) : Plain(x)
             /\ \A x \in ToSet(wire'[ClientEnd(c)]) : Greeting(x) \/ Plain(x)
  <2>1. /\ ServerEnd(c) \in End /\ ClientEnd(c) \in End
        /\ At(ServerEnd(c)) = h /\ At(ClientEnd(c)) = c[1]
    BY <1>2, EndsOf DEF Hub
  <2>2. /\ \A x \in ToSet(box[ServerEnd(c)]) : Plain(x) \/ NewsItem(x, 0, c, h)
        /\ \A x \in ToSet(wire[ServerEnd(c)]) :
              Greeting(x) \/ Plain(x) \/ NewsItem(x, h, c, h)
        /\ \A x \in ToSet(box[ClientEnd(c)]) : Plain(x)
        /\ \A x \in ToSet(wire[ClientEnd(c)]) : Greeting(x) \/ Plain(x)
    BY DEF Items
  <2>3. \A x \in ToSet(box'[ServerEnd(c)]) : Plain(x) \/ NewsItem(x, 0, c, h)
    BY <1>5, <2>1, <2>2
  <2>4. \A x \in ToSet(box'[ClientEnd(c)]) : Plain(x)
    BY <1>5, <2>1, <2>2
  <2>. QED
    BY <1>4, <2>1, <2>2, <2>3, <2>4
<1>. QED
  BY <1>1, <1>6 DEF Items, NewsItem

(* What comes after the greeting finds the router of the neighbour.        *)
LEMMA Greeted ==
    ASSUME Inv, Lifetimes, Handshake, NEW e \in End, Took(e), ~Greeting(Received(e))
    PROVE  Over(tables[At(e)], e)
<1>1. PICK c : c = e[1]
  OBVIOUS
<1>2. /\ status[e] = "on" /\ wire[Other(e)] # <<>> /\ Other(e) \in End
      /\ Received(e) = Head(wire[Other(e)])
  BY Ends DEF Took, Received
<1>3. ~Greets(wire[Other(e)])
  BY <1>2 DEF Greets
<1>4. c \in scenario.connections /\ c \in Connection
  BY <1>1, <1>2, EndsOf DEF Lifetimes
<1>5. CASE e = ServerEnd(c)
  <2>1. /\ Other(e) = ClientEnd(c) /\ At(e) = c[2]
    BY <1>4, <1>5, EndsOf
  <2>2. status[ClientEnd(c)] # "off"
    BY <1>2, <2>1 DEF Lifetimes
  <2>. QED
    BY <1>2, <1>3, <1>4, <1>5, <2>1, <2>2 DEF Handshake
<1>6. CASE e = ClientEnd(c)
  <2>1. /\ Other(e) = ServerEnd(c) /\ At(e) = c[1]
    BY <1>4, <1>6, EndsOf
  <2>2. status[ServerEnd(c)] # "off"
    BY <1>2, <1>4, <1>6 DEF Lifetimes
  <2>. QED
    BY <1>2, <1>3, <1>4, <1>6, <2>1, <2>2 DEF Handshake
<1>. QED
  BY <1>1, <1>5, <1>6, EndsOf

(* Greetings are only gone when they are handled.                          *)
LEMMA HandshakeOperated ==
    ASSUME Inv, NEW n \in Node, NEW t, Operated(n, t), Wired(n),
           Lifetimes, Handshake,
           \A e \in End : At(e) = n /\ Over(tables[n], e) => Over(t, e),
           \A e \in End : At(e) = n /\ Took(e) /\ Greeting(Received(e)) => Over(t, e)
    PROVE  Handshake'
<1>1. UNCHANGED <<scenario, status>>
  BY DEF Operated
<1>2. scenario.connections \subseteq Connection
  BY DEF Inv, Scenario
<1>3. ASSUME NEW e \in End, Over(tables[At(e)], e)
      PROVE  Over(tables'[At(e)], e)
  <2>1. CASE At(e) = n
    <3>1. Over(t, e)
      BY <1>3, <2>1
    <3>. QED
      BY <2>1, <3>1, Operating DEF Over
  <2>2. CASE At(e) # n
    BY <1>3, <2>2, Operating, Ends
  <2>. QED
    BY <2>1, <2>2
<1>4. ASSUME NEW e \in End, wire'[Other(e)] # wire[Other(e)]
      PROVE  Over(tables'[At(e)], e)
  <2>1. Other(e) \in End /\ Other(Other(e)) = e
    BY Ends
  <2>2. Took(e) /\ At(e) = n
    BY <1>4, <2>1, Operating
  <2>3. Over(tables[n], e) \/ Over(t, e)
    BY <2>2, Greeted
  <2>4. Over(t, e)
    BY <2>2, <2>3
  <2>. QED
    BY <2>2, <2>4, Operating DEF Over
<1>5. ASSUME NEW c \in scenario.connections
      PROVE  /\ status[ServerEnd(c)] # "off" /\ status[ClientEnd(c)] # "gone" =>
                   \/ Over(tables'[c[1]], ClientEnd(c))
                   \/ Greets(wire'[ServerEnd(c)])
             /\ status[ServerEnd(c)] = "on" /\ status[ClientEnd(c)] # "off" =>
                   \/ Over(tables'[c[2]], ServerEnd(c))
                   \/ Greets(wire'[ClientEnd(c)])
  <2>1. /\ ServerEnd(c) \in End /\ ClientEnd(c) \in End
        /\ At(ServerEnd(c)) = c[2] /\ At(ClientEnd(c)) = c[1]
        /\ Other(ServerEnd(c)) = ClientEnd(c) /\ Other(ClientEnd(c)) = ServerEnd(c)
    BY <1>2, EndsOf
  <2>. QED
    BY <1>3, <1>4, <2>1 DEF Handshake
<1>. QED
  BY <1>1, <1>5 DEF Handshake, Over, Greets, Greeting, Lively

(* The server tells of contexts that are on.                               *)
LEMMA ToldOn ==
    ASSUME NEW h \in Node, Routes(h)
    PROVE  \A d \in ToldBy(tables[h]) :
              /\ Over(tables[h], d) /\ status[d] = "on"
              /\ \E c \in scenario.connections : d = ServerEnd(c)
<1>1. ASSUME NEW d \in ToldBy(tables[h])
      PROVE  /\ Over(tables[h], d) /\ status[d] = "on"
             /\ \E c \in scenario.connections : d = ServerEnd(c)
  <2>1. PICK b \in ToSet(tables[h].bridges) : d = b.pid.proc
    BY DEF ToldBy
  <2>2. PICK r \in Lively(tables[h]) : b = BridgeTo(r)
    BY <2>1 DEF Routes, Settled, Bridging
  <2>3. d = r.pid.proc
    BY <2>1, <2>2 DEF BridgeTo
  <2>4. PICK c \in scenario.connections :
           r.pid = Local(ServerEnd(c)) /\ status[ServerEnd(c)] = "on"
    BY DEF Routes, HubRoute
  <2>5. d = ServerEnd(c)
    BY <2>3, <2>4, LocalIs
  <2>. QED
    BY <2>4, <2>5 DEF Over
<1>. QED
  BY <1>1

(* Contexts are ends.                                                      *)
LEMMA KnownEnds ==
    ASSUME NEW t, TablesFit(t), NEW h
    PROVE  KnownTo(t, h) \subseteq End
BY LivelyFits DEF KnownTo

-----------------------------------------------------------------------------
(* A client does an operation.                                             *)

(* Its routers are still those of a client, and it is still greeted.       *)
LeafKept(n, t, h) ==
    /\ Settled(t, FALSE)
    /\ \A r \in Lively(t) : LeafRoute(n, Lively(t), r, h)
    /\ \A e \in End : At(e) = n /\ Over(tables[n], e) => Over(t, e)
    /\ \A d \in ToSet(t.out) : Plain(d.item) \/ d.to = Local(User)

(* It knows what it knew, or has heard the next of its news.               *)
HasHeard(n, t, h) ==
    /\ \A e \in End : At(e) = n /\ Took(e) =>
          /\ Greeting(Received(e)) => Over(t, e)
          /\ status[Other(e)] = "on" =>
                KnownTo(t, h) = After(KnownTo(tables[n], h), News(Received(e)))
    /\ UNCHANGED wire => KnownTo(t, h) = KnownTo(tables[n], h)

(* What clients know is what they are told.                                *)
LEMMA StreamsLeaf ==
    ASSUME Inv, NEW h, Hub(scenario, h), HubInv(h), NEW n \in Node, n # h,
           NEW t, Operated(n, t), Wired(n), HasHeard(n, t, h)
    PROVE  Streams(h)'
<1>1. UNCHANGED <<scenario, status>>
  BY DEF Operated
<1>2. scenario.connections \subseteq Connection /\ h \in Node
  BY DEF Inv, Scenario, Hub
<1>3. PICK S : \A e \in End : wire[e] \in Seq(S) /\ box[e] \in Seq(S)
  BY SeqsFit DEF Inv
<1>4. ASSUME NEW c \in scenario.connections,
             status[ServerEnd(c)] = "on", status[ClientEnd(c)] # "gone"
      PROVE  StreamFits(Stream(wire'[ServerEnd(c)], box'[ServerEnd(c)]),
                        KnownTo(tables'[c[1]], h), ToldBy(tables'[h]),
                        ServerEnd(c), GoneEnds)
  <2>1. /\ ServerEnd(c) \in End /\ ClientEnd(c) \in End
        /\ At(ServerEnd(c)) = h /\ At(ClientEnd(c)) = c[1]
        /\ Other(ServerEnd(c)) = ClientEnd(c) /\ Other(ClientEnd(c)) = ServerEnd(c)
        /\ c[1] \in Node
    BY <1>2, EndsOf DEF Hub
  <2>2. /\ tables'[h] = tables[h] /\ box'[ServerEnd(c)] = box[ServerEnd(c)]
    BY <1>2, <2>1, Operating
  <2>3. StreamOf(c, h)
    BY <1>4 DEF HubInv, Streams
  <2>4. CASE c[1] # n
    <3>1. tables'[c[1]] = tables[c[1]]
      BY <2>1, <2>4, Operating
    <3>2. wire'[ServerEnd(c)] = wire[ServerEnd(c)]
      BY <2>1, <2>4, Operating
    <3>. QED
      BY <2>2, <2>3, <3>1, <3>2 DEF StreamOf
  <2>5. CASE c[1] = n
    <3>1. KnownTo(tables'[n], h) = KnownTo(t, h)
      BY Operating DEF KnownTo
    <3>2. CASE UNCHANGED wire
      <4>1. KnownTo(t, h) = KnownTo(tables[n], h)
        BY <3>2 DEF HasHeard
      <4>. QED
        BY <2>2, <2>3, <2>5, <3>1, <3>2, <4>1 DEF StreamOf
    <3>3. ASSUME NEW e \in End, At(e) = n, Took(e)
          PROVE  StreamFits(Stream(wire'[ServerEnd(c)], box'[ServerEnd(c)]),
                        KnownTo(tables'[c[1]], h), ToldBy(tables'[h]),
                        ServerEnd(c), GoneEnds)
      <4>1. PICK d : d = e[1]
        OBVIOUS
      <4>2. status[e] = "on" /\ wire[Other(e)] # <<>>
        BY <3>3 DEF Took
      <4>3. d \in scenario.connections /\ d \in Connection
        BY <4>1, <4>2, EndsOf DEF HubInv, Lifetimes
      <4>4. e = ClientEnd(d) /\ d[1] = n
        BY <1>2, <3>3, <4>1, <4>3, EndsOf DEF Hub
      <4>5. c = d
        BY <1>2, <1>4, <2>5, <4>2, <4>3, <4>4, OneLife DEF HubInv
      <4>6. PICK f : f = ServerEnd(c)
        OBVIOUS
      <4>7. Other(e) = f /\ f \in End
        BY <2>1, <4>4, <4>5, <4>6
      <4>8. wire' = [wire EXCEPT ![f] = Tail(@)] /\ wire = [x \in End |-> wire[x]]
        BY <3>3, <4>7 DEF Took, Inv, Fits
      <4>9. wire'[f] = Tail(wire[f])
        BY <4>7, <4>8
      <4>10. KnownTo(t, h) = After(KnownTo(tables[n], h), News(Head(wire[f])))
        BY <1>4, <3>3, <4>6, <4>7 DEF HasHeard, Received
      <4>11. PICK s, r : s = Stream(wire[f], box[f]) /\ r = Stream(Tail(wire[f]), box[f])
        OBVIOUS
      <4>12. /\ Len(s) \in Nat /\ Len(s) >= 1 /\ Len(r) = Len(s) - 1
             /\ \A i \in 1..Len(s) - 1 : r[i] = s[i + 1]
             /\ s[1] = News(Head(wire[f]))
        BY <1>3, <4>2, <4>7, <4>11, StreamTail
      <4>13. PICK known, told1 : known = KnownTo(tables[n], h) /\ told1 = ToldBy(tables[h])
        OBVIOUS
      <4>14. known \subseteq End
        BY <4>13, KnownEnds DEF Inv, Fits
      <4>15. told1 \subseteq End /\ told1 \cap GoneEnds = {}
        <5>1. \A x \in told1 : status[x] = "on" /\ \E y \in scenario.connections : x = ServerEnd(y)
          BY <1>2, <4>13, ToldOn DEF HubInv
        <5>. QED
          BY <1>2, <5>1, EndsOf DEF GoneEnds
      <4>16. StreamFits(s, known, told1, f, GoneEnds)
        BY <2>3, <2>5, <4>6, <4>11, <4>13 DEF StreamOf
      <4>17. StreamFits(r, After(known, s[1]), told1, f, GoneEnds)
        BY <4>12, <4>14, <4>15, <4>16, StreamHeard
      <4>. QED
        BY <2>2, <2>5, <3>1, <4>6, <4>9, <4>10, <4>11, <4>12, <4>13, <4>17
    <3>. QED
      BY <3>2, <3>3 DEF Wired
  <2>. QED
    BY <2>4, <2>5
<1>. QED
  BY <1>1, <1>4 DEF Streams, StreamOf, KnownTo, ToldBy, GoneEnds, Lively

(* The operation of a client keeps everything.                             *)
LEMMA LeafKeeps ==
    ASSUME Inv, NEW h, Hub(scenario, h), HubInv(h), NEW n \in Node, n # h,
           NEW t, Operated(n, t), Wired(n), LeafKept(n, t, h), HasHeard(n, t, h)
    PROVE  HubInv(h)'
<1>1. UNCHANGED <<scenario, status>>
  BY DEF Operated
<1>2. scenario.connections \subseteq Connection /\ h \in Node
  BY DEF Inv, Scenario, Hub
<1>3. Lifetimes'
  BY LifetimesOperated DEF HubInv
<1>4. Items(h)'
  <2>1. ASSUME NEW c \in scenario.connections, NEW d \in ToSet(t.out)
        PROVE  n = c[1] /\ d.to = Local(ClientEnd(c)) => Plain(d.item)
    <3>1. ClientEnd(c) # User /\ (Local(ClientEnd(c)) = Local(User) => ClientEnd(c) = User)
      BY <1>2, EndsOf, Ends, LocalIs
    <3>. QED
      BY <3>1 DEF LeafKept
  <2>. QED
    BY <2>1, ItemsOperated DEF HubInv
<1>5. Handshake'
  BY HandshakeOperated DEF HubInv, LeafKept, HasHeard
<1>6. Routes(h)'
  <2>1. /\ \A m \in Node : m # n => tables'[m] = tables[m]
        /\ Lively(tables'[n]) = Lively(t)
        /\ Settled(tables'[n], FALSE)
    BY Operating DEF LeafKept
  <2>2. scenario.bridge[n] = FALSE
    <3>1. scenario.bridge[n] \in BOOLEAN
      BY DEF Inv, Scenario
    <3>. QED
      BY <3>1 DEF Hub
  <2>3. \A m \in Node : Settled(tables'[m], scenario.bridge[m])
    BY <2>1, <2>2 DEF HubInv, Routes
  <2>4. \A r \in Lively(tables'[h]) : HubRoute(r, h)
    BY <1>2, <2>1 DEF HubInv, Routes
  <2>5. \A m \in Node \ {h} : \A r \in Lively(tables'[m]) :
           LeafRoute(m, Lively(tables'[m]), r, h)
    <3>1. TAKE m \in Node \ {h}
    <3>2. CASE m = n
      BY <2>1, <3>2 DEF LeafKept
    <3>3. CASE m # n
      BY <2>1, <3>3 DEF HubInv, Routes
    <3>. QED
      BY <3>2, <3>3
  <2>11. (\A m \in Node : Settled(tables[m], scenario.bridge[m]))'
    BY <1>1, <2>3 DEF Settled, Tidy, Bridging, Lively
  <2>12. (\A r \in Lively(tables[h]) : HubRoute(r, h))'
    BY <1>1, <2>4 DEF HubRoute, Lively
  <2>13. (\A m \in Node \ {h} : \A r \in Lively(tables[m]) :
             LeafRoute(m, Lively(tables[m]), r, h))'
    BY <1>1, <2>5 DEF LeafRoute, Lively
  <2>. QED
    BY <2>11, <2>12, <2>13 DEF Routes
<1>. QED
  BY <1>3, <1>4, <1>5, <1>6, StreamsLeaf DEF HubInv

-----------------------------------------------------------------------------
(* The server does an operation.                                           *)

(* Its routers are still those of a hub, and it is still greeted.          *)
HubKept(t, h) ==
    /\ Settled(t, scenario.bridge[h])
    /\ \A r \in Lively(t) : HubRoute(r, h)
    /\ \A e \in End : At(e) = h /\ Over(tables[h], e) => Over(t, e)
    /\ \A e \in End : At(e) = h /\ Took(e) /\ Greeting(Received(e)) => Over(t, e)
    /\ \A c \in scenario.connections : \A d \in ToSet(t.out) :
          status[ServerEnd(c)] = "on" /\ d.to = Local(ServerEnd(c))
             => Plain(d.item) \/ NewsItem(d.item, 0, c, h)

(* It tells every client what it has to be told. *)
NewsFor(t, e) == {News(d.item) : d \in {x \in ToSet(t.out) : x.to = Local(e)}}
Tells(t, h) ==
    \A c \in scenario.connections : \A s, r, known :
       status[ServerEnd(c)] = "on" /\ status[ClientEnd(c)] # "gone"
       /\ Continues(s, r, NewsFor(t, ServerEnd(c)))
       /\ StreamFits(s, known, ToldBy(tables[h]), ServerEnd(c), GoneEnds)
          => StreamFits(r, known, ToldBy(t), ServerEnd(c), GoneEnds)

(* What comes to a box, as news.                                           *)
LEMMA StreamGets ==
    ASSUME NEW S, NEW w \in Seq(S), NEW b \in Seq(S), NEW t, NEW e, NEW new,
           Gets(t, e, b, new)
    PROVE  Continues(Stream(w, b), Stream(w, new), NewsFor(t, e))
<1>1. PICK q, T : /\ b \in Seq(T) /\ q \in Seq(T) /\ new = b \o q
                  /\ \A x : x \in ToSet(q) <=>
                        \E d \in ToSet(t.out) : d.to = Local(e) /\ x = d.item
  BY DEF Gets
<1>2. PICK U : U = S \cup T
  OBVIOUS
<1>3. w \in Seq(U) /\ b \in Seq(U) /\ q \in Seq(U)
  BY <1>1, <1>2, Wider
<1>4. Continues(Stream(w, b), Stream(w, b \o q), {News(x) : x \in ToSet(q)})
  BY <1>3, StreamJoined
<1>5. {News(x) : x \in ToSet(q)} = NewsFor(t, e)
  BY <1>1 DEF NewsFor
<1>. QED
  BY <1>1, <1>4, <1>5

(* What clients know is what they are told.                                *)
LEMMA StreamsHub ==
    ASSUME Inv, NEW h, Hub(scenario, h), HubInv(h),
           NEW t, Operated(h, t), Wired(h), Tells(t, h)
    PROVE  Streams(h)'
<1>1. UNCHANGED <<scenario, status>>
  BY DEF Operated
<1>2. scenario.connections \subseteq Connection /\ h \in Node
  BY DEF Inv, Scenario, Hub
<1>3. PICK S : \A e \in End : wire[e] \in Seq(S) /\ box[e] \in Seq(S)
  BY SeqsFit DEF Inv
<1>4. ASSUME NEW c \in scenario.connections,
             status[ServerEnd(c)] = "on", status[ClientEnd(c)] # "gone"
      PROVE  StreamFits(Stream(wire'[ServerEnd(c)], box'[ServerEnd(c)]),
                        KnownTo(tables'[c[1]], h), ToldBy(tables'[h]),
                        ServerEnd(c), GoneEnds)
  <2>1. /\ ServerEnd(c) \in End /\ ClientEnd(c) \in End
        /\ At(ServerEnd(c)) = h /\ At(ClientEnd(c)) = c[1]
        /\ Other(ServerEnd(c)) = ClientEnd(c)
        /\ c[1] \in Node /\ c[1] # h
    BY <1>2, EndsOf DEF Hub
  <2>2. /\ tables'[c[1]] = tables[c[1]] /\ wire'[ServerEnd(c)] = wire[ServerEnd(c)]
    BY <1>2, <2>1, Operating
  <2>3. ToldBy(tables'[h]) = ToldBy(t)
    BY <1>2, Operating DEF ToldBy
  <2>4. Gets(t, ServerEnd(c), box[ServerEnd(c)], box'[ServerEnd(c)])
    BY <1>2, <1>4, <2>1, Operating
  <2>5. Continues(Stream(wire[ServerEnd(c)], box[ServerEnd(c)]),
                  Stream(wire[ServerEnd(c)], box'[ServerEnd(c)]),
                  NewsFor(t, ServerEnd(c)))
    BY <1>3, <2>1, <2>4, StreamGets
  <2>6. StreamOf(c, h)
    BY <1>4 DEF HubInv, Streams
  <2>. QED
    BY <1>4, <2>2, <2>3, <2>5, <2>6 DEF StreamOf, Tells
<1>. QED
  BY <1>1, <1>4 DEF Streams, StreamOf, KnownTo, ToldBy, GoneEnds, Lively

(* The routes of a client, one by one.                                     *)
LEMMA LeafRoutesNext ==
    ASSUME NEW h, scenario' = scenario,
           \A n \in Node \ {h} : \A R : R = Lively(tables'[n]) =>
              \A r \in R : LeafRoute(n, R, r, h)'
    PROVE  (\A m \in Node \ {h} : \A r \in Lively(tables[m]) :
               LeafRoute(m, Lively(tables[m]), r, h))'
<1>1. ASSUME NEW m \in Node \ {h}, NEW r \in Lively(tables'[m])
      PROVE  /\ r.name = h =>
                   /\ r.source = m /\ r.score = Near
                   /\ \E c \in scenario.connections :
                         /\ c[1] = m /\ r.pid = Local(ClientEnd(c))
                         /\ status'[ClientEnd(c)] = "on"
             /\ r.name # h =>
                   /\ r.source = h /\ r.score = Far
                   /\ \E c \in scenario.connections : r.pid.proc = ServerEnd(c)
                   /\ \E q \in Lively(tables'[m]) : q.name = h /\ r.pid.node = q.id
  <2>1. PICK R : R = Lively(tables'[m])
    OBVIOUS
  <2>2. r \in R
    BY <1>1, <2>1
  <2>3. LeafRoute(m, R, r, h)'
    BY <2>1, <2>2
  <2>4. /\ r.name = h =>
              /\ r.source = m /\ r.score = Near
              /\ \E c \in scenario.connections :
                    /\ c[1] = m /\ r.pid = Local(ClientEnd(c))
                    /\ status'[ClientEnd(c)] = "on"
        /\ r.name # h =>
              /\ r.source = h /\ r.score = Far
              /\ \E c \in scenario.connections : r.pid.proc = ServerEnd(c)
              /\ \E q \in R : q.name = h /\ r.pid.node = q.id
    BY <2>3 DEF LeafRoute
  <2>. QED
    BY <2>1, <2>4
<1>. QED
  BY <1>1 DEF LeafRoute, Lively

(* Routes are of what stays.                                               *)
LEMMA RoutesSame ==
    ASSUME UNCHANGED <<scenario, tables, status>>, NEW h, Routes(h)
    PROVE  Routes(h)'
<1>1. (\A m \in Node : Settled(tables[m], scenario.bridge[m]))'
  BY DEF Routes, Settled, Tidy, Bridging, Lively
<1>2. (\A r \in Lively(tables[h]) : HubRoute(r, h))'
  BY DEF Routes, HubRoute, Lively
<1>3. (\A m \in Node \ {h} : \A r \in Lively(tables[m]) :
          LeafRoute(m, Lively(tables[m]), r, h))'
  BY DEF Routes, LeafRoute, Lively
<1>. QED
  BY <1>1, <1>2, <1>3 DEF Routes

(* The operation of the server keeps everything.                           *)
LEMMA HubKeeps ==
    ASSUME Inv, NEW h, Hub(scenario, h), HubInv(h),
           NEW t, Operated(h, t), Wired(h), HubKept(t, h), Tells(t, h)
    PROVE  HubInv(h)'
<1>1. UNCHANGED <<scenario, status>>
  BY DEF Operated
<1>2. scenario.connections \subseteq Connection /\ h \in Node
  BY DEF Inv, Scenario, Hub
<1>3. Lifetimes'
  BY <1>2, LifetimesOperated DEF HubInv
<1>4. Items(h)'
  <2>1. \A c \in scenario.connections : c[1] # h
    BY DEF Hub
  <2>. QED
    BY <1>2, <2>1, ItemsOperated DEF HubInv, HubKept
<1>5. Handshake'
  BY <1>2, HandshakeOperated DEF HubInv, HubKept
<1>6. Routes(h)'
  <2>1. /\ \A m \in Node : m # h => tables'[m] = tables[m]
        /\ Lively(tables'[h]) = Lively(t)
        /\ Settled(tables'[h], scenario.bridge[h])
    BY <1>2, Operating DEF HubKept
  <2>2. \A m \in Node : Settled(tables'[m], scenario.bridge[m])
    BY <2>1 DEF HubInv, Routes
  <2>3. \A r \in Lively(tables'[h]) : HubRoute(r, h)
    BY <2>1 DEF HubKept
  <2>4. \A m \in Node \ {h} : \A r \in Lively(tables'[m]) :
           LeafRoute(m, Lively(tables'[m]), r, h)
    BY <2>1 DEF HubInv, Routes
  <2>. QED
    BY <1>1, <2>2, <2>3, <2>4
       DEF Routes, HubRoute, LeafRoute, Settled, Tidy, Bridging, Lively
<1>. QED
  BY <1>3, <1>4, <1>5, <1>6, StreamsHub DEF HubInv

-----------------------------------------------------------------------------
(* Messages of the user.                                                   *)

(* A message is no news.                                                   *)
LEMMA PlainNews ==
    ASSUME NEW x, Plain(x)
    PROVE  News(x) = Nothing /\ ~Greeting(x)
BY DEF Plain, News, Greeting

(* An operation that sends messages only.                                  *)
LEMMA QuietKeeps ==
    ASSUME Inv, NEW h, Hub(scenario, h), HubInv(h), NEW n \in Node,
           NEW t, Operated(n, t), Wired(n), Same(tables[n], t),
           \A d \in ToSet(t.out) : Plain(d.item) \/ d.to = Local(User),
           \A e \in End : At(e) = n /\ Took(e) => Plain(Received(e))
    PROVE  HubInv(h)'
<1>1. h \in Node /\ \A m \in Node : Settled(tables[m], scenario.bridge[m])
  BY DEF Hub, HubInv, Routes
<1>2. /\ Lively(t) = Lively(tables[n]) /\ t.bridges = tables[n].bridges
      /\ \A yes : Settled(tables[n], yes) => Settled(t, yes)
  BY DEF Same, Settled, Bridging
<1>3. \A e : Over(t, e) <=> Over(tables[n], e)
  BY <1>2 DEF Over
<1>4. \A e \in End : At(e) = n /\ Took(e) =>
         ~Greeting(Received(e)) /\ News(Received(e)) = Nothing
  BY PlainNews
<1>5. CASE n # h
  <2>1. scenario.bridge[n] = FALSE
    <3>1. scenario.bridge[n] \in BOOLEAN
      BY DEF Inv, Scenario
    <3>. QED
      BY <1>5, <3>1 DEF Hub
  <2>2. Settled(t, FALSE)
    BY <1>1, <1>2, <2>1
  <2>3. \A r \in Lively(t) : LeafRoute(n, Lively(t), r, h)
    BY <1>2, <1>5 DEF HubInv, Routes
  <2>4. LeafKept(n, t, h)
    BY <1>3, <2>2, <2>3 DEF LeafKept
  <2>5. KnownTo(t, h) = KnownTo(tables[n], h)
    BY <1>2 DEF KnownTo
  <2>6. After(KnownTo(tables[n], h), Nothing) = KnownTo(tables[n], h)
    BY NewsApart DEF After
  <2>7. HasHeard(n, t, h)
    BY <1>4, <2>5, <2>6 DEF HasHeard
  <2>. QED
    BY <1>5, <2>4, <2>7, LeafKeeps
<1>6. CASE n = h
  <2>1. \A r \in Lively(t) : HubRoute(r, h)
    BY <1>2, <1>6 DEF HubInv, Routes
  <2>2. \A c \in scenario.connections : \A d \in ToSet(t.out) :
           d.to = Local(ServerEnd(c)) => Plain(d.item)
    <3>1. scenario.connections \subseteq Connection
      BY DEF Inv, Scenario
    <3>2. \A c \in scenario.connections : Local(ServerEnd(c)) # Local(User)
      BY <3>1, EndsOf, Ends, LocalIs
    <3>. QED
      BY <3>2
  <2>3. HubKept(t, h)
    BY <1>1, <1>2, <1>3, <1>4, <1>6, <2>1, <2>2 DEF HubKept
  <2>4. Tells(t, h)
    <3>1. ToldBy(t) = ToldBy(tables[h])
      BY <1>2, <1>6 DEF ToldBy
    <3>2. \A c \in scenario.connections : NewsFor(t, ServerEnd(c)) \subseteq {Nothing}
      BY <2>2, PlainNews DEF NewsFor
    <3>. QED
      BY <3>1, <3>2, StreamQuiet DEF Tells
  <2>. QED
    BY <1>6, <2>3, <2>4, HubKeeps
<1>. QED
  BY <1>5, <1>6

(* The next event of a connection: what it may be, and what reading it     *)
(* leaves as it was.                                                       *)
LEMMA Hears1 ==
    ASSUME Inv, NEW h, Hub(scenario, h), HubInv(h), NEW e \in End, Took(e),
           NEW x, x = Received(e), NEW t, t = Hearing(e)
    PROVE  /\ e[1] \in scenario.connections
           /\ e = ClientEnd(e[1]) =>
                 Greeting(x) \/ Plain(x) \/ NewsItem(x, h, e[1], h)
           /\ e = ServerEnd(e[1]) => Greeting(x) \/ Plain(x)
           /\ Same(tables[At(e)], t) /\ Tidy(t)
           /\ \A yes : Settled(tables[At(e)], yes) => Settled(t, yes)
           /\ x \in Signals(OnWire) \cup Greetings(Towards(e))
           /\ TablesFit(t) /\ Onward(tables[At(e)], t) /\ t.out = <<>>
           /\ t.name = At(e)
           /\ x \in Signals(OnWire) => KnowsAll(t, x)
<1>1. PICK c : c = e[1]
  OBVIOUS
<1>2. /\ status[e] = "on" /\ wire[Other(e)] # <<>> /\ x = Head(wire[Other(e)])
      /\ Other(e) \in End
  BY Ends DEF Took, Received
<1>3. c \in scenario.connections /\ c \in Connection
  BY <1>1, <1>2, EndsOf DEF HubInv, Lifetimes
<1>4. x \in ToSet(wire[Other(e)])
  <2>1. PICK S : wire[Other(e)] \in Seq(S)
    BY <1>2, SeqsFit DEF Inv
  <2>. QED
    BY <1>2, <2>1, Rested
<1>5. /\ e = ClientEnd(c) => Greeting(x) \/ Plain(x) \/ NewsItem(x, h, c, h)
      /\ e = ServerEnd(c) => Greeting(x) \/ Plain(x)
  BY <1>3, <1>4, EndsOf DEF HubInv, Items
<1>6. /\ x \in Signals(OnWire) \cup Greetings(Towards(e))
      /\ TablesFit(t) /\ Onward(tables[At(e)], t) /\ t.out = <<>>
      /\ x \in Signals(OnWire) => KnowsAll(t, x)
  BY <1>2, HearingFits DEF Inv
<1>7. NamesIn(x) \in Seq(Node)
  <2>1. CASE x \in Signals(OnWire)
    BY <2>1, NamesFit
  <2>2. CASE x \in Greetings(Towards(e))
    <3>1. x.kind = "discover" /\ x.pid = NoPid
      BY <2>2 DEF Greetings, Discover
    <3>2. NamesIn(x) = <<>>
      BY <3>1 DEF NamesIn, NamesInBody
    <3>. QED
      BY <3>2, Empty
  <2>. QED
    BY <1>6, <2>1, <2>2
<1>8. TablesFit(tables[At(e)]) /\ Tidy(tables[At(e)]) /\ tables[At(e)].name = At(e)
  BY Ends DEF Inv, Fits, HubInv, Routes, Settled
<1>9. Same(tables[At(e)], t) /\ Tidy(t)
  <2>1. t = Heard(tables[At(e)], x)
    BY DEF Hearing
  <2>. QED
    BY <1>7, <1>8, <2>1, HeardSame
<1>10. \A yes : Settled(tables[At(e)], yes) => Settled(t, yes)
  BY <1>9 DEF Same, Settled, Bridging
<1>11. t.name = At(e)
  BY <1>8, <1>9 DEF Same
<1>. QED
  BY <1>1, <1>3, <1>5, <1>6, <1>9, <1>10, <1>11

(* Tables that are to send.                                                *)
LEMMA SendingSame ==
    ASSUME NEW t, TablesFit(t), NEW q, NEW u, u = [t EXCEPT !.out = q]
    PROVE  Same(t, u)
<1>1. /\ u.name = t.name /\ u.routers = t.routers
      /\ u.routersById = t.routersById /\ u.routersByPid = t.routersByPid
      /\ u.bridges = t.bridges
  BY DEF TablesFit, IsTables
<1>2. Lively(u) = Lively(t)
  BY <1>1 DEF Lively
<1>. QED
  BY <1>1, <1>2 DEF Same, Tidy

(* The handler of an event takes it off the wire, and no other.            *)
LEMMA TookSome ==
    ASSUME Inv, NEW e \in End, Took(e)
    PROVE  \A a \in End : wire'[a] # wire[a] <=> a = Other(e)
<1>1. PICK f \in End : f = Other(e)
  BY Ends
<1>2. wire[f] # <<>> /\ wire' = [wire EXCEPT ![f] = Tail(@)]
  BY <1>1 DEF Took
<1>3. wire = [x \in End |-> wire[x]]
  BY DEF Inv, Fits
<1>4. PICK S : wire[f] \in Seq(S)
  BY SeqsFit DEF Inv
<1>5. Len(wire[f]) \in Nat /\ Len(Tail(wire[f])) = Len(wire[f]) - 1
  BY <1>2, <1>4, Rested
<1>6. wire'[f] # wire[f]
  <2>1. wire'[f] = Tail(wire[f])
    BY <1>2, <1>3
  <2>2. PICK w, v : w = wire[f] /\ v = wire'[f]
    OBVIOUS
  <2>3. Len(w) \in Nat /\ Len(v) = Len(w) - 1
    BY <1>5, <2>1, <2>2
  <2>4. v # w
    BY <2>3
  <2>. QED
    BY <2>2, <2>4
<1>. QED
  BY <1>1, <1>2, <1>3, <1>6

(* One event is handled at a time.                                         *)
LEMMA TookOne ==
    ASSUME Inv, NEW e \in End, Took(e), NEW f \in End, Took(f)
    PROVE  e = f
<1>1. Other(e) = Other(f)
  BY TookSome, Ends
<1>. QED
  BY <1>1, Ends

(* The user sends a message.                                               *)
LEMMA HelloHub ==
    ASSUME Inv, NEW h, Hub(scenario, h), HubInv(h), NEW n \in Node, SendHello(n)
    PROVE  HubInv(h)'
<1>1. PICK t : t = tables[n]
  OBVIOUS
<1>2. /\ TablesFit(t) /\ t.name = n /\ t.out = <<>>
  BY <1>1 DEF Inv, Fits
<1>3. /\ ByIdFits(t) /\ t.name \in Node
      /\ Ids(t) \subseteq Nat /\ 0 \in Ids(t) /\ DOMAIN NameOf(t) = Ids(t)
      /\ Len(t.routersById) \in Nat
      /\ NameOf(t)[0] = t.name
      /\ \A id \in Ids(t) : /\ NameOf(t)[id] = t.routersById[id + 1].name
                            /\ NameOf(t)[id] \in Node
  BY <1>2, IdsOf DEF TablesFit
<1>4. PICK id \in 1..Len(t.routersById) - 1 :
         Performed([t EXCEPT !.out =
             <<Delivery(t, Local(User), Pid(id, User),
                        Hello(n, RouterById(t, id).name, Local(User)))>>])
  BY <1>1 DEF SendHello
<1>5. PICK hello : hello = Hello(n, RouterById(t, id).name, Local(User))
  OBVIOUS
<1>6. PICK d : d = Delivery(t, Local(User), Pid(id, User), hello)
  OBVIOUS
<1>7. PICK u : u = [t EXCEPT !.out = <<d>>]
  OBVIOUS
<1>8. Performed(u)
  BY <1>4, <1>5, <1>6, <1>7
<1>9. id \in Ids(t)
  BY <1>3 DEF Ids
<1>10. /\ Pid(id, User) \in UserPid(Ids(t)) /\ Pid(id, User).node = id
       /\ Local(User) \in UserPid(Ids(t)) /\ Local(User).node = 0
  BY <1>3, <1>9 DEF Pid, Local, UserPid
<1>11. hello \in Hellos(NameOf(t)) /\ hello.dest = NameOf(t)[id]
  <2>1. RouterById(t, id).name = NameOf(t)[id] /\ NameOf(t)[id] \in Node
    BY <1>3, <1>9 DEF RouterById
  <2>. QED
    BY <1>2, <1>3, <1>5, <1>10, <2>1 DEF Hello, Hellos
<1>12. Meant(NameOf(t), Pid(id, User), hello)
  BY <1>3, <1>10, <1>11 DEF Meant, Final
<1>13. d \in Delivered(t)
  <2>1. Local(User) \in SenderPid(Ids(t))
    BY <1>10 DEF UserPid, SenderPid
  <2>. QED
    BY <1>3, <1>6, <1>12, <2>1, DeliveryFits
<1>14. TablesFit(u) /\ Onward(t, u) /\ Same(t, u) /\ u.name = n
  <2>1. TablesFit(u) /\ Onward(t, u)
    BY <1>2, <1>7, <1>13, DeliveringFits
  <2>2. Same(t, u)
    BY <1>2, <1>7, SendingSame
  <2>. QED
    BY <1>2, <2>1, <2>2 DEF Same
<1>15. UNCHANGED <<wire, scenario, status>>
  BY DEF SendHello
<1>16. Plain(d.item)
  <2>1. Plain(hello)
    BY <1>5 DEF Hello, Plain
  <2>. QED
    BY <1>3, <1>6, <2>1, DeliveryIs
<1>17. ToSet(u.out) = {d}
  <2>1. u.out = <<d>>
    BY <1>2, <1>7 DEF TablesFit, IsTables
  <2>. QED
    BY <2>1, One
<1>18. Operated(n, u) /\ Wired(n)
  BY <1>1, <1>8, <1>14, <1>15 DEF Operated, Wired
<1>19. \A e \in End : ~Took(e)
  BY <1>15, TookSome, Ends
<1>. QED
  BY <1>1, <1>14, <1>16, <1>17, <1>18, <1>19, QuietKeeps

(* The user monitors a node.                                               *)
LEMMA MonitorHub ==
    ASSUME Inv, NEW h, Hub(scenario, h), HubInv(h), NEW n \in Node, Monitor(n)
    PROVE  HubInv(h)'
<1>1. PICK m \in Node : Performed(MonitorNode(tables[n], m))
  BY DEF Monitor
<1>2. PICK t : t = tables[n]
  OBVIOUS
<1>3. PICK u : u = MonitorNode(t, m)
  OBVIOUS
<1>4. TablesFit(t) /\ t.name = n /\ t.out = <<>>
  BY <1>2 DEF Inv, Fits
<1>5. TablesFit(u) /\ Onward(t, u)
  BY <1>3, <1>4, MonitorFits
<1>6. UNCHANGED <<wire, scenario, status>>
  BY DEF Monitor
<1>7. Same(t, u) /\ \A d \in ToSet(u.out) : d.to = Local(User)
  <2>1. PICK d : d = [to |-> Local(User), item |-> Nodedown(m)]
    OBVIOUS
  <2>2. /\ u.name = t.name /\ u.routers = t.routers
        /\ u.routersById = t.routersById /\ u.routersByPid = t.routersByPid
        /\ u.bridges = t.bridges /\ (u.out = <<>> \/ u.out = <<d>>)
    <3>1. \A x : Append(<<>>, x) = <<x>>
      OBVIOUS
    <3>. QED
      BY <1>3, <1>4, <2>1, <3>1 DEF MonitorNode, TablesFit, IsTables
  <2>3. Lively(u) = Lively(t)
    BY <2>2 DEF Lively
  <2>4. Same(t, u)
    BY <2>2, <2>3 DEF Same, Tidy
  <2>5. ToSet(u.out) \subseteq {d}
    <3>1. ToSet(<<d>>) = {d} /\ ToSet(<<>>) = {}
      BY One, Empty
    <3>. QED
      BY <2>2, <3>1
  <2>. QED
    BY <2>1, <2>4, <2>5
<1>8. Operated(n, u) /\ Wired(n)
  BY <1>1, <1>2, <1>3, <1>4, <1>5, <1>6, <1>7 DEF Operated, Wired, Same
<1>9. \A e \in End : ~Took(e)
  BY <1>6, TookSome, Ends
<1>. QED
  BY <1>2, <1>7, <1>8, <1>9, QuietKeeps

(* A message that arrives.                                                 *)
LEMMA MessageHub ==
    ASSUME Inv, NEW h, Hub(scenario, h), HubInv(h), NEW e \in End, HandleMessage(e)
    PROVE  HubInv(h)'
<1>1. PICK n \in Node : n = At(e)
  BY Ends
<1>2. PICK x : x = Received(e)
  OBVIOUS
<1>3. PICK t : t = Hearing(e)
  OBVIOUS
<1>4. PICK r : r = FromWire(t, x)
  OBVIOUS
<1>5. PICK d : d = Delivery(t, r.from, Head(r.to), Unwrapped(r))
  OBVIOUS
<1>6. PICK u : u = [t EXCEPT !.out = <<d>>]
  OBVIOUS
<1>7. Took(e) /\ x.kind = "relay"
  BY <1>2 DEF HandleMessage, Event, Received, Took
<1>8. Performed(u) /\ UNCHANGED <<scenario, status>>
  BY <1>1, <1>2, <1>3, <1>4, <1>5, <1>6 DEF HandleMessage
<1>9. /\ e[1] \in scenario.connections
      /\ e = ClientEnd(e[1]) => Greeting(x) \/ Plain(x) \/ NewsItem(x, h, e[1], h)
      /\ e = ServerEnd(e[1]) => Greeting(x) \/ Plain(x)
      /\ Same(tables[n], t)
      /\ x \in Signals(OnWire) \cup Greetings(Towards(e))
      /\ TablesFit(t) /\ Onward(tables[n], t) /\ t.out = <<>> /\ t.name = n
      /\ x \in Signals(OnWire) => KnowsAll(t, x)
  BY <1>1, <1>2, <1>3, <1>7, Hears1
<1>10. Plain(x)
  <2>1. e = ClientEnd(e[1]) \/ e = ServerEnd(e[1])
    BY EndsOf
  <2>. QED
    BY <1>7, <1>9, <2>1 DEF Greeting, NewsItem
<1>11. /\ ByIdFits(t) /\ ListFits(t) /\ t.name \in Node
       /\ DOMAIN NameOf(t) = Ids(t) /\ Len(t.routersById) \in Nat
  BY <1>9, IdsOf DEF TablesFit
<1>12. x \in Relays(OnWire) /\ x \in Signals(OnWire)
  BY <1>7, <1>9, Kinds DEF Signals, Greetings, Discover
<1>13. r \in Relays(NameOf(t))
  BY <1>4, <1>9, <1>11, <1>12, FromWireFits
<1>14. Meant(NameOf(t), Head(r.to), Unwrapped(r))
  BY <1>13, UnwrappedFits
<1>15. d \in Delivered(t)
  <2>1. r.from \in SenderPid(Ids(t))
    BY <1>11, <1>13, Kinds
  <2>. QED
    BY <1>5, <1>11, <1>14, <2>1, DeliveryFits
<1>16. TablesFit(u) /\ Onward(t, u)
  BY <1>6, <1>9, <1>15, DeliveringFits
<1>17. Onward(tables[n], u)
  BY <1>9, <1>16, OnwardOn
<1>18. Same(tables[n], u) /\ u.name = n
  <2>1. Same(t, u)
    BY <1>6, <1>9, SendingSame
  <2>. QED
    BY <1>9, <2>1 DEF Same
<1>19. Plain(r) /\ r.kind = "relay"
  <2>1. PICK body : body = x.body
    OBVIOUS
  <2>2. body.kind = "hello" /\ body \in Notices(OnWire) \cup Hellos(OnWire)
    BY <1>7, <1>10, <1>12, <2>1 DEF Plain, Relays
  <2>3. body \in Hellos(OnWire)
    BY <2>2, Kinds
  <2>4. PICK to : to = [i \in DOMAIN x.to |-> PidFromWire(t, x.to[i])]
    OBVIOUS
  <2>5. r = Relay(PidFromWire(t, x.from), to,
                  [body EXCEPT !.from = PidFromWire(t, body.from)])
    BY <1>4, <1>7, <2>1, <2>2, <2>4 DEF FromWire
  <2>6. [body EXCEPT !.from = PidFromWire(t, body.from)].kind = "hello"
    BY <2>3 DEF Hellos
  <2>. QED
    BY <2>5, <2>6 DEF Relay, Plain
<1>20. Plain(d.item)
  <2>1. Plain(Unwrapped(r))
    BY <1>19, PlainRelayed
  <2>. QED
    BY <1>5, <1>11, <2>1, DeliveryIs
<1>21. ToSet(u.out) = {d}
  <2>1. u.out = <<d>>
    BY <1>6, <1>9 DEF TablesFit, IsTables
  <2>. QED
    BY <2>1, One
<1>22. Operated(n, u) /\ Wired(n)
  BY <1>1, <1>7, <1>8, <1>16, <1>17, <1>18 DEF Operated, Wired
<1>23. \A f \in End : Took(f) => Plain(Received(f))
  BY <1>2, <1>7, <1>10, TookOne
<1>. QED
  BY <1>18, <1>20, <1>21, <1>22, <1>23, QuietKeeps

-----------------------------------------------------------------------------
(* Discoveries.                                                            *)

(* What is registered for the event x, and where it leaves the tables.     *)
Discovering(e, x, t, source, score, name, pid, type, u) ==
    /\ Took(e) /\ x = Received(e) /\ x.kind = "discover" /\ t = Hearing(e)
    /\ u = RegisterRouter(t, source, score, name, pid, scenario.bridge[At(e)], type)
    /\ Operated(At(e), u)
    /\ source \in Node /\ score \in Nat /\ name \in Node /\ type \in Types
    /\ pid \in ContextPid(Ids(t)) /\ name = Towards(pid.proc)
    /\ Greeting(x) => /\ source = At(e) /\ score = Near
                      /\ pid = Local(e)
    /\ ~Greeting(x) => /\ source = x.source /\ score = Farther(x.score)
                       /\ pid = PidFromWire(t, x.pid)
                       /\ x \in Notices(OnWire) /\ Knows(t, x.pid.node)

(* The handler of discover.                                                *)
LEMMA DiscoverIs ==
    ASSUME Inv, NEW h, Hub(scenario, h), HubInv(h), NEW e \in End, HandleDiscover(e)
    PROVE  \E x, t, source, score, name, pid, type, u :
              Discovering(e, x, t, source, score, name, pid, type, u)
<1>1. PICK n \in Node : n = At(e)
  BY Ends
<1>2. PICK x : x = Received(e)
  OBVIOUS
<1>3. PICK t : t = Hearing(e)
  OBVIOUS
<1>4. PICK d : d = FromWire(t, x)
  OBVIOUS
<1>5. PICK source : source = SourceNode(n, d.source)
  OBVIOUS
<1>6. PICK pid : pid = IF d.pid = NoPid THEN Local(e) ELSE d.pid
  OBVIOUS
<1>7. PICK score : score = Farther(d.score)
  OBVIOUS
<1>8. PICK u : u = RegisterRouter(t, source, score, d.name, pid,
                                 scenario.bridge[n], d.type)
  OBVIOUS
<1>9. Took(e) /\ x.kind = "discover"
  BY <1>2 DEF HandleDiscover, Event, Received, Took
<1>10. Performed(u) /\ UNCHANGED <<scenario, status>>
  BY <1>1, <1>2, <1>3, <1>4, <1>5, <1>6, <1>7, <1>8 DEF HandleDiscover
<1>11. /\ x \in Signals(OnWire) \cup Greetings(Towards(e))
       /\ TablesFit(t) /\ Onward(tables[n], t) /\ t.name = n
       /\ x \in Signals(OnWire) => KnowsAll(t, x)
  BY <1>1, <1>2, <1>3, <1>9, Hears1
<1>12. /\ ByIdFits(t) /\ ListFits(t) /\ t.name \in Node
       /\ Ids(t) \subseteq Nat /\ 0 \in Ids(t) /\ DOMAIN NameOf(t) = Ids(t)
  BY <1>11, IdsOf DEF TablesFit
<1>13. /\ source \in Node /\ score \in Nat /\ d.name \in Node /\ d.type \in Types
       /\ pid \in ContextPid(Ids(t)) /\ d.name = Towards(pid.proc)
       /\ Greeting(x) => source = n /\ score = Near /\ pid = Local(e)
       /\ ~Greeting(x) => /\ source = x.source /\ score = Farther(x.score)
                          /\ pid = PidFromWire(t, x.pid)
                          /\ x \in Notices(OnWire) /\ Knows(t, x.pid.node)
  <2>1. CASE x \in Greetings(Towards(e))
    <3>1. PICK type \in Types : x = Discover("none", 0, Towards(e), type, NoPid)
      BY <2>1 DEF Greetings
    <3>2. x.kind = "discover" /\ x.pid = NoPid /\ Greeting(x)
      BY <3>1 DEF Discover, Greeting
    <3>3. d = x
      BY <1>4, <3>2 DEF FromWire
    <3>4. /\ d.source = "none" /\ d.score = 0 /\ d.name = Towards(e)
          /\ d.type = type /\ d.pid = NoPid
      BY <3>1, <3>3 DEF Discover
    <3>5. pid = Local(e)
      BY <1>6, <3>4
    <3>6. pid \in ContextPid(Ids(t)) /\ pid.proc = e
      BY <1>12, <3>5 DEF Local, Pid, ContextPid
    <3>7. score = Near
      BY <1>7, <3>4 DEF Near
    <3>8. score \in Nat
      BY <1>7, <3>4, NetworkAssumption DEF Farther
    <3>9. source = n
      BY <1>5, <3>4 DEF SourceNode
    <3>. QED
      BY <3>2, <3>4, <3>5, <3>6, <3>7, <3>8, <3>9, Ends
  <2>2. CASE x \in Signals(OnWire)
    <3>1. x \in Notices(OnWire)
      BY <1>9, <2>2, Kinds DEF Signals
    <3>2. d \in Notices(NameOf(t)) /\ d.kind = "discover"
      BY <1>4, <1>9, <1>11, <1>12, <2>2, <3>1, FromWireFits
    <3>3. /\ d.source \in Node /\ d.score \in Nat /\ d.name \in Node
          /\ d.type \in Types /\ d.pid \in ContextPid(Ids(t))
          /\ d.name = Towards(d.pid.proc)
      BY <1>12, <3>2 DEF Notices
    <3>4. d.pid # NoPid
      BY <1>12, <3>3, NoPids DEF ContextPid
    <3>5. pid = d.pid
      BY <1>6, <3>4
    <3>6. source = d.source
      BY <1>5, <3>3, NetworkAssumption DEF SourceNode
    <3>7. score \in Nat
      BY <1>7, <3>3, NetworkAssumption DEF Farther
    <3>8. x.pid \in ContextPid(Node) /\ x.pid # NoPid
      BY <3>1, Kinds, WireOf, NoPids
    <3>9. ~Greeting(x)
      BY <3>8 DEF Greeting
    <3>10. /\ d.source = x.source /\ d.score = x.score
           /\ d.pid = PidFromWire(t, x.pid)
      <4>1. d = [x EXCEPT !.pid = PidFromWire(t, x.pid)]
        BY <1>4, <1>9, <3>8 DEF FromWire
      <4>. QED
        BY <1>9, <3>1, <4>1 DEF Notices
    <3>11. Knows(t, x.pid.node)
      <4>1. NamesIn(x) = <<x.pid.node>>
        BY <1>9, <3>8 DEF NamesIn, NamesInBody
      <4>2. Len(<<x.pid.node>>) = 1 /\ <<x.pid.node>>[1] = x.pid.node
        OBVIOUS
      <4>. QED
        BY <1>11, <2>2, <4>1, <4>2 DEF KnowsAll
    <3>. QED
      BY <1>7, <3>1, <3>3, <3>5, <3>6, <3>7, <3>9, <3>10, <3>11
  <2>. QED
    BY <1>11, <2>1, <2>2
<1>14. TablesFit(u) /\ Onward(t, u)
  BY <1>8, <1>11, <1>13, RegisterFits
<1>15. Onward(tables[n], u) /\ u.name = n
  BY <1>11, <1>14, OnwardOn DEF Onward
<1>16. Operated(n, u)
  BY <1>10, <1>14, <1>15 DEF Operated
<1>17. Discovering(e, x, t, source, score, d.name, pid, d.type, u)
  BY <1>1, <1>2, <1>3, <1>8, <1>9, <1>13, <1>16 DEF Discovering
<1>. QED
  BY <1>17

(* What a client has before it, that takes the event x of the end e of its *)
(* connection c to the server h.                                           *)
LeafHearing(c, e, x, t, h) ==
    /\ c \in Connection /\ e = ClientEnd(c) /\ Other(e) = ServerEnd(c)
    /\ At(e) = c[1] /\ Towards(e) = h /\ status[ServerEnd(c)] # "off"
    /\ Greeting(x) \/ Plain(x) \/ NewsItem(x, h, c, h)
    /\ Lively(t) = Lively(tables[c[1]]) /\ Settled(t, FALSE)
    /\ \A r \in Lively(t) : LeafRoute(c[1], Lively(t), r, h)
    /\ \A r \in Lively(t) : r.name = h => r.pid = Local(e)
    /\ ~Greeting(x) => \E q \in Lively(t) : q.name = h /\ q.pid = Local(e)
    /\ ~Greeting(x) /\ Knows(t, h) =>
          \A q \in Lively(t) : q.name = h => RouterOf(t, h) = q

(* A client reads an event: what it knows of the server.                   *)
LEMMA LeafHears ==
    ASSUME Inv, NEW h, Hub(scenario, h), HubInv(h), NEW e \in End, Took(e),
           At(e) # h, NEW x, x = Received(e), NEW t, t = Hearing(e)
    PROVE  \E c \in scenario.connections : LeafHearing(c, e, x, t, h)
<1>1. PICK c : c = e[1]
  OBVIOUS
<1>2. scenario.connections \subseteq Connection /\ h \in Node
  BY DEF Inv, Scenario, Hub
<1>3. /\ c \in scenario.connections
      /\ e = ClientEnd(c) => Greeting(x) \/ Plain(x) \/ NewsItem(x, h, c, h)
      /\ Same(tables[At(e)], t)
      /\ \A yes : Settled(tables[At(e)], yes) => Settled(t, yes)
      /\ TablesFit(t)
  BY <1>1, Hears1
<1>4. e = ClientEnd(c) /\ At(e) = c[1] /\ Towards(e) = h /\ Other(e) = ServerEnd(c)
  BY <1>1, <1>2, <1>3, EndsOf DEF Hub
<1>5. status[e] = "on" /\ status[ServerEnd(c)] # "off"
  BY <1>2, <1>3, <1>4 DEF Took, HubInv, Lifetimes
<1>6. Lively(t) = Lively(tables[c[1]])
  BY <1>3, <1>4 DEF Same
<1>7. c[1] \in Node \ {h}
  BY <1>2, <1>3, EndsOf DEF Hub
<1>8. Settled(t, FALSE)
  <2>1. scenario.bridge[c[1]] = FALSE
    <3>1. scenario.bridge[c[1]] \in BOOLEAN
      BY <1>7 DEF Inv, Scenario
    <3>. QED
      BY <1>7, <3>1 DEF Hub
  <2>2. Settled(tables[c[1]], FALSE)
    BY <1>7, <2>1 DEF HubInv, Routes
  <2>. QED
    BY <1>3, <1>4, <2>2
<1>9. \A r \in Lively(t) : LeafRoute(c[1], Lively(t), r, h)
  BY <1>6, <1>7 DEF HubInv, Routes
<1>10. ASSUME NEW r \in Lively(t), r.name = h
       PROVE  r.pid = Local(e)
  <2>1. PICK d \in scenario.connections :
           d[1] = c[1] /\ r.pid = Local(ClientEnd(d)) /\ status[ClientEnd(d)] = "on"
    BY <1>9, <1>10 DEF LeafRoute
  <2>2. d = c
    BY <1>2, <1>3, <1>4, <1>5, <2>1, OneLife DEF HubInv
  <2>. QED
    BY <1>4, <2>1, <2>2
<1>11. ASSUME ~Greeting(x)
       PROVE  \E q \in Lively(t) : q.name = h /\ q.pid = Local(e)
  <2>1. Over(tables[c[1]], e)
    BY <1>4, <1>11, Greeted DEF HubInv
  <2>2. PICK q \in Lively(t) : q.pid = Local(e)
    BY <1>6, <2>1 DEF Over
  <2>3. q.name = h
    BY <1>3, <1>4, <2>2, LivelyFits, LocalIs
  <2>. QED
    BY <2>2, <2>3
<1>12. ASSUME Knows(t, h), NEW q \in Lively(t), q.name = h
       PROVE  RouterOf(t, h) = q
  <2>1. ListFits(t) /\ q \in ToSet(t.routers)
    BY <1>3 DEF TablesFit, Lively
  <2>. QED
    BY <1>12, <2>1, KnownRouter DEF ListFits
<1>. QED
  BY <1>2, <1>3, <1>4, <1>5, <1>6, <1>8, <1>9, <1>10, <1>11, <1>12 DEF LeafHearing

(* A client hears of the server, or of another client.                     *)
LEMMA LeafDiscovers ==
    ASSUME Inv, NEW h, Hub(scenario, h), HubInv(h), NEW e \in End, At(e) # h,
           HandleDiscover(e)
    PROVE  HubInv(h)'
<1>1. PICK x, t, source, score, name, pid, type, u :
         Discovering(e, x, t, source, score, name, pid, type, u)
  BY DiscoverIs
<1>2. /\ Took(e) /\ x = Received(e) /\ x.kind = "discover" /\ t = Hearing(e)
      /\ u = RegisterRouter(t, source, score, name, pid, scenario.bridge[At(e)], type)
      /\ Operated(At(e), u)
      /\ source \in Node /\ score \in Nat /\ name \in Node /\ type \in Types
      /\ pid \in ContextPid(Ids(t)) /\ name = Towards(pid.proc)
      /\ Greeting(x) => /\ source = At(e) /\ score = Near
                        /\ pid = Local(e)
      /\ ~Greeting(x) => /\ source = x.source /\ score = Farther(x.score)
                         /\ pid = PidFromWire(t, x.pid)
                         /\ x \in Notices(OnWire) /\ Knows(t, x.pid.node)
  BY <1>1 DEF Discovering
<1>3. scenario.connections \subseteq Connection /\ h \in Node
  BY DEF Inv, Scenario, Hub
<1>4. PICK c \in scenario.connections :
         /\ c \in Connection /\ e = ClientEnd(c) /\ Other(e) = ServerEnd(c)
         /\ At(e) = c[1] /\ Towards(e) = h /\ status[ServerEnd(c)] # "off"
         /\ Greeting(x) \/ Plain(x) \/ NewsItem(x, h, c, h)
         /\ Lively(t) = Lively(tables[c[1]]) /\ Settled(t, FALSE)
         /\ \A r \in Lively(t) : LeafRoute(c[1], Lively(t), r, h)
         /\ \A r \in Lively(t) : r.name = h => r.pid = Local(e)
         /\ ~Greeting(x) => \E q \in Lively(t) : q.name = h /\ q.pid = Local(e)
         /\ ~Greeting(x) /\ Knows(t, h) =>
               \A q \in Lively(t) : q.name = h => RouterOf(t, h) = q
  <2>1. \E c \in scenario.connections : LeafHearing(c, e, x, t, h)
    BY <1>2, LeafHears
  <2>. QED
    BY <2>1 DEF LeafHearing
<1>5. PICK n \in Node \ {h} : n = c[1]
  BY <1>3, <1>4, EndsOf DEF Hub
<1>6. /\ TablesFit(t) /\ t.name = n /\ t.out = <<>>
  BY <1>2, <1>4, <1>5, Hears1
<1>7. status[e] = "on"
  BY <1>2 DEF Took
<1>8. ~Greeting(x) => NewsItem(x, h, c, h)
  BY <1>2, <1>4 DEF Plain
<1>9. ASSUME ~Greeting(x)
      PROVE  \E d \in scenario.connections :
                /\ x.pid.proc = ServerEnd(d) /\ d[1] # n /\ d[1] # h /\ name = d[1]
                /\ News(x) = There(ServerEnd(d)) /\ pid.proc = ServerEnd(d)
                /\ source = h /\ score = Far /\ x.pid.node = h
  <2>1. /\ x.pid # NoPid /\ x.pid.node = h /\ x.source = h /\ x.score = Near
    BY <1>2, <1>8, <1>9 DEF NewsItem
  <2>2. PICK d \in scenario.connections : x.pid.proc = ServerEnd(d) /\ d[1] # c[1]
    BY <1>8, <1>9 DEF NewsItem
  <2>3. d[1] # h /\ Towards(ServerEnd(d)) = d[1]
    BY <1>3, EndsOf DEF Hub
  <2>4. News(x) = There(ServerEnd(d))
    BY <1>2, <2>1, <2>2 DEF News
  <2>5. x.pid \in ContextPid(Node)
    BY <1>2, <1>9, Kinds, WireOf
  <2>6. pid.proc = ServerEnd(d)
    BY <1>2, <1>9, <2>2, <2>5 DEF PidFromWire, ContextPid
  <2>7. score = Far
    BY <1>2, <1>9, <2>1 DEF Far
  <2>. QED
    BY <1>2, <1>5, <1>9, <2>1, <2>2, <2>3, <2>4, <2>6, <2>7
<1>10. Greeting(x) => name = h /\ News(x) = Nothing
  <2>1. Greeting(x) => name = h
    BY <1>2, <1>4, LocalIs
  <2>. QED
    BY <2>1 DEF Greeting, News
<1>11. name # n
  BY <1>9, <1>10
<1>12. \A r \in Lively(t) : r.name = name => r.score = score
  <2>1. TAKE r \in Lively(t)
  <2>2. HAVE r.name = name
  <2>3. CASE Greeting(x)
    BY <1>2, <1>4, <1>10, <2>2, <2>3 DEF LeafRoute
  <2>4. CASE ~Greeting(x)
    BY <1>4, <1>9, <2>2, <2>4 DEF LeafRoute
  <2>. QED
    BY <2>3, <2>4
<1>13. scenario.bridge[At(e)] = FALSE
  <2>1. scenario.bridge[n] \in BOOLEAN
    BY DEF Inv, Scenario
  <2>. QED
    BY <1>4, <1>5, <2>1 DEF Hub
<1>14. u = RegisterRouter(t, source, score, name, pid, FALSE, type)
  BY <1>2, <1>13
<1>15. \/ u = t /\ \E r \in Lively(t) : r.name = name
       \/ \E r : /\ r.name = name /\ r.pid = pid /\ r.source = source
                 /\ r.score = score
                 /\ Lively(u) = Lively(t) \cup {r}
                 /\ Settled(u, FALSE) /\ u.out = t.out
  <2>1. /\ source \in Node /\ score \in Nat /\ name \in Node /\ type \in Types
        /\ pid \in ContextPid(Ids(t)) /\ name = Towards(pid.proc) /\ name # t.name
    BY <1>2, <1>6, <1>11
  <2>2. PICK yes \in BOOLEAN : yes = FALSE
    OBVIOUS
  <2>3. Settled(t, yes) /\ u = RegisterRouter(t, source, score, name, pid, yes, type)
    BY <1>4, <1>14, <2>2
  <2>4. Registering(t, u, source, score, name, pid, type, yes)
    BY <1>6, <1>12, <2>1, <2>3, Registered
  <2>. QED
    BY <2>2, <2>4 DEF Registering
<1>16. u.out = <<>>
  BY <1>6, <1>15
<1>17. Lively(t) \subseteq Lively(u)
  BY <1>15
<1>18. LeafKept(n, u, h)
  <2>1. Settled(u, FALSE)
    BY <1>4, <1>15
  <2>2. ASSUME NEW r \in Lively(u)
        PROVE  LeafRoute(n, Lively(u), r, h)
    <3>1. CASE r \in Lively(t)
      BY <1>4, <1>5, <1>17, <3>1 DEF LeafRoute
    <3>2. CASE r \notin Lively(t)
      <4>1. r.name = name /\ r.pid = pid /\ r.source = source /\ r.score = score
        BY <1>15, <3>2
      <4>2. CASE Greeting(x)
        BY <1>2, <1>4, <1>5, <1>7, <1>10, <4>1, <4>2 DEF LeafRoute
      <4>3. CASE ~Greeting(x)
        <5>1. PICK q \in Lively(t) : q.name = h
          BY <1>4, <4>3
        <5>2. RouterOf(t, h) = q /\ x.pid \in ContextPid(Node) /\ x.pid.node = h
          BY <1>2, <1>4, <1>9, <4>3, <5>1, Kinds, WireOf
        <5>3. pid.node = q.id
          BY <1>2, <4>3, <5>2 DEF PidFromWire, ContextPid
        <5>. QED
          BY <1>9, <1>17, <4>1, <4>3, <5>1, <5>3 DEF LeafRoute
      <4>. QED
        BY <4>2, <4>3
    <3>. QED
      BY <3>1, <3>2
  <2>3. \A f : Over(tables[n], f) => Over(u, f)
    BY <1>4, <1>5, <1>17 DEF Over
  <2>4. ToSet(u.out) = {}
    BY <1>16, Empty
  <2>. QED
    BY <2>1, <2>2, <2>3, <2>4 DEF LeafKept
<1>19. Greeting(x) => Over(u, e) /\ KnownTo(u, h) = KnownTo(tables[n], h)
  <2>1. SUFFICES ASSUME Greeting(x)
                 PROVE  Over(u, e) /\ KnownTo(u, h) = KnownTo(tables[n], h)
    OBVIOUS
  <2>2. Over(u, e)
    BY <1>2, <1>4, <1>10, <1>15, <2>1 DEF Over
  <2>3. {q \in Lively(u) : q.name # h} = {q \in Lively(t) : q.name # h}
    BY <1>10, <1>15, <2>1
  <2>. QED
    BY <1>4, <1>5, <2>2, <2>3 DEF KnownTo
<1>20. ASSUME ~Greeting(x), status[ServerEnd(c)] = "on"
       PROVE  KnownTo(u, h) = After(KnownTo(tables[n], h), News(x))
  <2>1. PICK d \in scenario.connections :
                /\ x.pid.proc = ServerEnd(d) /\ d[1] # n /\ d[1] # h /\ name = d[1]
                /\ News(x) = There(ServerEnd(d)) /\ pid.proc = ServerEnd(d)
    BY <1>9, <1>20
  <2>2. PICK f \in End : f = ServerEnd(d)
    BY <1>3, EndsOf
  <2>3. After(KnownTo(tables[n], h), News(x)) = KnownTo(tables[n], h) \cup {f}
    BY <2>1, <2>2, NewsApart DEF After
  <2>4. ASSUME NEW r, r.name = name, r.pid = pid, Lively(u) = Lively(t) \cup {r}
        PROVE  KnownTo(u, h) = KnownTo(tables[n], h) \cup {f}
    <3>1. {q \in Lively(u) : q.name # h} = {q \in Lively(t) : q.name # h} \cup {r}
      BY <2>1, <2>4
    <3>2. r.pid.proc = f
      BY <2>1, <2>2, <2>4
    <3>. QED
      BY <1>4, <1>5, <3>1, <3>2 DEF KnownTo
  <2>5. ASSUME u = t, NEW r \in Lively(t), r.name = name
        PROVE  f \in KnownTo(tables[n], h)
    <3>1. r.pid.proc \in KnownTo(tables[n], h)
      BY <1>4, <1>5, <2>1, <2>5 DEF KnownTo
    <3>2. PICK g \in scenario.connections : r.pid.proc = ServerEnd(g)
      BY <1>4, <2>1, <2>5 DEF LeafRoute
    <3>3. g[1] = d[1]
      <4>1. r.name = Towards(r.pid.proc)
        BY <1>6, LivelyFits
      <4>. QED
        BY <1>3, <2>1, <2>5, <3>2, <4>1, EndsOf
    <3>4. SUFFICES ASSUME ServerEnd(g) # f PROVE FALSE
      BY <3>1, <3>2
    <3>5. PICK w, b : w = wire[ServerEnd(c)] /\ b = box[ServerEnd(c)]
      OBVIOUS
    <3>6. PICK S : w \in Seq(S) /\ b \in Seq(S) /\ w # <<>> /\ x = Head(w)
      BY <1>2, <1>4, <3>5, SeqsFit, Ends DEF Inv, Took, Received
    <3>7. PICK s : s = Stream(w, b)
      OBVIOUS
    <3>8. Len(s) \in Nat /\ Len(s) >= 1 /\ s[1] = There(f)
      BY <2>1, <2>2, <3>6, <3>7, StreamTail
    <3>9. StreamFits(s, KnownTo(tables[n], h), ToldBy(tables[h]), ServerEnd(c), GoneEnds)
      <4>1. status[ClientEnd(c)] # "gone"
        BY <1>4, <1>7
      <4>2. StreamOf(c, h)
        BY <1>20, <4>1 DEF HubInv, Streams
      <4>. QED
        BY <1>5, <3>5, <3>7, <4>2 DEF StreamOf
    <3>10. 1 \in 1..Len(s)
      BY <3>8
    <3>11. ~Silent(s)
      BY <3>8, <3>10, NewsApart DEF Silent
    <3>12. Consistent(s, KnownTo(tables[n], h), ToldBy(tables[h]), ServerEnd(c), GoneEnds)
      BY <3>9, <3>11 DEF StreamFits
    <3>13. ServerEnd(g) \in End /\ ClientOf(ServerEnd(g)) = ClientOf(f)
      BY <1>3, <2>2, <3>3, EndsOf
    <3>14. \E k \in 1..Len(s) : k < 1 /\ s[k] = Gone(ServerEnd(g))
      BY <3>1, <3>2, <3>4, <3>8, <3>10, <3>12, <3>13 DEF Consistent
    <3>. QED
      BY <3>14
  <2>6. CASE u = t /\ \E r \in Lively(t) : r.name = name
    BY <1>4, <1>5, <2>3, <2>5, <2>6 DEF KnownTo
  <2>. QED
    BY <1>15, <2>3, <2>4, <2>6
<1>21. HasHeard(n, u, h)
  <2>1. \A f \in End : Took(f) => f = e
    BY <1>2, TookOne
  <2>2. wire' # wire
    BY <1>2, TookSome, Ends
  <2>3. After(KnownTo(tables[n], h), Nothing) = KnownTo(tables[n], h)
    BY NewsApart DEF After
  <2>4. status[Other(e)] = "on" =>
           KnownTo(u, h) = After(KnownTo(tables[n], h), News(x))
    BY <1>4, <1>10, <1>19, <1>20, <2>3
  <2>. QED
    BY <1>2, <1>19, <2>1, <2>2, <2>4 DEF HasHeard
<1>22. Operated(n, u) /\ Wired(n)
  BY <1>2, <1>4, <1>5 DEF Wired
<1>. QED
  BY <1>5, <1>18, <1>21, <1>22, LeafKeeps

-----------------------------------------------------------------------------
(* Losses.                                                                 *)

(* A node that does not bridge unregisters a router that no other leads    *)
(* through: nobody but the user is told.                                   *)
LEMMA UnregisterLeaf ==
    ASSUME NEW t, TablesFit(t), Settled(t, FALSE),
           NEW pid \in ContextPid(Ids(t)),
           \A r, q \in Lively(t) : r.pid = pid => q.source # r.name,
           NEW u, u = UnregisterRouter(t, pid)
    PROVE  /\ Less(t, u, pid) /\ Settled(u, FALSE)
           /\ t.out = <<>> => \A d \in ToSet(u.out) : d.to = Local(User)
<1>1. Unlisted(t, u, pid, FALSE)
  BY UnregisterOne
<1>2. t.out = <<>> => ToSet(t.out) = {}
  BY Empty
<1>3. ASSUME NEW v, OnlyUser(t, v), t.out = <<>>
      PROVE  \A d \in ToSet(v.out) : d.to = Local(User)
  BY <1>2, <1>3 DEF OnlyUser
<1>4. ASSUME NEW v, TablesFit(v), Bridging(v, FALSE), OnlyUser(t, v),
             u.out = v.out \o Deliveries(v, Lost(pid))
      PROVE  OnlyUser(t, u)
  <2>1. v.bridges = <<>>
    BY <1>4 DEF Bridging
  <2>2. Deliveries(v, Lost(pid)) = <<>>
    BY <2>1, DeliveriesNone
  <2>3. v.out \in Seq(Delivered(v))
    BY <1>4 DEF TablesFit
  <2>4. ToSet(v.out \o <<>>) = ToSet(v.out)
    <3>1. ToSet(v.out \o <<>>) = ToSet(v.out) \cup ToSet(<<>>)
      BY <2>3, Empty, Joined
    <3>. QED
      BY <3>1, Empty
  <2>. QED
    BY <1>4, <2>2, <2>4 DEF OnlyUser
<1>5. OnlyUser(t, u)
  <2>1. CASE \E r \in Lively(t) : r.pid = pid
    BY <1>1, <1>4, <2>1 DEF Unlisted
  <2>2. CASE ~\E r \in Lively(t) : r.pid = pid
    BY <1>1, <2>2 DEF Unlisted
  <2>. QED
    BY <2>1, <2>2
<1>. QED
  BY <1>1, <1>3, <1>5 DEF Unlisted

(* Nobody tells the server of a loss.                                      *)
LEMMA HubLosts ==
    ASSUME Inv, NEW h, Hub(scenario, h), HubInv(h), NEW e \in End, At(e) = h
    PROVE  ~HandleLost(e)
<1>1. SUFFICES ASSUME HandleLost(e) PROVE FALSE
  OBVIOUS
<1>2. PICK x : x = Received(e)
  OBVIOUS
<1>3. Took(e) /\ x.kind = "lost"
  BY <1>1, <1>2 DEF HandleLost, Event, Received, Took
<1>4. /\ e[1] \in scenario.connections
      /\ e = ServerEnd(e[1]) => Greeting(x) \/ Plain(x)
  BY <1>2, <1>3, Hears1
<1>5. e = ServerEnd(e[1])
  <2>1. e[1] \in Connection /\ e \in {ServerEnd(e[1]), ClientEnd(e[1])}
    BY EndsOf
  <2>2. At(ClientEnd(e[1])) = e[1][1] /\ e[1][1] # h
    BY <1>4, <2>1, EndsOf DEF Hub
  <2>. QED
    BY <2>1, <2>2
<1>6. ~Plain(x) /\ ~Greeting(x)
  BY <1>3 DEF Plain, Greeting
<1>. QED
  BY <1>4, <1>5, <1>6

(* A client hears that another client is gone.                             *)
LEMMA LeafLosts ==
    ASSUME Inv, NEW h, Hub(scenario, h), HubInv(h), NEW e \in End, At(e) # h,
           HandleLost(e)
    PROVE  HubInv(h)'
<1>1. PICK x : x = Received(e)
  OBVIOUS
<1>2. PICK t : t = Hearing(e)
  OBVIOUS
<1>3. PICK pid : pid = FromWire(t, x).pid
  OBVIOUS
<1>4. PICK u : u = UnregisterRouter(t, pid)
  OBVIOUS
<1>5. Took(e) /\ x.kind = "lost"
  BY <1>1 DEF HandleLost, Event, Received, Took
<1>6. Performed(u) /\ UNCHANGED <<scenario, status>>
  BY <1>1, <1>2, <1>3, <1>4 DEF HandleLost
<1>7. scenario.connections \subseteq Connection /\ h \in Node
  BY DEF Inv, Scenario, Hub
<1>8. PICK c \in scenario.connections :
         /\ c \in Connection /\ e = ClientEnd(c) /\ Other(e) = ServerEnd(c)
         /\ At(e) = c[1] /\ Towards(e) = h /\ status[ServerEnd(c)] # "off"
         /\ Greeting(x) \/ Plain(x) \/ NewsItem(x, h, c, h)
         /\ Lively(t) = Lively(tables[c[1]]) /\ Settled(t, FALSE)
         /\ \A r \in Lively(t) : LeafRoute(c[1], Lively(t), r, h)
         /\ ~Greeting(x) => \E q \in Lively(t) : q.name = h /\ q.pid = Local(e)
         /\ ~Greeting(x) /\ Knows(t, h) =>
               \A q \in Lively(t) : q.name = h => RouterOf(t, h) = q
  <2>1. \E c \in scenario.connections : LeafHearing(c, e, x, t, h)
    BY <1>1, <1>2, <1>5, LeafHears
  <2>. QED
    BY <2>1 DEF LeafHearing
<1>9. PICK n \in Node \ {h} : n = c[1]
  BY <1>7, <1>8, EndsOf DEF Hub
<1>10. /\ TablesFit(t) /\ t.name = n /\ t.out = <<>> /\ Onward(tables[n], t)
       /\ x \in Signals(OnWire) \cup Greetings(Towards(e))
       /\ x \in Signals(OnWire) => KnowsAll(t, x)
  BY <1>1, <1>2, <1>5, <1>8, <1>9, Hears1
<1>11. ~Greeting(x) /\ NewsItem(x, h, c, h)
  BY <1>5, <1>8 DEF Plain, Greeting
<1>12. PICK d \in scenario.connections : x.pid.proc = ServerEnd(d) /\ d[1] # n
  BY <1>9, <1>11 DEF NewsItem
<1>13. PICK f \in End : f = ServerEnd(d)
  BY <1>7, EndsOf
<1>14. x.pid # NoPid /\ x.pid.node = h /\ News(x) = Gone(f)
  BY <1>5, <1>11, <1>12, <1>13 DEF NewsItem, News
<1>15. At(f) = h /\ f # e /\ Towards(f) = d[1] /\ d[1] # h
  BY <1>7, <1>8, <1>13, EndsOf DEF Hub
<1>16. x \in Notices(OnWire) /\ x \in Signals(OnWire)
  BY <1>5, <1>10, Kinds DEF Signals, Greetings, Discover
<1>17. /\ ByIdFits(t) /\ ListFits(t) /\ t.name \in Node
       /\ DOMAIN NameOf(t) = Ids(t)
  BY <1>10, IdsOf DEF TablesFit
<1>18. pid \in ContextPid(Ids(t))
  BY <1>3, <1>10, <1>16, <1>17, FromWireFits, Kinds
<1>19. PICK q \in Lively(t) : q.name = h /\ q.pid = Local(e)
  BY <1>8, <1>11
<1>20. pid = [node |-> q.id, proc |-> f]
  <2>1. Knows(t, h)
    <3>1. NamesIn(x) = <<h>>
      BY <1>5, <1>14 DEF NamesIn, NamesInBody
    <3>2. Len(<<h>>) = 1 /\ <<h>>[1] = h
      OBVIOUS
    <3>. QED
      BY <1>10, <1>16, <3>1, <3>2 DEF KnowsAll
  <2>2. RouterOf(t, h) = q
    BY <1>8, <1>11, <1>19, <2>1
  <2>3. FromWire(t, x) = [x EXCEPT !.pid = PidFromWire(t, x.pid)]
    BY <1>5, <1>14 DEF FromWire
  <2>4. pid = PidFromWire(t, x.pid)
    BY <1>3, <1>5, <1>16, <2>3 DEF Notices
  <2>5. x.pid \in ContextPid(Node)
    BY <1>16, Kinds, WireOf
  <2>. QED
    BY <1>12, <1>13, <1>14, <2>2, <2>4, <2>5 DEF PidFromWire, ContextPid
<1>21. pid.proc = f /\ pid.node = q.id
  BY <1>20
<1>22. \A r, s \in Lively(t) : r.pid = pid => s.source # r.name
  <2>1. TAKE r, s \in Lively(t)
  <2>2. HAVE r.pid = pid
  <2>3. r.name = d[1]
    BY <1>10, <1>15, <1>21, <2>2, LivelyFits
  <2>4. s.source = n \/ s.source = h
    BY <1>8, <1>9 DEF LeafRoute
  <2>. QED
    BY <1>12, <1>15, <2>3, <2>4
<1>23. /\ Less(t, u, pid) /\ Settled(u, FALSE)
       /\ \A y \in ToSet(u.out) : y.to = Local(User)
  BY <1>4, <1>8, <1>10, <1>18, <1>22, UnregisterLeaf
<1>24. Lively(u) = {r \in Lively(t) : r.pid # pid} /\ u.name = n
  BY <1>10, <1>23 DEF Less
<1>25. q \in Lively(u)
  BY <1>15, <1>19, <1>21, <1>24, LocalIs
<1>26. LeafKept(n, u, h)
  <2>1. ASSUME NEW r \in Lively(u)
        PROVE  LeafRoute(n, Lively(u), r, h)
    <3>1. r \in Lively(t) /\ LeafRoute(n, Lively(t), r, h)
      BY <1>8, <1>9, <1>24
    <3>2. ASSUME r.name # h
          PROVE  \E s \in Lively(u) : s.name = h /\ r.pid.node = s.id
      <4>1. PICK s \in Lively(t) : s.name = h /\ r.pid.node = s.id
        BY <3>1, <3>2 DEF LeafRoute
      <4>2. s = q
        BY <1>10, <1>19, <4>1, LivelyFits
      <4>. QED
        BY <1>25, <4>1, <4>2
    <3>. QED
      BY <3>1, <3>2 DEF LeafRoute
  <2>2. ASSUME NEW g \in End, At(g) = n, Over(tables[n], g)
        PROVE  Over(u, g)
    <3>1. PICK r \in Lively(t) : r.pid = Local(g)
      BY <1>8, <1>9, <2>2 DEF Over
    <3>2. r.pid # pid
      BY <1>9, <1>15, <1>21, <2>2, <3>1, LocalIs
    <3>. QED
      BY <1>24, <3>1, <3>2 DEF Over
  <2>. QED
    BY <1>23, <2>1, <2>2 DEF LeafKept
<1>27. KnownTo(u, h) = After(KnownTo(tables[n], h), News(x))
  <2>1. KnownTo(tables[n], h) = KnownTo(t, h)
    BY <1>8, <1>9 DEF KnownTo
  <2>2. After(KnownTo(t, h), Gone(f)) = KnownTo(t, h) \ {f}
    BY NewsApart DEF After
  <2>3. ASSUME NEW r \in Lively(t), r.name # h
        PROVE  r.pid = pid <=> r.pid.proc = f
    <3>1. PICK s \in Lively(t) : s.name = h /\ r.pid.node = s.id
      BY <1>8, <2>3 DEF LeafRoute
    <3>2. s = q
      BY <1>10, <1>19, <3>1, LivelyFits
    <3>3. r.pid \in ContextPid(Ids(t))
      BY <1>10, LivelyFits
    <3>. QED
      BY <1>20, <3>1, <3>2, <3>3 DEF ContextPid
  <2>4. KnownTo(u, h) = KnownTo(t, h) \ {f}
    BY <1>24, <2>3 DEF KnownTo
  <2>. QED
    BY <1>14, <2>1, <2>2, <2>4
<1>28. HasHeard(n, u, h)
  <2>1. \A g \in End : Took(g) => g = e
    BY <1>5, TookOne
  <2>2. wire' # wire
    BY <1>5, TookSome, Ends
  <2>. QED
    BY <1>1, <1>11, <1>27, <2>1, <2>2 DEF HasHeard
<1>29. Operated(n, u) /\ Wired(n)
  <2>1. TablesFit(u) /\ Onward(t, u)
    BY <1>4, <1>10, <1>18, UnregisterFits
  <2>2. Onward(tables[n], u)
    BY <1>10, <2>1, OnwardOn
  <2>. QED
    BY <1>5, <1>6, <1>8, <1>9, <1>24, <2>1, <2>2 DEF Operated, Wired
<1>. QED
  BY <1>9, <1>26, <1>28, <1>29, LeafKeeps

-----------------------------------------------------------------------------
(* The server hears a greeting.                                            *)

(* The bridges of the server are its contexts, one for a client.           *)
LEMMA HubBridges ==
    ASSUME scenario.connections \subseteq Connection,
           NEW h, Hub(scenario, h), NEW t, TablesFit(t), NEW yes, Settled(t, yes),
           \A r \in Lively(t) : HubRoute(r, h)
    PROVE  /\ \A r \in Lively(t) : \E d \in scenario.connections :
                 /\ r.pid = Local(ServerEnd(d)) /\ r.name = d[1]
                 /\ status[ServerEnd(d)] = "on"
           /\ \A b \in ToSet(t.bridges) : \E d \in scenario.connections :
                 /\ b.pid = Local(ServerEnd(d)) /\ b.pid.node = 0
                 /\ b.names = <<d[1]>> /\ b.names[1] = d[1]
                 /\ \E r \in Lively(t) : r.pid = b.pid /\ r.name = d[1]
           /\ ToldBy(t) \subseteq End
           /\ \A e : e \in ToldBy(t) <=> \E b \in ToSet(t.bridges) : b.pid = Local(e)
           /\ \A e \in ToldBy(t) : \E r \in Lively(t) :
                 r.pid = Local(e) /\ r.name = ClientOf(e)
           /\ \A d, f \in ToldBy(t) : ClientOf(d) = ClientOf(f) => d = f
<1>1. ASSUME NEW r \in Lively(t)
      PROVE  \E d \in scenario.connections :
                 /\ r.pid = Local(ServerEnd(d)) /\ r.name = d[1]
                 /\ status[ServerEnd(d)] = "on"
  <2>1. PICK d \in scenario.connections :
           r.pid = Local(ServerEnd(d)) /\ status[ServerEnd(d)] = "on"
    BY DEF HubRoute
  <2>2. r.name = Towards(ServerEnd(d))
    BY <2>1, LivelyFits, LocalIs
  <2>. QED
    BY <2>1, <2>2, EndsOf
<1>2. ASSUME NEW b \in ToSet(t.bridges)
      PROVE  \E d \in scenario.connections :
                 /\ b.pid = Local(ServerEnd(d)) /\ b.pid.node = 0
                 /\ b.names = <<d[1]>> /\ b.names[1] = d[1]
                 /\ \E r \in Lively(t) : r.pid = b.pid /\ r.name = d[1]
  <2>1. PICK r \in Lively(t) : b = BridgeTo(r)
    BY DEF Settled, Bridging
  <2>2. PICK d \in scenario.connections :
           r.pid = Local(ServerEnd(d)) /\ r.name = d[1]
    BY <1>1
  <2>3. b.pid = r.pid /\ b.names = <<r.name>>
    BY <2>1 DEF BridgeTo
  <2>. QED
    BY <2>2, <2>3, LocalIs
<1>3. ASSUME NEW e
      PROVE  e \in ToldBy(t) <=> \E b \in ToSet(t.bridges) : b.pid = Local(e)
  <2>1. \A b \in ToSet(t.bridges) : b.pid.proc = e <=> b.pid = Local(e)
    BY <1>2, LocalIs
  <2>. QED
    BY <2>1 DEF ToldBy
<1>4. ASSUME NEW e \in ToldBy(t)
      PROVE  e \in End /\ \E r \in Lively(t) : r.pid = Local(e) /\ r.name = ClientOf(e)
  <2>1. PICK b \in ToSet(t.bridges) : b.pid = Local(e)
    BY <1>3
  <2>2. PICK d \in scenario.connections :
           b.pid = Local(ServerEnd(d))
           /\ \E r \in Lively(t) : r.pid = b.pid /\ r.name = d[1]
    BY <1>2
  <2>3. e = ServerEnd(d)
    BY <2>1, <2>2, LocalIs
  <2>. QED
    BY <2>1, <2>2, <2>3, EndsOf
<1>5. ASSUME NEW d \in ToldBy(t), NEW f \in ToldBy(t), ClientOf(d) = ClientOf(f)
      PROVE  d = f
  <2>1. PICK r \in Lively(t) : r.pid = Local(d) /\ r.name = ClientOf(d)
    BY <1>4
  <2>2. PICK q \in Lively(t) : q.pid = Local(f) /\ q.name = ClientOf(f)
    BY <1>4
  <2>3. r = q
    BY <1>5, <2>1, <2>2, LivelyFits
  <2>. QED
    BY <2>1, <2>2, <2>3, LocalIs
<1>. QED
  BY <1>1, <1>2, <1>3, <1>4, <1>5

(* What the bridges of the server are told of a new router over e, and e   *)
(* of them.                                                                *)
LEMMA DiscoverNews ==
    ASSUME scenario.connections \subseteq Connection,
           NEW h, Hub(scenario, h), NEW t, TablesFit(t), NEW yes, Settled(t, yes),
           \A r \in Lively(t) : HubRoute(r, h),
           NEW c \in scenario.connections, NEW type \in Types,
           \A q \in Lively(t) : q.name # c[1],
           NEW v, TablesFit(v), v.bridges = t.bridges,
           NEW notice,
           notice = Discover(h, Near, c[1], type, Local(ServerEnd(c))),
           NEW out, out = <<>> \o Deliveries(v, notice)
    PROVE  /\ \A a \in scenario.connections : \A d \in ToSet(out) :
                 d.to = Local(ServerEnd(a)) => NewsItem(d.item, 0, a, h)
           /\ \A e \in End : \A d \in ToSet(out) : d.to = Local(e) =>
                 \/ e # ServerEnd(c) /\ e \in ToldBy(t)
                    /\ News(d.item) = There(ServerEnd(c))
                 \/ e = ServerEnd(c) /\ \E b \in ToldBy(t) : News(d.item) = There(b)
           /\ \A e \in ToldBy(t) : \E d \in ToSet(out) :
                 d.to = Local(e) /\ News(d.item) = There(ServerEnd(c))
           /\ \A b \in ToldBy(t) : \E d \in ToSet(out) :
                 d.to = Local(ServerEnd(c)) /\ News(d.item) = There(b)
<1>1. PICK f \in End : f = ServerEnd(c)
  BY EndsOf
<1>2. h \in Node /\ c[1] \in Node /\ Towards(f) = c[1] /\ c \in Connection
  BY <1>1, EndsOf DEF Hub
<1>3. /\ DOMAIN NameOf(v) = Ids(v) /\ 0 \in Ids(v)
  BY IdsOf DEF TablesFit
<1>4. Near \in Nat
  BY NetworkAssumption DEF Near, Farther
<1>5. /\ notice.kind = "discover" /\ notice.source = h /\ notice.score = Near
      /\ notice.name = c[1] /\ notice.pid = Local(f)
  BY <1>1 DEF Discover
<1>6. Local(f) \in ContextPid(Ids(v)) /\ Local(f) # NoPid
  <2>1. Local(f) \in ContextPid(Ids(v))
    BY <1>3 DEF Local, Pid, ContextPid
  <2>. QED
    BY <2>1, NoPids
<1>7. notice \in Notices(NameOf(v))
  <2>1. notice \in [kind : {"discover"}, source : Node, score : Nat, name : Node,
                    type : Types, pid : ContextPid(DOMAIN NameOf(v))]
    BY <1>1, <1>2, <1>3, <1>4, <1>6 DEF Discover
  <2>2. notice.name = Towards(notice.pid.proc)
    BY <1>2, <1>5, LocalIs
  <2>. QED
    BY <2>1, <2>2 DEF Notices
<1>8. /\ \A b \in ToSet(t.bridges) : \E d \in scenario.connections :
            /\ b.pid = Local(ServerEnd(d)) /\ b.pid.node = 0
            /\ b.names = <<d[1]>> /\ b.names[1] = d[1]
            /\ \E r \in Lively(t) : r.pid = b.pid /\ r.name = d[1]
      /\ \A e : e \in ToldBy(t) <=> \E b \in ToSet(t.bridges) : b.pid = Local(e)
  BY HubBridges
<1>9. \A d : d \in ToSet(out) <=>
         \E b \in ToSet(v.bridges) :
            \/ d = [to |-> b.pid, item |-> notice]
            \/ d = [to |-> notice.pid, item |-> Said(notice, b.names[1], b.pid)]
  <2>1. notice.pid.node = 0
    BY <1>5, LocalIs
  <2>2. \A b \in ToSet(v.bridges) : b.pid.node = 0 /\ \E m : b.names = <<m>>
    BY <1>8
  <2>3. \A d : d \in ToSet(Deliveries(v, notice)) <=>
              \E b \in ToSet(v.bridges) :
                 \/ d = [to |-> b.pid, item |-> notice]
                 \/ d = [to |-> notice.pid,
                         item |-> Said(notice, b.names[1], b.pid)]
    BY <1>7, <2>1, <2>2, DeliveriesLocal
  <2>4. ToSet(out) = ToSet(Deliveries(v, notice))
    <3>1. Deliveries(v, notice) \in Seq(Delivered(v)) /\ <<>> \in Seq(Delivered(v))
      BY <1>7, DeliveriesFit, Empty
    <3>2. ToSet(<<>> \o Deliveries(v, notice)) =
             ToSet(<<>>) \cup ToSet(Deliveries(v, notice))
      <4>1. PICK a, b, D : /\ a = <<>> /\ b = Deliveries(v, notice)
                           /\ D = Delivered(v)
        OBVIOUS
      <4>2. a \in Seq(D) /\ b \in Seq(D)
        BY <3>1, <4>1
      <4>3. ToSet(a \o b) = ToSet(a) \cup ToSet(b)
        BY <4>2, Joined
      <4>. QED
        BY <4>1, <4>3
    <3>. QED
      BY <3>2, Empty
  <2>. QED
    BY <2>3, <2>4
<1>10. News(notice) = There(f)
  BY <1>5, <1>6, LocalIs DEF News
<1>11. ASSUME NEW b \in ToSet(t.bridges)
       PROVE  \E d \in scenario.connections :
                 /\ b.pid = Local(ServerEnd(d)) /\ d[1] # c[1] /\ ServerEnd(d) # f
                 /\ \E y : /\ y = Said(notice, b.names[1], b.pid)
                           /\ y.kind = "discover" /\ y.source = h /\ y.score = Near
                           /\ y.pid = Local(ServerEnd(d)) /\ y.pid # NoPid
                           /\ News(y) = There(ServerEnd(d))
                           /\ \A a : d[1] # a[1] => NewsItem(y, 0, a, h)
                 /\ \A a : c[1] # a[1] => NewsItem(notice, 0, a, h)
  <2>1. PICK d \in scenario.connections :
            /\ b.pid = Local(ServerEnd(d)) /\ b.names[1] = d[1]
            /\ \E r \in Lively(t) : r.pid = b.pid /\ r.name = d[1]
    BY <1>8
  <2>2. d[1] # c[1]
    BY <2>1
  <2>3. PICK y : y = Said(notice, b.names[1], b.pid)
    OBVIOUS
  <2>4. y = [notice EXCEPT !.name = d[1], !.pid = b.pid]
    BY <1>5, <2>1, <2>3 DEF Said
  <2>5. /\ y.kind = "discover" /\ y.source = h /\ y.score = Near
        /\ y.pid = Local(ServerEnd(d))
    BY <2>1, <2>4 DEF Discover
  <2>6. ServerEnd(d) \in End
    BY EndsOf
  <2>7. y.pid # NoPid
    BY <2>5, <2>6, NoPids
  <2>8. News(y) = There(ServerEnd(d))
    BY <2>5, <2>7, LocalIs DEF News
  <2>9. \A a : d[1] # a[1] => NewsItem(y, 0, a, h)
    BY <2>5, <2>7, LocalIs DEF NewsItem
  <2>10. \A a : c[1] # a[1] => NewsItem(notice, 0, a, h)
    BY <1>1, <1>5, <1>6, LocalIs DEF NewsItem
  <2>11. ServerEnd(d) # f
    BY <1>1, <2>2, EndsOf
  <2>. QED
    BY <2>1, <2>2, <2>3, <2>5, <2>7, <2>8, <2>9, <2>10, <2>11
<1>12. ASSUME NEW a \in scenario.connections, NEW d \in ToSet(out),
              d.to = Local(ServerEnd(a))
       PROVE  NewsItem(d.item, 0, a, h)
  <2>1. PICK b \in ToSet(t.bridges) :
            \/ d = [to |-> b.pid, item |-> notice]
            \/ d = [to |-> notice.pid, item |-> Said(notice, b.names[1], b.pid)]
    BY <1>9
  <2>2. PICK g \in scenario.connections :
                 /\ b.pid = Local(ServerEnd(g)) /\ g[1] # c[1]
                 /\ \E y : /\ y = Said(notice, b.names[1], b.pid)
                           /\ \A k : g[1] # k[1] => NewsItem(y, 0, k, h)
                 /\ \A k : c[1] # k[1] => NewsItem(notice, 0, k, h)
    BY <1>11
  <2>3. CASE d = [to |-> b.pid, item |-> notice]
    <3>1. ServerEnd(a) = ServerEnd(g) /\ d.item = notice
      BY <1>12, <2>2, <2>3, LocalIs
    <3>2. a = g
      BY <3>1, EndsOf
    <3>. QED
      BY <2>2, <3>1, <3>2
  <2>4. CASE d = [to |-> notice.pid, item |-> Said(notice, b.names[1], b.pid)]
    <3>1. ServerEnd(a) = f /\ d.item = Said(notice, b.names[1], b.pid)
      BY <1>5, <1>12, <2>4, LocalIs
    <3>2. a = c
      BY <1>1, <3>1, EndsOf
    <3>. QED
      BY <2>2, <3>1, <3>2
  <2>. QED
    BY <2>1, <2>3, <2>4
<1>13. ASSUME NEW e \in End, NEW d \in ToSet(out), d.to = Local(e)
       PROVE  \/ e # f /\ e \in ToldBy(t) /\ News(d.item) = There(f)
              \/ e = f /\ \E b \in ToldBy(t) : News(d.item) = There(b)
  <2>1. PICK b \in ToSet(t.bridges) :
            \/ d = [to |-> b.pid, item |-> notice]
            \/ d = [to |-> notice.pid, item |-> Said(notice, b.names[1], b.pid)]
    BY <1>9
  <2>2. PICK g \in scenario.connections :
                 /\ b.pid = Local(ServerEnd(g)) /\ ServerEnd(g) # f
                 /\ News(Said(notice, b.names[1], b.pid)) = There(ServerEnd(g))
    BY <1>11
  <2>3. ServerEnd(g) \in ToldBy(t)
    BY <1>8, <2>2
  <2>4. CASE d = [to |-> b.pid, item |-> notice]
    BY <1>10, <1>13, <2>2, <2>3, <2>4, LocalIs
  <2>5. CASE d = [to |-> notice.pid, item |-> Said(notice, b.names[1], b.pid)]
    BY <1>5, <1>13, <2>2, <2>3, <2>5, LocalIs
  <2>. QED
    BY <2>1, <2>4, <2>5
<1>14. ASSUME NEW e \in ToldBy(t)
       PROVE  /\ \E d \in ToSet(out) : d.to = Local(e) /\ News(d.item) = There(f)
              /\ \E d \in ToSet(out) : d.to = Local(f) /\ News(d.item) = There(e)
  <2>1. PICK b \in ToSet(t.bridges) : b.pid = Local(e)
    BY <1>8
  <2>2. PICK g \in scenario.connections :
                 /\ b.pid = Local(ServerEnd(g))
                 /\ News(Said(notice, b.names[1], b.pid)) = There(ServerEnd(g))
    BY <1>11
  <2>3. e = ServerEnd(g)
    BY <2>1, <2>2, LocalIs
  <2>4. PICK d : d = [to |-> b.pid, item |-> notice]
    OBVIOUS
  <2>5. d \in ToSet(out) /\ d.to = Local(e) /\ News(d.item) = There(f)
    BY <1>9, <1>10, <2>1, <2>4
  <2>6. PICK k : k = [to |-> notice.pid, item |-> Said(notice, b.names[1], b.pid)]
    OBVIOUS
  <2>7. k \in ToSet(out) /\ k.to = Local(f) /\ News(k.item) = There(e)
    BY <1>5, <1>9, <2>2, <2>3, <2>6
  <2>. QED
    BY <2>5, <2>7
<1>. QED
  BY <1>1, <1>12, <1>13, <1>14

(* The new context is told of the others, and the others of it.            *)
LEMMA TellsThere ==
    ASSUME scenario.connections \subseteq Connection,
           NEW h, Hub(scenario, h), NEW t, TablesFit(t), NEW yes, Settled(t, yes),
           \A r \in Lively(t) : HubRoute(r, h), ToldBy(t) = ToldBy(tables[h]),
           NEW c \in scenario.connections, status[ServerEnd(c)] = "on",
           \A q \in Lively(t) : q.name # c[1],
           NEW u, ToldBy(u) = ToldBy(t) \cup {ServerEnd(c)},
           \A e \in End : \A d \in ToSet(u.out) : d.to = Local(e) =>
                 \/ e # ServerEnd(c) /\ e \in ToldBy(t)
                    /\ News(d.item) = There(ServerEnd(c))
                 \/ e = ServerEnd(c) /\ \E b \in ToldBy(t) : News(d.item) = There(b),
           \A e \in ToldBy(t) : \E d \in ToSet(u.out) :
                 d.to = Local(e) /\ News(d.item) = There(ServerEnd(c)),
           \A b \in ToldBy(t) : \E d \in ToSet(u.out) :
                 d.to = Local(ServerEnd(c)) /\ News(d.item) = There(b)
    PROVE  Tells(u, h)
<1>1. PICK f \in End : f = ServerEnd(c)
  BY EndsOf
<1>2. PICK T \in SUBSET End : T = ToldBy(t)
  BY HubBridges
<1>3. /\ \A e \in T : \E r \in Lively(t) :
            r.pid = Local(e) /\ r.name = ClientOf(e)
      /\ \A d, g \in T : ClientOf(d) = ClientOf(g) => d = g
  BY <1>2, HubBridges
<1>4. \A e \in T : ClientOf(e) # ClientOf(f)
  <2>1. ClientOf(f) = c[1]
    BY <1>1, EndsOf
  <2>. QED
    BY <1>3, <2>1
<1>5. f \notin T /\ f \notin GoneEnds
  BY <1>1, <1>4 DEF GoneEnds
<1>6. ASSUME NEW a \in scenario.connections, NEW s, NEW r, NEW known,
             Continues(s, r, NewsFor(u, ServerEnd(a))),
             StreamFits(s, known, T, ServerEnd(a), GoneEnds)
      PROVE  StreamFits(r, known, T \cup {f}, ServerEnd(a), GoneEnds)
  <2>1. PICK me \in End : me = ServerEnd(a)
    BY EndsOf
  <2>2. PICK N : N = NewsFor(u, me)
    OBVIOUS
  <2>3. Continues(s, r, N) /\ StreamFits(s, known, T, me, GoneEnds)
    BY <1>6, <2>1, <2>2
  <2>4. CASE me = f
    <3>1. N = {There(b) : b \in T}
      <4>1. \A x \in N : \E b \in T : x = There(b)
        BY <1>1, <1>2, <2>2, <2>4 DEF NewsFor
      <4>2. \A b \in T : There(b) \in N
        <5>1. TAKE b \in T
        <5>2. PICK d \in ToSet(u.out) : d.to = Local(f) /\ News(d.item) = There(b)
          BY <1>1, <1>2
        <5>. QED
          BY <2>2, <2>4, <5>2 DEF NewsFor
      <4>. QED
        BY <4>1, <4>2
    <3>2. me \notin T
      BY <1>5, <2>4
    <3>3. StreamFits(r, known, T \cup {me}, me, GoneEnds)
      BY <1>3, <2>3, <3>1, <3>2, StreamBegins
    <3>. QED
      BY <2>1, <2>4, <3>3
  <2>5. CASE me # f /\ me \in T
    <3>1. N = {There(f)}
      <4>1. \A x \in N : x = There(f)
        BY <1>1, <1>2, <2>2, <2>5 DEF NewsFor
      <4>2. There(f) \in N
        <5>1. PICK d \in ToSet(u.out) : d.to = Local(me) /\ News(d.item) = There(f)
          BY <1>1, <1>2, <2>5
        <5>. QED
          BY <2>2, <5>1 DEF NewsFor
      <4>. QED
        BY <4>1, <4>2
    <3>2. StreamFits(r, known, T \cup {f}, me, GoneEnds)
      BY <1>4, <1>5, <2>3, <2>5, <3>1, StreamThere
    <3>. QED
      BY <2>1, <3>2
  <2>6. CASE me # f /\ me \notin T
    <3>1. N \subseteq {Nothing}
      BY <1>1, <1>2, <2>2, <2>6 DEF NewsFor
    <3>2. StreamFits(s, known, T \cup {f}, me, GoneEnds)
      BY <2>3, <2>6 DEF StreamFits
    <3>3. StreamFits(r, known, T \cup {f}, me, GoneEnds)
      BY <2>3, <3>1, <3>2, StreamQuiet
    <3>. QED
      BY <2>1, <3>3
  <2>. QED
    BY <2>4, <2>5, <2>6
<1>7. ToldBy(u) = T \cup {f} /\ ToldBy(tables[h]) = T
  BY <1>1, <1>2
<1>. QED
  <2>. SUFFICES ASSUME NEW a \in scenario.connections, NEW s, NEW r, NEW known,
                       Continues(s, r, NewsFor(u, ServerEnd(a))),
                       StreamFits(s, known, ToldBy(tables[h]), ServerEnd(a), GoneEnds)
                PROVE  StreamFits(r, known, ToldBy(u), ServerEnd(a), GoneEnds)
    BY DEF Tells
  <2>1. StreamFits(s, known, T, ServerEnd(a), GoneEnds)
    BY <1>7
  <2>2. StreamFits(r, known, T \cup {f}, ServerEnd(a), GoneEnds)
    BY <1>6, <2>1
  <2>. QED
    BY <1>7, <2>2

(* The server hears that a client is there.                                *)
LEMMA HubDiscovers ==
    ASSUME Inv, NEW h, Hub(scenario, h), HubInv(h), NEW e \in End, At(e) = h,
           HandleDiscover(e)
    PROVE  HubInv(h)'
<1>1. PICK x, t, source, score, name, pid, type, u :
         Discovering(e, x, t, source, score, name, pid, type, u)
  BY DiscoverIs
<1>2. /\ Took(e) /\ x = Received(e) /\ x.kind = "discover" /\ t = Hearing(e)
      /\ u = RegisterRouter(t, source, score, name, pid, scenario.bridge[At(e)], type)
      /\ Operated(At(e), u)
      /\ source \in Node /\ score \in Nat /\ name \in Node /\ type \in Types
      /\ pid \in ContextPid(Ids(t)) /\ name = Towards(pid.proc)
      /\ Greeting(x) => /\ source = At(e) /\ score = Near
                        /\ pid = Local(e)
  BY <1>1 DEF Discovering
<1>3. scenario.connections \subseteq Connection /\ h \in Node
  BY DEF Inv, Scenario, Hub
<1>4. PICK c : c = e[1]
  OBVIOUS
<1>5. /\ c \in scenario.connections /\ c \in Connection
      /\ e = ServerEnd(c) => Greeting(x) \/ Plain(x)
      /\ Same(tables[h], t)
      /\ \A yes : Settled(tables[h], yes) => Settled(t, yes)
      /\ TablesFit(t) /\ t.out = <<>> /\ t.name = h
  BY <1>2, <1>3, <1>4, Hears1
<1>6. e = ServerEnd(c) /\ c[1] # h /\ Towards(e) = c[1]
  <2>1. e \in {ServerEnd(c), ClientEnd(c)} /\ At(ClientEnd(c)) = c[1] /\ c[1] # h
    BY <1>4, <1>5, EndsOf DEF Hub
  <2>. QED
    BY <1>5, <2>1, EndsOf
<1>7. Greeting(x)
  BY <1>2, <1>5, <1>6 DEF Plain
<1>8. source = h /\ score = Near /\ pid = Local(e) /\ name = c[1]
  <2>1. source = h /\ score = Near /\ pid = Local(e)
    BY <1>2, <1>7
  <2>. QED
    BY <1>2, <1>6, <2>1, LocalIs
<1>9. status[e] = "on"
  BY <1>2 DEF Took
<1>10. PICK yes \in BOOLEAN : yes = scenario.bridge[h]
  BY <1>3 DEF Inv, Scenario
<1>11. /\ Settled(t, yes) /\ Lively(t) = Lively(tables[h])
       /\ t.bridges = tables[h].bridges
       /\ \A r \in Lively(t) : HubRoute(r, h)
  <2>1. Settled(tables[h], yes) /\ \A r \in Lively(tables[h]) : HubRoute(r, h)
    BY <1>3, <1>10 DEF HubInv, Routes
  <2>. QED
    BY <1>5, <2>1 DEF Same
<1>12. ToldBy(t) = ToldBy(tables[h])
  BY <1>11 DEF ToldBy
<1>13. u = RegisterRouter(t, source, score, name, pid, yes, type)
  BY <1>2, <1>10
<1>14. \A f \in End : Took(f) => f = e
  BY <1>2, TookOne
<1>15. Operated(h, u) /\ Wired(h)
  BY <1>2 DEF Wired
<1>16. ASSUME u = t, NEW q \in Lively(t), q.name = name
       PROVE  HubKept(u, h) /\ Tells(u, h)
  <2>1. PICK d \in scenario.connections :
           /\ q.pid = Local(ServerEnd(d)) /\ q.name = d[1]
           /\ status[ServerEnd(d)] = "on"
    BY <1>3, <1>5, <1>11, HubBridges
  <2>2. d = c
    BY <1>3, <1>5, <1>6, <1>8, <1>9, <1>16, <2>1, OneLife DEF HubInv
  <2>3. Over(u, e)
    BY <1>6, <1>16, <2>1, <2>2 DEF Over
  <2>4. ToSet(u.out) = {}
    BY <1>5, <1>16, Empty
  <2>5. \A f \in End : Over(tables[h], f) => Over(u, f)
    BY <1>11, <1>16 DEF Over
  <2>6. HubKept(u, h)
    BY <1>10, <1>11, <1>14, <1>16, <2>3, <2>4, <2>5 DEF HubKept
  <2>7. \A a : NewsFor(u, a) = {}
    BY <2>4 DEF NewsFor
  <2>8. Tells(u, h)
    BY <1>12, <1>16, <2>7, StreamQuiet DEF Tells
  <2>. QED
    BY <2>6, <2>8
<1>17. ASSUME NEW r, NEW v,
              /\ r.name = name /\ r.pid = pid /\ r.source = source
              /\ r.score = score,
              \A q \in Lively(t) : q.name # name,
              Lively(u) = Lively(t) \cup {r}, Settled(u, yes),
              ~yes => u.out = t.out,
              TablesFit(v), v.bridges = t.bridges,
              yes => /\ u.out = t.out \o Deliveries(v,
                                    Discover(source, score, name, type, pid))
                     /\ ToSet(u.bridges) = ToSet(t.bridges) \cup {BridgeTo(r)}
       PROVE  HubKept(u, h) /\ Tells(u, h)
  <2>1. Over(u, e)
    BY <1>8, <1>17 DEF Over
  <2>2. HubRoute(r, h)
    BY <1>5, <1>6, <1>8, <1>9, <1>17 DEF HubRoute
  <2>3. \A f \in End : Over(tables[h], f) => Over(u, f)
    BY <1>11, <1>17 DEF Over
  <2>4. ASSUME \A a \in scenario.connections : \A d \in ToSet(u.out) :
                  d.to = Local(ServerEnd(a)) => NewsItem(d.item, 0, a, h)
        PROVE  HubKept(u, h)
    BY <1>10, <1>11, <1>14, <1>17, <2>1, <2>2, <2>3, <2>4 DEF HubKept
  <2>5. CASE ~yes
    <3>1. ToSet(u.out) = {}
      BY <1>5, <1>17, <2>5, Empty
    <3>2. ToldBy(u) = ToldBy(tables[h])
      BY <1>10, <1>11, <1>12, <1>17, <2>5 DEF Settled, Bridging, ToldBy
    <3>3. \A a : NewsFor(u, a) = {}
      BY <3>1 DEF NewsFor
    <3>4. Tells(u, h)
      BY <3>2, <3>3, StreamQuiet DEF Tells
    <3>. QED
      BY <2>4, <3>1, <3>4
  <2>6. CASE yes
    <3>1. PICK notice : notice = Discover(h, Near, c[1], type, Local(ServerEnd(c)))
      OBVIOUS
    <3>2. u.out = <<>> \o Deliveries(v, notice)
      BY <1>5, <1>6, <1>8, <1>17, <2>6, <3>1
    <3>4. ToldBy(u) = ToldBy(t) \cup {ServerEnd(c)}
      <4>1. ToSet(u.bridges) = ToSet(t.bridges) \cup {BridgeTo(r)}
        BY <1>17, <2>6
      <4>2. BridgeTo(r).pid.proc = ServerEnd(c)
        BY <1>6, <1>8, <1>17, LocalIs DEF BridgeTo
      <4>. QED
        BY <4>1, <4>2 DEF ToldBy
    <3>5. \A q \in Lively(t) : q.name # c[1]
      BY <1>8, <1>17
    <3>6. /\ \A a \in scenario.connections : \A d \in ToSet(u.out) :
                 d.to = Local(ServerEnd(a)) => NewsItem(d.item, 0, a, h)
          /\ \A f \in End : \A d \in ToSet(u.out) : d.to = Local(f) =>
                 \/ f # ServerEnd(c) /\ f \in ToldBy(t)
                    /\ News(d.item) = There(ServerEnd(c))
                 \/ f = ServerEnd(c) /\ \E b \in ToldBy(t) : News(d.item) = There(b)
          /\ \A f \in ToldBy(t) : \E d \in ToSet(u.out) :
                 d.to = Local(f) /\ News(d.item) = There(ServerEnd(c))
          /\ \A b \in ToldBy(t) : \E d \in ToSet(u.out) :
                 d.to = Local(ServerEnd(c)) /\ News(d.item) = There(b)
      BY <1>2, <1>3, <1>5, <1>11, <1>17, <3>1, <3>2, <3>5, DiscoverNews
    <3>7. Tells(u, h)
      BY <1>3, <1>5, <1>6, <1>9, <1>11, <1>12, <3>4, <3>5, <3>6, TellsThere
    <3>. QED
      BY <2>4, <3>6, <3>7
  <2>. QED
    BY <2>5, <2>6
<1>18. HubKept(u, h) /\ Tells(u, h)
  <2>1. name # t.name /\ \A r \in Lively(t) : r.name = name => r.score = score
    BY <1>5, <1>6, <1>8, <1>11 DEF HubRoute
  <2>2. Registering(t, u, source, score, name, pid, type, yes)
    BY <1>2, <1>5, <1>11, <1>13, <2>1, Registered
  <2>. QED
    BY <1>16, <1>17, <2>2 DEF Registering
<1>. QED
  BY <1>15, <1>18, HubKeeps

-----------------------------------------------------------------------------
(* Connections.                                                            *)

(* A client that is not connected yet knows nobody.                        *)
LEMMA BeforeConnect ==
    ASSUME Inv, NEW h, Hub(scenario, h), HubInv(h),
           NEW c \in scenario.connections,
           status[ServerEnd(c)] = "off",
           \A d \in Before(c) : status[ClientEnd(d)] = "gone"
    PROVE  Lively(tables[c[1]]) = {}
<1>1. scenario.connections \subseteq Connection /\ h \in Node
  BY DEF Inv, Scenario, Hub
<1>2. c \in Connection /\ c[1] \in Node \ {h} /\ c[2] = h /\ c[3] \in Nat
  BY <1>1, EndsOf DEF Hub
<1>3. ASSUME NEW q \in Lively(tables[c[1]]), q.name = h
      PROVE  FALSE
  <2>1. PICK d \in scenario.connections :
           d[1] = c[1] /\ status[ClientEnd(d)] = "on"
    BY <1>2, <1>3 DEF HubInv, Routes, LeafRoute
  <2>2. d \in Connection /\ d[2] = h /\ d[3] \in Nat /\ status[ServerEnd(d)] # "off"
    BY <1>1, <2>1, EndsOf DEF Hub, HubInv, Lifetimes
  <2>3. ~(d[3] < c[3])
    BY <1>2, <2>1, <2>2 DEF Before
  <2>4. ~(c[3] < d[3])
    BY <1>2, <2>1, <2>2 DEF HubInv, Lifetimes
  <2>5. d[3] = c[3]
    BY <1>2, <2>2, <2>3, <2>4
  <2>6. d = c
    BY <1>2, <2>1, <2>2, <2>5, EndsOf
  <2>. QED
    BY <2>2, <2>6
<1>4. ASSUME NEW r \in Lively(tables[c[1]])
      PROVE  FALSE
  <2>1. LeafRoute(c[1], Lively(tables[c[1]]), r, h)
    BY <1>2 DEF HubInv, Routes
  <2>. QED
    BY <1>3, <2>1 DEF LeafRoute
<1>. QED
  BY <1>4

(* What an end greets with.                                                *)
LEMMA GreetingIs ==
    ASSUME NEW n, NEW type, NEW w, w = <<>>, NEW v,
           v = Append(w, Discover("none", 0, n, type, NoPid))
    PROVE  /\ v # <<>> /\ Greets(v) /\ \A x \in ToSet(v) : Greeting(x)
           /\ Silent(Stream(v, <<>>))
<1>1. PICK g : g = Discover("none", 0, n, type, NoPid)
  OBVIOUS
<1>2. Greeting(g) /\ News(g) = Nothing
  BY <1>1 DEF Discover, Greeting, News
<1>3. PICK S, b : S = {g} /\ b = <<>>
  OBVIOUS
<1>4. /\ v \in Seq(S) /\ Len(v) = 1 /\ v[1] = g /\ ToSet(v) = {g}
      /\ v # <<>> /\ Head(v) = g
  <2>1. v = <<g>>
    BY <1>1
  <2>2. g \in S
    BY <1>3
  <2>3. v \in Seq(S) /\ Len(v) = 1 /\ v[1] = g /\ ToSet(v) = {g}
    BY <2>1, <2>2, One
  <2>4. v # <<>>
    BY <2>3, Empty
  <2>. QED
    BY <2>3, <2>4, Rested
<1>5. b \in Seq(S) /\ Len(b) = 0
  BY <1>3, Empty
<1>6. Len(Stream(v, b)) = 1 /\ \A i \in 1..1 : Stream(v, b)[i] = News(v[i])
  <2>1. v \in Seq(S) /\ b \in Seq(S)
    BY <1>4, <1>5
  <2>2. PICK x \in Seq(S), y \in Seq(S) : x = v /\ y = b
    BY <2>1
  <2>3. /\ Len(Stream(x, y)) = Len(x) + Len(y)
        /\ \A i \in 1..Len(x) + Len(y) :
              Stream(x, y)[i] = IF i <= Len(x) THEN News(x[i])
                                              ELSE News(y[i - Len(x)])
    BY StreamIs
  <2>4. Len(x) = 1 /\ Len(y) = 0
    BY <1>4, <1>5, <2>2
  <2>5. Len(Stream(x, y)) = 1 /\ \A i \in 1..1 : Stream(x, y)[i] = News(x[i])
    BY <2>3, <2>4
  <2>. QED
    BY <2>2, <2>5
<1>7. \A i \in 1..Len(Stream(v, b)) : Stream(v, b)[i] = Nothing
  BY <1>2, <1>4, <1>6
<1>8. Silent(Stream(v, <<>>))
  BY <1>3, <1>7 DEF Silent
<1>. QED
  BY <1>2, <1>4, <1>8 DEF Greets

(* handleConnect.                                                          *)
LEMMA ConnectHub ==
    ASSUME Inv, NEW h, Hub(scenario, h), HubInv(h), NEW e \in End, Connect(e)
    PROVE  HubInv(h)'
<1>1. PICK c : c = e[1]
  OBVIOUS
<1>2. scenario.connections \subseteq Connection /\ h \in Node
  BY DEF Inv, Scenario, Hub
<1>3. /\ c \in scenario.connections /\ c \in Connection /\ status[e] = "off"
      /\ UNCHANGED <<scenario, tables, box>>
  BY <1>1, <1>2 DEF Connect
<1>4. e = ServerEnd(c) \/ e = ClientEnd(c)
  BY <1>1, EndsOf
<1>5. c[1] \in Node \ {h} /\ c[2] = h /\ c[3] \in Nat
  BY <1>2, <1>3, EndsOf DEF Hub
<1>6. \A f \in End : status'[f] = IF f = e THEN "on" ELSE status[f]
  <2>1. status = [x \in End |-> status[x]]
    BY DEF Inv
  <2>. QED
    BY <2>1 DEF Connect
<1>7. PICK w : w = wire'[e]
  OBVIOUS
<1>8. /\ \A f \in End : f # e => wire'[f] = wire[f]
      /\ w # <<>> /\ Greets(w) /\ \A x \in ToSet(w) : Greeting(x)
      /\ Silent(Stream(w, <<>>))
  <2>1. wire = [x \in End |-> wire[x]]
    BY DEF Inv, Fits
  <2>2. wire[e] = <<>>
    BY <1>3 DEF HubInv, Lifetimes
  <2>3. w = Append(wire[e],
           Discover("none", 0, At(e), scenario.type[At(e)], NoPid))
    BY <1>7, <2>1 DEF Connect
  <2>4. \A f \in End : f # e => wire'[f] = wire[f]
    BY <2>1 DEF Connect
  <2>. QED
    BY <2>2, <2>3, <2>4, GreetingIs
<1>9. e = ServerEnd(c) => \A d \in Before(c) :
         status[ClientEnd(d)] = "gone" /\ status[ServerEnd(d)] = "gone"
  <2>1. e = ServerEnd(c) => e[2] # "client" /\ e[2] = "server"
    BY DEF ServerEnd
  <2>2. scenario.overlap = FALSE
    BY DEF Inv, Scenario, Hub
  <2>. QED
    BY <1>1, <2>1, <2>2 DEF Connect, ServerEnd, ClientEnd
<1>10. e = ClientEnd(c) => status[ServerEnd(c)] # "off"
  <2>1. e = ClientEnd(c) => e[2] = "client"
    BY DEF ClientEnd
  <2>. QED
    BY <1>3, <2>1, EndsOf DEF Connect
<1>11. e = ServerEnd(c) => status[ClientEnd(c)] = "off"
  BY <1>3 DEF HubInv, Lifetimes
<1>12. {f \in End : status'[f] = "gone"} = GoneEnds
  BY <1>3, <1>6 DEF GoneEnds
<1>13. Lifetimes'
  <2>1. ASSUME NEW a \in Connection, status'[ClientEnd(a)] # "off"
        PROVE  status'[ServerEnd(a)] # "off"
    BY <1>3, <1>4, <1>6, <1>10, <2>1, EndsOf DEF HubInv, Lifetimes
  <2>2. ASSUME NEW a \in Connection, NEW d \in Connection,
               a[1] = d[1], a[2] = d[2], a[3] < d[3], status'[ServerEnd(d)] # "off"
        PROVE  status'[ServerEnd(a)] = "gone" /\ status'[ClientEnd(a)] = "gone"
    <3>1. status[ServerEnd(a)] = "gone" /\ status[ClientEnd(a)] = "gone"
      <4>1. CASE ServerEnd(d) = e
        <5>1. d = c /\ e = ServerEnd(c)
          BY <1>4, <4>1, EndsOf
        <5>2. a \in Before(c)
          BY <2>2, <5>1 DEF Before
        <5>. QED
          BY <1>9, <5>1, <5>2
      <4>2. CASE ServerEnd(d) # e
        BY <1>6, <2>2, <4>2, EndsOf DEF HubInv, Lifetimes
      <4>. QED
        BY <4>1, <4>2
    <3>. QED
      BY <1>3, <1>6, <3>1, EndsOf
  <2>3. \A f \in End : /\ status'[f] # "off" => f[1] \in scenario.connections
                       /\ status'[f] # "on" => box[f] = <<>>
                       /\ status'[f] = "off" => wire'[f] = <<>>
    BY <1>1, <1>3, <1>6, <1>8 DEF HubInv, Lifetimes
  <2>. QED
    BY <1>3, <2>1, <2>2, <2>3 DEF Lifetimes
<1>14. Routes(h)'
  <2>1. \A f \in End : status[f] = "on" => status'[f] = "on"
    BY <1>6
  <2>2. \A d \in scenario.connections : ServerEnd(d) \in End /\ ClientEnd(d) \in End
    BY <1>2, EndsOf
  <2>3. \A r : HubRoute(r, h) => HubRoute(r, h)'
    BY <1>3, <2>1, <2>2 DEF HubRoute
  <2>4. \A n, routers, r : LeafRoute(n, routers, r, h) => LeafRoute(n, routers, r, h)'
    BY <1>3, <2>1, <2>2 DEF LeafRoute
  <2>5. \A n \in Node : Settled(tables[n], scenario.bridge[n])
    BY DEF HubInv, Routes
  <2>6. \A r \in Lively(tables[h]) : HubRoute(r, h)
    BY DEF HubInv, Routes
  <2>7. ASSUME NEW n \in Node \ {h}, NEW R, R = Lively(tables'[n]), NEW r \in R
        PROVE  LeafRoute(n, R, r, h)'
    <3>1. LeafRoute(n, R, r, h)
      BY <1>3, <2>7 DEF HubInv, Routes
    <3>. QED
      BY <2>4, <3>1
  <2>11. (\A m \in Node : Settled(tables[m], scenario.bridge[m]))'
    BY <1>3, <2>5 DEF Settled, Tidy, Bridging, Lively
  <2>12. (\A r \in Lively(tables[h]) : HubRoute(r, h))'
    BY <1>3, <2>3, <2>6 DEF HubRoute, Lively
  <2>13. (\A m \in Node \ {h} : \A r \in Lively(tables[m]) :
             LeafRoute(m, Lively(tables[m]), r, h))'
    BY <1>3, <2>7, LeafRoutesNext
  <2>. QED
    BY <2>11, <2>12, <2>13 DEF Routes
<1>15. Items(h)'
  <2>1. ASSUME NEW a \in scenario.connections
        PROVE  /\ \A x \in ToSet(wire'[ServerEnd(a)]) :
                     Greeting(x) \/ Plain(x) \/ NewsItem(x, h, a, h)
               /\ \A x \in ToSet(wire'[ClientEnd(a)]) : Greeting(x) \/ Plain(x)
    <3>1. ServerEnd(a) \in End /\ ClientEnd(a) \in End
      BY <1>2, EndsOf
    <3>2. ASSUME NEW x \in ToSet(wire'[ServerEnd(a)])
          PROVE  Greeting(x) \/ Plain(x) \/ NewsItem(x, h, a, h)
      BY <1>7, <1>8, <3>1, <3>2 DEF HubInv, Items
    <3>3. ASSUME NEW x \in ToSet(wire'[ClientEnd(a)])
          PROVE  Greeting(x) \/ Plain(x)
      BY <1>7, <1>8, <3>1, <3>3 DEF HubInv, Items
    <3>. QED
      BY <3>2, <3>3
  <2>2. \A a \in scenario.connections :
           /\ \A x \in ToSet(box[ServerEnd(a)]) : Plain(x) \/ NewsItem(x, 0, a, h)
           /\ \A x \in ToSet(box[ClientEnd(a)]) : Plain(x)
    BY DEF HubInv, Items
  <2>. QED
    BY <1>3, <2>1, <2>2 DEF Items, NewsItem
<1>16. Handshake'
  <2>1. ASSUME NEW a \in scenario.connections
        PROVE  /\ status'[ServerEnd(a)] # "off" /\ status'[ClientEnd(a)] # "gone" =>
                     \/ Over(tables[a[1]], ClientEnd(a))
                     \/ Greets(wire'[ServerEnd(a)])
               /\ status'[ServerEnd(a)] = "on" /\ status'[ClientEnd(a)] # "off" =>
                     \/ Over(tables[a[2]], ServerEnd(a))
                     \/ Greets(wire'[ClientEnd(a)])
    <3>1. ServerEnd(a) \in End /\ ClientEnd(a) \in End /\ ServerEnd(a) # ClientEnd(a)
      BY <1>2, EndsOf
    <3>2. CASE e = ServerEnd(a)
      <4>1. a = c
        BY <1>4, <3>2, EndsOf
      <4>. QED
        BY <1>6, <1>7, <1>8, <1>11, <3>1, <3>2, <4>1
    <3>3. CASE e = ClientEnd(a)
      <4>1. a = c
        BY <1>4, <3>3, EndsOf
      <4>2. status[ServerEnd(a)] # "off" /\ status[ClientEnd(a)] # "gone"
        BY <1>3, <1>10, <3>3, <4>1
      <4>. QED
        BY <1>6, <1>7, <1>8, <3>1, <3>3, <4>2 DEF HubInv, Handshake
    <3>4. CASE e # ServerEnd(a) /\ e # ClientEnd(a)
      BY <1>6, <1>8, <3>1, <3>4 DEF HubInv, Handshake
    <3>. QED
      BY <3>2, <3>3, <3>4
  <2>. QED
    BY <1>3, <2>1 DEF Handshake, Over, Greets, Greeting, Lively
<1>17. Streams(h)'
  <2>1. ASSUME NEW a \in scenario.connections,
               status'[ServerEnd(a)] = "on", status'[ClientEnd(a)] # "gone"
        PROVE  StreamFits(Stream(wire'[ServerEnd(a)], box[ServerEnd(a)]),
                          KnownTo(tables[a[1]], h), ToldBy(tables[h]),
                          ServerEnd(a), GoneEnds)
    <3>1. ServerEnd(a) \in End /\ ClientEnd(a) \in End /\ ServerEnd(a) # ClientEnd(a)
      BY <1>2, EndsOf
    <3>2. CASE e = ServerEnd(a)
      <4>1. a = c
        BY <1>4, <3>2, EndsOf
      <4>2. Lively(tables[a[1]]) = {}
        BY <1>3, <1>9, <3>2, <4>1, BeforeConnect
      <4>3. KnownTo(tables[a[1]], h) = {}
        BY <4>2 DEF KnownTo
      <4>4. box[ServerEnd(a)] = <<>>
        BY <1>3, <3>1, <3>2 DEF HubInv, Lifetimes
      <4>5. ServerEnd(a) \notin ToldBy(tables[h])
        BY <1>2, <1>3, <3>2, ToldOn DEF HubInv
      <4>6. wire'[ServerEnd(a)] = w
        BY <1>7, <3>2
      <4>7. Silent(Stream(wire'[ServerEnd(a)], box[ServerEnd(a)]))
        BY <1>8, <4>4, <4>6
      <4>. QED
        BY <4>3, <4>5, <4>7 DEF StreamFits
    <3>3. CASE e # ServerEnd(a)
      <4>1. status[ServerEnd(a)] = "on" /\ wire'[ServerEnd(a)] = wire[ServerEnd(a)]
        BY <1>6, <1>8, <2>1, <3>1, <3>3
      <4>2. status[ClientEnd(a)] # "gone"
        BY <1>3, <1>6, <2>1, <3>1
      <4>3. StreamOf(a, h)
        BY <4>1, <4>2 DEF HubInv, Streams
      <4>. QED
        BY <4>1, <4>3 DEF StreamOf
    <3>. QED
      BY <3>2, <3>3
  <2>. QED
    BY <1>3, <1>12, <2>1 DEF Streams, StreamOf, KnownTo, ToldBy, GoneEnds, Lively
<1>. QED
  BY <1>13, <1>14, <1>15, <1>16, <1>17 DEF HubInv

-----------------------------------------------------------------------------
(* Signals on their way.                                                   *)

(* A message is still one as an event, and news are the same news.         *)
LEMMA ToWireSame ==
    ASSUME NEW t, TablesFit(t), NEW x \in Signals(NameOf(t)),
           NEW c, NEW h, h = t.name, NEW y, y = ToWire(t, x)
    PROVE  /\ Plain(x) => Plain(y)
           /\ NewsItem(x, 0, c, h) => NewsItem(y, h, c, h) /\ News(y) = News(x)
<1>1. ByIdFits(t) /\ t.name \in Node /\ DOMAIN NameOf(t) = Ids(t) /\ Ids(t) \subseteq Nat
  BY IdsOf DEF TablesFit
<1>2. y \in Signals(OnWire)
  BY <1>1, ToWireFits
<1>3. ASSUME Plain(x) PROVE Plain(y)
  <2>1. x \in Relays(NameOf(t)) /\ x.kind = "relay" /\ x.body.kind = "hello"
    BY <1>3, Kinds DEF Signals, Plain
  <2>2. PICK body : body = x.body
    OBVIOUS
  <2>3. body \in Notices(NameOf(t)) \cup Hellos(NameOf(t)) /\ body.kind = "hello"
    BY <2>1, <2>2 DEF Relays
  <2>4. body \in Hellos(NameOf(t))
    BY <2>3, Kinds
  <2>5. PICK to : to = [i \in DOMAIN x.to |-> PidToWire(t, x.to[i])]
    OBVIOUS
  <2>6. y = Relay(PidToWire(t, x.from), to,
                  [body EXCEPT !.from = PidToWire(t, body.from)])
    BY <2>1, <2>2, <2>3, <2>5 DEF ToWire
  <2>7. [body EXCEPT !.from = PidToWire(t, body.from)].kind = "hello"
    BY <2>4 DEF Hellos
  <2>8. PICK new : new = [body EXCEPT !.from = PidToWire(t, body.from)]
    OBVIOUS
  <2>9. y.kind = "relay" /\ y.body = new
    BY <2>6, <2>8 DEF Relay
  <2>. QED
    BY <2>7, <2>8, <2>9 DEF Plain
<1>4. ASSUME NewsItem(x, 0, c, h)
      PROVE  NewsItem(y, h, c, h) /\ News(y) = News(x)
  <2>1. x.kind \in {"discover", "lost"} /\ x.pid # NoPid /\ x.pid.node = 0
    BY <1>4 DEF NewsItem
  <2>2. x \in Notices(NameOf(t))
    BY <2>1, Kinds DEF Signals
  <2>3. x.pid \in ContextPid(Ids(t))
    BY <1>1, <2>2, Kinds
  <2>4. PICK new : new = PidToWire(t, x.pid)
    OBVIOUS
  <2>5. new.node = h /\ new.proc = x.pid.proc
    <3>1. t.routersById[1] = Self(t.name)
      BY <1>1 DEF ByIdFits
    <3>2. RouterById(t, 0).name = h
      <4>1. 0 + 1 = 1
        OBVIOUS
      <4>. QED
        BY <3>1, <4>1 DEF RouterById, Self, RouterRecord
    <3>3. new = [x.pid EXCEPT !.node = h]
      BY <2>1, <2>4, <3>2 DEF PidToWire
    <3>. QED
      BY <2>3, <3>3 DEF ContextPid
  <2>6. y = [x EXCEPT !.pid = new]
    BY <2>1, <2>4 DEF ToWire
  <2>7. /\ y.kind = x.kind /\ y.pid = new
        /\ x.kind = "discover" => y.source = x.source /\ y.score = x.score
    BY <2>2, <2>6 DEF Notices
  <2>8. y \in Notices(OnWire)
    BY <1>2, <2>1, <2>7, Kinds DEF Signals
  <2>9. y.pid # NoPid
    BY <2>8, Kinds, WireOf, NoPids
  <2>10. NewsItem(y, h, c, h)
    BY <1>4, <2>5, <2>7, <2>9 DEF NewsItem
  <2>11. News(y) = News(x)
    BY <2>1, <2>5, <2>7, <2>9 DEF News
  <2>. QED
    BY <2>10, <2>11
<1>. QED
  BY <1>3, <1>4

(* recycle and forward.                                                    *)
LEMMA ForwardHub ==
    ASSUME Inv, NEW h, Hub(scenario, h), HubInv(h), NEW e \in End, Forward(e)
    PROVE  HubInv(h)'
<1>1. PICK c : c = e[1]
  OBVIOUS
<1>2. scenario.connections \subseteq Connection /\ h \in Node
  BY DEF Inv, Scenario, Hub
<1>3. PICK t : t = tables[At(e)]
  OBVIOUS
<1>4. PICK x : x = Head(box[e])
  OBVIOUS
<1>5. PICK y : y = ToWire(t, x)
  OBVIOUS
<1>6. /\ UNCHANGED <<scenario, tables, status>>
      /\ status[e] = "on" /\ box[e] # <<>>
      /\ wire' = IF status[Other(e)] = "gone" THEN wire
                 ELSE [wire EXCEPT ![e] = Append(@, y)]
      /\ box' = [box EXCEPT ![e] = Tail(@)]
  BY <1>3, <1>4, <1>5 DEF Forward
<1>7. c \in scenario.connections /\ c \in Connection
  BY <1>1, <1>6, EndsOf DEF HubInv, Lifetimes
<1>8. e = ServerEnd(c) \/ e = ClientEnd(c)
  BY <1>1, EndsOf
<1>9. TablesFit(t) /\ t.name = At(e)
  BY <1>3, Ends DEF Inv, Fits
<1>10. box[e] \in Seq(Signals(NameOf(t))) /\ x \in Signals(NameOf(t)) /\ x \in ToSet(box[e])
  BY <1>3, <1>4, <1>6, Rested DEF Inv, Fits
<1>11. At(ServerEnd(c)) = h /\ Other(ServerEnd(c)) = ClientEnd(c)
  BY <1>7, EndsOf DEF Hub
<1>12. /\ Plain(x) => Plain(y)
       /\ e = ServerEnd(c) /\ NewsItem(x, 0, c, h) =>
             NewsItem(y, h, c, h) /\ News(y) = News(x)
  BY <1>5, <1>9, <1>10, <1>11, ToWireSame
<1>13. /\ e = ServerEnd(c) => Plain(x) \/ NewsItem(x, 0, c, h)
       /\ e = ClientEnd(c) => Plain(x)
  BY <1>7, <1>10 DEF HubInv, Items
<1>14. e = ServerEnd(c) => News(y) = News(x)
  BY <1>12, <1>13, PlainNews
<1>15. PICK S0 : \A f \in End : wire[f] \in Seq(S0) /\ box[f] \in Seq(S0)
  BY SeqsFit DEF Inv
<1>16. PICK S : S = S0 \cup {y}
  OBVIOUS
<1>17. \A f \in End : wire[f] \in Seq(S) /\ box[f] \in Seq(S)
  BY <1>15, <1>16, Wider
<1>18. y \in S
  BY <1>16
<1>19. wire = [f \in End |-> wire[f]] /\ box = [f \in End |-> box[f]]
  BY DEF Inv, Fits
<1>20. /\ \A f \in End : f # e => box'[f] = box[f] /\ wire'[f] = wire[f]
       /\ box'[e] = Tail(box[e])
       /\ status[Other(e)] = "gone" => wire'[e] = wire[e]
       /\ status[Other(e)] # "gone" => wire'[e] = Append(wire[e], y)
  BY <1>6, <1>19
<1>21. /\ ToSet(box'[e]) \subseteq ToSet(box[e])
       /\ ToSet(wire'[e]) \subseteq ToSet(wire[e]) \cup {y}
       /\ Greets(wire[e]) => Greets(wire'[e])
  <2>1. ToSet(Tail(box[e])) \subseteq ToSet(box[e])
    BY <1>6, <1>17, RestedSet
  <2>2. ToSet(Append(wire[e], y)) = ToSet(wire[e]) \cup {y}
    BY <1>17, <1>18, Appended
  <2>3. ASSUME NEW w \in Seq(S), w # <<>>
        PROVE  Append(w, y) # <<>> /\ Head(Append(w, y)) = Head(w)
    <3>1. Len(w) \in Nat /\ 1 \in 1..Len(w) /\ Head(w) = w[1]
      BY <2>3, Rested
    <3>2. PICK v : v = Append(w, y)
      OBVIOUS
    <3>3. v \in Seq(S) /\ v[1] = w[1] /\ Len(v) = Len(w) + 1
      BY <1>18, <3>1, <3>2, Appended
    <3>4. v # <<>>
      BY <3>1, <3>3, Empty
    <3>5. Head(v) = v[1]
      BY <3>3, <3>4, Rested
    <3>. QED
      BY <3>1, <3>2, <3>3, <3>4, <3>5
  <2>4. Greets(wire[e]) => Greets(Append(wire[e], y))
    BY <1>17, <2>3 DEF Greets
  <2>. QED
    BY <1>20, <2>1, <2>2, <2>4
<1>22. Lifetimes'
  <2>1. \A f \in End : /\ status[f] # "off" => f[1] \in scenario.connections
                       /\ status[f] # "on" => box'[f] = <<>>
                       /\ status[f] = "off" => wire'[f] = <<>>
    BY <1>6, <1>20 DEF HubInv, Lifetimes
  <2>. QED
    BY <1>6, <2>1 DEF HubInv, Lifetimes
<1>23. Routes(h)'
  <2>1. UNCHANGED <<scenario, tables, status>>
    BY <1>6
  <2>2. Routes(h)
    BY DEF HubInv
  <2>. QED
    BY <2>1, <2>2, RoutesSame
<1>24. Items(h)'
  <2>1. ASSUME NEW a \in scenario.connections
        PROVE  /\ \A z \in ToSet(box'[ServerEnd(a)]) : Plain(z) \/ NewsItem(z, 0, a, h)
               /\ \A z \in ToSet(wire'[ServerEnd(a)]) :
                     Greeting(z) \/ Plain(z) \/ NewsItem(z, h, a, h)
               /\ \A z \in ToSet(box'[ClientEnd(a)]) : Plain(z)
               /\ \A z \in ToSet(wire'[ClientEnd(a)]) : Greeting(z) \/ Plain(z)
    <3>1. ServerEnd(a) \in End /\ ClientEnd(a) \in End /\ ServerEnd(a) # ClientEnd(a)
      BY <1>2, EndsOf
    <3>2. /\ \A z \in ToSet(box[ServerEnd(a)]) : Plain(z) \/ NewsItem(z, 0, a, h)
          /\ \A z \in ToSet(wire[ServerEnd(a)]) :
                Greeting(z) \/ Plain(z) \/ NewsItem(z, h, a, h)
          /\ \A z \in ToSet(box[ClientEnd(a)]) : Plain(z)
          /\ \A z \in ToSet(wire[ClientEnd(a)]) : Greeting(z) \/ Plain(z)
      BY DEF HubInv, Items
    <3>3. CASE e = ServerEnd(a)
      <4>1. a = c
        BY <1>8, <3>3, EndsOf
      <4>2. Plain(y) \/ NewsItem(y, h, a, h)
        BY <1>12, <1>13, <3>3, <4>1
      <4>3. box'[ClientEnd(a)] = box[ClientEnd(a)] /\ wire'[ClientEnd(a)] = wire[ClientEnd(a)]
        BY <1>20, <3>1, <3>3
      <4>4. \A z \in ToSet(wire'[ServerEnd(a)]) : z \in ToSet(wire[ServerEnd(a)]) \/ z = y
        BY <1>21, <3>3
      <4>5. \A z \in ToSet(box'[ServerEnd(a)]) : z \in ToSet(box[ServerEnd(a)])
        BY <1>21, <3>3
      <4>. QED
        BY <3>2, <4>2, <4>3, <4>4, <4>5
    <3>4. CASE e = ClientEnd(a)
      <4>1. a = c
        BY <1>8, <3>4, EndsOf
      <4>2. Plain(y)
        BY <1>12, <1>13, <3>4, <4>1
      <4>3. box'[ServerEnd(a)] = box[ServerEnd(a)] /\ wire'[ServerEnd(a)] = wire[ServerEnd(a)]
        BY <1>20, <3>1, <3>4
      <4>4. \A z \in ToSet(wire'[ClientEnd(a)]) : z \in ToSet(wire[ClientEnd(a)]) \/ z = y
        BY <1>21, <3>4
      <4>5. \A z \in ToSet(box'[ClientEnd(a)]) : z \in ToSet(box[ClientEnd(a)])
        BY <1>21, <3>4
      <4>. QED
        BY <3>2, <4>2, <4>3, <4>4, <4>5
    <3>5. CASE e # ServerEnd(a) /\ e # ClientEnd(a)
      BY <1>20, <3>1, <3>2, <3>5
    <3>. QED
      BY <3>3, <3>4, <3>5
  <2>. QED
    BY <1>6, <2>1 DEF Items, NewsItem
<1>25. Handshake'
  <2>1. \A f \in End : Greets(wire[f]) => Greets(wire'[f])
    BY <1>20, <1>21
  <2>2. \A a \in scenario.connections : ServerEnd(a) \in End /\ ClientEnd(a) \in End
    BY <1>2, EndsOf
  <2>3. \A a \in scenario.connections :
           /\ status[ServerEnd(a)] # "off" /\ status[ClientEnd(a)] # "gone" =>
                 \/ Over(tables[a[1]], ClientEnd(a))
                 \/ Greets(wire'[ServerEnd(a)])
           /\ status[ServerEnd(a)] = "on" /\ status[ClientEnd(a)] # "off" =>
                 \/ Over(tables[a[2]], ServerEnd(a))
                 \/ Greets(wire'[ClientEnd(a)])
    BY <2>1, <2>2 DEF HubInv, Handshake
  <2>. QED
    BY <1>6, <2>3 DEF Handshake, Over, Greets, Greeting, Lively
<1>26. Streams(h)'
  <2>1. ASSUME NEW a \in scenario.connections,
               status[ServerEnd(a)] = "on", status[ClientEnd(a)] # "gone"
        PROVE  StreamFits(Stream(wire'[ServerEnd(a)], box'[ServerEnd(a)]),
                          KnownTo(tables[a[1]], h), ToldBy(tables[h]),
                          ServerEnd(a), GoneEnds)
    <3>1. ServerEnd(a) \in End
      BY <1>2, EndsOf
    <3>2. StreamOf(a, h)
      BY <2>1 DEF HubInv, Streams
    <3>3. Stream(wire'[ServerEnd(a)], box'[ServerEnd(a)])
             = Stream(wire[ServerEnd(a)], box[ServerEnd(a)])
      <4>1. CASE e # ServerEnd(a)
        BY <1>20, <3>1, <4>1
      <4>2. CASE e = ServerEnd(a)
        <5>1. a = c
          BY <1>8, <4>2, EndsOf
        <5>2. status[Other(e)] # "gone"
          BY <1>11, <2>1, <4>2, <5>1
        <5>3. wire'[e] = Append(wire[e], y) /\ box'[e] = Tail(box[e])
          BY <1>20, <5>2
        <5>4. News(y) = News(Head(box[e]))
          BY <1>4, <1>14, <4>2, <5>1
        <5>5. Stream(Append(wire[e], y), Tail(box[e])) = Stream(wire[e], box[e])
          BY <1>6, <1>17, <1>18, <5>4, StreamForwarded
        <5>. QED
          BY <4>2, <5>3, <5>5
      <4>. QED
        BY <4>1, <4>2
    <3>. QED
      BY <3>2, <3>3 DEF StreamOf
  <2>. QED
    BY <1>6, <2>1 DEF Streams, StreamOf, KnownTo, ToldBy, GoneEnds, Lively
<1>. QED
  BY <1>22, <1>23, <1>24, <1>25, <1>26 DEF HubInv

-----------------------------------------------------------------------------
(* Disconnects.                                                            *)

(* What a disconnect leaves alone.                                         *)
LEMMA Disconnecting ==
    ASSUME Inv, NEW h, Hub(scenario, h), HubInv(h), NEW e \in End, Disconnect(e),
           NEW n, n = At(e), NEW u, u = UnregisterRouter(tables[n], Local(e))
    PROVE  /\ e[1] \in scenario.connections /\ status[e] = "on" /\ UNCHANGED scenario
           /\ \A f \in End : status'[f] = IF f = e THEN "gone" ELSE status[f]
           /\ {f \in End : status'[f] = "gone"} = GoneEnds \cup {e}
           /\ TablesFit(u) /\ TablesFit(tables[n]) /\ Local(e) \in ContextPid(Ids(tables[n]))
           /\ n \in Node /\ u.name = n /\ tables[n].name = n /\ tables[n].out = <<>>
           /\ \A m \in Node : m # n => tables'[m] = tables[m]
           /\ Lively(tables'[n]) = Lively(u) /\ tables'[n].bridges = u.bridges
           /\ \A yes : Settled(u, yes) => Settled(tables'[n], yes)
           /\ box'[e] = <<>> /\ wire'[Other(e)] = <<>>
           /\ \A f \in End : f # e => /\ At(f) # n \/ status[f] # "on" => box'[f] = box[f]
                                      /\ At(f) = n /\ status[f] = "on" =>
                                            Gets(u, f, box[f], box'[f])
           /\ \A f \in End : f # Other(e) => wire'[f] = wire[f]
           /\ Lifetimes'
<1>1. PICK t : t = tables[n]
  OBVIOUS
<1>2. PICK w : w = [u EXCEPT !.out = <<>>]
  OBVIOUS
<1>3. /\ status[e] = "on" /\ UNCHANGED scenario
      /\ status' = [status EXCEPT ![e] = "gone"]
      /\ tables' = [tables EXCEPT ![n] = w]
      /\ box' = [Posted(u) EXCEPT ![e] = <<>>]
      /\ wire' = [wire EXCEPT ![Other(e)] = <<>>]
  BY <1>2 DEF Disconnect
<1>4. /\ tables = [m \in Node |-> tables[m]] /\ wire = [f \in End |-> wire[f]]
      /\ status = [f \in End |-> status[f]]
      /\ Posted(u) = [f \in End |-> Posted(u)[f]] /\ Fits
  BY DEF Inv, Fits, Posted
<1>5. n \in Node /\ TablesFit(t) /\ t.name = n /\ t.out = <<>>
  BY <1>1, <1>4, Ends DEF Fits
<1>6. Local(e) \in ContextPid(Ids(t))
  BY <1>5, IdsOf DEF TablesFit, Local, Pid, ContextPid
<1>7. TablesFit(u) /\ Onward(t, u) /\ u.name = n
  <2>1. TablesFit(u) /\ Onward(t, u)
    BY <1>1, <1>5, <1>6, UnregisterFits
  <2>. QED
    BY <1>5, <2>1 DEF Onward
<1>8. \A m \in Node : tables'[m] = IF m = n THEN w ELSE tables[m]
  BY <1>3, <1>4
<1>9. /\ w.bridges = u.bridges /\ Lively(w) = Lively(u)
      /\ \A yes : Settled(u, yes) => Settled(w, yes)
  BY <1>2, <1>7, ClearedSame
<1>10. \A f \in End : status'[f] = IF f = e THEN "gone" ELSE status[f]
  BY <1>3, <1>4
<1>11. \A f \in End : wire'[f] = IF f = Other(e) THEN <<>> ELSE wire[f]
  BY <1>3, <1>4
<1>12. Other(e) \in End
  BY Ends
<1>13. \A f \in End : box'[f] = IF f = e THEN <<>> ELSE Posted(u)[f]
  BY <1>3, <1>4
<1>14. \A f \in End : /\ At(f) # n \/ status[f] # "on" => Posted(u)[f] = box[f]
                      /\ At(f) = n /\ status[f] = "on" =>
                            Gets(u, f, box[f], Posted(u)[f])
  BY <1>1, <1>4, <1>7, PostedTo
<1>15. e[1] \in scenario.connections
  BY <1>3 DEF HubInv, Lifetimes
<1>16. {f \in End : status'[f] = "gone"} = GoneEnds \cup {e}
  BY <1>10 DEF GoneEnds
<1>17. Lifetimes'
  <2>1. \A a \in Connection : ServerEnd(a) \in End /\ ClientEnd(a) \in End
    BY EndsOf
  <2>2. ASSUME NEW a \in Connection, status'[ClientEnd(a)] # "off"
        PROVE  status'[ServerEnd(a)] # "off"
    BY <1>3, <1>10, <2>1, <2>2 DEF HubInv, Lifetimes
  <2>3. ASSUME NEW a \in Connection, NEW d \in Connection,
               a[1] = d[1], a[2] = d[2], a[3] < d[3], status'[ServerEnd(d)] # "off"
        PROVE  status'[ServerEnd(a)] = "gone" /\ status'[ClientEnd(a)] = "gone"
    <3>1. status[ServerEnd(d)] # "off"
      BY <1>3, <1>10, <2>1, <2>3
    <3>2. status[ServerEnd(a)] = "gone" /\ status[ClientEnd(a)] = "gone"
      BY <2>3, <3>1 DEF HubInv, Lifetimes
    <3>. QED
      BY <1>10, <2>1, <3>2
  <2>4. \A f \in End : /\ status'[f] # "off" => f[1] \in scenario.connections
                       /\ status'[f] # "on" => box'[f] = <<>>
                       /\ status'[f] = "off" => wire'[f] = <<>>
    BY <1>3, <1>10, <1>11, <1>13, <1>14 DEF HubInv, Lifetimes
  <2>. QED
    BY <1>3, <2>2, <2>3, <2>4 DEF Lifetimes
<1>. QED
  BY <1>1, <1>3, <1>5, <1>6, <1>7, <1>8, <1>9, <1>10, <1>11, <1>12, <1>13, <1>14,
     <1>15, <1>16, <1>17

(* Clients are still told of the others only.                              *)
LEMMA DisconnectItems ==
    ASSUME Inv, NEW h, Hub(scenario, h), HubInv(h), NEW e \in End, Disconnect(e),
           NEW u, u = UnregisterRouter(tables[At(e)], Local(e)),
           \A a \in scenario.connections : \A d \in ToSet(u.out) :
              At(e) = h /\ ServerEnd(a) # e /\ d.to = Local(ServerEnd(a))
                 => NewsItem(d.item, 0, a, h),
           At(e) # h => \A d \in ToSet(u.out) : d.to = Local(User)
    PROVE  Items(h)'
<1>1. PICK n : n = At(e)
  OBVIOUS
<1>2. scenario.connections \subseteq Connection
  BY DEF Inv, Scenario
<1>3. /\ UNCHANGED scenario
      /\ box'[e] = <<>> /\ wire'[Other(e)] = <<>>
      /\ \A f \in End : f # e => /\ At(f) # n \/ status[f] # "on" => box'[f] = box[f]
                                 /\ At(f) = n /\ status[f] = "on" =>
                                       Gets(u, f, box[f], box'[f])
      /\ \A f \in End : f # Other(e) => wire'[f] = wire[f]
  BY <1>1, Disconnecting
<1>4. \A f \in End : \A x \in ToSet(wire'[f]) : x \in ToSet(wire[f])
  BY <1>3, Empty
<1>5. ASSUME NEW f \in End, NEW x \in ToSet(box'[f])
      PROVE  \/ x \in ToSet(box[f])
             \/ /\ f # e /\ At(f) = n
                /\ \E d \in ToSet(u.out) : d.to = Local(f) /\ x = d.item
  <2>1. f # e
    BY <1>3, <1>5, Empty
  <2>. QED
    BY <1>3, <1>5, <2>1, GetsSet
<1>6. ASSUME NEW a \in scenario.connections
      PROVE  /\ \A x \in ToSet(box'[ServerEnd(a)]) : Plain(x) \/ NewsItem(x, 0, a, h)
             /\ \A x \in ToSet(wire'[ServerEnd(a)]) :
                   Greeting(x) \/ Plain(x) \/ NewsItem(x, h, a, h)
             /\ \A x \in ToSet(box'[ClientEnd(a)]) : Plain(x)
             /\ \A x \in ToSet(wire'[ClientEnd(a)]) : Greeting(x) \/ Plain(x)
  <2>1. /\ ServerEnd(a) \in End /\ ClientEnd(a) \in End
        /\ At(ServerEnd(a)) = h /\ At(ClientEnd(a)) # h
    BY <1>2, EndsOf DEF Hub
  <2>2. /\ \A x \in ToSet(box[ServerEnd(a)]) : Plain(x) \/ NewsItem(x, 0, a, h)
        /\ \A x \in ToSet(wire[ServerEnd(a)]) :
              Greeting(x) \/ Plain(x) \/ NewsItem(x, h, a, h)
        /\ \A x \in ToSet(box[ClientEnd(a)]) : Plain(x)
        /\ \A x \in ToSet(wire[ClientEnd(a)]) : Greeting(x) \/ Plain(x)
    BY DEF HubInv, Items
  <2>3. ASSUME NEW x \in ToSet(box'[ServerEnd(a)])
        PROVE  Plain(x) \/ NewsItem(x, 0, a, h)
    BY <1>1, <1>5, <2>1, <2>2
  <2>4. ASSUME NEW x \in ToSet(box'[ClientEnd(a)])
        PROVE  Plain(x)
    <3>1. Local(ClientEnd(a)) # Local(User)
      BY <2>1, Ends, LocalIs
    <3>. QED
      BY <1>1, <1>5, <2>1, <2>2, <3>1
  <2>. QED
    BY <1>4, <2>1, <2>2, <2>3, <2>4
<1>. QED
  BY <1>3, <1>6 DEF Items, NewsItem

(* The deliveries that tell the bridges of a server of the end f.          *)
Spreads(out, t, f, h) ==
    /\ \A a \in scenario.connections : \A d \in ToSet(out) :
          ServerEnd(a) # f /\ d.to = Local(ServerEnd(a)) => NewsItem(d.item, 0, a, h)
    /\ \A e \in End : \A d \in ToSet(out) : e # f /\ d.to = Local(e) =>
          e \in ToldBy(t) /\ News(d.item) = Gone(f)
    /\ \A e \in ToldBy(t) : e # f =>
          \E d \in ToSet(out) : d.to = Local(e) /\ News(d.item) = Gone(f)

(* What the bridges of the server are told when the router over the        *)
(* context f is gone.                                                      *)
LEMMA LostNews ==
    ASSUME scenario.connections \subseteq Connection,
           NEW h, Hub(scenario, h), NEW t, TablesFit(t), NEW yes, Settled(t, yes),
           \A r \in Lively(t) : HubRoute(r, h), t.out = <<>>,
           NEW c \in scenario.connections, NEW f, f = ServerEnd(c),
           NEW q \in Lively(t), q.pid = Local(f),
           NEW v, TablesFit(v), Less(t, v, Local(f)), OnlyUser(t, v),
           NEW out, out = v.out \o Deliveries(v, Lost(Local(f)))
    PROVE  Spreads(out, t, f, h)
<1>1. PICK notice : notice = Lost(Local(f))
  OBVIOUS
<1>2. f \in End
  BY EndsOf
<1>3. /\ DOMAIN NameOf(v) = Ids(v) /\ 0 \in Ids(v)
  BY IdsOf DEF TablesFit
<1>4. Local(f) \in ContextPid(Ids(v)) /\ Local(f) # NoPid
  <2>1. Local(f) \in ContextPid(Ids(v))
    BY <1>2, <1>3 DEF Local, Pid, ContextPid
  <2>. QED
    BY <1>2, <2>1, NoPids
<1>5. /\ notice.kind = "lost" /\ notice.pid = Local(f)
      /\ notice \in Notices(NameOf(v)) /\ notice.pid.node = 0
  <2>1. notice.kind = "lost" /\ notice.pid = Local(f)
    BY <1>1 DEF Lost
  <2>2. notice \in Notices(NameOf(v))
    BY <1>1, <1>3, <1>4 DEF Lost, Notices
  <2>. QED
    BY <2>1, <2>2, LocalIs
<1>6. News(notice) = Gone(f)
  BY <1>5, LocalIs DEF News
<1>7. q.name = c[1]
  <2>1. q.name = Towards(f)
    BY LivelyFits, LocalIs
  <2>. QED
    BY <2>1, EndsOf
<1>8. /\ \A b \in ToSet(t.bridges) : \E d \in scenario.connections :
            /\ b.pid = Local(ServerEnd(d)) /\ b.pid.node = 0
            /\ b.names = <<d[1]>> /\ b.names[1] = d[1]
            /\ \E r \in Lively(t) : r.pid = b.pid /\ r.name = d[1]
      /\ \A e : e \in ToldBy(t) <=> \E b \in ToSet(t.bridges) : b.pid = Local(e)
  BY HubBridges
<1>9. ToSet(v.bridges) = {b \in ToSet(t.bridges) : b.pid # Local(f)}
  BY DEF Less
<1>10. \A d : d \in ToSet(Deliveries(v, notice)) <=>
              \E b \in ToSet(v.bridges) :
                 \/ d = [to |-> b.pid, item |-> notice]
                 \/ d = [to |-> notice.pid,
                         item |-> Said(notice, b.names[1], b.pid)]
  <2>1. \A b \in ToSet(v.bridges) : b.pid.node = 0 /\ \E m : b.names = <<m>>
    BY <1>8, <1>9
  <2>. QED
    BY <1>5, <2>1, DeliveriesLocal
<1>11. /\ \A d \in ToSet(out) : d \in ToSet(Deliveries(v, notice)) \/ d.to = Local(User)
       /\ \A d \in ToSet(Deliveries(v, notice)) : d \in ToSet(out)
  <2>1. v.out \in Seq(Delivered(v)) /\ Deliveries(v, notice) \in Seq(Delivered(v))
    BY <1>5, DeliveriesFit DEF TablesFit
  <2>2. ToSet(v.out \o Deliveries(v, notice)) =
           ToSet(v.out) \cup ToSet(Deliveries(v, notice))
    BY <2>1, Joined
  <2>3. \A d \in ToSet(v.out) : d.to = Local(User)
    BY Empty DEF OnlyUser
  <2>. QED
    BY <1>1, <2>2, <2>3
<1>12. ASSUME NEW e \in End, NEW d \in ToSet(out), e # f, d.to = Local(e)
       PROVE  e \in ToldBy(t) /\ d.item = notice
  <2>1. d \in ToSet(Deliveries(v, notice))
    <3>1. Local(e) # Local(User)
      BY Ends, LocalIs
    <3>. QED
      BY <1>11, <1>12, <3>1
  <2>2. PICK b \in ToSet(v.bridges) :
                 \/ d = [to |-> b.pid, item |-> notice]
                 \/ d = [to |-> notice.pid,
                         item |-> Said(notice, b.names[1], b.pid)]
    BY <1>10, <2>1
  <2>3. d.to # notice.pid
    BY <1>5, <1>12, LocalIs
  <2>4. d = [to |-> b.pid, item |-> notice]
    BY <2>2, <2>3
  <2>. QED
    BY <1>8, <1>9, <1>12, <2>4
<1>13. ASSUME NEW a \in scenario.connections, NEW d \in ToSet(out),
              ServerEnd(a) # f, d.to = Local(ServerEnd(a))
       PROVE  NewsItem(d.item, 0, a, h)
  <2>1. ServerEnd(a) \in End
    BY EndsOf
  <2>2. ServerEnd(a) \in ToldBy(t) /\ d.item = notice
    BY <1>12, <1>13, <2>1
  <2>3. PICK b \in ToSet(t.bridges) : b.pid = Local(ServerEnd(a))
    BY <1>8, <2>2
  <2>4. PICK g \in scenario.connections :
            /\ b.pid = Local(ServerEnd(g))
            /\ \E r \in Lively(t) : r.pid = b.pid /\ r.name = g[1]
    BY <1>8
  <2>5. g = a
    <3>1. ServerEnd(g) = ServerEnd(a)
      BY <2>3, <2>4, LocalIs
    <3>. QED
      BY <3>1, EndsOf
  <2>6. PICK r \in Lively(t) : r.pid = Local(ServerEnd(a)) /\ r.name = a[1]
    BY <2>3, <2>4, <2>5
  <2>7. a[1] # c[1]
    <3>1. SUFFICES ASSUME a[1] = c[1] PROVE FALSE
      OBVIOUS
    <3>2. r = q
      BY <1>7, <2>6, <3>1, LivelyFits
    <3>. QED
      BY <1>13, <2>6, <3>2, LocalIs
  <2>. QED
    BY <1>4, <1>5, <2>2, <2>7, LocalIs DEF NewsItem
<1>14. ASSUME NEW e \in ToldBy(t), e # f
       PROVE  \E d \in ToSet(out) : d.to = Local(e) /\ News(d.item) = Gone(f)
  <2>1. PICK b \in ToSet(t.bridges) : b.pid = Local(e)
    BY <1>8
  <2>2. b \in ToSet(v.bridges)
    BY <1>9, <1>14, <2>1, LocalIs
  <2>3. PICK d : d = [to |-> b.pid, item |-> notice]
    OBVIOUS
  <2>4. d \in ToSet(out)
    BY <1>10, <1>11, <2>2, <2>3
  <2>. QED
    BY <1>6, <2>1, <2>3, <2>4
<1>. QED
  BY <1>6, <1>12, <1>13, <1>14 DEF Spreads

(* What the server does when the context f is gone: it has no router over  *)
(* it, and tells of it those that knew.                                    *)
LEMMA HubUnregisters ==
    ASSUME scenario.connections \subseteq Connection,
           NEW h, Hub(scenario, h), NEW t, TablesFit(t),
           NEW yes \in BOOLEAN, Settled(t, yes),
           \A r \in Lively(t) : HubRoute(r, h), t.out = <<>>,
           NEW c \in scenario.connections, NEW f, f = ServerEnd(c),
           Local(f) \in ContextPid(Ids(t)),
           NEW u, u = UnregisterRouter(t, Local(f))
    PROVE  /\ Less(t, u, Local(f)) /\ Settled(u, yes)
           /\ ToldBy(u) = ToldBy(t) \ {f}
           /\ \A a \in scenario.connections : \A d \in ToSet(u.out) :
                 ServerEnd(a) # f /\ d.to = Local(ServerEnd(a))
                    => NewsItem(d.item, 0, a, h)
           /\ \A e \in End : \A d \in ToSet(u.out) : e # f /\ d.to = Local(e) =>
                 e \in ToldBy(t) /\ News(d.item) = Gone(f)
           /\ \A e \in ToldBy(t) : e # f /\ f \in ToldBy(t) =>
                 \E d \in ToSet(u.out) : d.to = Local(e) /\ News(d.item) = Gone(f)
<1>1. PICK pid : pid = Local(f)
  OBVIOUS
<1>2. \A r, q \in Lively(t) : r.pid = pid => q.source # r.name
  <2>1. TAKE r, q \in Lively(t)
  <2>2. \E d \in scenario.connections : r.name = d[1]
    BY HubBridges
  <2>. QED
    BY <2>2 DEF HubRoute, Hub
<1>3. Unlisted(t, u, pid, yes)
  BY <1>1, <1>2, UnregisterOne
<1>4. Less(t, u, pid) /\ Settled(u, yes)
  BY <1>3 DEF Unlisted
<1>5. ToldBy(u) = ToldBy(t) \ {f}
  <2>1. ToSet(u.bridges) = {b \in ToSet(t.bridges) : b.pid # pid}
    BY <1>4 DEF Less
  <2>2. \A b \in ToSet(t.bridges) : b.pid = pid <=> b.pid.proc = f
    <3>1. \A b \in ToSet(t.bridges) :
             \E d \in scenario.connections : b.pid = Local(ServerEnd(d))
      BY HubBridges
    <3>. QED
      BY <1>1, <3>1, LocalIs
  <2>. QED
    BY <2>1, <2>2 DEF ToldBy
<1>6. ASSUME NEW q \in Lively(t), q.pid = pid
      PROVE  /\ \A a \in scenario.connections : \A d \in ToSet(u.out) :
                   ServerEnd(a) # f /\ d.to = Local(ServerEnd(a))
                      => NewsItem(d.item, 0, a, h)
             /\ \A e \in End : \A d \in ToSet(u.out) : e # f /\ d.to = Local(e) =>
                   e \in ToldBy(t) /\ News(d.item) = Gone(f)
             /\ \A e \in ToldBy(t) : e # f => \E d \in ToSet(u.out) :
                   d.to = Local(e) /\ News(d.item) = Gone(f)
  <2>1. PICK v : /\ TablesFit(v) /\ Less(t, v, pid) /\ OnlyUser(t, v)
                 /\ u.out = v.out \o Deliveries(v, Lost(pid))
    BY <1>3, <1>6 DEF Unlisted
  <2>2. PICK out : out = v.out \o Deliveries(v, Lost(Local(f)))
    OBVIOUS
  <2>3. u.out = out
    BY <1>1, <2>1, <2>2
  <2>4. q.pid = Local(f) /\ TablesFit(v) /\ Less(t, v, Local(f)) /\ OnlyUser(t, v)
    BY <1>1, <1>6, <2>1
  <2>5. Spreads(out, t, f, h)
    BY <2>2, <2>4, LostNews
  <2>. QED
    BY <2>3, <2>5 DEF Spreads
<1>7. ASSUME \A q \in Lively(t) : q.pid # pid
      PROVE  /\ \A d \in ToSet(u.out) : d.to = Local(User)
             /\ f \notin ToldBy(t)
  <2>1. OnlyUser(t, u)
    BY <1>3, <1>7 DEF Unlisted
  <2>2. \A e \in ToldBy(t) : \E r \in Lively(t) : r.pid = Local(e)
    BY HubBridges
  <2>. QED
    BY <1>1, <1>7, <2>1, <2>2, Empty DEF OnlyUser
<1>8. \A e \in End : Local(e) # Local(User)
  BY Ends, LocalIs
<1>9. CASE \E q \in Lively(t) : q.pid = pid
  BY <1>1, <1>4, <1>5, <1>6, <1>9
<1>10. CASE ~\E q \in Lively(t) : q.pid = pid
  <2>1. \A a \in scenario.connections : ServerEnd(a) \in End
    BY EndsOf
  <2>. QED
    BY <1>1, <1>4, <1>5, <1>7, <1>8, <1>10, <2>1
<1>. QED
  BY <1>9, <1>10

(* The server hears of a disconnect.                                       *)
LEMMA HubDisconnects ==
    ASSUME Inv, NEW h, Hub(scenario, h), HubInv(h),
           NEW e \in End, At(e) = h, Disconnect(e)
    PROVE  HubInv(h)'
<1>1. PICK t, u : t = tables[h] /\ u = UnregisterRouter(t, Local(e))
  OBVIOUS
<1>2. PICK c : c = e[1]
  OBVIOUS
<1>3. scenario.connections \subseteq Connection /\ h \in Node
  BY DEF Inv, Scenario, Hub
<1>4. /\ c \in scenario.connections /\ status[e] = "on" /\ UNCHANGED scenario
      /\ \A f \in End : status'[f] = IF f = e THEN "gone" ELSE status[f]
      /\ {f \in End : status'[f] = "gone"} = GoneEnds \cup {e}
      /\ TablesFit(u) /\ TablesFit(t) /\ Local(e) \in ContextPid(Ids(t))
      /\ t.out = <<>>
      /\ \A m \in Node : m # h => tables'[m] = tables[m]
      /\ Lively(tables'[h]) = Lively(u) /\ tables'[h].bridges = u.bridges
      /\ \A yes : Settled(u, yes) => Settled(tables'[h], yes)
      /\ wire'[Other(e)] = <<>>
      /\ \A f \in End : f # e => /\ At(f) # h \/ status[f] # "on" => box'[f] = box[f]
                                 /\ At(f) = h /\ status[f] = "on" =>
                                       Gets(u, f, box[f], box'[f])
      /\ \A f \in End : f # Other(e) => wire'[f] = wire[f]
      /\ Lifetimes'
  BY <1>1, <1>2, Disconnecting
<1>5. e = ServerEnd(c) /\ Other(e) = ClientEnd(c) /\ c \in Connection /\ c[1] # h
  <2>1. e \in {ServerEnd(c), ClientEnd(c)} /\ c \in Connection
    BY <1>2, EndsOf
  <2>2. At(ClientEnd(c)) = c[1] /\ c[1] # h
    BY <1>4, <2>1, EndsOf DEF Hub
  <2>. QED
    BY <2>1, <2>2, EndsOf
<1>6. PICK yes \in BOOLEAN : yes = scenario.bridge[h]
  BY <1>3 DEF Inv, Scenario
<1>7. Settled(t, yes) /\ \A r \in Lively(t) : HubRoute(r, h)
  BY <1>1, <1>3, <1>6 DEF HubInv, Routes
<1>8. /\ Less(t, u, Local(e)) /\ Settled(u, yes)
      /\ ToldBy(u) = ToldBy(t) \ {e}
      /\ \A a \in scenario.connections : \A d \in ToSet(u.out) :
            ServerEnd(a) # e /\ d.to = Local(ServerEnd(a))
               => NewsItem(d.item, 0, a, h)
      /\ \A f \in End : \A d \in ToSet(u.out) : f # e /\ d.to = Local(f) =>
            f \in ToldBy(t) /\ News(d.item) = Gone(e)
      /\ \A f \in ToldBy(t) : f # e /\ e \in ToldBy(t) =>
            \E d \in ToSet(u.out) : d.to = Local(f) /\ News(d.item) = Gone(e)
  BY <1>1, <1>3, <1>4, <1>5, <1>7, HubUnregisters
<1>9. Lively(u) = {r \in Lively(t) : r.pid # Local(e)}
  BY <1>8 DEF Less
<1>10. \A a \in scenario.connections :
          /\ ServerEnd(a) \in End /\ ClientEnd(a) \in End
          /\ ServerEnd(a) # ClientEnd(a) /\ ClientEnd(a) # e
          /\ a # c => ServerEnd(a) # e /\ ClientEnd(a) # Other(e)
          /\ ServerEnd(a) # Other(e)
          /\ At(ServerEnd(a)) = h /\ a[2] = h /\ a[1] # h /\ a[1] \in Node
  BY <1>3, <1>5, EndsOf DEF Hub
<1>11. Items(h)'
  BY <1>1, <1>8, DisconnectItems
<1>12. Routes(h)'
  <2>1. \A n \in Node : Settled(tables'[n], scenario.bridge[n])
    BY <1>3, <1>4, <1>6, <1>8 DEF HubInv, Routes
  <2>2. ASSUME NEW r \in Lively(tables'[h])
        PROVE  /\ r.source = h /\ r.score = Near
               /\ \E d \in scenario.connections :
                     r.pid = Local(ServerEnd(d)) /\ status'[ServerEnd(d)] = "on"
    <3>1. r \in Lively(t) /\ r.pid # Local(e)
      BY <1>4, <1>9
    <3>2. PICK d \in scenario.connections :
             r.pid = Local(ServerEnd(d)) /\ status[ServerEnd(d)] = "on"
      BY <1>7, <3>1 DEF HubRoute
    <3>3. status'[ServerEnd(d)] = "on"
      BY <1>4, <1>10, <3>1, <3>2
    <3>. QED
      BY <1>7, <3>1, <3>2, <3>3 DEF HubRoute
  <2>3. \A d \in scenario.connections : status'[ClientEnd(d)] = status[ClientEnd(d)]
    BY <1>4, <1>10
  <2>4. \A n, routers, r : LeafRoute(n, routers, r, h) => LeafRoute(n, routers, r, h)'
    BY <1>4, <2>3 DEF LeafRoute
  <2>5. ASSUME NEW n \in Node \ {h}, NEW R, R = Lively(tables'[n]), NEW r \in R
        PROVE  LeafRoute(n, R, r, h)'
    <3>1. R = Lively(tables[n])
      BY <1>4, <2>5
    <3>2. LeafRoute(n, R, r, h)
      BY <2>5, <3>1 DEF HubInv, Routes
    <3>. QED
      BY <2>4, <3>2
  <2>11. (\A m \in Node : Settled(tables[m], scenario.bridge[m]))'
    BY <1>4, <2>1 DEF Settled, Tidy, Bridging, Lively
  <2>12. (\A r \in Lively(tables[h]) : HubRoute(r, h))'
    BY <1>4, <2>2 DEF HubRoute, Lively
  <2>13. (\A m \in Node \ {h} : \A r \in Lively(tables[m]) :
             LeafRoute(m, Lively(tables[m]), r, h))'
    BY <1>4, <2>5, LeafRoutesNext
  <2>. QED
    BY <2>11, <2>12, <2>13 DEF Routes
<1>13. Handshake'
  <2>1. ASSUME NEW a \in scenario.connections,
               status'[ServerEnd(a)] # "off", status'[ClientEnd(a)] # "gone"
        PROVE  Over(tables'[a[1]], ClientEnd(a)) \/ Greets(wire'[ServerEnd(a)])
    <3>1. status[ServerEnd(a)] # "off" /\ status[ClientEnd(a)] # "gone"
      BY <1>4, <1>10, <2>1
    <3>2. wire'[ServerEnd(a)] = wire[ServerEnd(a)] /\ tables'[a[1]] = tables[a[1]]
      BY <1>4, <1>10
    <3>. QED
      BY <3>1, <3>2 DEF HubInv, Handshake
  <2>2. ASSUME NEW a \in scenario.connections,
               status'[ServerEnd(a)] = "on", status'[ClientEnd(a)] # "off"
        PROVE  Over(tables'[a[2]], ServerEnd(a)) \/ Greets(wire'[ClientEnd(a)])
    <3>1. ServerEnd(a) # e /\ a # c
      BY <1>4, <1>5, <1>10, <2>2
    <3>2. status[ServerEnd(a)] = "on" /\ status[ClientEnd(a)] # "off"
      BY <1>4, <1>10, <2>2, <3>1
    <3>3. wire'[ClientEnd(a)] = wire[ClientEnd(a)]
      BY <1>4, <1>10, <3>1
    <3>4. Over(t, ServerEnd(a)) => Over(tables'[h], ServerEnd(a))
      BY <1>4, <1>9, <3>1, LocalIs DEF Over
    <3>. QED
      BY <1>1, <1>10, <3>2, <3>3, <3>4 DEF HubInv, Handshake
  <2>. QED
    BY <1>4, <2>1, <2>2 DEF Handshake, Over, Greets, Greeting, Lively
<1>14. Streams(h)'
  <2>1. ASSUME NEW a \in scenario.connections,
               status'[ServerEnd(a)] = "on", status'[ClientEnd(a)] # "gone"
        PROVE  StreamFits(Stream(wire'[ServerEnd(a)], box'[ServerEnd(a)]),
                          KnownTo(tables'[a[1]], h), ToldBy(tables'[h]),
                          ServerEnd(a), {f \in End : status'[f] = "gone"})
    <3>1. PICK me \in End : me = ServerEnd(a)
      BY <1>10
    <3>2. me # e
      BY <1>4, <2>1, <3>1
    <3>3. status[me] = "on" /\ status[ClientEnd(a)] # "gone"
      BY <1>4, <1>10, <2>1, <3>1, <3>2
    <3>4. wire'[me] = wire[me] /\ tables'[a[1]] = tables[a[1]]
      BY <1>4, <1>10, <3>1
    <3>5. Gets(u, me, box[me], box'[me])
      BY <1>4, <1>10, <3>1, <3>2, <3>3
    <3>6. PICK S : wire[me] \in Seq(S) /\ box[me] \in Seq(S)
      BY SeqsFit DEF Inv
    <3>7. PICK s, r, N : /\ s = Stream(wire[me], box[me]) /\ r = Stream(wire[me], box'[me])
                         /\ N = NewsFor(u, me)
      OBVIOUS
    <3>8. Continues(s, r, N)
      BY <3>5, <3>6, <3>7, StreamGets
    <3>9. PICK T \in SUBSET End : T = ToldBy(t)
      BY <1>3, <1>4, <1>7, HubBridges
    <3>10. PICK known, gone, later :
              /\ known = KnownTo(tables[a[1]], h) /\ gone = GoneEnds
              /\ later = GoneEnds \cup {e}
      OBVIOUS
    <3>11. gone \subseteq later /\ e \in later
      BY <3>10
    <3>12. StreamFits(s, known, T, me, gone)
      BY <1>1, <3>1, <3>3, <3>7, <3>9, <3>10 DEF HubInv, Streams, StreamOf
    <3>13. StreamFits(r, known, T \ {e}, me, later)
      <4>1. N \subseteq {Gone(e)}
        BY <1>8, <3>2, <3>7 DEF NewsFor
      <4>2. me \notin T => N = {}
        BY <1>8, <3>2, <3>7, <3>9 DEF NewsFor
      <4>3. me \in T /\ N # {} => N = {Gone(e)}
        BY <4>1
      <4>4. CASE me \in T /\ N # {}
        BY <3>2, <3>8, <3>11, <3>12, <4>3, <4>4, StreamGone
      <4>5. CASE me \in T /\ N = {}
        <5>1. e \notin T
          <6>1. SUFFICES ASSUME e \in T PROVE FALSE
            OBVIOUS
          <6>2. \E d \in ToSet(u.out) : d.to = Local(me) /\ News(d.item) = Gone(e)
            BY <1>8, <3>2, <3>9, <4>5, <6>1
          <6>. QED
            BY <3>7, <4>5, <6>2 DEF NewsFor
        <5>2. T \ {e} = T
          BY <5>1
        <5>3. StreamFits(r, known, T, me, later)
          BY <3>8, <3>11, <3>12, <4>5, StreamQuiet
        <5>. QED
          BY <5>2, <5>3
      <4>6. CASE me \notin T
        <5>1. StreamFits(s, known, T \ {e}, me, gone)
          BY <3>12, <4>6 DEF StreamFits
        <5>. QED
          BY <3>8, <3>11, <4>2, <4>6, <5>1, StreamQuiet
      <4>. QED
        BY <4>4, <4>5, <4>6
    <3>14. ToldBy(tables'[h]) = T \ {e}
      BY <1>4, <1>8, <3>9 DEF ToldBy
    <3>. QED
      BY <1>4, <3>1, <3>4, <3>7, <3>10, <3>13, <3>14
  <2>. QED
    BY <1>4, <2>1 DEF Streams, StreamOf, KnownTo, ToldBy, GoneEnds, Lively
<1>. QED
  BY <1>4, <1>11, <1>12, <1>13, <1>14 DEF HubInv

(* Tables without routers, that tell nobody of it. *)
Alone(u) ==
    /\ Lively(u) = {} /\ Settled(u, FALSE)
    /\ \A d \in ToSet(u.out) : d.to = Local(User)

(* A client that disconnects has no routers left.                          *)
LEMMA LeafUnregisters ==
    ASSUME Inv, NEW h, Hub(scenario, h), HubInv(h),
           NEW c \in scenario.connections, NEW e, e = ClientEnd(c),
           status[e] = "on", NEW t, t = tables[c[1]],
           NEW u, u = UnregisterRouter(t, Local(e))
    PROVE  Alone(u)
<1>1. scenario.connections \subseteq Connection /\ h \in Node
  BY DEF Inv, Scenario, Hub
<1>2. /\ c[1] \in Node \ {h} /\ c \in Connection /\ e \in End /\ Towards(e) = h
      /\ status[ServerEnd(c)] # "off"
  BY <1>1, EndsOf DEF Hub, HubInv, Lifetimes
<1>3. TablesFit(t) /\ t.out = <<>> /\ Local(e) \in ContextPid(Ids(t))
  <2>1. TablesFit(t) /\ t.out = <<>>
    BY <1>2 DEF Inv, Fits
  <2>. QED
    BY <1>2, <2>1, IdsOf DEF TablesFit, Local, Pid, ContextPid
<1>4. Settled(t, FALSE) /\ \A r \in Lively(t) : LeafRoute(c[1], Lively(t), r, h)
  <2>1. scenario.bridge[c[1]] = FALSE
    <3>1. scenario.bridge[c[1]] \in BOOLEAN
      BY <1>2 DEF Inv, Scenario
    <3>. QED
      BY <1>2, <3>1 DEF Hub
  <2>. QED
    BY <1>2, <2>1 DEF HubInv, Routes
<1>5. ASSUME NEW r \in Lively(t), r.name = h
      PROVE  r.pid = Local(e)
  <2>1. PICK d \in scenario.connections :
           d[1] = c[1] /\ r.pid = Local(ClientEnd(d)) /\ status[ClientEnd(d)] = "on"
    BY <1>4, <1>5 DEF LeafRoute
  <2>2. d = c
    BY <1>1, <1>2, <2>1, OneLife DEF HubInv
  <2>. QED
    BY <2>1, <2>2
<1>6. CASE Lively(t) # {}
  <2>1. PICK q \in Lively(t) : q.name = h
    BY <1>4, <1>6 DEF LeafRoute
  <2>2. q.pid = Local(e)
    BY <1>5, <2>1
  <2>3. \A r \in Lively(t) : r = q \/ r.source = q.name
    <3>1. TAKE r \in Lively(t)
    <3>2. CASE r.name = h
      BY <1>3, <2>1, <3>2, LivelyFits
    <3>3. CASE r.name # h
      BY <1>4, <2>1, <3>3 DEF LeafRoute
    <3>. QED
      BY <3>2, <3>3
  <2>4. Lively(u) = {} /\ Settled(u, FALSE) /\ OnlyUser(t, u)
    BY <1>3, <1>4, <2>2, <2>3, UnregisterAll
  <2>. QED
    BY <1>3, <2>4, Empty DEF Alone, OnlyUser
<1>7. CASE Lively(t) = {}
  <2>1. /\ Less(t, u, Local(e)) /\ Settled(u, FALSE)
        /\ \A d \in ToSet(u.out) : d.to = Local(User)
    BY <1>3, <1>4, <1>7, UnregisterLeaf
  <2>. QED
    BY <1>7, <2>1 DEF Alone, Less
<1>. QED
  BY <1>6, <1>7

(* A client hears of a disconnect.                                         *)
LEMMA LeafDisconnects ==
    ASSUME Inv, NEW h, Hub(scenario, h), HubInv(h),
           NEW e \in End, At(e) # h, Disconnect(e)
    PROVE  HubInv(h)'
<1>1. PICK n, u : n = At(e) /\ u = UnregisterRouter(tables[n], Local(e))
  OBVIOUS
<1>2. PICK c : c = e[1]
  OBVIOUS
<1>3. scenario.connections \subseteq Connection /\ h \in Node
  BY DEF Inv, Scenario, Hub
<1>4. /\ c \in scenario.connections /\ status[e] = "on" /\ UNCHANGED scenario
      /\ \A f \in End : status'[f] = IF f = e THEN "gone" ELSE status[f]
      /\ {f \in End : status'[f] = "gone"} = GoneEnds \cup {e}
      /\ n \in Node
      /\ \A m \in Node : m # n => tables'[m] = tables[m]
      /\ Lively(tables'[n]) = Lively(u)
      /\ \A yes : Settled(u, yes) => Settled(tables'[n], yes)
      /\ wire'[Other(e)] = <<>>
      /\ \A f \in End : f # e => (At(f) # n \/ status[f] # "on" => box'[f] = box[f])
      /\ \A f \in End : f # Other(e) => wire'[f] = wire[f]
      /\ Lifetimes'
  BY <1>1, <1>2, Disconnecting
<1>5. e = ClientEnd(c) /\ Other(e) = ServerEnd(c) /\ c \in Connection /\ c[1] = n
  <2>1. e \in {ServerEnd(c), ClientEnd(c)} /\ c \in Connection
    BY <1>2, EndsOf
  <2>2. At(ServerEnd(c)) = h
    BY <1>4, <2>1, EndsOf DEF Hub
  <2>. QED
    BY <1>1, <2>1, <2>2, EndsOf
<1>6. n # h
  BY <1>1
<1>7. /\ Lively(u) = {} /\ Settled(u, FALSE)
      /\ \A d \in ToSet(u.out) : d.to = Local(User)
  <2>1. PICK t : t = tables[c[1]]
    OBVIOUS
  <2>2. u = UnregisterRouter(t, Local(e))
    BY <1>1, <1>5, <2>1
  <2>3. status[ClientEnd(c)] = "on"
    BY <1>4, <1>5
  <2>4. PICK f : f = e
    OBVIOUS
  <2>5. f = ClientEnd(c) /\ status[f] = "on" /\ u = UnregisterRouter(t, Local(f))
    BY <1>4, <1>5, <2>2, <2>4
  <2>6. c \in scenario.connections
    BY <1>4
  <2>7. Alone(u)
    BY <2>1, <2>5, <2>6, LeafUnregisters
  <2>. QED
    BY <2>7 DEF Alone
<1>8. \A a \in scenario.connections :
         /\ ServerEnd(a) \in End /\ ClientEnd(a) \in End
         /\ ServerEnd(a) # ClientEnd(a) /\ ServerEnd(a) # e
         /\ a # c => ServerEnd(a) # Other(e) /\ ClientEnd(a) # e
         /\ ClientEnd(a) # Other(e)
         /\ At(ServerEnd(a)) = h /\ a[2] = h /\ a[1] # h /\ a[1] \in Node
  BY <1>3, <1>5, EndsOf DEF Hub
<1>9. ASSUME NEW a \in scenario.connections, a # c,
             status[ServerEnd(a)] # "off", status[ClientEnd(a)] # "gone"
      PROVE  a[1] # n
  BY <1>3, <1>4, <1>5, <1>9, OneLife DEF HubInv
<1>10. Items(h)'
  BY <1>1, <1>6, <1>7, DisconnectItems
<1>11. Routes(h)'
  <2>1. scenario.bridge[n] = FALSE
    <3>1. scenario.bridge[n] \in BOOLEAN
      BY <1>4 DEF Inv, Scenario
    <3>. QED
      BY <1>4, <1>6, <3>1 DEF Hub
  <2>2. \A m \in Node : Settled(tables'[m], scenario.bridge[m])
    BY <1>4, <1>7, <2>1 DEF HubInv, Routes
  <2>3. \A d \in scenario.connections : status'[ServerEnd(d)] = status[ServerEnd(d)]
    BY <1>4, <1>8
  <2>4. \A r \in Lively(tables'[h]) : HubRoute(r, h)'
    <3>1. tables'[h] = tables[h]
      BY <1>3, <1>4, <1>6
    <3>. QED
      BY <1>4, <2>3, <3>1 DEF HubInv, Routes, HubRoute, Lively
  <2>5. ASSUME NEW m \in Node \ {h}, NEW R, R = Lively(tables'[m]), NEW r \in R
        PROVE  LeafRoute(m, R, r, h)'
    <3>1. m # n /\ tables'[m] = tables[m]
      BY <1>4, <1>7, <2>5
    <3>2. LeafRoute(m, R, r, h)
      BY <2>5, <3>1 DEF HubInv, Routes
    <3>3. ASSUME NEW d \in scenario.connections, d[1] = m
          PROVE  status'[ClientEnd(d)] = status[ClientEnd(d)]
      BY <1>4, <1>5, <1>8, <3>1, <3>3
    <3>. QED
      BY <1>4, <3>2, <3>3 DEF LeafRoute
  <2>11. (\A m \in Node : Settled(tables[m], scenario.bridge[m]))'
    BY <1>4, <2>2 DEF Settled, Tidy, Bridging, Lively
  <2>12. (\A r \in Lively(tables[h]) : HubRoute(r, h))'
    BY <1>4, <2>4 DEF HubRoute, Lively
  <2>13. (\A m \in Node \ {h} : \A r \in Lively(tables[m]) :
             LeafRoute(m, Lively(tables[m]), r, h))'
    BY <1>4, <2>5, LeafRoutesNext
  <2>. QED
    BY <2>11, <2>12, <2>13 DEF Routes
<1>12. Handshake'
  <2>1. ASSUME NEW a \in scenario.connections,
               status'[ServerEnd(a)] # "off", status'[ClientEnd(a)] # "gone"
        PROVE  Over(tables'[a[1]], ClientEnd(a)) \/ Greets(wire'[ServerEnd(a)])
    <3>1. a # c
      BY <1>4, <1>5, <1>8, <2>1
    <3>2. status[ServerEnd(a)] # "off" /\ status[ClientEnd(a)] # "gone"
      BY <1>4, <1>8, <2>1, <3>1
    <3>3. wire'[ServerEnd(a)] = wire[ServerEnd(a)] /\ tables'[a[1]] = tables[a[1]]
      BY <1>4, <1>8, <1>9, <3>1, <3>2
    <3>. QED
      BY <3>2, <3>3 DEF HubInv, Handshake
  <2>2. ASSUME NEW a \in scenario.connections,
               status'[ServerEnd(a)] = "on", status'[ClientEnd(a)] # "off"
        PROVE  Over(tables'[a[2]], ServerEnd(a)) \/ Greets(wire'[ClientEnd(a)])
    <3>1. status[ServerEnd(a)] = "on" /\ status[ClientEnd(a)] # "off"
      BY <1>4, <1>8, <2>2
    <3>2. wire'[ClientEnd(a)] = wire[ClientEnd(a)] /\ tables'[a[2]] = tables[a[2]]
      BY <1>3, <1>4, <1>6, <1>8
    <3>. QED
      BY <3>1, <3>2 DEF HubInv, Handshake
  <2>. QED
    BY <1>4, <2>1, <2>2 DEF Handshake, Over, Greets, Greeting, Lively
<1>13. Streams(h)'
  <2>1. ASSUME NEW a \in scenario.connections,
               status'[ServerEnd(a)] = "on", status'[ClientEnd(a)] # "gone"
        PROVE  StreamFits(Stream(wire'[ServerEnd(a)], box'[ServerEnd(a)]),
                          KnownTo(tables'[a[1]], h), ToldBy(tables'[h]),
                          ServerEnd(a), {f \in End : status'[f] = "gone"})
    <3>1. a # c
      BY <1>4, <1>5, <1>8, <2>1
    <3>2. status[ServerEnd(a)] = "on" /\ status[ClientEnd(a)] # "gone"
      BY <1>4, <1>8, <2>1, <3>1
    <3>3. a[1] # n
      BY <1>9, <3>1, <3>2
    <3>4. /\ wire'[ServerEnd(a)] = wire[ServerEnd(a)] /\ tables'[a[1]] = tables[a[1]]
          /\ box'[ServerEnd(a)] = box[ServerEnd(a)] /\ tables'[h] = tables[h]
      BY <1>3, <1>4, <1>6, <1>8, <3>1, <3>3
    <3>5. PICK s, known, T, gone, later :
             /\ s = Stream(wire[ServerEnd(a)], box[ServerEnd(a)])
             /\ known = KnownTo(tables[a[1]], h) /\ T = ToldBy(tables[h])
             /\ gone = GoneEnds /\ later = GoneEnds \cup {e}
      OBVIOUS
    <3>6. StreamFits(s, known, T, ServerEnd(a), gone) /\ gone \subseteq later
      BY <3>2, <3>5 DEF HubInv, Streams, StreamOf
    <3>7. Continues(s, s, {})
      <4>1. PICK S : wire[ServerEnd(a)] \in Seq(S) /\ box[ServerEnd(a)] \in Seq(S)
        BY <1>8, SeqsFit DEF Inv
      <4>2. Len(s) \in Nat
        BY <3>5, <4>1, StreamIs
      <4>. QED
        BY <4>2 DEF Continues
    <3>8. StreamFits(s, known, T, ServerEnd(a), later)
      BY <3>6, <3>7, StreamQuiet
    <3>. QED
      BY <1>4, <3>4, <3>5, <3>8
  <2>. QED
    BY <1>4, <2>1 DEF Streams, StreamOf, KnownTo, ToldBy, GoneEnds, Lively
<1>. QED
  BY <1>4, <1>10, <1>11, <1>12, <1>13 DEF HubInv

-----------------------------------------------------------------------------
(* The invariant of a hub.                                                 *)

(* A node begins alone.                                                    *)
LEMMA AloneSettled ==
    ASSUME NEW n, NEW t, t = NewTables(n)
    PROVE  Lively(t) = {} /\ t.bridges = <<>> /\ \A yes : Settled(t, yes)
<1>1. /\ t.name = n /\ t.routers = <<Self(n)>> /\ t.routersById = <<Self(n)>>
      /\ t.routersByPid = {Entry(Self(n))} /\ t.bridges = <<>>
  BY DEF NewTables, Self, Entry, RouterRecord
<1>2. ToSet(t.routers) = {Self(n)}
  BY <1>1 DEF ToSet
<1>3. Self(n).name = n
  BY DEF Self, RouterRecord
<1>4. Lively(t) = {}
  BY <1>1, <1>2, <1>3 DEF Lively
<1>5. Len(t.routersById) = 1
  BY <1>1
<1>6. Tidy(t)
  BY <1>1, <1>4, <1>5 DEF Tidy
<1>7. ToSet(t.bridges) = {}
  BY <1>1, Empty
<1>8. \A yes : Bridging(t, yes)
  BY <1>1, <1>4, <1>7 DEF Bridging
<1>. QED
  BY <1>1, <1>4, <1>6, <1>8 DEF Settled

(* Nobody is connected yet.                                                *)
LEMMA HubInit ==
    ASSUME Init, NEW h, Hub(scenario, h)
    PROVE  HubInv(h)
<1>1. /\ scenario \in Scenario /\ scenario.connections \subseteq Connection
      /\ h \in Node
  BY ScenariosAssumption DEF Init, Scenario, Hub
<1>2. /\ \A n \in Node : tables[n] = NewTables(n)
      /\ \A e \in End : status[e] = "off" /\ box[e] = <<>> /\ wire[e] = <<>>
  BY DEF Init
<1>3. \A c \in Connection : ServerEnd(c) \in End /\ ClientEnd(c) \in End
  BY EndsOf
<1>4. Lifetimes
  BY <1>2, <1>3 DEF Lifetimes
<1>5. \A n \in Node : /\ Lively(tables[n]) = {}
                      /\ \A yes : Settled(tables[n], yes)
  BY <1>2, AloneSettled
<1>6. Routes(h)
  BY <1>1, <1>5 DEF Routes
<1>7. Items(h)
  BY <1>1, <1>2, <1>3, Empty DEF Items
<1>8. Handshake
  BY <1>1, <1>2, <1>3 DEF Handshake
<1>9. Streams(h)
  BY <1>1, <1>2, <1>3 DEF Streams
<1>. QED
  BY <1>4, <1>6, <1>7, <1>8, <1>9 DEF HubInv

(* Nothing happens.                                                        *)
LEMMA HubStutters ==
    ASSUME UNCHANGED vars, NEW h, HubInv(h)
    PROVE  HubInv(h)'
<1>1. UNCHANGED <<scenario, tables, status, box, wire>>
  BY DEF vars
<1>2. Lifetimes'
  BY <1>1 DEF HubInv, Lifetimes
<1>3. Routes(h)'
  BY <1>1 DEF HubInv, Routes, HubRoute, LeafRoute, Settled, Tidy, Bridging, Lively
<1>4. Items(h)'
  BY <1>1 DEF HubInv, Items, NewsItem
<1>5. Handshake'
  BY <1>1 DEF HubInv, Handshake, Over, Greets, Greeting, Lively
<1>6. Streams(h)'
  BY <1>1 DEF HubInv, Streams, StreamOf, KnownTo, ToldBy, GoneEnds, Lively
<1>. QED
  BY <1>2, <1>3, <1>4, <1>5, <1>6 DEF HubInv

(* A scenario is for the whole of a behaviour.                             *)
LEMMA ScenarioStays == [Next]_vars => scenario' = scenario
BY DEF Next, vars, Connect, Cut, Follow, Disconnect, Forward, Handle,
   HandleDiscover, HandleLost, HandleMessage, SendHello, Monitor

(* Every step of every node keeps what makes a hub correct.                *)
LEMMA HubNext ==
    ASSUME Inv, [Next]_vars, NEW h, Hub(scenario, h), HubInv(h)
    PROVE  HubInv(h)'
<1>1. ASSUME NEW e \in End, Connect(e)
      PROVE  HubInv(h)'
  BY <1>1, ConnectHub
<1>2. ASSUME NEW e \in End, Disconnect(e)
      PROVE  HubInv(h)'
  BY <1>2, HubDisconnects, LeafDisconnects
<1>3. ASSUME NEW e \in End, Forward(e)
      PROVE  HubInv(h)'
  BY <1>3, ForwardHub
<1>4. ASSUME NEW e \in End, HandleDiscover(e)
      PROVE  HubInv(h)'
  BY <1>4, HubDiscovers, LeafDiscovers
<1>5. ASSUME NEW e \in End, HandleLost(e)
      PROVE  HubInv(h)'
  BY <1>5, HubLosts, LeafLosts
<1>6. ASSUME NEW e \in End, HandleMessage(e)
      PROVE  HubInv(h)'
  BY <1>6, MessageHub
<1>7. ASSUME NEW n \in Node, SendHello(n)
      PROVE  HubInv(h)'
  BY <1>7, HelloHub
<1>8. ASSUME NEW n \in Node, Monitor(n)
      PROVE  HubInv(h)'
  BY <1>8, MonitorHub
<1>9. CASE UNCHANGED vars
  BY <1>9, HubStutters
<1>. QED
  BY <1>1, <1>2, <1>3, <1>4, <1>5, <1>6, <1>7, <1>8, <1>9
     DEF Next, Cut, Follow, Handle

(* The invariant, of all behaviours. *)
HubsFit == \A h \in Node : Hub(scenario, h) => HubInv(h)

(* A hub is always a hub that fits.                                        *)
LEMMA HubInvariant == Spec => [](Inv /\ HubsFit)
<1>1. Init => Inv /\ HubsFit
  BY InitInv, HubInit DEF HubsFit
<1>2. Inv /\ HubsFit /\ [Next]_vars => (Inv /\ HubsFit)'
  <2>. SUFFICES ASSUME Inv, HubsFit, [Next]_vars PROVE Inv' /\ HubsFit'
    OBVIOUS
  <2>1. Inv' /\ scenario' = scenario
    BY InvNext, ScenarioStays
  <2>2. ASSUME NEW h \in Node, Hub(scenario, h)'
        PROVE  HubInv(h)'
    <3>1. Hub(scenario, h)
      BY <2>1, <2>2 DEF Hub
    <3>2. HubInv(h)
      BY <3>1 DEF HubsFit
    <3>. QED
      BY <3>1, <3>2, HubNext
  <2>. QED
    BY <2>1, <2>2 DEF HubsFit
<1>. QED
  BY <1>1, <1>2, PTL DEF Spec

-----------------------------------------------------------------------------
(* What it says of a network that has settled.                             *)

(* A router in use makes its node known.                                   *)
LEMMA LivelyLive ==
    ASSUME Inv, NEW n \in Node, NEW r \in Lively(tables[n])
    PROVE  Live(n, r.name)
<1>1. ListFits(tables[n])
  BY DEF Inv, Fits, TablesFit
<1>2. r \in ToSet(tables[n].routers) /\ r.pid # NoPid
  BY DEF Lively
<1>3. Lives(tables[n], r.name)
  BY <1>2 DEF Lives
<1>. QED
  BY <1>1, <1>3, LiveLives DEF Live

(* A router over a context makes the node at its other end known.          *)
LEMMA OverLive ==
    ASSUME Inv, NEW e \in End, Over(tables[At(e)], e)
    PROVE  Live(At(e), At(Other(e)))
<1>1. At(e) \in Node /\ TablesFit(tables[At(e)])
  BY Ends DEF Inv, Fits
<1>2. PICK r \in Lively(tables[At(e)]) : r.pid = Local(e)
  BY DEF Over
<1>3. r.name = At(Other(e))
  BY <1>1, <1>2, LivelyFits, LocalIs DEF Towards
<1>. QED
  BY <1>1, <1>3, LivelyLive

(* Both ends of a connection are on, and have been greeted.                *)
LEMMA QuietEnds ==
    ASSUME Inv, NEW h, Hub(scenario, h), HubInv(h), Quiet,
           NEW c \in scenario.connections,
           status[ServerEnd(c)] = "on" \/ status[ClientEnd(c)] = "on"
    PROVE  /\ status[ServerEnd(c)] = "on" /\ status[ClientEnd(c)] = "on"
           /\ wire[ServerEnd(c)] = <<>> /\ box[ServerEnd(c)] = <<>>
           /\ Over(tables[c[1]], ClientEnd(c)) /\ Over(tables[h], ServerEnd(c))
<1>1. c \in Connection /\ c[2] = h
  BY DEF Inv, Scenario, Hub
<1>2. /\ ServerEnd(c) \in End /\ ClientEnd(c) \in End
      /\ Other(ServerEnd(c)) = ClientEnd(c) /\ Other(ClientEnd(c)) = ServerEnd(c)
  BY <1>1, EndsOf
<1>3. status[ServerEnd(c)] = "on" /\ status[ClientEnd(c)] = "on"
  BY <1>2 DEF Quiet
<1>4. /\ wire[ServerEnd(c)] = <<>> /\ wire[ClientEnd(c)] = <<>>
      /\ box[ServerEnd(c)] = <<>>
  BY <1>2, <1>3 DEF Quiet
<1>5. ~Greets(wire[ServerEnd(c)]) /\ ~Greets(wire[ClientEnd(c)])
  BY <1>4 DEF Greets
<1>6. Over(tables[c[1]], ClientEnd(c)) /\ Over(tables[c[2]], ServerEnd(c))
  BY <1>3, <1>5 DEF HubInv, Handshake
<1>. QED
  BY <1>1, <1>3, <1>4, <1>6

(* A client knows whom the server tells of.                                *)
LEMMA QuietStream ==
    ASSUME Inv, NEW h, Hub(scenario, h), HubInv(h), Quiet,
           NEW c \in scenario.connections, status[ClientEnd(c)] = "on"
    PROVE  /\ KnownTo(tables[c[1]], h) \subseteq ToldBy(tables[h])
           /\ ServerEnd(c) \in ToldBy(tables[h]) =>
                 \A d \in ToldBy(tables[h]) :
                    d = ServerEnd(c) \/ d \in KnownTo(tables[c[1]], h)
<1>1. /\ status[ServerEnd(c)] = "on" /\ status[ClientEnd(c)] = "on"
      /\ wire[ServerEnd(c)] = <<>> /\ box[ServerEnd(c)] = <<>>
  BY QuietEnds
<1>2. PICK s, known, T, me, gone :
         /\ s = Stream(wire[ServerEnd(c)], box[ServerEnd(c)])
         /\ known = KnownTo(tables[c[1]], h) /\ T = ToldBy(tables[h])
         /\ me = ServerEnd(c) /\ gone = GoneEnds
  OBVIOUS
<1>3. StreamFits(s, known, T, me, gone)
  BY <1>1, <1>2 DEF HubInv, Streams, StreamOf
<1>4. Len(s) = 0
  <2>1. <<>> \in Seq({}) /\ Len(<<>>) = 0
    BY Empty
  <2>2. PICK w : w = <<>>
    OBVIOUS
  <2>3. Len(Stream(w, w)) = Len(w) + Len(w)
    BY <2>1, <2>2, StreamIs
  <2>4. s = Stream(w, w) /\ Len(w) = 0
    BY <1>1, <1>2, <2>1, <2>2
  <2>. QED
    BY <2>3, <2>4
<1>5. \A i \in 1..Len(s) : FALSE
  BY <1>4
<1>6. known \subseteq End
  <2>1. c[1] \in Node
    BY EndsOf DEF Inv, Scenario
  <2>2. TablesFit(tables[c[1]])
    BY <2>1 DEF Inv, Fits
  <2>. QED
    BY <1>2, <2>2, KnownEnds
<1>7. CASE me \notin T
  BY <1>2, <1>3, <1>7 DEF StreamFits
<1>8. CASE me \in T
  <2>1. Consistent(s, known, T, me, gone)
    BY <1>3, <1>8 DEF StreamFits
  <2>2. \A d \in T : d = me \/ d \in known
    BY <1>5, <2>1 DEF Consistent
  <2>3. \A d \in known : d \in T
    BY <1>5, <1>6, <2>1 DEF Consistent
  <2>. QED
    BY <1>2, <2>2, <2>3
<1>. QED
  BY <1>7, <1>8

(* A router in use leads to the node it names.                             *)
LEMMA HubRoutesLead ==
    ASSUME Inv, NEW h, Hub(scenario, h), HubInv(h), Quiet,
           NEW n \in Node, NEW r \in Lively(tables[n])
    PROVE  LeadsTo(n, r)
<1>1. /\ scenario.connections \subseteq Connection /\ h \in Node
      /\ \A c \in scenario.connections : c[2] = h /\ c[1] # h
  BY DEF Inv, Scenario, Hub
<1>2. PICK t : t = tables[n]
  OBVIOUS
<1>3. TablesFit(t) /\ t.name = n
  BY <1>2 DEF Inv, Fits
<1>4. RouterById(t, 0) = Self(n)
  BY <1>3 DEF TablesFit, ByIdFits, RouterById
<1>5. RouterById(t, 0).name = n
  BY <1>4 DEF Self, RouterRecord
<1>6. r \in Lively(t) /\ r.name = Towards(r.pid.proc)
  BY <1>2, <1>3, LivelyFits
<1>7. ASSUME NEW c \in scenario.connections
      PROVE  /\ At(ServerEnd(c)) = h /\ At(ClientEnd(c)) = c[1]
             /\ Other(ServerEnd(c)) = ClientEnd(c)
             /\ Other(ClientEnd(c)) = ServerEnd(c)
             /\ Towards(ServerEnd(c)) = c[1] /\ Towards(ClientEnd(c)) = h
  BY <1>1, EndsOf
<1>8. CASE n = h
  <2>1. PICK c \in scenario.connections :
           r.pid = Local(ServerEnd(c)) /\ status[ServerEnd(c)] = "on"
    BY <1>2, <1>6, <1>8 DEF HubInv, Routes, HubRoute
  <2>2. r.pid.proc = ServerEnd(c) /\ r.pid.node = 0
    BY <2>1, LocalIs
  <2>3. status[ClientEnd(c)] = "on"
    BY <2>1, QuietEnds
  <2>. QED
    BY <1>2, <1>5, <1>6, <1>7, <1>8, <2>1, <2>2, <2>3 DEF LeadsTo
<1>9. CASE n # h /\ r.name = h
  <2>1. PICK c \in scenario.connections :
           c[1] = n /\ r.pid = Local(ClientEnd(c)) /\ status[ClientEnd(c)] = "on"
    BY <1>2, <1>6, <1>9 DEF HubInv, Routes, LeafRoute
  <2>2. r.pid.proc = ClientEnd(c) /\ r.pid.node = 0
    BY <2>1, LocalIs
  <2>3. status[ServerEnd(c)] = "on"
    BY <2>1, QuietEnds
  <2>. QED
    BY <1>2, <1>5, <1>7, <1>9, <2>1, <2>2, <2>3 DEF LeadsTo
<1>10. CASE n # h /\ r.name # h
  <2>1. LeafRoute(n, Lively(t), r, h)
    BY <1>2, <1>6, <1>10 DEF HubInv, Routes
  <2>2. PICK q \in Lively(t) : q.name = h /\ r.pid.node = q.id
    BY <1>10, <2>1 DEF LeafRoute
  <2>3. LeafRoute(n, Lively(t), q, h)
    BY <1>2, <1>10, <2>2 DEF HubInv, Routes
  <2>4. PICK c \in scenario.connections : c[1] = n /\ status[ClientEnd(c)] = "on"
    BY <2>2, <2>3 DEF LeafRoute
  <2>5. r.pid.proc \in KnownTo(t, h)
    BY <1>6, <1>10 DEF KnownTo
  <2>6. r.pid.proc \in ToldBy(tables[h])
    BY <1>2, <2>4, <2>5, QuietStream
  <2>7. PICK d \in scenario.connections :
           r.pid.proc = ServerEnd(d) /\ status[ServerEnd(d)] = "on"
    BY <1>1, <2>6, ToldOn DEF HubInv
  <2>8. status[ClientEnd(d)] = "on"
    BY <2>7, QuietEnds
  <2>9. RouterById(t, q.id) = q
    BY <1>3, <2>2, LivelyFits DEF RouterById
  <2>10. Live(n, h)
    BY <1>2, <2>2, LivelyLive
  <2>. QED
    BY <1>2, <1>6, <1>7, <2>2, <2>7, <2>8, <2>9, <2>10 DEF LeadsTo
<1>. QED
  BY <1>8, <1>9, <1>10

(* Scores count connections: one to a neighbour, two to a node behind it.  *)
LEMMA Scores == Near = 1 /\ Far = Near + 1
<1>1. MaxScore \in Nat /\ MaxScore > 1
  BY NetworkAssumption
<1>2. Near = 1
  BY <1>1 DEF Near, Farther
<1>. QED
  BY <1>1, <1>2 DEF Far, Farther

(* A router in use is as far as its score says.                            *)
LEMMA HubNoCircles ==
    ASSUME Inv, NEW h, Hub(scenario, h), HubInv(h)
    PROVE  NoCircles
<1>. SUFFICES ASSUME NEW n \in Node, NEW i \in DOMAIN tables[n].routersById,
                     i > 1, tables[n].routersById[i].pid # NoPid,
                     NEW r, r = tables[n].routersById[i],
                     NEW next, next = RouterById(tables[n], r.pid.node)
              PROVE  IF r.pid.node = 0
                     THEN r.score = 1
                     ELSE next.pid # NoPid /\ r.score = next.score + 1
  BY DEF NoCircles
<1>1. PICK t : t = tables[n]
  OBVIOUS
<1>2. TablesFit(t) /\ t.name = n
  BY <1>1 DEF Inv, Fits
<1>3. Len(t.routersById) \in Nat /\ i \in 1..Len(t.routersById)
  BY <1>1, <1>2, Elements DEF TablesFit, ByIdFits
<1>4. r \in Lively(t)
  BY <1>1, <1>3 DEF HubInv, Routes, Settled, Tidy
<1>5. CASE n = h
  <2>1. /\ r.score = Near
        /\ \E c : r.pid = Local(ServerEnd(c))
    BY <1>1, <1>4, <1>5 DEF HubInv, Routes, HubRoute
  <2>. QED
    BY <2>1, LocalIs, Scores
<1>6. CASE n # h /\ r.name = h
  <2>1. /\ r.score = Near
        /\ \E c : r.pid = Local(ClientEnd(c))
    BY <1>1, <1>4, <1>6 DEF HubInv, Routes, LeafRoute
  <2>. QED
    BY <2>1, LocalIs, Scores
<1>7. CASE n # h /\ r.name # h
  <2>1. LeafRoute(n, Lively(t), r, h)
    BY <1>1, <1>4, <1>7 DEF HubInv, Routes
  <2>2. r.score = Far
    BY <1>7, <2>1 DEF LeafRoute
  <2>3. PICK q \in Lively(t) : q.name = h /\ r.pid.node = q.id
    BY <1>7, <2>1 DEF LeafRoute
  <2>4. q.score = Near
    BY <1>1, <1>7, <2>3 DEF HubInv, Routes, LeafRoute
  <2>5. q.id # 0 /\ q.pid # NoPid /\ RouterById(t, q.id) = q
    BY <1>2, <2>3, LivelyFits DEF RouterById
  <2>6. next = q /\ r.pid.node # 0
    BY <1>1, <2>3, <2>5
  <2>. QED
    BY <2>2, <2>4, <2>5, <2>6, Scores
<1>. QED
  BY <1>5, <1>6, <1>7

-----------------------------------------------------------------------------
(* One node is the server of all connections, nobody else bridges, and no  *)
(* client is back before its server has heard that it was gone.            *)
Hubbed == \E h \in Node : Hub(scenario, h)

(* Around one server, whoever connects, breaks off and comes back, and in  *)
(* whatever order the ends hear of it: once the network has settled, every *)
(* route that registerRouter and unregisterRouter of node.js left in the   *)
(* Maps leads over open connections to the node it names.                  *)
THEOREM HubsRoutesLead == Spec => [](Hubbed => RoutesLead)
<1>1. Inv /\ HubsFit => (Hubbed => RoutesLead)
  <2>. SUFFICES ASSUME Inv, HubsFit, NEW h \in Node, Hub(scenario, h), Quiet,
                       NEW n \in Node, NEW i \in DOMAIN tables[n].routersById,
                       i > 1, tables[n].routersById[i].pid # NoPid
                PROVE  LeadsTo(n, tables[n].routersById[i])
    BY DEF Hubbed, RoutesLead
  <2>1. HubInv(h)
    BY DEF HubsFit
  <2>2. /\ Len(tables[n].routersById) \in Nat
        /\ i \in 1..Len(tables[n].routersById)
    BY Elements DEF Inv, Fits, TablesFit, ByIdFits
  <2>3. tables[n].routersById[i] \in Lively(tables[n])
    BY <2>1, <2>2 DEF HubInv, Routes, Settled, Tidy
  <2>. QED
    BY <2>1, <2>3, HubRoutesLead
<1>. QED
  BY <1>1, HubInvariant, PTL

(* The greeting of handleConnect is never lost for a server and the client *)
(* that is connected to it, however often the client came back: once the   *)
(* network has settled, each has a route to the other.                     *)
THEOREM HubsNeighboursKnown == Spec => [](Hubbed => NeighboursKnown)
<1>1. Inv /\ HubsFit => (Hubbed => NeighboursKnown)
  <2>. SUFFICES ASSUME Inv, HubsFit, NEW h \in Node, Hub(scenario, h), Quiet,
                       NEW n \in Node, NEW m \in Node, Connected(n, m)
                PROVE  Live(n, m)
    BY DEF Hubbed, NeighboursKnown
  <2>1. HubInv(h) /\ scenario.connections \subseteq Connection
    BY DEF HubsFit, Inv, Scenario
  <2>2. PICK e \in End : /\ At(e) = n /\ At(Other(e)) = m
                         /\ status[e] = "on" /\ status[Other(e)] = "on"
    BY DEF Connected
  <2>3. PICK c : c = e[1]
    OBVIOUS
  <2>4. c \in scenario.connections /\ c \in Connection
    BY <2>1, <2>2, <2>3 DEF HubInv, Lifetimes
  <2>5. e = ServerEnd(c) \/ e = ClientEnd(c)
    BY <2>3, EndsOf
  <2>6. /\ Over(tables[c[1]], ClientEnd(c)) /\ Over(tables[h], ServerEnd(c))
        /\ At(ServerEnd(c)) = h /\ At(ClientEnd(c)) = c[1]
    BY <2>1, <2>2, <2>4, <2>5, QuietEnds, EndsOf DEF Hub
  <2>7. Over(tables[At(e)], e)
    BY <2>5, <2>6
  <2>. QED
    BY <2>2, <2>7, OverLive
<1>. QED
  BY <1>1, HubInvariant, PTL

(* Two clients of one bridge know each other, whoever came first, however  *)
(* often one of them came back, and whatever updatePeers and _lost of      *)
(* node.js had still under way to the other when it did.                   *)
THEOREM HubsBridgedKnown == Spec => [](Hubbed => BridgedKnown)
<1>1. Inv /\ HubsFit => (Hubbed => BridgedKnown)
  <2>. SUFFICES ASSUME Inv, HubsFit, NEW h \in Node, Hub(scenario, h), Quiet,
                       NEW n \in Node, NEW hub \in Node, NEW m \in Node,
                       n # m, scenario.bridge[hub],
                       Connected(n, hub), Connected(hub, m)
                PROVE  Live(n, m)
    BY DEF Hubbed, BridgedKnown
  <2>1. /\ HubInv(h) /\ scenario.connections \subseteq Connection
        /\ hub = h /\ \A c \in scenario.connections : c[2] = h /\ c[1] # h
    BY DEF HubsFit, Inv, Scenario, Hub
  <2>2. ASSUME NEW e \in End, status[e] = "on"
        PROVE  \E c \in scenario.connections :
                  \/ e = ServerEnd(c) /\ At(e) = h /\ At(Other(e)) = c[1]
                  \/ e = ClientEnd(c) /\ At(e) = c[1] /\ At(Other(e)) = h
    <3>1. PICK c : c = e[1]
      OBVIOUS
    <3>2. c \in scenario.connections /\ c \in Connection
      BY <2>1, <2>2, <3>1 DEF HubInv, Lifetimes
    <3>3. e = ServerEnd(c) \/ e = ClientEnd(c)
      BY <3>1, EndsOf
    <3>. QED
      BY <2>1, <3>2, <3>3, EndsOf
  <2>3. PICK c \in scenario.connections : c[1] = n /\ status[ClientEnd(c)] = "on"
    <3>1. PICK e \in End : At(e) = n /\ At(Other(e)) = h /\ status[e] = "on"
      BY <2>1 DEF Connected
    <3>. QED
      BY <2>1, <2>2, <3>1
  <2>4. PICK d \in scenario.connections : d[1] = m /\ status[ServerEnd(d)] = "on"
    <3>1. PICK e \in End : At(e) = h /\ At(Other(e)) = m /\ status[e] = "on"
      BY <2>1 DEF Connected
    <3>. QED
      BY <2>1, <2>2, <3>1
  <2>5. Over(tables[h], ServerEnd(c)) /\ Over(tables[h], ServerEnd(d))
    BY <2>1, <2>3, <2>4, QuietEnds
  <2>6. ASSUME NEW e, Over(tables[h], e)
        PROVE  e \in ToldBy(tables[h])
    <3>1. PICK r \in Lively(tables[h]) : r.pid = Local(e)
      BY <2>6 DEF Over
    <3>2. PICK b \in ToSet(tables[h].bridges) : b.pid = r.pid
      BY <2>1, <3>1 DEF HubInv, Routes, Settled, Bridging
    <3>3. b.pid.proc = e
      BY <3>1, <3>2, LocalIs
    <3>. QED
      BY <3>3 DEF ToldBy
  <2>7. ServerEnd(c) # ServerEnd(d)
    BY <2>3, <2>4, EndsOf
  <2>8. ServerEnd(d) \in KnownTo(tables[n], h)
    BY <2>1, <2>3, <2>5, <2>6, <2>7, QuietStream
  <2>9. PICK r \in Lively(tables[n]) : r.pid.proc = ServerEnd(d)
    BY <2>8 DEF KnownTo
  <2>10. r.name = m
    <3>1. TablesFit(tables[n])
      BY DEF Inv, Fits
    <3>2. r.name = Towards(ServerEnd(d))
      BY <2>9, <3>1, LivelyFits
    <3>. QED
      BY <2>1, <2>4, <3>2, EndsOf
  <2>. QED
    BY <2>10, LivelyLive
<1>. QED
  BY <1>1, HubInvariant, PTL

(* No route around one server goes round in a circle, with any number of   *)
(* clients: registerRouter never takes the echo of a discovery for a       *)
(* route, in any state, so the scores of the routers that a signal goes by *)
(* fall by one until it leaves the node.                                   *)
THEOREM HubsNoCircles == Spec => [](Hubbed => NoCircles)
<1>1. Inv /\ HubsFit => (Hubbed => NoCircles)
  BY HubNoCircles DEF Hubbed, HubsFit
<1>. QED
  BY <1>1, HubInvariant, PTL

(* The ids of a node that a way goes round by: each leads through another. *)
Circle(n, ids) ==
    /\ ids # {}
    /\ \A id \in ids : /\ id \in 1..Len(tables[n].routersById) - 1
                        /\ RouterById(tables[n], id).pid # NoPid
                        /\ RouterById(tables[n], id).pid.node \in ids

(* Hop by hop, signalRemote of node.js never comes back to an id: on no    *)
(* node around one server do any ids lead through each other only.         *)
THEOREM HubsWaysEnd ==
    Spec => [](Hubbed => \A n \in Node : \A ids : ~Circle(n, ids))
<1>1. ASSUME TypeOK, NoCircles, NEW n \in Node, NEW ids, Circle(n, ids)
      PROVE  FALSE
  <2>1. PICK t : t = tables[n]
    OBVIOUS
  <2>2. /\ Len(t.routersById) \in Nat
        /\ DOMAIN t.routersById = 1..Len(t.routersById)
        /\ \A i \in 1..Len(t.routersById) : t.routersById[i].score \in Nat
    <3>1. t.routersById \in Seq(RouterRecords)
      BY <1>1, <2>1 DEF TypeOK
    <3>2. \A r \in RouterRecords : r.score \in Nat
      BY DEF RouterRecords
    <3>. QED
      BY <3>1, <3>2, Elements
  <2>3. PICK S : S = {RouterById(t, id).score : id \in ids}
    OBVIOUS
  <2>4. ASSUME NEW id \in ids
        PROVE  /\ id + 1 \in 1..Len(t.routersById) /\ id + 1 > 1 /\ id # 0
               /\ RouterById(t, id) = t.routersById[id + 1]
               /\ RouterById(t, id).pid # NoPid
               /\ RouterById(t, id).pid.node \in ids
    <3>1. /\ id \in 1..Len(t.routersById) - 1
          /\ RouterById(t, id).pid # NoPid
          /\ RouterById(t, id).pid.node \in ids
      BY <1>1, <2>1, <2>4 DEF Circle
    <3>2. id \in Nat /\ id + 1 \in 1..Len(t.routersById) /\ id + 1 > 1 /\ id # 0
      BY <2>2, <3>1
    <3>. QED
      BY <3>1, <3>2 DEF RouterById
  <2>5. S \in SUBSET Nat /\ S # {}
    BY <1>1, <2>2, <2>3, <2>4 DEF Circle
  <2>6. PICK low \in S : \A s \in S : low <= s
    BY <2>5, Least
  <2>7. PICK id \in ids : low = RouterById(t, id).score
    BY <2>3, <2>6
  <2>8. PICK via \in ids : via = RouterById(t, id).pid.node
    BY <2>4
  <2>9. low = RouterById(t, via).score + 1
    BY <1>1, <2>1, <2>2, <2>4, <2>7, <2>8 DEF NoCircles
  <2>10. RouterById(t, via).score \in S /\ RouterById(t, via).score \in Nat
    BY <2>3, <2>5
  <2>. QED
    BY <2>5, <2>6, <2>9, <2>10
<1>2. TypeOK /\ (Hubbed => NoCircles)
          => (Hubbed => \A n \in Node : \A ids : ~Circle(n, ids))
  BY <1>1
<1>. QED
  BY <1>2, HubsNoCircles, NetworkTypeOK, PTL
=============================================================================
