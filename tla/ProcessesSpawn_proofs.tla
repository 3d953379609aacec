----------------------- MODULE ProcessesSpawn_proofs ------------------------
(* spawnLink and spawnMonitor: what the first-in first-out queue gives a   *)
(* process that has not run yet.  Its link and monitor signals stand       *)
(* before its go, and nothing that could kill it stands before them.       *)
EXTENDS Processes_proofs

Newborn(q) == phase[q] = "alive" /\ code[q] = "pending"

(* Does s stop q from being a newborn, or undo one of its links?           *)
Disturbs(s, q) ==
    \/ s.kind \in {"exit", "go", "unlink"} /\ s.to = q
    \/ s.kind = "unlink" /\ s.from = q

Untouched(q, i) == \A j \in 1..(i - 1) : ~Disturbs(queue[j], q)

LinkBefore(p, q, i) ==
    q \in links[p] \/ \E j \in 1..(i - 1) : queue[j] = LinkSig(q, p)

(* Whoever is named in a signal has been made.                             *)
Made ==
    /\ \A i \in 1..Len(queue) :
          /\ phase[queue[i].to] # "none"
          /\ queue[i].kind = "unlink" => phase[queue[i].from] # "none"
    /\ \A p \in Pid : phase[p] = "none" => code[p] = "none"
    /\ \A q \in Pid : parent[q] # NoPid =>
          phase[q] # "none" /\ phase[parent[q]] # "none"
    /\ \A r \in atSpawn \cup late : target[r] # NoPid

MonitorComes(i) ==
    queue[i].kind = "monitor" /\ queue[i].ref \in atSpawn =>
        Newborn(queue[i].to) /\ Untouched(queue[i].to, i)

LinksCome(q, p, i) ==
    /\ Newborn(q) /\ Untouched(q, i)
    /\ LinkBefore(q, p, i)
    /\ phase[p] = "alive" => LinkBefore(p, q, i)

GoComes(i) ==
    queue[i].kind = "go" /\ parent[queue[i].to] # NoPid =>
        LinksCome(queue[i].to, parent[queue[i].to], i)

SpawnInv ==
    /\ DownInv /\ Made /\ SpawnMonitorNeverLate
    /\ \A i \in 1..Len(queue) : MonitorComes(i) /\ GoComes(i)

-----------------------------------------------------------------------------
(* How the queue changes.                                                  *)
LEMMA Grown ==
    ASSUME TypeOK, NEW add \in Seq(Signal), queue' = queue \o add
    PROVE  /\ Len(queue) \in Nat /\ Len(add) \in Nat
           /\ Len(queue') = Len(queue) + Len(add)
           /\ \A i \in 1..Len(queue) : queue'[i] = queue[i]
           /\ \A k \in 1..Len(add) : queue'[Len(queue) + k] = add[k]
           /\ \A i \in 1..Len(queue') :
                 i \notin 1..Len(queue) =>
                    i - Len(queue) \in 1..Len(add)
                    /\ i = Len(queue) + (i - Len(queue))
<1>1. queue \in Seq(Signal) /\ Len(queue) \in Nat /\ Len(add) \in Nat
  BY LenProperties DEF TypeOK
<1>2. /\ Len(queue') = Len(queue) + Len(add)
      /\ \A i \in 1..Len(queue) + Len(add) : queue'[i] =
            IF i <= Len(queue) THEN queue[i] ELSE add[i - Len(queue)]
  BY <1>1, ConcatProperties
<1>3. \A k \in 1..Len(add) : queue'[Len(queue) + k] = add[k]
  <2>1. ASSUME NEW k \in 1..Len(add)
        PROVE  queue'[Len(queue) + k] = add[(Len(queue) + k) - Len(queue)]
    BY <1>1, <1>2
  <2>2. \A k \in 1..Len(add) : (Len(queue) + k) - Len(queue) = k
    BY <1>1
  <2>. QED
    BY <2>1, <2>2
<1>. QED
  BY <1>1, <1>2, <1>3

LEMMA Popped ==
    ASSUME TypeOK, queue # <<>>, queue' = Tail(queue)
    PROVE  /\ Len(queue) \in Nat /\ Len(queue) > 0
           /\ Len(queue') = Len(queue) - 1
           /\ \A i \in 1..Len(queue') :
                 i + 1 \in 1..Len(queue) /\ queue'[i] = queue[i + 1]
           /\ 1 \in 1..Len(queue) /\ Head(queue) = queue[1]
           /\ Head(queue) \in Signal
<1>1. queue \in Seq(Signal) /\ Len(queue) \in Nat
  BY LenProperties DEF TypeOK
<1>2. /\ Len(queue') = Len(queue) - 1 /\ Len(queue) > 0
      /\ \A i \in 1..Len(queue) - 1 : queue'[i] = queue[i + 1]
      /\ Head(queue) = queue[1]
  BY <1>1, HeadTailProperties, EmptySeq
<1>3. queue[1] \in Signal
  BY <1>1, <1>2, ElementOfSeq
<1>. QED
  BY <1>1, <1>2, <1>3

(* What a step of user code, or a destroy, leaves alone.                   *)
Keeps ==
    /\ \A p \in Pid :
          /\ phase[p] # "none" => phase'[p] # "none" /\ parent'[p] = parent[p]
          /\ Newborn(p) => Newborn(p)'
          /\ phase'[p] = "none" => code'[p] = "none"
          /\ phase'[p] = "alive" /\ phase[p] # "none" =>
                phase[p] = "alive" /\ links[p] \subseteq links'[p]
          /\ parent'[p] # NoPid =>
                phase'[p] # "none" /\ phase'[parent'[p]] # "none"
    /\ \A r \in Ref : target[r] # NoPid => target'[r] = target[r]
    /\ atSpawn \subseteq atSpawn'
    /\ \A r \in atSpawn' \ atSpawn : target[r] = NoPid /\ target'[r] # NoPid
    /\ late' = late

Addressed(s) ==
    /\ phase[s.to] # "none"
    /\ s.kind = "unlink" => phase[s.from] # "none"

(* The signals of the old queue keep their promises when it grows.         *)
LEMMA GrowsMonitor ==
    ASSUME SpawnInv, TypeOK', NEW add \in Seq(Signal), queue' = queue \o add,
           Keeps, NEW i \in 1..Len(queue)
    PROVE  MonitorComes(i)'
<1>0. TypeOK
  BY DEF SpawnInv, DownInv, Types
<1>1. SUFFICES ASSUME queue'[i].kind = "monitor", queue'[i].ref \in atSpawn'
               PROVE  Newborn(queue[i].to)' /\ Untouched(queue[i].to, i)'
  BY DEF MonitorComes
<1>2. /\ Len(queue) \in Nat /\ queue'[i] = queue[i]
      /\ \A j \in 1..(i - 1) : queue'[j] = queue[j]
      /\ queue[i] \in Signal
  <2>1. queue[i] \in Signal
    BY <1>0, ElementOfSeq DEF TypeOK
  <2>. QED
    BY <1>0, <2>1, Grown
<1>3. queue[i].to \in Pid /\ queue[i].ref \in Ref
  BY <1>1, <1>2, SignalFields
<1>4. target[queue[i].ref] = queue[i].to
  BY <1>1, <1>2 DEF SpawnInv, DownInv, MonitorsKnown
<1>5. queue[i].ref \in atSpawn
  BY <1>1, <1>2, <1>3, <1>4, ProcessesAssumption DEF Keeps
<1>6. Newborn(queue[i].to) /\ Untouched(queue[i].to, i)
  BY <1>1, <1>2, <1>5 DEF SpawnInv, MonitorComes
<1>. QED
  BY <1>2, <1>3, <1>6 DEF Keeps, Untouched

LEMMA GrowsLinks ==
    ASSUME SpawnInv, TypeOK', NEW add \in Seq(Signal), queue' = queue \o add,
           Keeps, NEW i \in 1..Len(queue), NEW p \in Pid, NEW q \in Pid,
           LinkBefore(p, q, i), phase[p] # "none", phase'[p] = "alive"
    PROVE  LinkBefore(p, q, i)'
<1>0. TypeOK
  BY DEF SpawnInv, DownInv, Types
<1>1. Len(queue) \in Nat /\ \A j \in 1..(i - 1) : queue'[j] = queue[j]
  BY <1>0, Grown
<1>. QED
  BY <1>1 DEF LinkBefore, Keeps

LEMMA GrowsGo ==
    ASSUME SpawnInv, TypeOK', NEW add \in Seq(Signal), queue' = queue \o add,
           Keeps, NEW i \in 1..Len(queue)
    PROVE  GoComes(i)'
<1>0. TypeOK
  BY DEF SpawnInv, DownInv, Types
<1>1. SUFFICES ASSUME queue'[i].kind = "go", parent'[queue'[i].to] # NoPid
               PROVE  LinksCome(queue[i].to, parent[queue[i].to], i)'
  BY DEF GoComes
<1>2. /\ Len(queue) \in Nat /\ queue'[i] = queue[i]
      /\ \A j \in 1..(i - 1) : queue'[j] = queue[j]
      /\ queue[i] \in Signal
  <2>1. queue[i] \in Signal
    BY <1>0, ElementOfSeq DEF TypeOK
  <2>. QED
    BY <1>0, <2>1, Grown
<1>3. PICK q \in Pid : q = queue[i].to /\ phase[q] # "none"
  BY <1>2, SignalFields DEF SpawnInv, Made
<1>4. PICK p \in Pid : p = parent[q] /\ parent'[q] = p /\ phase[p] # "none"
  BY <1>0, <1>1, <1>2, <1>3 DEF Keeps, SpawnInv, Made, TypeOK
<1>5. LinksCome(q, p, i)
  BY <1>1, <1>2, <1>3, <1>4, ProcessesAssumption
     DEF SpawnInv, GoComes, LinksCome
<1>6. Newborn(q)' /\ Untouched(q, i)'
  BY <1>2, <1>5 DEF LinksCome, Keeps, Untouched
<1>7. LinkBefore(q, p, i)'
  BY <1>3, <1>5, <1>6, GrowsLinks DEF LinksCome, Newborn
<1>8. phase'[p] = "alive" => LinkBefore(p, q, i)'
  BY <1>4, <1>5, GrowsLinks DEF LinksCome, Keeps
<1>9. LinksCome(q, p, i)'
  BY <1>6, <1>7, <1>8 DEF LinksCome
<1>. QED
  BY <1>2, <1>3, <1>4, <1>9
     DEF LinksCome, Newborn, Untouched, LinkBefore

(* A step that appends: the old signals are taken care of, so the new ones *)
(* remain to be looked at.                                                 *)
LEMMA GrowStep ==
    ASSUME SpawnInv, DownInv', NEW add \in Seq(Signal), queue' = queue \o add,
           Keeps, NEW n, n = Len(queue),
           \A k \in 1..Len(add) : Addressed(add[k])',
           \A k \in 1..Len(add) :
              MonitorComes(n + k)' /\ GoComes(n + k)'
    PROVE  SpawnInv'
<1>0. TypeOK /\ TypeOK'
  BY DEF SpawnInv, DownInv, Types
<1>1. /\ Len(queue) \in Nat /\ Len(add) \in Nat
      /\ \A i \in 1..Len(queue) : queue'[i] = queue[i]
      /\ \A k \in 1..Len(add) : queue'[Len(queue) + k] = add[k]
      /\ \A i \in 1..Len(queue') :
            i \notin 1..Len(queue) =>
               i - Len(queue) \in 1..Len(add)
               /\ i = Len(queue) + (i - Len(queue))
  BY <1>0, Grown
<1>2. ASSUME NEW i \in 1..Len(queue') PROVE MonitorComes(i)' /\ GoComes(i)'
  <2>1. CASE i \in 1..Len(queue)
    BY <1>0, <2>1, GrowsMonitor, GrowsGo
  <2>2. CASE i \notin 1..Len(queue)
    <3>1. PICK k \in 1..Len(add) : i = n + k
      BY <1>1, <2>2
    <3>. QED
      BY <3>1
  <2>. QED
    BY <2>1, <2>2
<1>3. ASSUME NEW i \in 1..Len(queue') PROVE Addressed(queue[i])'
  <2>1. CASE i \in 1..Len(queue)
    <3>1. queue[i] \in Signal /\ queue'[i] = queue[i]
      BY <1>0, <1>1, <2>1, ElementOfSeq DEF TypeOK
    <3>2. /\ queue[i].to \in Pid /\ phase[queue[i].to] # "none"
          /\ queue[i].kind = "unlink" =>
                queue[i].from \in Pid /\ phase[queue[i].from] # "none"
      BY <2>1, <3>1, SignalFields DEF SpawnInv, Made
    <3>. QED
      BY <3>1, <3>2 DEF Keeps, Addressed
  <2>2. CASE i \notin 1..Len(queue)
    <3>1. i - Len(queue) \in 1..Len(add) /\ queue'[i] = add[i - Len(queue)]
      BY <1>1, <2>2
    <3>. QED
      BY <3>1 DEF Addressed
  <2>. QED
    BY <2>1, <2>2
<1>4. \A r \in atSpawn' \cup late' : target'[r] # NoPid
  BY <1>0 DEF Keeps, SpawnInv, Made, TypeOK
<1>5. Made'
  BY <1>3, <1>4 DEF Made, Keeps, Addressed
<1>6. SpawnMonitorNeverLate'
  BY DEF SpawnMonitorNeverLate, Keeps, SpawnInv, Made
<1>. QED
  BY <1>2, <1>5, <1>6 DEF SpawnInv

-----------------------------------------------------------------------------
(* Signals that are neither a go nor a monitor.                            *)
Plain(add) ==
    /\ add \in Seq(Signal)
    /\ \A k \in 1..Len(add) :
          Addressed(add[k]) /\ add[k].kind \notin {"go", "monitor"}

LEMMA PlainNone == Plain(<<>>)
BY EmptySeq DEF Plain

LEMMA PlainToPid ==
    ASSUME TypeOK, NEW s \in Signal, s.kind \notin {"go", "monitor"},
           s.kind = "unlink" => phase[s.from] # "none"
    PROVE  Plain(ToPid(s.to, s))
<1>1. CASE Deliverable(s.to)
  <2>1. ToPid(s.to, s) = <<s>> /\ Addressed(s)
    BY <1>1 DEF ToPid, Deliverable, Addressed
  <2>. QED
    BY <2>1, FewSignals DEF Plain
<1>2. CASE ~Deliverable(s.to)
  BY <1>2, PlainNone DEF ToPid
<1>. QED
  BY <1>1, <1>2

LEMMA PlainBoth ==
    ASSUME NEW a, NEW b, Plain(a), Plain(b) PROVE Plain(a \o b)
<1>1. /\ a \in Seq(Signal) /\ b \in Seq(Signal)
      /\ Len(a) \in Nat /\ Len(b) \in Nat
  BY LenProperties DEF Plain
<1>2. /\ a \o b \in Seq(Signal) /\ Len(a \o b) = Len(a) + Len(b)
      /\ \A i \in 1..Len(a) + Len(b) :
            (a \o b)[i] = IF i <= Len(a) THEN a[i] ELSE b[i - Len(a)]
  BY <1>1, ConcatProperties
<1>3. ASSUME NEW i \in 1..Len(a \o b)
      PROVE  Addressed((a \o b)[i]) /\ (a \o b)[i].kind \notin {"go", "monitor"}
  <2>1. CASE i <= Len(a)
    <3>1. i \in 1..Len(a) /\ (a \o b)[i] = a[i]
      BY <1>1, <1>2, <2>1
    <3>. QED
      BY <3>1 DEF Plain
  <2>2. CASE i > Len(a)
    <3>1. i - Len(a) \in 1..Len(b) /\ (a \o b)[i] = b[i - Len(a)]
      BY <1>1, <1>2, <2>2
    <3>. QED
      BY <3>1 DEF Plain
  <2>. QED
    BY <1>1, <2>1, <2>2
<1>. QED
  BY <1>2, <1>3 DEF Plain

(* New contexts are named only by signals of their own.                    *)
LEMMA AddressedKept ==
    ASSUME TypeOK, Keeps, NEW s \in Signal, Addressed(s) PROVE Addressed(s)'
BY SignalFields DEF Addressed, Keeps

LEMMA PlainStep ==
    ASSUME SpawnInv, DownInv', Keeps,
           NEW add, Plain(add), queue' = queue \o add
    PROVE  SpawnInv'
<1>0. TypeOK /\ add \in Seq(Signal)
  BY DEF SpawnInv, DownInv, Types, Plain
<1>1. ASSUME NEW k \in 1..Len(add) PROVE Addressed(add[k])'
  <2>1. add[k] \in Signal /\ Addressed(add[k])
    BY <1>0, ElementOfSeq DEF Plain
  <2>. QED
    BY <1>0, <2>1, AddressedKept
<1>2. PICK n : n = Len(queue)
  OBVIOUS
<1>3. ASSUME NEW k \in 1..Len(add)
      PROVE  MonitorComes(n + k)' /\ GoComes(n + k)'
  <2>1. queue'[n + k] = add[k]
    BY <1>0, <1>2, Grown
  <2>. QED
    BY <2>1 DEF MonitorComes, GoComes, Plain
<1>. QED
  BY <1>0, <1>1, <1>2, <1>3, GrowStep

LEMMA KeepsSame ==
    ASSUME SpawnInv,
           UNCHANGED <<phase, code, links, parent, target, atSpawn, late>>
    PROVE  Keeps
BY DEF Keeps, Newborn, SpawnInv, Made

LEMMA KeepsOthers ==
    ASSUME SpawnInv, UNCHANGED <<parent, target, atSpawn, late>>,
           \A x \in Pid :
              /\ phase'[x] = "none" <=> phase[x] = "none"
              /\ phase[x] = "none" => code'[x] = "none"
              /\ Newborn(x) => Newborn(x)'
              /\ phase'[x] = "alive" =>
                    phase[x] = "alive" /\ links[x] \subseteq links'[x]
    PROVE  Keeps
<1>1. ASSUME NEW x \in Pid, parent'[x] # NoPid
      PROVE  phase'[x] # "none" /\ phase'[parent'[x]] # "none"
  <2>1. /\ parent'[x] = parent[x] /\ parent[x] \in Pid
        /\ phase[x] # "none" /\ phase[parent[x]] # "none"
    BY <1>1 DEF SpawnInv, DownInv, Types, Made, TypeOK
  <2>. QED
    BY <2>1
<1>. QED
  BY <1>1 DEF Keeps

LEMMA SilentStep ==
    ASSUME SpawnInv, DownInv', Keeps, queue' = queue
    PROVE  SpawnInv'
<1>1. queue' = queue \o <<>>
  BY ConcatEmptySeq DEF SpawnInv, DownInv, Types, TypeOK
<1>. QED
  BY <1>1, PlainNone, PlainStep

(* A fresh reference.                                                      *)
LEMMA KeepsRef ==
    ASSUME SpawnInv, NEW p \in Pid, NEW q \in Pid, NEW r \in Ref,
           NewRef(p, q, r), UNCHANGED <<phase, code, links, parent, late>>,
           atSpawn' = atSpawn
    PROVE  Keeps
<1>1. \A x \in Ref : target[x] # NoPid => target'[x] = target[x]
  BY DEF NewRef, SpawnInv, DownInv, Types, TypeOK
<1>. QED
  BY <1>1 DEF Keeps, Newborn, SpawnInv, Made

(* A context that did not exist before.                                    *)
LEMMA KeepsContext ==
    ASSUME SpawnInv, NEW p \in Pid, NEW q \in Pid, NewContext(p, q),
           code[p] = "running",
           \/ parent' = parent
           \/ parent' = [parent EXCEPT ![q] = p],
           \/ target' = target /\ atSpawn' = atSpawn
           \/ \E r \in Ref : NewRef(p, q, r) /\ atSpawn' = atSpawn \cup {r},
           late' = late
    PROVE  /\ Keeps
           /\ Newborn(q)' /\ p # q /\ phase[p] # "none"
           /\ phase[q] = "none" /\ parent[q] = NoPid
<1>0. TypeOK /\ Made /\ NoPid \notin Pid
  BY ProcessesAssumption DEF SpawnInv, DownInv, Types
<1>1. phase[p] # "none" /\ phase[q] = "none" /\ parent[q] = NoPid /\ p # q
  BY <1>0 DEF Made, NewContext
<1>2. /\ phase'[q] = "alive" /\ code'[q] = "pending" /\ links' = links
      /\ \A x \in Pid \ {q} : phase'[x] = phase[x] /\ code'[x] = code[x]
  BY <1>0 DEF NewContext, TypeOK
<1>3. /\ \A r \in Ref : target[r] # NoPid => target'[r] = target[r]
      /\ atSpawn \subseteq atSpawn'
      /\ \A r \in atSpawn' \ atSpawn : target[r] = NoPid /\ target'[r] # NoPid
  BY <1>0 DEF NewRef, TypeOK
<1>4. \A x \in Pid \ {q} : parent'[x] = parent[x]
  BY <1>0 DEF TypeOK
<1>5. parent'[q] \in {NoPid, p}
  BY <1>0, <1>1 DEF TypeOK
<1>6. ASSUME NEW x \in Pid, parent'[x] # NoPid
      PROVE  phase'[x] # "none" /\ phase'[parent'[x]] # "none"
  <2>1. CASE x = q
    BY <1>1, <1>2, <1>5, <1>6, <2>1
  <2>2. CASE x # q
    <3>1. /\ phase[x] # "none" /\ parent[x] \in Pid
          /\ phase[parent[x]] # "none" /\ parent'[x] = parent[x]
      BY <1>0, <1>4, <1>6, <2>2 DEF Made, TypeOK
    <3>. QED
      BY <1>2, <3>1
  <2>. QED
    BY <2>1, <2>2
<1>. QED
  BY <1>0, <1>1, <1>2, <1>3, <1>4, <1>6 DEF Keeps, Newborn, Made

-----------------------------------------------------------------------------
(* User code.                                                              *)
LEMMA SpawnMonitorSpawn ==
    ASSUME SpawnInv, DownInv', NEW p \in Pid, NEW q \in Pid, NEW r \in Ref,
           SpawnMonitor(p, q, r)
    PROVE  SpawnInv'
<1>0. TypeOK
  BY DEF SpawnInv, DownInv, Types
<1>1. /\ Keeps /\ Newborn(q)' /\ phase[q] = "none" /\ parent[q] = NoPid
      /\ parent' = parent
  BY KeepsContext DEF SpawnMonitor, Runs, linking
<1> DEFINE add == <<MonitorSig(p, q, r), GoSig(q)>>
<1>2. add \in Seq(Signal) /\ queue' = queue \o add
  BY SignalsMade, FewSignals DEF SpawnMonitor
<1>3. Len(add) = 2 /\ add[1] = MonitorSig(p, q, r) /\ add[2] = GoSig(q)
  OBVIOUS
<1> HIDE DEF add
<1>4. PICK n : n = Len(queue) /\ n \in Nat
  BY <1>0, <1>2, Grown
<1>5. /\ queue'[n + 1] = MonitorSig(p, q, r) /\ queue'[n + 2] = GoSig(q)
      /\ \A j \in 1..n : queue'[j] = queue[j]
  <2>1. 1 \in 1..Len(add) /\ 2 \in 1..Len(add)
    BY <1>3
  <2>2. /\ \A k \in 1..Len(add) : queue'[n + k] = add[k]
        /\ \A j \in 1..n : queue'[j] = queue[j]
    BY <1>0, <1>2, <1>4, Grown
  <2>. QED
    BY <1>3, <2>1, <2>2
<1>6. ASSUME NEW k \in 1..Len(add) PROVE Addressed(add[k])'
  BY <1>1, <1>3 DEF Addressed, Newborn, MonitorSig, GoSig
<1>7. ASSUME NEW k \in 1..Len(add)
      PROVE  MonitorComes(n + k)' /\ GoComes(n + k)'
  <2>1. CASE k = 1
    <3>1. Untouched(q, n + 1)'
      <4>1. \A j \in 1..n : queue[j].to # q /\
               (queue[j].kind = "unlink" => queue[j].from # q)
        BY <1>1, <1>4 DEF SpawnInv, Made
      <4>. QED
        BY <1>4, <1>5, <4>1 DEF Untouched, Disturbs
    <3>2. MonitorComes(n + 1)'
      <4>1. queue'[n + 1].to = q
        BY <1>5 DEF MonitorSig
      <4>. QED
        BY <1>1, <3>1, <4>1 DEF MonitorComes, Newborn, Untouched
    <3>3. GoComes(n + 1)'
      BY <1>5 DEF GoComes, MonitorSig
    <3>. QED
      BY <2>1, <3>2, <3>3
  <2>2. CASE k = 2
    <3>1. queue'[n + 2].kind = "go" /\ queue'[n + 2].to = q
      BY <1>5 DEF GoSig
    <3>2. MonitorComes(n + 2)' /\ GoComes(n + 2)'
      BY <1>1, <3>1 DEF MonitorComes, GoComes
    <3>. QED
      BY <2>2, <3>2
  <2>. QED
    BY <1>3, <2>1, <2>2
<1>. QED
  BY <1>1, <1>2, <1>4, <1>6, <1>7, GrowStep

LEMMA SpawnSpawn ==
    ASSUME SpawnInv, DownInv', NEW p \in Pid, NEW q \in Pid, Spawn(p, q)
    PROVE  SpawnInv'
<1>0. TypeOK
  BY DEF SpawnInv, DownInv, Types
<1>1. /\ Keeps /\ Newborn(q)' /\ parent[q] = NoPid /\ parent' = parent
  BY KeepsContext DEF Spawn, Runs, history, linking, monitoring, tables
<1> DEFINE add == <<GoSig(q)>>
<1>2. add \in Seq(Signal) /\ queue' = queue \o add
  BY <1>0, SignalsMade, FewSignals, AppendIsConcat DEF Spawn, TypeOK
<1>3. Len(add) = 1 /\ add[1] = GoSig(q)
  OBVIOUS
<1> HIDE DEF add
<1>4. PICK n : n = Len(queue)
  OBVIOUS
<1>5. queue'[n + 1].kind = "go" /\ queue'[n + 1].to = q
  <2>1. 1 \in 1..Len(add)
    BY <1>3
  <2>2. \A k \in 1..Len(add) : queue'[n + k] = add[k]
    BY <1>0, <1>2, <1>4, Grown
  <2>3. queue'[n + 1] = GoSig(q)
    BY <1>3, <2>1, <2>2
  <2>. QED
    BY <2>3 DEF GoSig
<1>6. ASSUME NEW k \in 1..Len(add) PROVE Addressed(add[k])'
  BY <1>1, <1>3 DEF Addressed, Newborn, GoSig
<1>7. MonitorComes(n + 1)' /\ GoComes(n + 1)'
  BY <1>1, <1>5 DEF MonitorComes, GoComes
<1>8. \A k \in 1..Len(add) : k = 1
  BY <1>3
<1>. QED
  BY <1>1, <1>2, <1>4, <1>6, <1>7, <1>8, GrowStep

LEMMA SpawnLinkSpawn ==
    ASSUME SpawnInv, DownInv', NEW p \in Pid, NEW q \in Pid, SpawnLink(p, q)
    PROVE  SpawnInv'
<1>0. TypeOK
  BY DEF SpawnInv, DownInv, Types
<1>1. /\ Keeps /\ Newborn(q)' /\ p # q
      /\ phase[p] # "none" /\ phase[q] = "none" /\ parent[q] = NoPid
      /\ parent'[q] = p /\ phase'[p] = phase[p] /\ parent' = [parent EXCEPT ![q] = p]
  <2>1. /\ parent' = [parent EXCEPT ![q] = p] /\ target' = target
        /\ atSpawn' = atSpawn /\ late' = late /\ code[p] = "running"
        /\ NewContext(p, q)
    BY DEF SpawnLink, Runs, monitoring, tables
  <2>2. Keeps /\ Newborn(q)' /\ p # q /\ phase[p] # "none"
        /\ phase[q] = "none" /\ parent[q] = NoPid
    BY <2>1, KeepsContext
  <2>. QED
    BY <1>0, <2>1, <2>2 DEF NewContext, TypeOK
<1>2. PICK there, back, start :
          /\ there = <<LinkSig(p, q)>> /\ back = ToPid(p, LinkSig(q, p))
          /\ start = <<GoSig(q)>>
          /\ there \in Seq(Signal) /\ back \in Seq(Signal)
          /\ start \in Seq(Signal)
  BY SignalsMade, FewSignals, ToPidType
<1>3. PICK both, add :
          /\ both = there \o back /\ both \in Seq(Signal)
          /\ add = both \o start /\ add \in Seq(Signal)
  BY <1>2, ConcatProperties
<1>4. queue' = queue \o add
  <2>1. queue \in Seq(Signal) /\ queue' = ((queue \o there) \o back) \o start
    BY <1>0, <1>2 DEF SpawnLink, TypeOK
  <2>2. (queue \o there) \o back = queue \o both
    BY <1>2, <1>3, <2>1, ConcatAssociative
  <2>3. (queue \o both) \o start = queue \o add
    BY <1>2, <1>3, <2>1, ConcatAssociative
  <2>. QED
    BY <2>1, <2>2, <2>3
<1>5. /\ \A k \in 1..Len(both) :
            both[k] \in {LinkSig(p, q), LinkSig(q, p)}
      /\ 1 \in 1..Len(both) /\ both[1] = LinkSig(p, q)
      /\ Deliverable(p) => 2 \in 1..Len(both) /\ both[2] = LinkSig(q, p)
      /\ Len(both) \in Nat
  <2>1. Len(there) = 1 /\ there[1] = LinkSig(p, q)
    BY <1>2
  <2>2. /\ Deliverable(p) => Len(back) = 1 /\ back[1] = LinkSig(q, p)
        /\ ~Deliverable(p) => Len(back) = 0
    BY <1>2 DEF ToPid
  <2>3. /\ Len(both) = Len(there) + Len(back)
        /\ \A k \in 1..Len(there) + Len(back) : both[k] =
              IF k <= Len(there) THEN there[k] ELSE back[k - Len(there)]
    BY <1>2, <1>3, ConcatProperties
  <2>4. CASE Deliverable(p)
    <3>1. Len(there) = 1 /\ Len(back) = 1
      BY <2>1, <2>2, <2>4
    <3>2. Len(both) = 2 /\ both[1] = there[1] /\ both[2] = back[1]
      BY <2>3, <3>1
    <3>3. \A k \in 1..2 : k = 1 \/ k = 2
      OBVIOUS
    <3>. QED
      BY <2>1, <2>2, <2>4, <3>2, <3>3
  <2>5. CASE ~Deliverable(p)
    <3>1. Len(both) = 1 /\ both[1] = there[1]
      BY <2>1, <2>2, <2>3, <2>5
    <3>. QED
      BY <2>1, <2>5, <3>1
  <2>. QED
    BY <2>4, <2>5
<1>6. /\ Len(add) = Len(both) + 1 /\ add[Len(both) + 1] = GoSig(q)
      /\ \A k \in 1..Len(both) : add[k] = both[k]
  <2>1. Len(start) = 1 /\ start[1] = GoSig(q)
    BY <1>2
  <2>2. /\ Len(add) = Len(both) + Len(start)
        /\ \A k \in 1..Len(both) + Len(start) : add[k] =
              IF k <= Len(both) THEN both[k] ELSE start[k - Len(both)]
    BY <1>2, <1>3, ConcatProperties
  <2>3. (Len(both) + 1) - Len(both) = 1
    BY <1>5
  <2>. QED
    BY <1>5, <2>1, <2>2, <2>3
<1>7. PICK n, c : n = Len(queue) /\ n \in Nat /\ c = Len(both) /\ c \in Nat
  BY <1>0, <1>3, <1>4, <1>5, Grown
<1>8. /\ \A j \in 1..n : queue'[j] = queue[j]
      /\ \A k \in 1..c : queue'[n + k] = both[k]
      /\ queue'[n + (c + 1)] = GoSig(q)
  <2>1. /\ \A j \in 1..n : queue'[j] = queue[j]
        /\ \A k \in 1..Len(add) : queue'[n + k] = add[k]
    BY <1>0, <1>3, <1>4, <1>7, Grown
  <2>2. Len(add) = c + 1 /\ 1..c \subseteq 1..Len(add) /\ c + 1 \in 1..Len(add)
    BY <1>6, <1>7
  <2>. QED
    BY <1>6, <1>7, <2>1, <2>2
<1>9. ASSUME NEW k \in 1..Len(add) PROVE Addressed(add[k])'
  <2>1. CASE k \in 1..c
    <3>1. add[k] \in {LinkSig(p, q), LinkSig(q, p)}
      BY <1>5, <1>6, <1>7, <2>1
    <3>. QED
      BY <1>1, <3>1 DEF Addressed, Newborn, LinkSig
  <2>2. CASE k \notin 1..c
    <3>1. add[k] = GoSig(q)
      BY <1>6, <1>7, <2>2
    <3>. QED
      BY <1>1, <3>1 DEF Addressed, Newborn, GoSig
  <2>. QED
    BY <2>1, <2>2
<1>10. ASSUME NEW k \in 1..c
       PROVE  MonitorComes(n + k)' /\ GoComes(n + k)'
  <2>1. queue'[n + k].kind = "link"
    BY <1>5, <1>7, <1>8 DEF LinkSig
  <2>. QED
    BY <2>1 DEF MonitorComes, GoComes
<1>11. MonitorComes(n + (c + 1))' /\ GoComes(n + (c + 1))'
  <2>1. queue'[n + (c + 1)].kind = "go" /\ queue'[n + (c + 1)].to = q
    BY <1>8 DEF GoSig
  <2>2. ASSUME NEW j \in 1..((n + (c + 1)) - 1) PROVE ~Disturbs(queue[j], q)'
    <3>1. CASE j \in 1..n
      <4>1. queue[j].to # q /\ (queue[j].kind = "unlink" => queue[j].from # q)
        BY <1>1, <1>7, <3>1 DEF SpawnInv, Made
      <4>. QED
        BY <1>8, <3>1, <4>1 DEF Disturbs
    <3>2. CASE j \notin 1..n
      <4>1. PICK k \in 1..c : j = n + k
        <5>1. j - n \in 1..c /\ j = n + (j - n)
          BY <1>7, <2>2, <3>2
        <5>. QED
          BY <5>1
      <4>2. queue'[j].kind = "link"
        BY <1>5, <1>7, <1>8, <4>1 DEF LinkSig
      <4>. QED
        BY <4>2 DEF Disturbs
    <3>. QED
      BY <3>1, <3>2
  <2>3. Untouched(q, n + (c + 1))'
    BY <2>2 DEF Untouched
  <2>4. LinkBefore(q, p, n + (c + 1))'
    <3>1. queue'[n + 1] = LinkSig(p, q) /\ n + 1 \in 1..((n + (c + 1)) - 1)
      BY <1>5, <1>7, <1>8
    <3>. QED
      BY <3>1 DEF LinkBefore
  <2>5. phase'[p] = "alive" => LinkBefore(p, q, n + (c + 1))'
    <3>1. ASSUME phase'[p] = "alive"
          PROVE  /\ queue'[n + 2] = LinkSig(q, p)
                 /\ n + 2 \in 1..((n + (c + 1)) - 1)
      BY <1>1, <1>5, <1>7, <1>8, <3>1 DEF Deliverable
    <3>. QED
      BY <3>1 DEF LinkBefore
  <2>6. LinksCome(q, p, n + (c + 1))'
    BY <1>1, <2>3, <2>4, <2>5 DEF LinksCome
  <2>7. GoComes(n + (c + 1))'
    BY <1>1, <2>1, <2>6
       DEF GoComes, LinksCome, Newborn, Untouched, LinkBefore
  <2>. QED
    BY <2>1, <2>7 DEF MonitorComes
<1>12. \A k \in 1..Len(add) : MonitorComes(n + k)' /\ GoComes(n + k)'
  <2>1. \A k \in 1..Len(add) : k \in 1..c \/ k = c + 1
    BY <1>6, <1>7
  <2>. QED
    BY <1>10, <1>11, <2>1
<1>. QED
  BY <1>1, <1>3, <1>4, <1>7, <1>9, <1>12, GrowStep

LEMMA UserSpawn ==
    ASSUME SpawnInv, DownInv', UserStep PROVE SpawnInv'
<1>0. TypeOK /\ Made /\ queue \in Seq(Signal)
  BY DEF SpawnInv, DownInv, Types, TypeOK
<1> USE <1>0 DEF core, tables, history, monitoring, linking
<1>1. ASSUME NEW p \in Pid, NEW q \in Pid, NEW m \in Message, Send(p, q, m)
      PROVE  SpawnInv'
  <2>1. Plain(ToPid(q, RelaySig(p, q, m)))
    BY SignalsMade, PlainToPid DEF RelaySig
  <2>. QED
    BY <1>1, <2>1, KeepsSame, PlainStep DEF Send
<1>2. ASSUME NEW p \in Pid, NEW n \in Name, NEW m \in Message,
             SendToName(p, n, m)
      PROVE  SpawnInv'
  <2>1. CASE registrations[n] # NoPid
    <3>1. registrations[n] \in Pid
      BY <2>1 DEF TypeOK
    <3>2. Plain(ToPid(registrations[n], RelaySig(p, registrations[n], m)))
      BY <3>1, SignalsMade, PlainToPid DEF RelaySig
    <3>. QED
      BY <1>2, <2>1, <3>2, KeepsSame, PlainStep DEF SendToName
  <2>2. CASE registrations[n] = NoPid
    <3>1. Plain(ToPid(p, ExitSig(System, p, "badarg")))
      BY SignalsMade, PlainToPid DEF ExitSig, Reason
    <3>. QED
      BY <1>2, <2>2, <3>1, KeepsSame, PlainStep DEF SendToName
  <2>. QED
    BY <2>1, <2>2
<1>3. ASSUME NEW p \in Pid, NEW q \in Pid, Link(p, q) PROVE SpawnInv'
  <2>1. Plain(ToPid(q, LinkSig(p, q))) /\ Plain(ToPid(p, LinkSig(q, p)))
    BY SignalsMade, PlainToPid DEF LinkSig
  <2>2. Plain(LinkSignals(p, q))
    BY <2>1, PlainBoth DEF LinkSignals
  <2>. QED
    BY <1>3, <2>2, KeepsSame, PlainStep DEF Link
<1>4. ASSUME NEW p \in Pid, NEW q \in Pid, Unlink(p, q) PROVE SpawnInv'
  <2>1. phase[p] # "none" /\ phase[q] # "none"
    BY <1>4 DEF Unlink, Runs, Made
  <2>2. /\ Plain(ToPid(q, UnlinkSig(p, q)))
        /\ Plain(ToPid(p, UnlinkSig(q, p)))
    BY <2>1, SignalsMade, PlainToPid DEF UnlinkSig
  <2>3. queue' = queue \o (ToPid(q, UnlinkSig(p, q)) \o ToPid(p, UnlinkSig(q, p)))
    BY <1>4, <2>2, ConcatAssociative DEF Unlink, Plain
  <2>. QED
    BY <1>4, <2>2, <2>3, PlainBoth, KeepsSame, PlainStep DEF Unlink
<1>5. ASSUME NEW p \in Pid, NEW q \in Pid, NEW r \in Ref, Monitor(p, q, r)
      PROVE  SpawnInv'
  <2>1. Keeps /\ target[r] = NoPid /\ atSpawn' = atSpawn
    BY <1>5, KeepsRef DEF Monitor, NewRef
  <2>2. CASE Deliverable(q)
    <3>1. PICK add, n : add = <<MonitorSig(p, q, r)>> /\ n = Len(queue)
      OBVIOUS
    <3>2. add \in Seq(Signal) /\ queue' = queue \o add
      BY <1>5, <2>2, <3>1, SignalsMade, FewSignals DEF Monitor, MonitorSignals
    <3>3. \A k \in 1..Len(add) : k = 1 /\ add[k] = MonitorSig(p, q, r)
      BY <3>1
    <3>4. phase'[q] # "none"
      BY <1>5 DEF Monitor
    <3>5. ASSUME NEW k \in 1..Len(add)
          PROVE  /\ Addressed(add[k])'
                 /\ MonitorComes(n + k)' /\ GoComes(n + k)'
      <4>1. queue'[n + k] = add[k]
        BY <3>1, <3>2, Grown
      <4>2. add[k].kind = "monitor" /\ add[k].ref = r /\ add[k].to = q
        BY <3>3 DEF MonitorSig
      <4>3. r \notin atSpawn'
        BY <2>1 DEF Made
      <4>. QED
        BY <3>4, <4>1, <4>2, <4>3 DEF Addressed, MonitorComes, GoComes
    <3>. QED
      BY <2>1, <3>1, <3>2, <3>5, GrowStep
  <2>3. CASE ~Deliverable(q)
    <3>1. Plain(ToPid(p, DownSig(q, p, r, "noproc")))
      BY SignalsMade, PlainToPid DEF DownSig, Reason
    <3>2. queue' = queue \o ToPid(p, DownSig(q, p, r, "noproc"))
      BY <1>5, <2>3 DEF Monitor, MonitorSignals
    <3>. QED
      BY <2>1, <3>1, <3>2, PlainStep
  <2>. QED
    BY <2>2, <2>3
<1>6. ASSUME NEW p \in Pid, NEW r \in Ref, Demonitor(p, r) PROVE SpawnInv'
  <2>1. target[r] \in Pid
    BY <1>6, ProcessesAssumption
       DEF Demonitor, SpawnInv, DownInv, Types, RefsKnown, TypeOK
  <2>2. Plain(ToPid(target[r], DemonitorSig(p, target[r], r)))
    BY <2>1, SignalsMade, PlainToPid DEF DemonitorSig
  <2>. QED
    BY <1>6, <2>2, KeepsSame, PlainStep DEF Demonitor
<1>7. ASSUME NEW p \in Pid, NEW q \in Pid, NEW why \in UserReason,
             Exit(p, q, why)
      PROVE  SpawnInv'
  <2>1. Plain(ToPid(q, ExitSig(p, q, why)))
    BY SignalsMade, PlainToPid DEF ExitSig, Reason
  <2>. QED
    BY <1>7, <2>1, KeepsSame, PlainStep DEF Exit
<1>8. ASSUME NEW p \in Pid, NEW why, Die(p, why) \/ Finish(p, why)
      PROVE  SpawnInv'
  <2>1. /\ UNCHANGED <<queue, links, parent, target, atSpawn, late>>
        /\ code[p] = "running" /\ code'[p] \in {"running", "finished"}
        /\ \A x \in Pid \ {p} : code'[x] = code[x]
        /\ Resolve(p, why)
    BY <1>8 DEF Die, Finish, Runs, TypeOK
  <2>2. /\ phase[p] # "none"
        /\ \A x \in Pid \ {p} : phase'[x] = phase[x]
        /\ phase'[p] # "none"
        /\ phase'[p] = "alive" => phase[p] = "alive"
    BY <2>1 DEF Resolve, Made, TypeOK
  <2>3. \A x \in Pid :
           /\ phase'[x] = "none" <=> phase[x] = "none"
           /\ phase[x] = "none" => code'[x] = "none"
           /\ Newborn(x) => Newborn(x)'
           /\ phase'[x] = "alive" =>
                 phase[x] = "alive" /\ links[x] \subseteq links'[x]
    BY <2>1, <2>2 DEF Newborn, Made
  <2>4. Keeps
    BY <2>1, <2>3, KeepsOthers
  <2>. QED
    BY <2>1, <2>4, SilentStep
<1>9. ASSUME NEW p \in Pid, TrapExit(p) \/ Receive(p) PROVE SpawnInv'
  BY <1>9, KeepsSame, SilentStep DEF TrapExit, Receive
<1>10. ASSUME NEW p \in Pid, NEW n \in Name, Register(p, n) \/ Unregister(p, n)
       PROVE  SpawnInv'
  BY <1>10, KeepsSame, SilentStep DEF Register, Unregister
<1>. QED
  BY <1>1, <1>2, <1>3, <1>4, <1>5, <1>6, <1>7, <1>8, <1>9, <1>10,
     SpawnSpawn, SpawnLinkSpawn, SpawnMonitorSpawn DEF UserStep

(* destroy sends only to those that can still be reached.                  *)
LEMMA DestroySpawn ==
    ASSUME SpawnInv, DownInv', NEW p \in Pid, Destroy(p) PROVE SpawnInv'
<1>0. TypeOK /\ Made /\ queue \in Seq(Signal)
  BY DEF SpawnInv, DownInv, Types, TypeOK
<1>1. PICK downs \in SetToSeqs(Downs(p)), exs \in SetToSeqs(Exits(p)) :
          queue' = queue \o downs \o exs
  BY DEF Destroy
<1>2. ASSUME NEW s \in Downs(p) \cup Exits(p)
      PROVE  Addressed(s) /\ s.kind \notin {"go", "monitor"}
  <2>1. CASE s \in Downs(p)
    <3>1. PICK m \in monitors[p] : /\ Deliverable(m.watcher)
                                   /\ s = DownSig(p, m.watcher, m.ref, reason[p])
      BY <2>1 DEF Downs
    <3>. QED
      BY <3>1 DEF DownSig, Deliverable, Addressed
  <2>2. CASE s \in Exits(p)
    <3>1. PICK l \in links[p] : /\ Deliverable(l)
                                /\ s = ExitSig(p, l, reason[p])
      BY <2>2 DEF Exits
    <3>. QED
      BY <3>1 DEF ExitSig, Deliverable, Addressed
  <2>. QED
    BY <2>1, <2>2
<1>3. downs \in Seq(Signal) /\ \A i \in 1..Len(downs) : downs[i] \in Downs(p)
  BY <1>0, DownsFinite, OrderProperties
<1>4. exs \in Seq(Signal) /\ \A i \in 1..Len(exs) : exs[i] \in Exits(p)
  BY <1>0, ExitsFinite, OrderProperties
<1>5. Plain(downs) /\ Plain(exs)
  BY <1>2, <1>3, <1>4 DEF Plain
<1>6. queue' = queue \o (downs \o exs)
  <2>1. /\ queue \in Seq(Signal) /\ downs \in Seq(Signal)
        /\ exs \in Seq(Signal)
    BY <1>0, <1>3, <1>4
  <2>2. (queue \o downs) \o exs = queue \o (downs \o exs)
    BY <2>1, ConcatAssociative
  <2>. QED
    BY <1>1, <2>2
<1>7. /\ phase[p] = "dying" /\ phase'[p] = "dead"
      /\ \A x \in Pid \ {p} : phase'[x] = phase[x] /\ links'[x] = links[x]
      /\ UNCHANGED <<code, parent, target, atSpawn, late>>
  <2>1. /\ phase[p] = "dying" /\ phase' = [phase EXCEPT ![p] = "dead"]
        /\ links' = [links EXCEPT ![p] = {}]
        /\ UNCHANGED <<code, parent, target, atSpawn, late>>
    BY DEF Destroy, tables, history, monitoring, linking
  <2>. QED
    BY <1>0, <2>1 DEF TypeOK
<1>8. \A x \in Pid :
         /\ phase'[x] = "none" <=> phase[x] = "none"
         /\ phase[x] = "none" => code'[x] = "none"
         /\ Newborn(x) => Newborn(x)'
         /\ phase'[x] = "alive" =>
               phase[x] = "alive" /\ links[x] \subseteq links'[x]
  <2>1. ASSUME NEW x \in Pid, x # p
        PROVE  phase'[x] = phase[x] /\ links'[x] = links[x] /\ code'[x] = code[x]
    BY <1>7, <2>1
  <2>2. \A x \in Pid : phase[x] = "none" => code[x] = "none"
    BY <1>0 DEF Made
  <2>. QED
    BY <1>7, <2>1, <2>2 DEF Newborn
<1>9. Keeps
  BY <1>7, <1>8, KeepsOthers
<1>. QED
  BY <1>5, <1>6, <1>9, PlainBoth, PlainStep

-----------------------------------------------------------------------------
(* A handler may only do to a newborn what its signal says.                *)
Handles(s) ==
    /\ UNCHANGED <<parent, target, atSpawn>>
    /\ \A x \in Pid :
          /\ phase'[x] = "none" <=> phase[x] = "none"
          /\ phase[x] = "none" => code'[x] = "none"
          /\ Newborn(x) /\ ~Disturbs(s, x) => Newborn(x)'
          /\ phase'[x] = "alive" => phase[x] = "alive"
    /\ \A x, y \in Pid :
          y \in links[x] => y \in links'[x] \/ s = UnlinkSig(y, x)
    /\ \A x, y \in Pid :
          s = LinkSig(y, x) /\ phase[x] = "alive" => y \in links'[x]

LEMMA HandledLinks ==
    ASSUME TypeOK, queue # <<>>, queue' = Tail(queue), Handles(Head(queue)),
           NEW i \in 1..Len(queue'), NEW p \in Pid, NEW q \in Pid,
           LinkBefore(p, q, i + 1), phase[p] = "alive",
           Head(queue) # UnlinkSig(q, p)
    PROVE  LinkBefore(p, q, i)'
<1>1. /\ Len(queue) \in Nat /\ Len(queue') = Len(queue) - 1
      /\ \A j \in 1..Len(queue') : queue'[j] = queue[j + 1]
      /\ Head(queue) = queue[1]
  BY Popped
<1>2. CASE q \in links[p]
  BY <1>2 DEF Handles, LinkBefore
<1>3. CASE q \notin links[p]
  <2>1. PICK j \in 1..((i + 1) - 1) : queue[j] = LinkSig(q, p)
    BY <1>3 DEF LinkBefore
  <2>2. CASE j = 1
    BY <1>1, <2>1, <2>2 DEF Handles, LinkBefore
  <2>3. CASE j # 1
    <3>1. j - 1 \in 1..(i - 1) /\ queue'[j - 1] = queue[j]
      <4>1. j - 1 \in 1..Len(queue') /\ (j - 1) + 1 = j /\ j - 1 \in 1..(i - 1)
        BY <1>1, <2>1, <2>3
      <4>. QED
        BY <1>1, <4>1
    <3>. QED
      BY <2>1, <3>1 DEF LinkBefore
  <2>. QED
    BY <2>2, <2>3
<1>. QED
  BY <1>2, <1>3

LEMMA HandledUntouched ==
    ASSUME TypeOK, queue # <<>>, queue' = Tail(queue),
           NEW i \in 1..Len(queue'), NEW q, Untouched(q, i + 1)
    PROVE  Untouched(q, i)' /\ ~Disturbs(Head(queue), q)
<1>1. /\ Len(queue) \in Nat /\ Len(queue') = Len(queue) - 1
      /\ \A j \in 1..Len(queue') : queue'[j] = queue[j + 1]
      /\ Head(queue) = queue[1]
  BY Popped
<1>2. ASSUME NEW j \in 1..(i - 1) PROVE ~Disturbs(queue[j], q)'
  <2>1. j \in 1..Len(queue') /\ j + 1 \in 1..((i + 1) - 1)
    BY <1>1
  <2>2. ~Disturbs(queue[j + 1], q)
    BY <2>1 DEF Untouched
  <2>. QED
    BY <1>1, <2>1, <2>2 DEF Disturbs
<1>3. 1 \in 1..((i + 1) - 1)
  BY <1>1
<1>. QED
  BY <1>1, <1>2, <1>3 DEF Untouched

LEMMA HandledMonitor ==
    ASSUME SpawnInv, queue # <<>>, queue' = Tail(queue), Handles(Head(queue)),
           NEW i \in 1..Len(queue')
    PROVE  MonitorComes(i)'
<1>0. TypeOK
  BY DEF SpawnInv, DownInv, Types
<1>1. SUFFICES ASSUME queue'[i].kind = "monitor", queue'[i].ref \in atSpawn
               PROVE  Newborn(queue[i].to)' /\ Untouched(queue[i].to, i)'
  BY DEF MonitorComes, Handles
<1>2. i + 1 \in 1..Len(queue) /\ queue'[i] = queue[i + 1]
  BY <1>0, Popped
<1>3. PICK q \in Pid : q = queue[i + 1].to
  BY <1>0, <1>2, ElementOfSeq, SignalFields DEF TypeOK
<1>4. Newborn(q) /\ Untouched(q, i + 1)
  BY <1>1, <1>2, <1>3 DEF SpawnInv, MonitorComes
<1>5. Untouched(q, i)' /\ ~Disturbs(Head(queue), q)
  BY <1>0, <1>4, HandledUntouched
<1>. QED
  BY <1>2, <1>3, <1>4, <1>5 DEF Handles, Newborn, Untouched

LEMMA HandledGo ==
    ASSUME SpawnInv, queue # <<>>, queue' = Tail(queue), Handles(Head(queue)),
           NEW i \in 1..Len(queue')
    PROVE  GoComes(i)'
<1>0. TypeOK
  BY DEF SpawnInv, DownInv, Types
<1>1. SUFFICES ASSUME queue'[i].kind = "go", parent[queue'[i].to] # NoPid
               PROVE  LinksCome(queue[i].to, parent[queue[i].to], i)'
  BY DEF GoComes, Handles
<1>2. i + 1 \in 1..Len(queue) /\ queue'[i] = queue[i + 1]
  BY <1>0, Popped
<1>3. PICK q \in Pid : q = queue[i + 1].to
  BY <1>0, <1>2, ElementOfSeq, SignalFields DEF TypeOK
<1>4. PICK p \in Pid : p = parent[q]
  BY <1>0, <1>1, <1>2, <1>3 DEF TypeOK
<1>5. LinksCome(q, p, i + 1)
  BY <1>1, <1>2, <1>3, <1>4 DEF SpawnInv, GoComes, LinksCome
<1>6. Untouched(q, i)' /\ ~Disturbs(Head(queue), q)
  BY <1>0, <1>5, HandledUntouched DEF LinksCome
<1>7. Head(queue) # UnlinkSig(p, q) /\ Head(queue) # UnlinkSig(q, p)
  BY <1>6 DEF Disturbs, UnlinkSig
<1>8. Newborn(q)' /\ LinkBefore(q, p, i)'
  BY <1>0, <1>5, <1>6, <1>7, HandledLinks DEF LinksCome, Handles, Newborn
<1>9. phase'[p] = "alive" => LinkBefore(p, q, i)'
  BY <1>0, <1>5, <1>7, HandledLinks DEF LinksCome, Handles
<1>10. LinksCome(q, p, i)'
  BY <1>6, <1>8, <1>9 DEF LinksCome
<1>. QED
  BY <1>2, <1>3, <1>4, <1>10
     DEF Handles, LinksCome, Newborn, Untouched, LinkBefore

LEMMA HandleSpawn ==
    ASSUME SpawnInv, DownInv', queue # <<>>, queue' = Tail(queue),
           Handles(Head(queue)),
           \A r \in late' \ late :
              /\ Head(queue).kind = "monitor" /\ r = Head(queue).ref
              /\ ~Deliverable(Head(queue).to)
    PROVE  SpawnInv'
<1>0. TypeOK /\ TypeOK' /\ Made /\ NoPid \notin Pid
  BY ProcessesAssumption DEF SpawnInv, DownInv, Types
<1>1. /\ 1 \in 1..Len(queue) /\ Head(queue) = queue[1] /\ Head(queue) \in Signal
      /\ \A i \in 1..Len(queue') :
            i + 1 \in 1..Len(queue) /\ queue'[i] = queue[i + 1]
  BY <1>0, Popped
<1>2. \A i \in 1..Len(queue') : MonitorComes(i)' /\ GoComes(i)'
  BY HandledMonitor, HandledGo
<1>3. ASSUME NEW r \in late' \ late
      PROVE  r \notin atSpawn /\ target[r] # NoPid
  <2>1. Head(queue).kind = "monitor" /\ r = Head(queue).ref
        /\ ~Deliverable(Head(queue).to)
    BY <1>3
  <2>2. target[r] = Head(queue).to /\ Head(queue).to \in Pid
    BY <1>1, <2>1, SignalFields DEF SpawnInv, DownInv, MonitorsKnown
  <2>3. r \in atSpawn => Newborn(Head(queue).to)
    BY <1>1, <2>1 DEF SpawnInv, MonitorComes
  <2>. QED
    BY <1>0, <2>1, <2>2, <2>3 DEF Newborn, Deliverable
<1>4. ASSUME NEW i \in 1..Len(queue')
      PROVE  /\ phase'[queue'[i].to] # "none"
             /\ queue'[i].kind = "unlink" => phase'[queue'[i].from] # "none"
  <2>1. i + 1 \in 1..Len(queue) /\ queue'[i] = queue[i + 1] /\ queue'[i] \in Signal
    BY <1>0, <1>1, <1>4, ElementOfSeq DEF TypeOK
  <2>2. /\ queue'[i].to \in Pid
        /\ queue'[i].kind = "unlink" => queue'[i].from \in Pid
    BY <2>1, SignalFields
  <2>3. /\ phase[queue'[i].to] # "none"
        /\ queue'[i].kind = "unlink" => phase[queue'[i].from] # "none"
    BY <1>0, <2>1 DEF Made
  <2>. QED
    BY <2>2, <2>3 DEF Handles
<1>5. ASSUME NEW x \in Pid, parent'[x] # NoPid
      PROVE  phase'[x] # "none" /\ phase'[parent'[x]] # "none"
  <2>1. /\ parent'[x] = parent[x] /\ parent[x] \in Pid
        /\ phase[x] # "none" /\ phase[parent[x]] # "none"
    BY <1>0, <1>5 DEF Handles, Made, TypeOK
  <2>. QED
    BY <2>1 DEF Handles
<1>6. \A r \in atSpawn' \cup late' : target'[r] # NoPid
  BY <1>0, <1>3 DEF Handles, Made
<1>7. Made'
  BY <1>0, <1>4, <1>5, <1>6 DEF Handles, Made
<1>8. SpawnMonitorNeverLate'
  BY <1>3 DEF Handles, SpawnInv, SpawnMonitorNeverLate
<1>. QED
  BY <1>2, <1>7, <1>8 DEF SpawnInv

LEMMA UnlinkForm ==
    ASSUME NEW s \in Signal, s.kind = "unlink"
    PROVE  s = UnlinkSig(s.from, s.to)
BY DEF Signal, UnlinkSig

LEMMA TickSpawn ==
    ASSUME SpawnInv, DownInv', Tick PROVE SpawnInv'
<1> USE DEF tables, history, monitoring, linking
<1>0. /\ TypeOK /\ Made
      /\ \A x \in Pid : phase[x] = "none" => code[x] = "none"
  BY DEF SpawnInv, DownInv, Types, Made
<1>1. queue # <<>> /\ queue' = Tail(queue)
  BY DEF Tick, OnGo, OnRelay, OnLink, OnUnlink, OnMonitor, OnDemonitor,
         OnExit, OnDown, Fires
<1>2. PICK s : /\ s = Head(queue) /\ s \in Signal
               /\ s.to \in Pid /\ phase[s.to] # "none"
  BY <1>0, <1>1, Popped, SignalFields DEF Made
<1>3. CASE OnRelay \/ OnMonitor \/ OnDemonitor \/ OnDown
  <2>1. /\ UNCHANGED <<parent, target, atSpawn, phase, code, links>>
        /\ s.kind \notin {"link", "unlink"}
    BY <1>2, <1>3 DEF OnRelay, OnMonitor, OnDemonitor, OnDown, Fires
  <2>2. Handles(s)
    <3>1. \A x, y \in Pid : s # LinkSig(y, x)
      BY <2>1 DEF LinkSig
    <3>. QED
      BY <1>0, <2>1, <3>1 DEF Handles, Newborn
  <2>3. \A r \in late' \ late :
           s.kind = "monitor" /\ r = s.ref /\ ~Deliverable(s.to)
    BY <1>2, <1>3 DEF OnRelay, OnMonitor, OnDemonitor, OnDown, Fires
  <2>. QED
    BY <1>1, <1>2, <2>2, <2>3, HandleSpawn
<1>4. CASE OnGo
  <2>1. /\ UNCHANGED <<parent, target, atSpawn, late, phase, links>>
        /\ s.kind = "go" /\ code' = [code EXCEPT ![s.to] = "running"]
    BY <1>2, <1>4 DEF OnGo, Fires
  <2>2. \A x \in Pid : x # s.to => code'[x] = code[x]
    BY <1>0, <2>1 DEF TypeOK
  <2>3. Handles(s)
    BY <1>0, <1>2, <2>1, <2>2 DEF Handles, Newborn, Disturbs, LinkSig
  <2>. QED
    BY <1>1, <1>2, <2>1, <2>3, HandleSpawn
<1>5. CASE OnLink
  <2>1. /\ UNCHANGED <<parent, target, atSpawn, late, phase, code>>
        /\ s.kind = "link"
        /\ IF Deliverable(s.to)
           THEN links' = [links EXCEPT ![s.to] = @ \cup {s.from}]
           ELSE links' = links
    BY <1>2, <1>5 DEF OnLink, Fires
  <2>2. ASSUME NEW x \in Pid, NEW y \in links[x] PROVE y \in links'[x]
    <3>1. CASE Deliverable(s.to)
      <4>1. links' = [links EXCEPT ![s.to] = links[s.to] \cup {s.from}]
        BY <2>1, <3>1
      <4>2. links \in [Pid -> SUBSET Pid]
        BY <1>0 DEF TypeOK
      <4>3. CASE x = s.to
        BY <1>2, <4>1, <4>2, <4>3
      <4>4. CASE x # s.to
        BY <4>1, <4>2, <4>4
      <4>. QED
        BY <4>3, <4>4
    <3>2. CASE ~Deliverable(s.to)
      BY <2>1, <3>2
    <3>. QED
      BY <3>1, <3>2
  <2>3. ASSUME NEW x \in Pid, NEW y \in Pid, s = LinkSig(y, x),
               phase[x] = "alive"
        PROVE  y \in links'[x]
    <3>1. s.to = x /\ s.from = y /\ Deliverable(x)
      BY <2>3 DEF LinkSig, Deliverable
    <3>. QED
      BY <1>0, <2>1, <3>1 DEF TypeOK
  <2>4. Handles(s)
    BY <1>0, <2>1, <2>2, <2>3 DEF Handles, Newborn
  <2>. QED
    BY <1>1, <1>2, <2>1, <2>4, HandleSpawn
<1>6. CASE OnUnlink
  <2>1. /\ UNCHANGED <<parent, target, atSpawn, late, phase, code>>
        /\ s.kind = "unlink"
        /\ links' = [links EXCEPT ![s.to] = @ \ {s.from}]
    BY <1>2, <1>6 DEF OnUnlink, Fires
  <2>2. s = UnlinkSig(s.from, s.to)
    BY <1>2, <2>1, UnlinkForm
  <2>3. ASSUME NEW x \in Pid, NEW y \in Pid, y \in links[x],
               y \notin links'[x]
        PROVE  s = UnlinkSig(y, x)
    <3>1. x = s.to /\ y = s.from
      BY <1>0, <2>1, <2>3 DEF TypeOK
    <3>. QED
      BY <2>2, <3>1
  <2>4. Handles(s)
    BY <1>0, <2>1, <2>3 DEF Handles, Newborn, LinkSig
  <2>. QED
    BY <1>1, <1>2, <2>1, <2>4, HandleSpawn
<1>7. CASE OnExit
  <2>1. /\ UNCHANGED <<parent, target, atSpawn, late, code, links>>
        /\ s.kind = "exit"
        /\ \/ phase' = phase
           \/ phase[s.to] = "alive" /\ phase' = [phase EXCEPT ![s.to] = "dying"]
    BY <1>2, <1>7 DEF OnExit, Fires, Resolve
  <2>2. \A x \in Pid :
           /\ phase'[x] = "none" <=> phase[x] = "none"
           /\ phase'[x] = "alive" => phase[x] = "alive"
           /\ x # s.to => phase'[x] = phase[x]
    BY <1>0, <2>1 DEF TypeOK
  <2>3. \A x \in Pid : Newborn(x) /\ ~Disturbs(s, x) => Newborn(x)'
    BY <2>1, <2>2 DEF Newborn, Disturbs
  <2>4. Handles(s)
    BY <1>0, <2>1, <2>2, <2>3 DEF Handles, LinkSig
  <2>. QED
    BY <1>1, <1>2, <2>1, <2>4, HandleSpawn
<1>. QED
  BY <1>3, <1>4, <1>5, <1>6, <1>7 DEF Tick

LEMMA SpawnInvInit == Init => SpawnInv
<1> SUFFICES ASSUME Init PROVE SpawnInv
  OBVIOUS
<1>1. /\ queue = <<>> /\ atSpawn = {} /\ late = {}
      /\ \A p \in Pid : parent[p] = NoPid
  BY DEF Init
<1>2. \A p \in Pid : phase[p] = "none" => code[p] = "none"
  BY DEF Init
<1>3. 1..Len(queue) = {}
  BY <1>1
<1>. QED
  BY <1>1, <1>2, <1>3, DownInvInit
     DEF SpawnInv, Made, SpawnMonitorNeverLate

LEMMA SpawnInvStep == SpawnInv /\ [Next]_vars => SpawnInv'
<1> SUFFICES ASSUME SpawnInv, [Next]_vars PROVE SpawnInv'
  OBVIOUS
<1>0. DownInv'
  BY DownInvStep DEF SpawnInv
<1>1. ASSUME NEW p \in Pid, Cleanup(p) PROVE SpawnInv'
  BY <1>0, <1>1, KeepsSame, SilentStep
     DEF Cleanup, core, history, monitoring, linking
<1>2. CASE UNCHANGED vars
  BY <1>0, <1>2, KeepsSame, SilentStep
     DEF vars, core, tables, history, monitoring, linking
<1>. QED
  BY <1>0, <1>1, <1>2, UserSpawn, DestroySpawn, TickSpawn DEF Next, Microtask

LEMMA SpawnInvAlways == Spec => []SpawnInv
BY SpawnInvInit, SpawnInvStep, PTL DEF Spec

(* A child of spawnMonitor cannot be dead when its monitor signal is       *)
(* handled: nothing that could kill it stands before that signal.          *)
THEOREM MonitorsBeforeBirth == Spec => []SpawnMonitorNeverLate
<1>1. SpawnInv => SpawnMonitorNeverLate
  BY DEF SpawnInv
<1>. QED
  BY <1>1, SpawnInvAlways, PTL

(* What one step may do about the links of a child of spawnLink.           *)
StartStep ==
    \A q \in Pid :
        code[q] = "pending" /\ code'[q] = "running" /\ parent[q] # NoPid
            => /\ parent[q] \in links[q]
               /\ phase[parent[q]] = "alive" => q \in links[parent[q]]

LEMMA OnlyGoStarts ==
    ASSUME TypeOK, [Next]_vars, NEW q \in Pid,
           code[q] = "pending", code'[q] = "running"
    PROVE  queue # <<>> /\ Head(queue).kind = "go" /\ Head(queue).to = q
<1> USE DEF core, tables, history, monitoring, linking, TypeOK
<1>1. ASSUME NEW p \in Pid, NEW x \in Pid, NewContext(p, x) PROVE FALSE
  BY <1>1 DEF NewContext
<1>2. ASSUME NEW p \in Pid, NEW why, Finish(p, why) PROVE FALSE
  BY <1>2 DEF Finish
<1>3. ASSUME UserStep PROVE FALSE
  <2>1. code' # code
    OBVIOUS
  <2>2. ASSUME NEW p \in Pid PROVE
           /\ \A x \in Pid, m \in Message : ~Send(p, x, m)
           /\ \A n \in Name, m \in Message : ~SendToName(p, n, m)
           /\ \A x \in Pid : ~Link(p, x) /\ ~Unlink(p, x)
           /\ \A x \in Pid, r \in Ref : ~Monitor(p, x, r)
           /\ \A r \in Ref : ~Demonitor(p, r)
           /\ \A x \in Pid, why \in UserReason : ~Exit(p, x, why)
           /\ \A why \in UserReason : ~Die(p, why)
           /\ ~TrapExit(p) /\ ~Receive(p)
           /\ \A n \in Name : ~Register(p, n) /\ ~Unregister(p, n)
    BY <2>1 DEF Send, SendToName, Link, Unlink, Monitor, Demonitor, Exit, Die,
       TrapExit, Receive, Register, Unregister
  <2>3. ASSUME NEW p \in Pid PROVE
           /\ \A x \in Pid, r \in Ref : ~SpawnMonitor(p, x, r)
           /\ \A x \in Pid : ~Spawn(p, x) /\ ~SpawnLink(p, x)
           /\ \A why : ~Finish(p, why)
    BY <1>1, <1>2 DEF Spawn, SpawnLink, SpawnMonitor
  <2>. QED
    BY <1>3, <2>2, <2>3 DEF UserStep
<1>4. ~Microtask
  BY DEF Microtask, Destroy, Cleanup
<1>5. ~UNCHANGED vars
  BY DEF vars
<1>6. Tick
  BY <1>3, <1>4, <1>5 DEF Next
<1>7. OnGo
  BY <1>6 DEF Tick, OnRelay, OnLink, OnUnlink, OnMonitor, OnDemonitor,
         OnExit, OnDown
<1>. QED
  BY <1>7 DEF OnGo, Fires

LEMMA NextStart == SpawnInv /\ [Next]_vars => StartStep
<1> SUFFICES ASSUME SpawnInv, [Next]_vars, NEW q \in Pid,
                    code[q] = "pending", code'[q] = "running",
                    parent[q] # NoPid
             PROVE  /\ parent[q] \in links[q]
                    /\ phase[parent[q]] = "alive" => q \in links[parent[q]]
  BY DEF StartStep
<1>1. TypeOK
  BY DEF SpawnInv, DownInv, Types
<1>2. queue # <<>> /\ Head(queue).kind = "go" /\ Head(queue).to = q
  BY <1>1, OnlyGoStarts
<1>3. 1 \in 1..Len(queue) /\ Head(queue) = queue[1]
  BY <1>1, <1>2, EmptySeq, HeadTailProperties, LenProperties DEF TypeOK
<1>4. LinksCome(q, parent[q], 1)
  BY <1>2, <1>3 DEF SpawnInv, GoComes
<1>5. \A j \in 1..(1 - 1) : FALSE
  OBVIOUS
<1>. QED
  BY <1>4, <1>5 DEF LinksCome, LinkBefore

(* A child of spawnLink starts with its link in place on both sides, if    *)
(* its parent lives.                                                       *)
THEOREM ChildrenStartLinked == Spec => StartsLinked
<1>1. SpawnInv /\ [Next]_vars => [StartStep]_vars
  BY NextStart
<1>2. Spec => [][StartStep]_vars
  BY <1>1, SpawnInvAlways, PTL DEF Spec
<1>. QED
  BY <1>2 DEF StartsLinked, StartStep
=============================================================================
