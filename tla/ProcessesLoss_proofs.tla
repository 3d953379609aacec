------------------------ MODULE ProcessesLoss_proofs ------------------------
(* What is lost in Processes is lost by a race and in no other way: the    *)
(* DOWN of a monitor, the agreement of two linked processes, the EXIT of a *)
(* link.  Each invariant says where the thing still is while it travels.   *)
(* At the end, the refinement: every step of Processes is a step of        *)
(* Monitoring or leaves the state of Monitoring as it is.                  *)
EXTENDS ProcessesSpawn_proofs

(* The DOWN of r has come, is on its way, or will be sent by destroy;      *)
(* or there is a reason why it will not come.                              *)
InQueue(kind, r) ==
    \E i \in 1..Len(queue) : queue[i].kind = kind /\ queue[i].ref = r

Due(r) ==
    \/ r \in notified \cup late \cup cancelled
    \/ phase[watcher[r]] = "dead"
    \/ InQueue("down", r) \/ InQueue("monitor", r) \/ Watched(r)

DueInv ==
    /\ SpawnInv
    /\ \A i \in 1..Len(queue) :
          queue[i].kind = "demonitor" => queue[i].ref \in cancelled
    /\ \A r \in Ref : target[r] # NoPid =>
          Due(r) /\ phase[watcher[r]] # "none"

-----------------------------------------------------------------------------
(* Will p have q among its links when the link and unlink signals that are *)
(* on their way, s, have been handled?                                     *)
About(x, p, q) == x.kind \in {"link", "unlink"} /\ x.to = p /\ x.from = q

LinkPlaces(s, p, q) == {i \in 1..Len(s) : About(s[i], p, q)}

Will(s, has, p, q) ==
    \/ q \in has /\ LinkPlaces(s, p, q) = {}
    \/ \E i \in LinkPlaces(s, p, q) :
          s[i].kind = "link" /\ \A j \in LinkPlaces(s, p, q) : j <= i

WillLink(p, q) == Will(queue, links[p], p, q)

(* Links are between processes that have been made.                        *)
LinksMade ==
    /\ \A i \in 1..Len(queue) : queue[i].kind \in {"link", "unlink"} =>
          phase[queue[i].from] # "none"
    /\ \A p \in Pid : phase[p] = "none" => links[p] = {}
    /\ \A p \in Pid : \A q \in links[p] : phase[q] # "none"

(* p has been told that q is dead, is about to be, or cannot be.           *)
Told(p, q) ==
    \/ <<q, p>> \in exits \/ <<p, q>> \in orphaned
    \/ \E i \in 1..Len(queue) :
          queue[i].kind = "exit" /\ queue[i].to = p /\ queue[i].from = q
    \/ \E i \in 1..Len(queue) : queue[i] = LinkSig(p, q)

LinkInv ==
    /\ SpawnInv /\ LinksMade
    /\ \A p, q \in Pid : Deliverable(p) /\ Deliverable(q) =>
          (WillLink(p, q) <=> WillLink(q, p))
    /\ \A p, q \in Pid :
          Deliverable(p) /\ phase[q] = "dead" /\ WillLink(p, q) => Told(p, q)

-----------------------------------------------------------------------------
(* DOWN.                                                                   *)
LEMMA InQueueGrows ==
    ASSUME TypeOK, NEW add \in Seq(Signal), queue' = queue \o add,
           NEW kind, NEW r
    PROVE  /\ InQueue(kind, r) => InQueue(kind, r)'
           /\ (\E k \in 1..Len(add) : add[k].kind = kind /\ add[k].ref = r)
                 => InQueue(kind, r)'
<1>1. /\ Len(queue) \in Nat /\ Len(add) \in Nat
      /\ Len(queue') = Len(queue) + Len(add)
      /\ \A i \in 1..Len(queue) : queue'[i] = queue[i]
      /\ \A k \in 1..Len(add) : queue'[Len(queue) + k] = add[k]
  BY Grown
<1>2. \A i \in 1..Len(queue) : i \in 1..Len(queue')
  BY <1>1
<1>3. \A k \in 1..Len(add) : Len(queue) + k \in 1..Len(queue')
  BY <1>1
<1>4. ASSUME InQueue(kind, r) PROVE InQueue(kind, r)'
  BY <1>1, <1>2, <1>4 DEF InQueue
<1>5. ASSUME NEW k \in 1..Len(add), add[k].kind = kind, add[k].ref = r
      PROVE  InQueue(kind, r)'
  BY <1>1, <1>3, <1>5 DEF InQueue
<1>. QED
  BY <1>4, <1>5

(* No step unmakes a context.                                              *)
StayMade == \A x \in Pid : phase[x] # "none" => phase'[x] # "none"

LEMMA ResolveMade ==
    ASSUME TypeOK, NEW p \in Pid, NEW why, Resolve(p, why) PROVE StayMade
BY DEF Resolve, StayMade, TypeOK

LEMMA UserMade ==
    ASSUME TypeOK, UserStep PROVE StayMade
<1> USE DEF core
<1>1. ASSUME NEW p \in Pid, NEW q \in Pid, NewContext(p, q) PROVE StayMade
  BY <1>1 DEF NewContext, StayMade, TypeOK
<1>2. ASSUME NEW p \in Pid, NEW q \in Pid, NEW r \in Ref,
             SpawnMonitor(p, q, r)
      PROVE  StayMade
  BY <1>1, <1>2 DEF SpawnMonitor
<1>3. ASSUME NEW p \in Pid, NEW q \in Pid, Spawn(p, q) \/ SpawnLink(p, q)
      PROVE  StayMade
  BY <1>1, <1>3 DEF Spawn, SpawnLink
<1>4. ASSUME NEW p \in Pid, NEW why, Die(p, why) \/ Finish(p, why)
      PROVE  StayMade
  BY <1>4, ResolveMade DEF Die, Finish
<1>5. phase' = phase => StayMade
  BY DEF StayMade
<1>. QED
  BY <1>2, <1>3, <1>4, <1>5
     DEF UserStep, Send, SendToName, Link, Unlink, Monitor, Demonitor, Exit,
         TrapExit, Receive, Register, Unregister

(* What a step that appends may do.                                        *)
DueKept ==
    /\ \A r \in Ref : target[r] # NoPid =>
          target'[r] = target[r] /\ watcher'[r] = watcher[r]
    /\ notified \subseteq notified' /\ late \subseteq late'
    /\ cancelled \subseteq cancelled'
    /\ monitors' = monitors

LEMMA DueGrows ==
    ASSUME DueInv, DeathStep, DueKept,
           NEW add \in Seq(Signal), queue' = queue \o add,
           NEW r \in Ref, target[r] # NoPid,
           Watched(r) /\ phase'[target[r]] = "dead" =>
              \/ phase'[watcher[r]] = "dead"
              \/ \E k \in 1..Len(add) : add[k].kind = "down" /\ add[k].ref = r
    PROVE  Due(r)'
<1>0. TypeOK /\ Due(r) /\ target'[r] = target[r] /\ watcher'[r] = watcher[r]
  BY DEF DueInv, SpawnInv, DownInv, Types, DueKept
<1>1. watcher[r] \in Pid
  BY <1>0 DEF DueInv, SpawnInv, DownInv, Types, RefsKnown, TypeOK
<1>2. CASE r \in notified \cup late \cup cancelled
  BY <1>2 DEF DueKept, Due
<1>3. CASE phase[watcher[r]] = "dead"
  BY <1>0, <1>1, <1>3 DEF DeathStep, Due
<1>4. CASE InQueue("down", r) \/ InQueue("monitor", r)
  BY <1>0, <1>4, InQueueGrows DEF Due
<1>5. CASE Watched(r)
  <2>1. CASE phase'[target[r]] = "dead"
    <3>1. CASE phase'[watcher[r]] = "dead"
      BY <1>0, <3>1 DEF Due
    <3>2. CASE \E k \in 1..Len(add) : add[k].kind = "down" /\ add[k].ref = r
      <4>1. InQueue("down", r)'
        BY <1>0, <3>2, InQueueGrows
      <4>. QED
        BY <4>1 DEF Due
    <3>. QED
      BY <1>5, <2>1, <3>1, <3>2
  <2>2. CASE phase'[target[r]] # "dead"
    <3>1. Watched(r)'
      BY <1>0, <1>5, <2>2 DEF Watched, DueKept
    <3>. QED
      BY <3>1 DEF Due
  <2>. QED
    BY <2>1, <2>2
<1>. QED
  BY <1>0, <1>2, <1>3, <1>4, <1>5 DEF Due

LEMMA DueGrowStep ==
    ASSUME DueInv, SpawnInv', DeathStep, StayMade, DueKept,
           NEW add \in Seq(Signal), queue' = queue \o add,
           \A k \in 1..Len(add) :
              add[k].kind = "demonitor" => add[k].ref \in cancelled',
           \A r \in Ref :
              target[r] # NoPid /\ Watched(r) /\ phase'[target[r]] = "dead" =>
                 \/ phase'[watcher[r]] = "dead"
                 \/ \E k \in 1..Len(add) :
                       add[k].kind = "down" /\ add[k].ref = r,
           \A r \in Ref : target[r] = NoPid /\ target'[r] # NoPid =>
              Due(r)' /\ phase'[watcher'[r]] # "none"
    PROVE  DueInv'
<1>0. TypeOK
  BY DEF DueInv, SpawnInv, DownInv, Types
<1>1. ASSUME NEW r \in Ref, target'[r] # NoPid
      PROVE  Due(r)' /\ phase'[watcher'[r]] # "none"
  <2>1. CASE target[r] = NoPid
    BY <1>1, <2>1
  <2>2. CASE target[r] # NoPid
    <3>1. watcher[r] \in Pid /\ phase[watcher[r]] # "none"
      BY <2>2 DEF DueInv, SpawnInv, DownInv, Types, RefsKnown, TypeOK
    <3>. QED
      BY <2>2, <3>1, DueGrows DEF StayMade, DueKept
  <2>. QED
    BY <2>1, <2>2
<1>2. ASSUME NEW i \in 1..Len(queue'), queue'[i].kind = "demonitor"
      PROVE  queue'[i].ref \in cancelled'
  <2>1. CASE i \in 1..Len(queue)
    <3>1. queue'[i] = queue[i]
      BY <1>0, <2>1, Grown
    <3>. QED
      BY <1>2, <2>1, <3>1 DEF DueInv, DueKept
  <2>2. CASE i \notin 1..Len(queue)
    <3>1. PICK k \in 1..Len(add) : queue'[i] = add[k]
      BY <1>0, <2>2, Grown
    <3>. QED
      BY <1>2, <3>1
  <2>. QED
    BY <2>1, <2>2
<1>. QED
  BY <1>1, <1>2 DEF DueInv

(* Signals other than demonitor, sent while nobody is destroyed.           *)
Others == {s \in Signal : s.kind # "demonitor"}

LEMMA ToPidIn ==
    ASSUME NEW S, NEW q, NEW s \in S PROVE ToPid(q, s) \in Seq(S)
BY FewSignals DEF ToPid

LEMMA OthersStep ==
    ASSUME DueInv, SpawnInv', DeathStep, StayMade, SameDead, DueKept,
           NEW add, add \in Seq(Others), queue' = queue \o add,
           \A r \in Ref : target[r] = NoPid /\ target'[r] # NoPid =>
              Due(r)' /\ phase'[watcher'[r]] # "none"
    PROVE  DueInv'
<1>1. \A k \in 1..Len(add) : add[k] \in Others
  BY ElementOfSeq
<1>2. add \in Seq(Signal)
  <2>1. Others \subseteq Signal
    BY DEF Others
  <2>. QED
    BY <2>1
<1>3. \A k \in 1..Len(add) : add[k].kind # "demonitor"
  BY <1>1 DEF Others
<1>4. ASSUME NEW r \in Ref, target[r] # NoPid, Watched(r)
      PROVE  phase'[target[r]] # "dead"
  <2>1. target[r] \in Pid
    BY <1>4 DEF DueInv, SpawnInv, DownInv, Types, TypeOK
  <2>. QED
    BY <1>4, <2>1 DEF Watched, SameDead
<1>. QED
  BY <1>2, <1>3, <1>4, DueGrowStep

LEMMA OthersSame ==
    ASSUME DueInv, SpawnInv', DeathStep, StayMade, SameDead,
           NEW add, add \in Seq(Others), queue' = queue \o add,
           UNCHANGED <<target, watcher, notified, late, cancelled, monitors>>
    PROVE  DueInv'
<1>1. DueKept
  BY DEF DueKept
<1>. QED
  BY <1>1, OthersStep

LEMMA DueSilent ==
    ASSUME DueInv, SpawnInv', DeathStep, StayMade, SameDead, queue' = queue,
           UNCHANGED <<target, watcher, notified, late, cancelled, monitors>>
    PROVE  DueInv'
<1>1. queue' = queue \o <<>> /\ <<>> \in Seq(Others)
  BY ConcatEmptySeq, EmptySeq DEF DueInv, SpawnInv, DownInv, Types, TypeOK
<1>. QED
  BY <1>1, OthersSame

(* What is sent in parts is one piece at the end of the queue.             *)
LEMMA TwoParts ==
    ASSUME NEW x \in Seq(Signal), NEW a \in Seq(Signal), NEW b \in Seq(Signal)
    PROVE  (x \o a) \o b = x \o (a \o b)
BY ConcatAssociative

LEMMA OthersMade ==
    /\ \A p, q \in Pid, m \in Message : RelaySig(p, q, m) \in Others
    /\ \A p, q \in Pid : LinkSig(p, q) \in Others /\ UnlinkSig(p, q) \in Others
    /\ \A p, q \in Pid, r \in Ref : MonitorSig(p, q, r) \in Others
    /\ \A p \in Pid \cup {System}, q \in Pid, why \in Reason :
          ExitSig(p, q, why) \in Others
    /\ \A p, q \in Pid, r \in Ref, why \in Reason :
          DownSig(p, q, r, why) \in Others
    /\ \A p \in Pid : GoSig(p) \in Others
<1> USE SignalsMade DEF Others
<1>1. /\ \A p, q \in Pid, m \in Message : RelaySig(p, q, m) \in Others
      /\ \A p, q \in Pid :
            LinkSig(p, q) \in Others /\ UnlinkSig(p, q) \in Others
  BY DEF RelaySig, LinkSig, UnlinkSig
<1>2. /\ \A p, q \in Pid, r \in Ref : MonitorSig(p, q, r) \in Others
      /\ \A p \in Pid : GoSig(p) \in Others
  BY DEF MonitorSig, GoSig
<1>3. \A p \in Pid \cup {System}, q \in Pid, why \in Reason :
         ExitSig(p, q, why) \in Others
  BY DEF ExitSig
<1>4. \A p, q \in Pid, r \in Ref, why \in Reason :
         DownSig(p, q, r, why) \in Others
  BY DEF DownSig
<1>. QED
  BY <1>1, <1>2, <1>3, <1>4

(* A fresh reference starts with its monitor signal, or with its DOWN if   *)
(* its watcher can be told anything.                                       *)
LEMMA MonitorDue ==
    ASSUME DueInv, SpawnInv', DeathStep, StayMade, SameDead,
           NEW p \in Pid, NEW q \in Pid, NEW r \in Ref,
           Monitor(p, q, r) \/ SpawnMonitor(p, q, r)
    PROVE  DueInv'
<1> USE DEF core, tables, history, monitoring, linking
<1>0. TypeOK /\ Made /\ DownInv /\ queue \in Seq(Signal)
  BY DEF DueInv, SpawnInv, DownInv, Types, TypeOK
<1>1. /\ target[r] = NoPid /\ NewRef(p, q, r)
      /\ monitors' = monitors /\ code[p] = "running"
      /\ UNCHANGED <<notified, late, cancelled>>
  BY DEF Monitor, SpawnMonitor, NewContext, NewRef, Runs
<1>2. \A x \in Ref : x # r => target'[x] = target[x] /\ watcher'[x] = watcher[x]
  BY <1>0, <1>1 DEF NewRef, TypeOK
<1>3. DueKept /\ watcher'[r] = p
  BY <1>0, <1>1, <1>2 DEF NewRef, TypeOK, DueKept
<1>4. phase'[watcher'[r]] # "none"
  BY <1>0, <1>1, <1>3 DEF Made, StayMade
<1>5. CASE Monitor(p, q, r) /\ ~Deliverable(q) /\ ~Deliverable(p)
  <2>1. queue' = queue \o <<>> /\ <<>> \in Seq(Others)
    BY <1>5, EmptySeq DEF Monitor, MonitorSignals, ToPid
  <2>2. phase[p] = "dead"
    BY <1>0, <1>1, <1>5 DEF Made, Deliverable, TypeOK
  <2>3. Due(r)'
    BY <1>3, <2>2 DEF Due, DeathStep
  <2>. QED
    BY <1>2, <1>3, <1>4, <2>1, <2>3, OthersStep
<1>6. CASE Monitor(p, q, r) /\ ~Deliverable(q) /\ Deliverable(p)
  <2>1. PICK add : /\ add = <<DownSig(q, p, r, "noproc")>>
                   /\ add \in Seq(Others) /\ queue' = queue \o add
    BY <1>6, OthersMade, FewSignals DEF Monitor, MonitorSignals, ToPid, Reason
  <2>2. 1 \in 1..Len(add) /\ add[1].kind = "down" /\ add[1].ref = r
    BY <2>1 DEF DownSig
  <2>3. add \in Seq(Signal)
    BY <2>1, SignalsMade, FewSignals DEF Reason
  <2>4. Due(r)'
    BY <1>0, <2>1, <2>2, <2>3, InQueueGrows DEF Due
  <2>. QED
    BY <1>2, <1>3, <1>4, <2>1, <2>4, OthersStep
<1>7. CASE SpawnMonitor(p, q, r) \/ (Monitor(p, q, r) /\ Deliverable(q))
  <2>1. PICK add : /\ \/ add = <<MonitorSig(p, q, r), GoSig(q)>>
                      \/ add = <<MonitorSig(p, q, r)>>
                   /\ add \in Seq(Others) /\ queue' = queue \o add
    BY <1>7, OthersMade, FewSignals DEF SpawnMonitor, Monitor, MonitorSignals
  <2>2. 1 \in 1..Len(add) /\ add[1].kind = "monitor" /\ add[1].ref = r
    BY <2>1 DEF MonitorSig
  <2>3. add \in Seq(Signal)
    BY <2>1, SignalsMade, FewSignals
  <2>4. Due(r)'
    BY <1>0, <2>1, <2>2, <2>3, InQueueGrows DEF Due
  <2>. QED
    BY <1>2, <1>3, <1>4, <2>1, <2>4, OthersStep
<1>. QED
  BY <1>5, <1>6, <1>7

LEMMA DemonitorDue ==
    ASSUME DueInv, SpawnInv', DeathStep, StayMade, SameDead,
           NEW p \in Pid, NEW r \in Ref, Demonitor(p, r)
    PROVE  DueInv'
<1> USE DEF core, tables
<1>0. TypeOK /\ \A x \in Pid : phase'[x] = "dead" <=> phase[x] = "dead"
  BY DEF DueInv, SpawnInv, DownInv, Types, SameDead
<1>1. target[r] \in Pid
  BY ProcessesAssumption
     DEF Demonitor, DueInv, SpawnInv, DownInv, Types, RefsKnown, TypeOK
<1>2. PICK add : add = ToPid(target[r], DemonitorSig(p, target[r], r))
                 /\ add \in Seq(Signal) /\ queue' = queue \o add
  BY <1>1, SignalsMade, ToPidType DEF Demonitor
<1>3. \A k \in 1..Len(add) : add[k].kind = "demonitor" /\ add[k].ref = r
  BY <1>2 DEF ToPid, DemonitorSig
<1>4. r \in cancelled' /\ DueKept /\ target' = target
  BY DEF Demonitor, DueKept
<1>5. ASSUME NEW x \in Ref, target[x] # NoPid, Watched(x)
      PROVE  phase'[target[x]] # "dead"
  <2>1. target[x] \in Pid
    BY <1>0, <1>5 DEF TypeOK
  <2>. QED
    BY <1>0, <1>5, <2>1 DEF Watched
<1>. QED
  BY <1>2, <1>3, <1>4, <1>5, DueGrowStep

LEMMA UserDue ==
    ASSUME DueInv, SpawnInv', UserStep PROVE DueInv'
<1>0. /\ TypeOK /\ queue \in Seq(Signal)
      /\ DeathStep /\ StayMade /\ SameDead
  BY UserDeath, UserMade DEF DueInv, SpawnInv, DownInv, Types, TypeOK
<1> USE <1>0 DEF core, tables, history, monitoring, linking
<1>1. ASSUME NEW p \in Pid, NEW q \in Pid, NEW m \in Message, Send(p, q, m)
      PROVE  DueInv'
  <2>1. ToPid(q, RelaySig(p, q, m)) \in Seq(Others)
    BY OthersMade, ToPidIn
  <2>. QED
    BY <1>1, <2>1, OthersSame DEF Send
<1>2. ASSUME NEW p \in Pid, NEW n \in Name, NEW m \in Message,
             SendToName(p, n, m)
      PROVE  DueInv'
  <2>1. CASE registrations[n] # NoPid
    <3>1. registrations[n] \in Pid
      BY <2>1 DEF TypeOK
    <3>2. ToPid(registrations[n], RelaySig(p, registrations[n], m))
             \in Seq(Others)
      BY <3>1, OthersMade, ToPidIn
    <3>. QED
      BY <1>2, <2>1, <3>2, OthersSame DEF SendToName
  <2>2. CASE registrations[n] = NoPid
    <3>1. ToPid(p, ExitSig(System, p, "badarg")) \in Seq(Others)
      BY OthersMade, ToPidIn DEF Reason
    <3>. QED
      BY <1>2, <2>2, <3>1, OthersSame DEF SendToName
  <2>. QED
    BY <2>1, <2>2
<1>3. ASSUME NEW p \in Pid, NEW q \in Pid, Link(p, q) PROVE DueInv'
  <2>1. ToPid(q, LinkSig(p, q)) \in Seq(Others)
        /\ ToPid(p, LinkSig(q, p)) \in Seq(Others)
    BY OthersMade, ToPidIn
  <2>2. LinkSignals(p, q) \in Seq(Others)
    BY <2>1, ConcatProperties DEF LinkSignals
  <2>. QED
    BY <1>3, <2>2, OthersSame DEF Link
<1>4. ASSUME NEW p \in Pid, NEW q \in Pid, Unlink(p, q) PROVE DueInv'
  <2>1. PICK a, b : /\ a = ToPid(q, UnlinkSig(p, q))
                    /\ b = ToPid(p, UnlinkSig(q, p))
    OBVIOUS
  <2>2. queue' = queue \o (a \o b)
    <3>1. a \in Seq(Signal) /\ b \in Seq(Signal)
      BY <2>1, SignalsMade, ToPidType
    <3>2. (queue \o a) \o b = queue \o (a \o b)
      BY <3>1, TwoParts
    <3>. QED
      BY <1>4, <2>1, <3>2 DEF Unlink
  <2>3. a \o b \in Seq(Others)
    <3>1. a \in Seq(Others) /\ b \in Seq(Others)
      BY <2>1, OthersMade, ToPidIn
    <3>. QED
      BY <3>1, ConcatProperties
  <2>. QED
    BY <1>4, <2>2, <2>3, OthersSame DEF Unlink
<1>5. ASSUME NEW p \in Pid, NEW q \in Pid, NEW why \in UserReason,
             Exit(p, q, why)
      PROVE  DueInv'
  <2>1. ToPid(q, ExitSig(p, q, why)) \in Seq(Others)
    BY OthersMade, ToPidIn DEF Reason
  <2>. QED
    BY <1>5, <2>1, OthersSame DEF Exit
<1>6. ASSUME NEW p \in Pid, NEW q \in Pid, Spawn(p, q) PROVE DueInv'
  <2>1. queue' = queue \o <<GoSig(q)>> /\ <<GoSig(q)>> \in Seq(Others)
    BY <1>6, OthersMade, SignalsMade, FewSignals, AppendIsConcat DEF Spawn
  <2>. QED
    BY <1>6, <2>1, OthersSame DEF Spawn, NewContext
<1>7. ASSUME NEW p \in Pid, NEW q \in Pid, SpawnLink(p, q) PROVE DueInv'
  <2>1. PICK a, b, c : /\ a = <<LinkSig(p, q)>> /\ b = ToPid(p, LinkSig(q, p))
                       /\ c = <<GoSig(q)>>
    OBVIOUS
  <2>2. queue' = queue \o ((a \o b) \o c)
    <3>1. a \in Seq(Signal) /\ b \in Seq(Signal) /\ c \in Seq(Signal)
      BY <2>1, SignalsMade, FewSignals, ToPidType
    <3>2. PICK ab : ab = a \o b /\ ab \in Seq(Signal)
      BY <3>1, ConcatProperties
    <3>6. queue \in Seq(Signal) /\ ab \in Seq(Signal)
      BY <3>2
    <3>3. (queue \o a) \o b = queue \o ab
      <4>1. (queue \o a) \o b = queue \o (a \o b)
        BY <3>1, <3>6, TwoParts
      <4>. QED
        BY <3>2, <4>1
    <3>4. (queue \o ab) \o c = queue \o (ab \o c)
      BY <3>1, <3>6, TwoParts
    <3>5. queue' = ((queue \o a) \o b) \o c
      BY <1>7, <2>1 DEF SpawnLink
    <3>. QED
      BY <3>2, <3>3, <3>4, <3>5
  <2>3. (a \o b) \o c \in Seq(Others)
    <3>1. a \in Seq(Others) /\ b \in Seq(Others) /\ c \in Seq(Others)
      BY <2>1, OthersMade, FewSignals, ToPidIn
    <3>. QED
      BY <3>1, ConcatProperties
  <2>. QED
    BY <1>7, <2>2, <2>3, OthersSame DEF SpawnLink, NewContext
<1>8. ASSUME NEW p \in Pid, NEW why, Die(p, why) \/ Finish(p, why)
      PROVE  DueInv'
  BY <1>8, DueSilent DEF Die, Finish
<1>9. ASSUME NEW p \in Pid, TrapExit(p) \/ Receive(p) PROVE DueInv'
  BY <1>9, DueSilent DEF TrapExit, Receive
<1>10. ASSUME NEW p \in Pid, NEW n \in Name, Register(p, n) \/ Unregister(p, n)
       PROVE  DueInv'
  BY <1>10, DueSilent DEF Register, Unregister
<1>. QED
  BY <1>1, <1>2, <1>3, <1>4, <1>5, <1>6, <1>7, <1>8, <1>9, <1>10,
     MonitorDue, DemonitorDue DEF UserStep

(* destroy leaves nobody out.                                              *)
LEMMA OrderCovers ==
    ASSUME NEW S, IsFiniteSet(S), NEW s \in SetToSeqs(S), NEW x \in S
    PROVE  \E i \in 1..Len(s) : s[i] = x
<1>1. PICK n : n = Cardinality(S) /\ n \in Nat
  BY FS_CardinalityType
<1>2. s \in [1..n -> S] /\ \A i, j \in 1..n : i # j => s[i] # s[j]
  BY <1>1 DEF SetToSeqs
<1>3. IsFiniteSet(1..n) /\ Cardinality(1..n) = n
  BY <1>1, FS_Interval
<1>4. s \in Injection(1..n, S)
  BY <1>2 DEF Injection, IsInjective
<1>5. s \in Surjection(1..n, S)
  BY <1>1, <1>3, <1>4, FS_Injection
<1>6. \E i \in 1..n : s[i] = x
  BY <1>5 DEF Surjection
<1>7. s \in Seq(S)
  BY <1>1, <1>2, SeqDef
<1>8. Len(s) = n
  BY <1>1, <1>2, <1>7, LenProperties
<1>. QED
  BY <1>6, <1>8

(* What destroy appends: every DOWN and every EXIT that is due.            *)
LEMMA DestroyAppends ==
    ASSUME TypeOK, NEW p \in Pid, Destroy(p)
    PROVE  \E add \in Seq(Signal) :
              /\ queue' = queue \o add
              /\ \A k \in 1..Len(add) : add[k] \in Downs(p) \cup Exits(p)
              /\ \A x \in Downs(p) \cup Exits(p) :
                    \E k \in 1..Len(add) : add[k] = x
<1>1. PICK downs \in SetToSeqs(Downs(p)), exs \in SetToSeqs(Exits(p)) :
          queue' = queue \o downs \o exs
  BY DEF Destroy
<1>2. /\ downs \in Seq(Signal) /\ Len(downs) \in Nat
      /\ \A i \in 1..Len(downs) : downs[i] \in Downs(p)
      /\ \A x \in Downs(p) : \E i \in 1..Len(downs) : downs[i] = x
  BY DownsFinite, OrderProperties, OrderCovers, LenProperties
<1>3. /\ exs \in Seq(Signal) /\ Len(exs) \in Nat
      /\ \A i \in 1..Len(exs) : exs[i] \in Exits(p)
      /\ \A x \in Exits(p) : \E i \in 1..Len(exs) : exs[i] = x
  BY ExitsFinite, OrderProperties, OrderCovers, LenProperties
<1>4. PICK add : add = downs \o exs
  OBVIOUS
<1>5. /\ add \in Seq(Signal) /\ Len(add) = Len(downs) + Len(exs)
      /\ \A i \in 1..Len(downs) + Len(exs) : add[i] =
            IF i <= Len(downs) THEN downs[i] ELSE exs[i - Len(downs)]
  BY <1>2, <1>3, <1>4, ConcatProperties
<1>6. queue' = queue \o add
  <2>1. queue \in Seq(Signal)
    BY DEF TypeOK
  <2>. QED
    BY <1>1, <1>2, <1>3, <1>4, <2>1, TwoParts
<1>7. ASSUME NEW k \in 1..Len(add) PROVE add[k] \in Downs(p) \cup Exits(p)
  <2>1. CASE k <= Len(downs)
    BY <1>2, <1>5, <2>1
  <2>2. CASE k > Len(downs)
    <3>1. k - Len(downs) \in 1..Len(exs) /\ add[k] = exs[k - Len(downs)]
      BY <1>2, <1>3, <1>5, <2>2
    <3>. QED
      BY <1>3, <3>1
  <2>. QED
    BY <1>2, <1>3, <1>5, <2>1, <2>2
<1>8. ASSUME NEW x \in Downs(p) PROVE \E k \in 1..Len(add) : add[k] = x
  <2>1. PICK i \in 1..Len(downs) : downs[i] = x
    BY <1>2
  <2>2. i \in 1..Len(add) /\ add[i] = downs[i]
    BY <1>2, <1>3, <1>5
  <2>. QED
    BY <2>1, <2>2
<1>9. ASSUME NEW x \in Exits(p) PROVE \E k \in 1..Len(add) : add[k] = x
  <2>1. PICK i \in 1..Len(exs) : exs[i] = x
    BY <1>3
  <2>2. PICK k : k = Len(downs) + i /\ k \in 1..Len(add) /\ k > Len(downs)
                 /\ k - Len(downs) = i
    BY <1>2, <1>3, <1>5
  <2>3. add[k] = exs[i]
    BY <1>2, <1>3, <1>5, <2>2
  <2>. QED
    BY <2>1, <2>2, <2>3
<1>. QED
  BY <1>5, <1>6, <1>7, <1>8, <1>9

LEMMA DestroyDue ==
    ASSUME DueInv, SpawnInv', NEW p \in Pid, Destroy(p) PROVE DueInv'
<1>0. TypeOK /\ DeathStep /\ Made
  BY MicrotaskDeath DEF DueInv, SpawnInv, DownInv, Types, Microtask
<1>1. PICK add \in Seq(Signal) :
          /\ queue' = queue \o add
          /\ \A k \in 1..Len(add) : add[k] \in Downs(p) \cup Exits(p)
          /\ \A x \in Downs(p) \cup Exits(p) :
                \E k \in 1..Len(add) : add[k] = x
  BY <1>0, DestroyAppends
<1>2. \A k \in 1..Len(add) : add[k].kind # "demonitor"
  BY <1>1 DEF Downs, Exits, DownSig, ExitSig
<1>3. /\ phase' = [phase EXCEPT ![p] = "dead"]
      /\ UNCHANGED <<monitors, target, watcher, notified, late, cancelled>>
  BY DEF Destroy, tables, history, monitoring
<1>4. ASSUME NEW r \in Ref, target[r] # NoPid, Watched(r),
             phase'[target[r]] = "dead"
      PROVE  \/ phase'[watcher[r]] = "dead"
             \/ \E k \in 1..Len(add) : add[k].kind = "down" /\ add[k].ref = r
  <2>1. target[r] \in Pid /\ watcher[r] \in Pid
    BY <1>0, <1>4 DEF DueInv, SpawnInv, DownInv, Types, RefsKnown, TypeOK
  <2>2. target[r] = p
    BY <1>0, <1>3, <1>4, <2>1 DEF Watched, TypeOK
  <2>3. PICK m \in monitors[p] : m.ref = r /\ m.watcher = watcher[r]
    BY <1>4, <2>2 DEF Watched
  <2>4. CASE watcher[r] = p
    BY <1>0, <1>3, <2>4 DEF TypeOK
  <2>5. CASE watcher[r] # p /\ Deliverable(watcher[r])
    <3>1. DownSig(p, watcher[r], r, reason[p]) \in Downs(p)
      BY <2>3, <2>5 DEF Downs
    <3>2. PICK k \in 1..Len(add) : add[k] = DownSig(p, watcher[r], r, reason[p])
      BY <1>1, <3>1
    <3>. QED
      BY <3>2 DEF DownSig
  <2>6. CASE ~Deliverable(watcher[r])
    <3>1. phase[watcher[r]] = "dead"
      BY <1>0, <1>4, <2>1, <2>6 DEF DueInv, Deliverable, TypeOK
    <3>. QED
      BY <1>0, <2>1, <3>1 DEF DeathStep
  <2>. QED
    BY <2>4, <2>5, <2>6
<1>5. DueKept /\ StayMade /\ target' = target
  <2>1. DueKept
    BY <1>3 DEF DueKept
  <2>2. phase \in [Pid -> {"none", "alive", "dying", "dead"}]
    BY <1>0 DEF TypeOK
  <2>3. StayMade
    BY <1>3, <2>2 DEF StayMade
  <2>. QED
    BY <1>3, <2>1, <2>3
<1>6. add \in Seq(Signal) /\ queue' = queue \o add
  BY <1>1
<1>7. \A r \in Ref : target[r] = NoPid /\ target'[r] # NoPid =>
         Due(r)' /\ phase'[watcher'[r]] # "none"
  BY <1>5
<1>. QED
  BY <1>0, <1>2, <1>4, <1>5, <1>6, <1>7, DueGrowStep

(* The handlers.                                                           *)
LEMMA InQueueHandled ==
    ASSUME TypeOK, queue # <<>>, queue' = Tail(queue),
           NEW s, s = Head(queue), NEW kind, NEW r, InQueue(kind, r)
    PROVE  InQueue(kind, r)' \/ (s.kind = kind /\ s.ref = r)
<1>1. PICK i \in 1..Len(queue) : queue[i].kind = kind /\ queue[i].ref = r
  BY DEF InQueue
<1>2. /\ Len(queue) \in Nat /\ Len(queue') = Len(queue) - 1
      /\ \A j \in 1..Len(queue') : queue'[j] = queue[j + 1]
      /\ s = queue[1]
  BY Popped
<1>3. CASE i = 1
  BY <1>1, <1>2, <1>3
<1>4. CASE i # 1
  <2>1. i - 1 \in 1..Len(queue') /\ (i - 1) + 1 = i
    BY <1>1, <1>2, <1>4
  <2>2. queue'[i - 1] = queue[i]
    BY <1>2, <2>1
  <2>. QED
    BY <1>1, <2>1, <2>2 DEF InQueue
<1>. QED
  BY <1>3, <1>4

LEMMA DueHandleStep ==
    ASSUME DueInv, SpawnInv', queue # <<>>, queue' = Tail(queue),
           DeathStep, StayMade, SameDead, NEW s, s = Head(queue),
           UNCHANGED <<target, watcher, cancelled>>,
           notified \subseteq notified', late \subseteq late',
           s.kind = "down" => s.ref \in notified',
           s.kind = "monitor" =>
              s.ref \in late' \/ (s.ref \in Ref => Watched(s.ref)'),
           \A r \in Ref : target[r] # NoPid /\ Watched(r)
              => Watched(r)' \/ r \in cancelled
    PROVE  DueInv'
<1>0. TypeOK
  BY DEF DueInv, SpawnInv, DownInv, Types
<1>1. ASSUME NEW r \in Ref, target'[r] # NoPid
      PROVE  Due(r)' /\ phase'[watcher'[r]] # "none"
  <2>1. Due(r) /\ phase[watcher[r]] # "none" /\ watcher[r] \in Pid
    BY <1>1 DEF DueInv, SpawnInv, DownInv, Types, RefsKnown, TypeOK
  <2>2. Due(r)'
    <3>1. CASE r \in notified \cup late \cup cancelled
      BY <3>1 DEF Due
    <3>2. CASE phase[watcher[r]] = "dead"
      BY <2>1, <3>2 DEF Due, DeathStep
    <3>3. CASE InQueue("down", r)
      <4>1. InQueue("down", r)' \/ (s.kind = "down" /\ s.ref = r)
        BY <1>0, <3>3, InQueueHandled
      <4>. QED
        BY <4>1 DEF Due
    <3>4. CASE InQueue("monitor", r)
      <4>1. InQueue("monitor", r)' \/ (s.kind = "monitor" /\ s.ref = r)
        BY <1>0, <3>4, InQueueHandled
      <4>. QED
        BY <4>1 DEF Due
    <3>5. CASE Watched(r)
      BY <1>1, <3>5 DEF Due
    <3>. QED
      BY <2>1, <3>1, <3>2, <3>3, <3>4, <3>5 DEF Due
  <2>. QED
    BY <2>1, <2>2 DEF StayMade
<1>2. ASSUME NEW i \in 1..Len(queue'), queue'[i].kind = "demonitor"
      PROVE  queue'[i].ref \in cancelled'
  <2>1. i + 1 \in 1..Len(queue) /\ queue'[i] = queue[i + 1]
    BY <1>0, Popped
  <2>. QED
    BY <1>2, <2>1 DEF DueInv
<1>. QED
  BY <1>1, <1>2 DEF DueInv

LEMMA TickDue ==
    ASSUME DueInv, SpawnInv', Tick PROVE DueInv'
<1> USE DEF tables, history, monitoring, linking
<1>0. TypeOK /\ DeathStep /\ SameDead
  BY TickDeath DEF DueInv, SpawnInv, DownInv, Types
<1>1. queue # <<>> /\ queue' = Tail(queue)
  BY DEF Tick, OnGo, OnRelay, OnLink, OnUnlink, OnMonitor, OnDemonitor,
         OnExit, OnDown, Fires
<1>2. PICK s : /\ s = Head(queue) /\ s = queue[1] /\ s \in Signal
               /\ s.to \in Pid /\ 1 \in 1..Len(queue)
  BY <1>0, <1>1, Popped, SignalFields
<1>3. StayMade
  <2>1. CASE OnExit
    BY <1>0, <1>2, <2>1, ResolveMade DEF OnExit, StayMade
  <2>2. CASE phase' = phase
    BY <2>2 DEF StayMade
  <2>. QED
    BY <2>1, <2>2 DEF Tick, OnGo, OnRelay, OnLink, OnUnlink, OnMonitor,
       OnDemonitor, OnDown
<1>4. ASSUME NEW r \in Ref, target[r] # NoPid, Watched(r),
             UNCHANGED <<target, watcher>>,
             [ref |-> r, watcher |-> watcher[r]] \in monitors'[target[r]]
      PROVE  Watched(r)'
  <2>1. target[r] \in Pid
    BY <1>0, <1>4 DEF TypeOK
  <2>. QED
    BY <1>0, <1>4, <2>1 DEF Watched, SameDead
<1>5. CASE OnGo \/ OnRelay \/ OnLink \/ OnUnlink \/ OnExit
  <2>1. /\ UNCHANGED <<target, watcher, cancelled, notified, late, monitors>>
        /\ s.kind \notin {"down", "monitor"}
    BY <1>2, <1>5 DEF OnGo, OnRelay, OnLink, OnUnlink, OnExit, Fires
  <2>2. \A r \in Ref : target[r] # NoPid /\ Watched(r) => Watched(r)'
    BY <1>4, <2>1 DEF Watched
  <2>. QED
    BY <1>0, <1>1, <1>2, <1>3, <2>1, <2>2, DueHandleStep
<1>6. CASE OnDown
  <2>1. /\ UNCHANGED <<target, watcher, cancelled, late, monitors>>
        /\ s.kind = "down" /\ notified' = notified \cup {s.ref}
    BY <1>2, <1>6 DEF OnDown, Fires
  <2>2. \A r \in Ref : target[r] # NoPid /\ Watched(r) => Watched(r)'
    BY <1>4, <2>1 DEF Watched
  <2>. QED
    BY <1>0, <1>1, <1>2, <1>3, <2>1, <2>2, DueHandleStep
<1>7. CASE OnMonitor
  <2>1. /\ UNCHANGED <<target, watcher, cancelled, notified, phase>>
        /\ s.kind = "monitor"
        /\ monitors' = [monitors EXCEPT ![s.to] =
                            @ \cup {[ref |-> s.ref, watcher |-> s.from]}]
        /\ late' = IF Deliverable(s.to) THEN late ELSE late \cup {s.ref}
    BY <1>2, <1>7 DEF OnMonitor, Fires
  <2>2. /\ \A x \in Pid : monitors[x] \subseteq monitors'[x]
        /\ [ref |-> s.ref, watcher |-> s.from] \in monitors'[s.to]
    <3>1. monitors \in [Pid -> SUBSET [ref : Ref, watcher : Pid]]
      BY <1>0 DEF TypeOK
    <3>. QED
      BY <1>2, <2>1, <3>1
  <2>3. \A r \in Ref : target[r] # NoPid /\ Watched(r) => Watched(r)'
    <3>1. \A r \in Ref : target[r] # NoPid => target[r] \in Pid
      BY <1>0 DEF TypeOK
    <3>. QED
      BY <1>4, <2>1, <2>2, <3>1 DEF Watched
  <2>4. s.ref \in late' \/ Watched(s.ref)'
    <3>1. target[s.ref] = s.to /\ watcher[s.ref] = s.from
      BY <1>2, <2>1 DEF DueInv, SpawnInv, DownInv, MonitorsKnown
    <3>2. CASE Deliverable(s.to)
      <4>1. phase'[s.to] # "dead"
        BY <2>1, <3>2 DEF Deliverable
      <4>. QED
        BY <2>1, <2>2, <3>1, <4>1 DEF Watched
    <3>3. CASE ~Deliverable(s.to)
      BY <2>1, <3>3
    <3>. QED
      BY <3>2, <3>3
  <2>5. late \subseteq late'
    BY <2>1
  <2>. QED
    BY <1>0, <1>1, <1>2, <1>3, <2>1, <2>3, <2>4, <2>5, DueHandleStep
<1>8. CASE OnDemonitor
  <2>1. /\ UNCHANGED <<target, watcher, cancelled, notified, late, phase>>
        /\ s.kind = "demonitor"
        /\ monitors' = [monitors EXCEPT ![s.to] = {m \in @ : m.ref # s.ref}]
    BY <1>2, <1>8 DEF OnDemonitor, Fires
  <2>2. s.ref \in cancelled
    BY <1>2, <2>1 DEF DueInv
  <2>3. \A x \in Pid : \A m \in monitors[x] :
           m.ref # s.ref => m \in monitors'[x]
    <3>1. monitors \in [Pid -> SUBSET [ref : Ref, watcher : Pid]]
      BY <1>0 DEF TypeOK
    <3>. QED
      BY <1>2, <2>1, <3>1
  <2>4. ASSUME NEW r \in Ref, target[r] # NoPid, Watched(r)
        PROVE  Watched(r)' \/ r \in cancelled
    <3>1. target[r] \in Pid
      BY <1>0, <2>4 DEF TypeOK
    <3>2. CASE r = s.ref
      BY <2>2, <3>2
    <3>3. CASE r # s.ref
      <4>1. [ref |-> r, watcher |-> watcher[r]] \in monitors'[target[r]]
        BY <2>3, <2>4, <3>1, <3>3 DEF Watched
      <4>. QED
        BY <1>4, <2>1, <2>4, <4>1
    <3>. QED
      BY <3>2, <3>3
  <2>. QED
    BY <1>0, <1>1, <1>2, <1>3, <2>1, <2>4, DueHandleStep
<1>. QED
  BY <1>5, <1>6, <1>7, <1>8 DEF Tick

LEMMA DueInvInit == Init => DueInv
<1> SUFFICES ASSUME Init PROVE DueInv
  OBVIOUS
<1>1. queue = <<>> /\ \A r \in Ref : target[r] = NoPid
  BY DEF Init
<1>2. 1..Len(queue) = {}
  BY <1>1
<1>. QED
  BY <1>1, <1>2, SpawnInvInit DEF DueInv

LEMMA DueInvStep == DueInv /\ [Next]_vars => DueInv'
<1> SUFFICES ASSUME DueInv, [Next]_vars PROVE DueInv'
  OBVIOUS
<1>0. SpawnInv' /\ TypeOK
  BY SpawnInvStep DEF DueInv, SpawnInv, DownInv, Types
<1>1. ASSUME UNCHANGED <<queue, phase, reason, target, watcher, notified, late,
                         cancelled, monitors>>
      PROVE  DueInv'
  <2>1. DeathStep /\ SameDead /\ StayMade
    BY <1>1 DEF DeathStep, SameDead, StayMade
  <2>. QED
    BY <1>0, <1>1, <2>1, DueSilent
<1>2. ASSUME NEW p \in Pid, Cleanup(p) PROVE DueInv'
  BY <1>1, <1>2 DEF Cleanup, core, history, monitoring
<1>3. CASE UNCHANGED vars
  BY <1>1, <1>3 DEF vars, core, tables, history, monitoring
<1>. QED
  BY <1>0, <1>2, <1>3, UserDue, DestroyDue, TickDue DEF Next, Microtask

(* A living watcher of a dead process has its DOWN once everything is      *)
(* handled, unless it cancelled or its monitor signal came too late.       *)
THEOREM DownsAreNotLost == Spec => []DownLostOnlyByRace
<1>1. DueInv => DownLostOnlyByRace
  <2> SUFFICES ASSUME DueInv, Quiet, NEW r \in Ref, target[r] # NoPid,
                      phase[target[r]] = "dead", phase[watcher[r]] = "alive"
               PROVE  r \in notified \cup late \cup cancelled
    BY DEF DownLostOnlyByRace
  <2>1. Due(r) /\ 1..Len(queue) = {}
    BY DEF DueInv, Quiet
  <2>. QED
    BY <2>1 DEF Due, InQueue, Watched
<1>. QED
  BY <1>1, DueInvInit, DueInvStep, PTL DEF Spec

-----------------------------------------------------------------------------
(* Links: what the signals at the end of the queue, and the one that is    *)
(* handled, do to what will be.                                            *)
LEMMA Longer ==
    ASSUME NEW s \in Seq(Signal), NEW add \in Seq(Signal), NEW u, u = s \o add
    PROVE  /\ Len(s) \in Nat /\ Len(add) \in Nat
           /\ Len(u) = Len(s) + Len(add)
           /\ \A i \in 1..Len(s) : i \in 1..Len(u) /\ u[i] = s[i]
           /\ \A k \in 1..Len(add) :
                 Len(s) + k \in 1..Len(u) /\ u[Len(s) + k] = add[k]
           /\ \A i \in 1..Len(u) : i \notin 1..Len(s) =>
                 \E k \in 1..Len(add) : i = Len(s) + k /\ u[i] = add[k]
<1>1. Len(s) \in Nat /\ Len(add) \in Nat
  BY LenProperties
<1>2. /\ Len(u) = Len(s) + Len(add)
      /\ \A i \in 1..Len(s) + Len(add) : u[i] =
            IF i <= Len(s) THEN s[i] ELSE add[i - Len(s)]
  BY ConcatProperties
<1>3. ASSUME NEW k \in 1..Len(add)
      PROVE  Len(s) + k \in 1..Len(u) /\ u[Len(s) + k] = add[k]
  <2>1. /\ Len(s) + k \in 1..Len(s) + Len(add)
        /\ ~(Len(s) + k <= Len(s)) /\ (Len(s) + k) - Len(s) = k
    BY <1>1
  <2>. QED
    BY <1>2, <2>1
<1>4. ASSUME NEW i \in 1..Len(u), i \notin 1..Len(s)
      PROVE  \E k \in 1..Len(add) : i = Len(s) + k /\ u[i] = add[k]
  <2>1. PICK k : k = i - Len(s)
    OBVIOUS
  <2>2. k \in 1..Len(add) /\ i = Len(s) + k
    BY <1>1, <1>2, <1>4, <2>1
  <2>. QED
    BY <1>3, <2>2
<1>5. \A i \in 1..Len(s) : i \in 1..Len(u) /\ u[i] = s[i]
  <2>1. \A i \in 1..Len(s) : i \in 1..Len(s) + Len(add) /\ i <= Len(s)
    BY <1>1
  <2>. QED
    BY <1>2, <2>1
<1>. QED
  BY <1>1, <1>2, <1>3, <1>4, <1>5, Zenon

Touches(add, p, q) == \E k \in 1..Len(add) : About(add[k], p, q)

LEMMA WillUntouched ==
    ASSUME NEW s \in Seq(Signal), NEW add \in Seq(Signal), NEW u, u = s \o add,
           NEW has, NEW p, NEW q, ~Touches(add, p, q)
    PROVE  Will(u, has, p, q) <=> Will(s, has, p, q)
<1>1. LinkPlaces(u, p, q) = LinkPlaces(s, p, q)
  <2>1. ASSUME NEW i \in LinkPlaces(u, p, q) PROVE i \in LinkPlaces(s, p, q)
    <3>1. i \in 1..Len(u) /\ About(u[i], p, q)
      BY DEF LinkPlaces
    <3>2. i \in 1..Len(s)
      BY <3>1, Longer DEF Touches
    <3>3. u[i] = s[i]
      BY <3>2, Longer
    <3>. QED
      BY <3>1, <3>2, <3>3 DEF LinkPlaces
  <2>2. ASSUME NEW i \in LinkPlaces(s, p, q) PROVE i \in LinkPlaces(u, p, q)
    <3>1. i \in 1..Len(s) /\ About(s[i], p, q)
      BY DEF LinkPlaces
    <3>2. i \in 1..Len(u) /\ u[i] = s[i]
      BY <3>1, Longer
    <3>. QED
      BY <3>1, <3>2 DEF LinkPlaces
  <2>. QED
    BY <2>1, <2>2
<1>2. \A i \in LinkPlaces(s, p, q) : u[i] = s[i]
  BY Longer DEF LinkPlaces
<1>. QED
  BY <1>1, <1>2 DEF Will

LEMMA WillTouched ==
    ASSUME NEW s \in Seq(Signal), NEW add \in Seq(Signal), NEW u, u = s \o add,
           NEW has, NEW p, NEW q,
           NEW k \in 1..Len(add), About(add[k], p, q),
           \A j \in 1..Len(add) : About(add[j], p, q) => j <= k
    PROVE  Will(u, has, p, q) <=> add[k].kind = "link"
<1>1. PICK l : l = Len(s) + k
  OBVIOUS
<1>2. l \in LinkPlaces(u, p, q) /\ u[l] = add[k] /\ Len(s) \in Nat
  BY <1>1, Longer DEF LinkPlaces
<1>3. ASSUME NEW j \in LinkPlaces(u, p, q) PROVE j <= l
  <2>1. j \in 1..Len(u) /\ About(u[j], p, q)
    BY DEF LinkPlaces
  <2>2. CASE j \in 1..Len(s)
    BY <1>1, <1>2, <2>2
  <2>3. CASE j \notin 1..Len(s)
    <3>1. PICK m \in 1..Len(add) : j = Len(s) + m /\ u[j] = add[m]
      BY <2>1, <2>3, Longer
    <3>2. m <= k
      BY <2>1, <3>1
    <3>. QED
      BY <1>1, <1>2, <3>1, <3>2, Longer
  <2>. QED
    BY <2>2, <2>3
<1>4. \A i \in LinkPlaces(u, p, q) :
         (\A j \in LinkPlaces(u, p, q) : j <= i) => i = l
  <2>1. \A i \in LinkPlaces(u, p, q) : i \in Int
    BY <1>1, Longer DEF LinkPlaces
  <2>. QED
    BY <1>2, <1>3, <2>1
<1>. QED
  BY <1>2, <1>3, <1>4 DEF Will

LEMMA WillHandled ==
    ASSUME NEW s \in Seq(Signal), s # <<>>, NEW u, u = Tail(s),
           NEW x, x = Head(s), NEW p, NEW q,
           NEW had, NEW has,
           q \in has <=> IF About(x, p, q) THEN x.kind = "link" ELSE q \in had
    PROVE  Will(u, has, p, q) <=> Will(s, had, p, q)
<1>1. /\ Len(s) \in Nat /\ Len(s) > 0 /\ Len(u) = Len(s) - 1 /\ x = s[1]
      /\ \A i \in 1..Len(u) : u[i] = s[i + 1]
  BY LenProperties, HeadTailProperties, EmptySeq
<1>2. ASSUME NEW i \in Int
      PROVE  i \in LinkPlaces(u, p, q) <=>
                i + 1 \in LinkPlaces(s, p, q) /\ i # 0
  <2>1. i \in 1..Len(u) <=> i + 1 \in 1..Len(s) /\ i # 0
    BY <1>1
  <2>. QED
    BY <1>1, <2>1 DEF LinkPlaces
<1>3. 1 \in LinkPlaces(s, p, q) <=> About(x, p, q)
  BY <1>1 DEF LinkPlaces
<1>4. /\ \A i \in LinkPlaces(s, p, q) : i \in Int /\ i - 1 \in Int /\ i > 0
      /\ \A i \in LinkPlaces(u, p, q) : i \in Int /\ i > 0
  BY <1>1 DEF LinkPlaces
<1>5. CASE LinkPlaces(u, p, q) = {}
  <2>1. \A i \in LinkPlaces(s, p, q) : i = 1
    <3>1. ASSUME NEW i \in LinkPlaces(s, p, q), i # 1 PROVE FALSE
      <4>1. PICK j : j = i - 1 /\ j \in Int /\ j # 0 /\ j + 1 = i
        BY <1>4, <3>1
      <4>. QED
        BY <1>2, <1>5, <4>1
    <3>. QED
      BY <3>1
  <2>2. CASE About(x, p, q)
    <3>1. LinkPlaces(s, p, q) = {1}
      BY <1>3, <2>1, <2>2
    <3>. QED
      BY <1>1, <1>5, <2>2, <3>1 DEF Will
  <2>3. CASE ~About(x, p, q)
    <3>1. LinkPlaces(s, p, q) = {}
      BY <1>3, <2>1, <2>3
    <3>. QED
      BY <1>5, <2>3, <3>1 DEF Will
  <2>. QED
    BY <2>2, <2>3
<1>6. CASE LinkPlaces(u, p, q) # {}
  <2>1. PICK i \in LinkPlaces(u, p, q) : TRUE
    BY <1>6
  <2>2. i + 1 \in LinkPlaces(s, p, q) /\ i \in Int /\ i > 0
    BY <1>2, <1>4, <2>1
  <2>3. ASSUME Will(u, has, p, q) PROVE Will(s, had, p, q)
    <3>1. PICK l \in LinkPlaces(u, p, q) :
              u[l].kind = "link" /\ \A j \in LinkPlaces(u, p, q) : j <= l
      BY <1>6, <2>3 DEF Will
    <3>2. /\ l \in Int /\ l > 0 /\ l + 1 \in LinkPlaces(s, p, q)
          /\ s[l + 1].kind = "link"
      BY <1>1, <1>2, <1>4, <3>1 DEF LinkPlaces
    <3>3. ASSUME NEW j \in LinkPlaces(s, p, q) PROVE j <= l + 1
      <4>1. CASE j = 1
        BY <3>2, <4>1
      <4>2. CASE j # 1
        <5>1. PICK m : m = j - 1 /\ m \in Int /\ m # 0 /\ m + 1 = j
          BY <1>4, <4>2
        <5>2. m \in LinkPlaces(u, p, q)
          BY <1>2, <5>1
        <5>3. m <= l
          BY <3>1, <5>2
        <5>. QED
          BY <3>2, <5>1, <5>3
      <4>. QED
        BY <4>1, <4>2
    <3>. QED
      BY <3>2, <3>3 DEF Will
  <2>4. ASSUME Will(s, had, p, q) PROVE Will(u, has, p, q)
    <3>1. PICK l \in LinkPlaces(s, p, q) :
              s[l].kind = "link" /\ \A j \in LinkPlaces(s, p, q) : j <= l
      BY <2>2, <2>4 DEF Will
    <3>2. i + 1 <= l /\ l \in Int
      BY <1>4, <2>2, <3>1
    <3>3. PICK m : m = l - 1 /\ m \in Int /\ m # 0 /\ m + 1 = l
      BY <2>2, <3>2
    <3>4. m \in LinkPlaces(u, p, q) /\ u[m].kind = "link"
      <4>1. m \in LinkPlaces(u, p, q)
        BY <1>2, <3>1, <3>3
      <4>2. u[m] = s[l]
        BY <1>1, <3>3, <4>1 DEF LinkPlaces
      <4>. QED
        BY <3>1, <4>1, <4>2
    <3>5. ASSUME NEW j \in LinkPlaces(u, p, q) PROVE j <= m
      <4>1. j \in Int /\ j + 1 \in LinkPlaces(s, p, q)
        BY <1>2, <1>4
      <4>2. j + 1 <= l
        BY <3>1, <4>1
      <4>. QED
        BY <3>3, <4>1, <4>2
    <3>. QED
      BY <3>4, <3>5 DEF Will
  <2>. QED
    BY <2>3, <2>4
<1>. QED
  BY <1>5, <1>6

-----------------------------------------------------------------------------
(* The invariant of links under a step that appends.                       *)
LEMMA UnmadeWithoutLinks ==
    ASSUME LinkInv, NEW x \in Pid, NEW y \in Pid, phase[x] = "none"
    PROVE  ~WillLink(x, y) /\ ~WillLink(y, x)
<1>1. y \notin links[x] /\ x \notin links[y]
  BY DEF LinkInv, LinksMade
<1>2. LinkPlaces(queue, x, y) = {} /\ LinkPlaces(queue, y, x) = {}
  BY DEF LinkPlaces, About, LinkInv, LinksMade, SpawnInv, Made
<1>. QED
  BY <1>1, <1>2 DEF WillLink, Will

LEMMA ToldGrows ==
    ASSUME TypeOK, NEW add \in Seq(Signal), queue' = queue \o add,
           exits \subseteq exits', orphaned \subseteq orphaned',
           NEW x, NEW y
    PROVE  /\ Told(x, y) => Told(x, y)'
           /\ \A k \in 1..Len(add) :
                 /\ add[k].kind = "exit" /\ add[k].to = x /\ add[k].from = y
                 => Told(x, y)'
<1>1. /\ \A i \in 1..Len(queue) : i \in 1..Len(queue') /\ queue'[i] = queue[i]
      /\ \A k \in 1..Len(add) : Len(queue) + k \in 1..Len(queue')
                                /\ queue'[Len(queue) + k] = add[k]
  BY Longer DEF TypeOK
<1>2. ASSUME Told(x, y) PROVE Told(x, y)'
  BY <1>1, <1>2 DEF Told
<1>3. ASSUME NEW k \in 1..Len(add),
             add[k].kind = "exit", add[k].to = x, add[k].from = y
      PROVE  Told(x, y)'
  BY <1>1, <1>3 DEF Told
<1>. QED
  BY <1>2, <1>3

LEMMA LinkGrowStep ==
    ASSUME LinkInv, SpawnInv', StayMade,
           NEW add \in Seq(Signal), queue' = queue \o add,
           exits \subseteq exits', orphaned \subseteq orphaned',
           \A x \in Pid : Deliverable(x)' =>
              (Deliverable(x) \/ phase[x] = "none") /\ links'[x] = links[x],
           \A x \in Pid : links'[x] \subseteq links[x],
           \A x \in Pid : phase'[x] = "none" => phase[x] = "none",
           \A k \in 1..Len(add) : add[k].kind \in {"link", "unlink"} =>
              phase'[add[k].from] # "none",
           \A x, y \in Pid :
              /\ Deliverable(x)' /\ Deliverable(y)'
              /\ Touches(add, x, y) \/ Touches(add, y, x)
              => (WillLink(x, y)' <=> WillLink(y, x)'),
           \A x, y \in Pid :
              /\ Deliverable(x)' /\ phase'[y] = "dead"
              /\ Touches(add, x, y) /\ WillLink(x, y)'
              => Told(x, y)',
           \A x, y \in Pid :
              /\ Deliverable(x) /\ Deliverable(x)' /\ WillLink(x, y)
              /\ phase[y] # "dead" /\ phase'[y] = "dead"
              => Told(x, y)'
    PROVE  LinkInv'
<1>0. TypeOK /\ TypeOK' /\ queue \in Seq(Signal)
  BY DEF LinkInv, SpawnInv, DownInv, Types, TypeOK
<1>1. ASSUME NEW x \in Pid, NEW y \in Pid, ~Touches(add, x, y), Deliverable(x)'
      PROVE  WillLink(x, y)' <=> WillLink(x, y)
  <2>1. PICK u, has : u = queue' /\ has = links[x]
    OBVIOUS
  <2>2. Will(u, has, x, y) <=> Will(queue, has, x, y)
    BY <1>0, <1>1, <2>1, WillUntouched
  <2>3. links'[x] = has
    BY <1>1, <2>1
  <2>4. WillLink(x, y)' <=> Will(u, has, x, y)
    BY <2>1, <2>3 DEF WillLink, Will, LinkPlaces, About
  <2>5. WillLink(x, y) <=> Will(queue, has, x, y)
    BY <2>1 DEF WillLink
  <2>. QED
    BY <2>2, <2>4, <2>5
<1>2. ASSUME NEW x \in Pid, NEW y \in Pid, Deliverable(x)', Deliverable(y)'
      PROVE  WillLink(x, y)' <=> WillLink(y, x)'
  <2>1. CASE Touches(add, x, y) \/ Touches(add, y, x)
    BY <1>2, <2>1
  <2>2. CASE ~Touches(add, x, y) /\ ~Touches(add, y, x)
    <3>1. /\ WillLink(x, y)' <=> WillLink(x, y)
          /\ WillLink(y, x)' <=> WillLink(y, x)
      BY <1>1, <1>2, <2>2
    <3>2. CASE Deliverable(x) /\ Deliverable(y)
      BY <3>1, <3>2 DEF LinkInv
    <3>3. CASE phase[x] = "none" \/ phase[y] = "none"
      BY <3>1, <3>3, UnmadeWithoutLinks
    <3>. QED
      BY <1>2, <3>2, <3>3
  <2>. QED
    BY <2>1, <2>2
<1>3. ASSUME NEW x \in Pid, NEW y \in Pid, Deliverable(x)',
             phase'[y] = "dead", WillLink(x, y)'
      PROVE  Told(x, y)'
  <2>1. CASE Touches(add, x, y)
    BY <1>3, <2>1
  <2>2. CASE ~Touches(add, x, y)
    <3>1. WillLink(x, y)
      BY <1>1, <1>3, <2>2
    <3>2. Deliverable(x)
      BY <1>3, <3>1, UnmadeWithoutLinks
    <3>3. CASE phase[y] = "dead"
      <4>1. Told(x, y)
        BY <3>1, <3>2, <3>3 DEF LinkInv
      <4>. QED
        BY <1>0, <4>1, ToldGrows
    <3>4. CASE phase[y] # "dead"
      BY <1>3, <3>1, <3>2, <3>4
    <3>. QED
      BY <3>3, <3>4
  <2>. QED
    BY <2>1, <2>2
<1>4. ASSUME NEW i \in 1..Len(queue'), queue'[i].kind \in {"link", "unlink"}
      PROVE  phase'[queue'[i].from] # "none"
  <2>1. CASE i \in 1..Len(queue)
    <3>1. queue'[i] = queue[i] /\ queue[i] \in Signal
      BY <1>0, <2>1, Grown, ElementOfSeq
    <3>2. queue[i].from \in Pid /\ phase[queue[i].from] # "none"
      BY <1>4, <2>1, <3>1, SignalFields DEF LinkInv, LinksMade
    <3>. QED
      BY <3>1, <3>2 DEF StayMade
  <2>2. CASE i \notin 1..Len(queue)
    <3>1. PICK k \in 1..Len(add) : queue'[i] = add[k]
      BY <1>0, <2>2, Longer
    <3>. QED
      BY <1>4, <3>1
  <2>. QED
    BY <2>1, <2>2
<1>5. ASSUME NEW x \in Pid PROVE /\ phase'[x] = "none" => links'[x] = {}
                                /\ \A y \in links'[x] : phase'[y] # "none"
  <2>1. phase[x] = "none" => links[x] = {}
    BY DEF LinkInv, LinksMade
  <2>2. \A y \in links[x] : y \in Pid /\ phase[y] # "none"
    BY <1>0 DEF LinkInv, LinksMade, TypeOK
  <2>. QED
    BY <2>1, <2>2 DEF StayMade
<1>6. LinksMade'
  BY <1>4, <1>5 DEF LinksMade
<1>. QED
  BY <1>2, <1>3, <1>6 DEF LinkInv

(* Steps that send no link and no unlink.                                  *)
Linkless == {s \in Signal : s.kind \notin {"link", "unlink"}}

LinkKept ==
    /\ exits \subseteq exits' /\ orphaned \subseteq orphaned'
    /\ links' = links
    /\ \A x \in Pid :
          /\ Deliverable(x)' => Deliverable(x) \/ phase[x] = "none"
          /\ phase'[x] = "none" => phase[x] = "none"

LEMMA LinklessStep ==
    ASSUME LinkInv, SpawnInv', StayMade, SameDead, LinkKept,
           NEW add, add \in Seq(Linkless), queue' = queue \o add
    PROVE  LinkInv'
<1>1. add \in Seq(Signal)
  <2>1. Linkless \subseteq Signal
    BY DEF Linkless
  <2>. QED
    BY <2>1
<1>2. \A k \in 1..Len(add) : add[k].kind \notin {"link", "unlink"}
  <2>1. \A k \in 1..Len(add) : add[k] \in Linkless
    BY ElementOfSeq
  <2>. QED
    BY <2>1 DEF Linkless
<1>3. \A x, y : ~Touches(add, x, y)
  BY <1>2 DEF Touches, About
<1>4. \A y \in Pid : phase'[y] = "dead" => phase[y] = "dead"
  BY DEF SameDead
<1>. QED
  BY <1>1, <1>2, <1>3, <1>4, LinkGrowStep DEF LinkKept

LEMMA LinklessMade ==
    /\ \A p, q \in Pid, m \in Message : RelaySig(p, q, m) \in Linkless
    /\ \A p, q \in Pid, r \in Ref :
          MonitorSig(p, q, r) \in Linkless /\ DemonitorSig(p, q, r) \in Linkless
    /\ \A p \in Pid \cup {System}, q \in Pid, why \in Reason :
          ExitSig(p, q, why) \in Linkless
    /\ \A p, q \in Pid, r \in Ref, why \in Reason :
          DownSig(p, q, r, why) \in Linkless
    /\ \A p \in Pid : GoSig(p) \in Linkless
<1> USE SignalsMade DEF Linkless
<1>1. \A p, q \in Pid, m \in Message : RelaySig(p, q, m) \in Linkless
  BY DEF RelaySig
<1>2. \A p, q \in Pid, r \in Ref :
         MonitorSig(p, q, r) \in Linkless /\ DemonitorSig(p, q, r) \in Linkless
  BY DEF MonitorSig, DemonitorSig
<1>3. \A p \in Pid \cup {System}, q \in Pid, why \in Reason :
         ExitSig(p, q, why) \in Linkless
  BY DEF ExitSig
<1>4. /\ \A p, q \in Pid, r \in Ref, why \in Reason :
            DownSig(p, q, r, why) \in Linkless
      /\ \A p \in Pid : GoSig(p) \in Linkless
  BY DEF DownSig, GoSig
<1>. QED
  BY <1>1, <1>2, <1>3, <1>4

(* link and unlink send to both sides, or to those that can be reached.    *)
SentBoth(c, a, A, b, B) ==
    /\ c \in Seq(Signal)
    /\ \A k \in 1..Len(c) : c[k] = a \/ c[k] = b
    /\ A # <<>> => \E k \in 1..Len(c) : c[k] = a
    /\ B # <<>> => \E k \in 1..Len(c) : c[k] = b
    /\ a # b => \A j, k \in 1..Len(c) : c[j] = c[k] => j = k

LEMMA PairSent ==
    ASSUME NEW a \in Signal, NEW b \in Signal,
           NEW A \in {<<>>, <<a>>}, NEW B \in {<<>>, <<b>>}
    PROVE  SentBoth(A \o B, a, A, b, B)
<1>0. SUFFICES ASSUME NEW c, c = A \o B PROVE SentBoth(c, a, A, b, B)
  OBVIOUS
<1> USE DEF SentBoth
<1>1. A \in Seq(Signal) /\ B \in Seq(Signal)
  BY FewSignals
<1>2. c \in Seq(Signal)
  BY <1>0, <1>1, ConcatProperties
<1>3. /\ Len(c) = Len(A) + Len(B)
      /\ \A i \in 1..Len(A) + Len(B) : c[i] =
            IF i <= Len(A) THEN A[i] ELSE B[i - Len(A)]
  BY <1>0, <1>1, ConcatProperties
<1>4. /\ A = <<>> => Len(A) = 0
      /\ A = <<a>> => Len(A) = 1 /\ A[1] = a /\ A # <<>>
      /\ B = <<>> => Len(B) = 0
      /\ B = <<b>> => Len(B) = 1 /\ B[1] = b /\ B # <<>>
  OBVIOUS
<1>5. CASE A = <<>> /\ B = <<>>
  <2>1. Len(c) = 0
    BY <1>3, <1>4, <1>5
  <2>. QED
    BY <1>2, <1>5, <2>1
<1>6. CASE A = <<a>> /\ B = <<>>
  <2>1. Len(c) = 1 /\ c[1] = a
    BY <1>3, <1>4, <1>6
  <2>2. \A k \in 1..Len(c) : k = 1
    BY <2>1
  <2>. QED
    BY <1>2, <1>4, <1>6, <2>1, <2>2
<1>7. CASE A = <<>> /\ B = <<b>>
  <2>1. Len(A) = 0 /\ Len(B) = 1 /\ B[1] = b
    BY <1>4, <1>7
  <2>2. 1 \in 1..Len(A) + Len(B) /\ ~(1 <= Len(A)) /\ 1 - Len(A) = 1
    BY <2>1
  <2>3. Len(c) = 1 /\ c[1] = b
    BY <1>3, <2>1, <2>2
  <2>4. \A k \in 1..Len(c) : k = 1
    BY <2>3
  <2>. QED
    BY <1>2, <1>4, <1>7, <2>3, <2>4
<1>8. CASE A = <<a>> /\ B = <<b>>
  <2>1. Len(A) = 1 /\ Len(B) = 1 /\ A[1] = a /\ B[1] = b
    BY <1>4, <1>8
  <2>5. /\ 1 \in 1..Len(A) + Len(B) /\ 1 <= Len(A)
        /\ 2 \in 1..Len(A) + Len(B) /\ ~(2 <= Len(A)) /\ 2 - Len(A) = 1
    BY <2>1
  <2>2. Len(c) = 2 /\ c[1] = a /\ c[2] = b
    BY <1>3, <2>1, <2>5
  <2>3. \A k \in 1..Len(c) : k = 1 \/ k = 2
    BY <2>2
  <2>4. 1 \in 1..Len(c) /\ 2 \in 1..Len(c)
    BY <2>2
  <2>6. A # <<>> /\ B # <<>>
    BY <1>4, <1>8
  <2>7. \A k \in 1..Len(c) : c[k] = a \/ c[k] = b
    BY <2>2, <2>3
  <2>8. a # b => \A j, k \in 1..Len(c) : c[j] = c[k] => j = k
    BY <2>2, <2>3
  <2>. QED
    BY <1>2, <2>2, <2>4, <2>6, <2>7, <2>8
<1>. QED
  BY <1>5, <1>6, <1>7, <1>8

LEMMA WillLinked ==
    ASSUME TypeOK, NEW add \in Seq(Signal), queue' = queue \o add,
           NEW x, NEW y, Touches(add, x, y),
           \A j \in 1..Len(add) : About(add[j], x, y) => add[j].kind = "link",
           \A j, k \in 1..Len(add) :
              About(add[j], x, y) /\ About(add[k], x, y) => j = k
    PROVE  WillLink(x, y)'
<1>1. PICK k \in 1..Len(add) : About(add[k], x, y)
  BY DEF Touches
<1>2. Len(add) \in Nat /\ \A j \in 1..Len(add) : About(add[j], x, y) => j <= k
  BY <1>1, LenProperties
<1>3. PICK u, has : u = queue' /\ has = links'[x]
  OBVIOUS
<1>4. Will(u, has, x, y)
  <2>1. queue \in Seq(Signal) /\ u = queue \o add
    BY <1>3 DEF TypeOK
  <2>2. Will(u, has, x, y) <=> add[k].kind = "link"
    BY <1>1, <1>2, <2>1, WillTouched
  <2>. QED
    BY <1>1, <2>2
<1>. QED
  BY <1>3, <1>4 DEF WillLink, Will, LinkPlaces, About

LEMMA WillUnlinked ==
    ASSUME TypeOK, NEW add \in Seq(Signal), queue' = queue \o add,
           NEW x, NEW y, Touches(add, x, y),
           \A j \in 1..Len(add) : About(add[j], x, y) => add[j].kind = "unlink"
    PROVE  ~WillLink(x, y)'
<1>1. PICK k \in 1..Len(add) : About(add[k], x, y)
  BY DEF Touches
<1>2. PICK u : u = queue'
  OBVIOUS
<1>3. queue \in Seq(Signal)
  BY DEF TypeOK
<1>4. PICK l : l = Len(queue) + k
  OBVIOUS
<1>5. l \in LinkPlaces(u, x, y) /\ Len(queue) \in Nat /\ l > Len(queue)
  <2>1. l \in 1..Len(u) /\ u[l] = add[k]
    BY <1>2, <1>3, <1>4, Longer
  <2>2. Len(queue) \in Nat /\ Len(add) \in Nat
    BY <1>3, LenProperties
  <2>. QED
    BY <1>1, <1>4, <2>1, <2>2 DEF LinkPlaces
<1>6. ASSUME NEW i \in LinkPlaces(u, x, y), u[i].kind = "link", l <= i
      PROVE  FALSE
  <2>1. i \in 1..Len(u) /\ i \notin 1..Len(queue) /\ About(u[i], x, y)
    BY <1>5, <1>6 DEF LinkPlaces
  <2>2. PICK j \in 1..Len(add) : u[i] = add[j]
    BY <1>2, <1>3, <2>1, Longer
  <2>. QED
    BY <1>6, <2>1, <2>2
<1>7. \A has : ~Will(u, has, x, y)
  BY <1>5, <1>6 DEF Will
<1>. QED
  BY <1>2, <1>7 DEF WillLink, Will, LinkPlaces, About

(* Both sides are told of a new link, or the one that can be, and the dead *)
(* one makes an orphan of the other.                                       *)
LEMMA LinkedStep ==
    ASSUME LinkInv, SpawnInv', StayMade, SameDead, LinkKept,
           NEW p \in Pid, NEW q \in Pid,
           phase'[p] # "none", phase'[q] # "none",
           NEW add \in Seq(Signal), queue' = queue \o add,
           \A k \in 1..Len(add) : add[k].kind \in {"link", "unlink"} =>
              add[k] = LinkSig(p, q) \/ add[k] = LinkSig(q, p),
           Deliverable(q)' => \E k \in 1..Len(add) : add[k] = LinkSig(p, q),
           Deliverable(p)' => \E k \in 1..Len(add) : add[k] = LinkSig(q, p),
           p # q => \A j, k \in 1..Len(add) :
              add[j] = add[k] /\ add[j].kind = "link" => j = k,
           phase'[q] = "dead" => <<p, q>> \in orphaned',
           phase'[p] = "dead" => <<q, p>> \in orphaned'
    PROVE  LinkInv'
<1>0. TypeOK
  BY DEF LinkInv, SpawnInv, DownInv, Types
<1>1. ASSUME NEW x, NEW y, NEW k \in 1..Len(add), About(add[k], x, y)
      PROVE  /\ add[k].kind = "link"
             /\ \/ x = q /\ y = p /\ add[k] = LinkSig(p, q)
                \/ x = p /\ y = q /\ add[k] = LinkSig(q, p)
  BY <1>1 DEF About, LinkSig
<1>2. ASSUME NEW x, NEW y, Touches(add, x, y)
      PROVE  (x = q /\ y = p) \/ (x = p /\ y = q)
  <2>1. PICK k \in 1..Len(add) : About(add[k], x, y)
    BY <1>2 DEF Touches
  <2>2. \/ x = q /\ y = p /\ add[k] = LinkSig(p, q)
        \/ x = p /\ y = q /\ add[k] = LinkSig(q, p)
    BY <1>1, <2>1
  <2>. QED
    BY <2>2
<1>3. ASSUME Deliverable(p)', Deliverable(q)', p # q
      PROVE  WillLink(p, q)' /\ WillLink(q, p)'
  <2>1. Touches(add, p, q) /\ Touches(add, q, p)
    <3>1. PICK k \in 1..Len(add) : add[k] = LinkSig(q, p)
      BY <1>3
    <3>2. PICK j \in 1..Len(add) : add[j] = LinkSig(p, q)
      BY <1>3
    <3>3. About(add[k], p, q) /\ About(add[j], q, p)
      BY <3>1, <3>2 DEF About, LinkSig
    <3>. QED
      BY <3>3 DEF Touches
  <2>2. ASSUME NEW x, NEW y, NEW j \in 1..Len(add), NEW k \in 1..Len(add),
               About(add[j], x, y), About(add[k], x, y)
        PROVE  j = k
    <3>2. /\ add[j].kind = "link"
          /\ \/ x = q /\ y = p /\ add[j] = LinkSig(p, q)
             \/ x = p /\ y = q /\ add[j] = LinkSig(q, p)
      BY <1>1, <2>2
    <3>3. \/ x = q /\ y = p /\ add[k] = LinkSig(p, q)
          \/ x = p /\ y = q /\ add[k] = LinkSig(q, p)
      BY <1>1, <2>2
    <3>1. add[j] = add[k] /\ add[j].kind = "link"
      BY <1>3, <3>2, <3>3
    <3>. QED
      BY <1>3, <3>1
  <2>3. \A x, y : \A j \in 1..Len(add) :
           About(add[j], x, y) => add[j].kind = "link"
    BY <1>1
  <2>. QED
    BY <1>0, <2>1, <2>2, <2>3, WillLinked
<1>4. \A x, y \in Pid :
         /\ Deliverable(x)' /\ Deliverable(y)'
         /\ Touches(add, x, y) \/ Touches(add, y, x)
         => (WillLink(x, y)' <=> WillLink(y, x)')
  <2> SUFFICES ASSUME NEW x \in Pid, NEW y \in Pid,
                      Deliverable(x)', Deliverable(y)',
                      Touches(add, x, y) \/ Touches(add, y, x)
               PROVE  WillLink(x, y)' <=> WillLink(y, x)'
    OBVIOUS
  <2>1. (x = q /\ y = p) \/ (x = p /\ y = q)
    BY <1>2
  <2>2. CASE p = q
    BY <2>1, <2>2
  <2>3. CASE p # q
    BY <1>3, <2>1, <2>3
  <2>. QED
    BY <2>2, <2>3
<1>5. \A x, y \in Pid :
         /\ Deliverable(x)' /\ phase'[y] = "dead"
         /\ Touches(add, x, y) /\ WillLink(x, y)'
         => Told(x, y)'
  BY <1>2 DEF Told
<1>6. \A k \in 1..Len(add) : add[k].kind \in {"link", "unlink"} =>
         phase'[add[k].from] # "none"
  BY DEF LinkSig
<1>7. \A y \in Pid : phase'[y] = "dead" => phase[y] = "dead"
  BY DEF SameDead
<1>. QED
  BY <1>4, <1>5, <1>6, <1>7, LinkGrowStep DEF LinkKept

LEMMA LinkLinks ==
    ASSUME LinkInv, SpawnInv', StayMade, SameDead,
           NEW p \in Pid, NEW q \in Pid, Link(p, q)
    PROVE  LinkInv'
<1> USE DEF core, tables
<1>0. TypeOK /\ Made
  BY DEF LinkInv, SpawnInv, DownInv, Types
<1>1. /\ LinkSig(p, q) \in Signal /\ LinkSig(q, p) \in Signal
      /\ LinkSig(p, q).kind = "link" /\ LinkSig(q, p).kind = "link"
      /\ p # q => LinkSig(p, q) # LinkSig(q, p)
  <2>1. p # q => LinkSig(p, q).to # LinkSig(q, p).to
    BY DEF LinkSig
  <2>. QED
    BY <2>1, SignalsMade DEF LinkSig
<1>2. PICK a, b, A, B, c :
         /\ a = LinkSig(p, q) /\ b = LinkSig(q, p)
         /\ A = ToPid(q, a) /\ B = ToPid(p, b) /\ c = A \o B
  OBVIOUS
<1>3. /\ A \in {<<>>, <<a>>} /\ B \in {<<>>, <<b>>}
      /\ Deliverable(q) => A # <<>>
      /\ Deliverable(p) => B # <<>>
  BY <1>2 DEF ToPid
<1>4. /\ c \in Seq(Signal)
      /\ \A k \in 1..Len(c) : c[k] = a \/ c[k] = b
      /\ A # <<>> => \E k \in 1..Len(c) : c[k] = a
      /\ B # <<>> => \E k \in 1..Len(c) : c[k] = b
      /\ a # b => \A j, k \in 1..Len(c) : c[j] = c[k] => j = k
  <2>1. a \in Signal /\ b \in Signal /\ c = A \o B
    BY <1>1, <1>2
  <2>2. A \in {<<>>, <<a>>} /\ B \in {<<>>, <<b>>}
    BY <1>3
  <2>3. SentBoth(c, a, A, b, B)
    BY <2>1, <2>2, PairSent
  <2>. QED
    BY <2>3 DEF SentBoth
<1>5. queue' = queue \o c
  BY <1>2 DEF Link, LinkSignals
<1>6. phase[p] # "none" /\ phase[q] # "none" /\ phase' = phase
  BY <1>0 DEF Link, Made, Runs
<1>7. LinkKept
  BY DEF Link, LinkKept, Deliverable
<1>8. /\ phase[q] = "dead" => <<p, q>> \in orphaned'
      /\ phase[p] = "dead" => <<q, p>> \in orphaned'
  BY DEF Link, Deliverable
<1>9. /\ Deliverable(q)' => \E k \in 1..Len(c) : c[k] = LinkSig(p, q)
      /\ Deliverable(p)' => \E k \in 1..Len(c) : c[k] = LinkSig(q, p)
  BY <1>2, <1>3, <1>4, <1>6 DEF Deliverable
<1>10. /\ \A k \in 1..Len(c) : c[k].kind \in {"link", "unlink"} =>
             c[k] = LinkSig(p, q) \/ c[k] = LinkSig(q, p)
       /\ p # q => \A j, k \in 1..Len(c) :
             c[j] = c[k] /\ c[j].kind = "link" => j = k
  BY <1>1, <1>2, <1>4
<1>. QED
  BY <1>4, <1>5, <1>6, <1>7, <1>8, <1>9, <1>10, LinkedStep

LEMMA UnlinkLinks ==
    ASSUME LinkInv, SpawnInv', StayMade, SameDead,
           NEW p \in Pid, NEW q \in Pid, Unlink(p, q)
    PROVE  LinkInv'
<1> USE DEF core, tables, history, linking
<1>0. TypeOK /\ Made
  BY DEF LinkInv, SpawnInv, DownInv, Types
<1>1. UnlinkSig(p, q) \in Signal /\ UnlinkSig(q, p) \in Signal
  BY SignalsMade
<1>2. PICK a, b, A, B, c :
         /\ a = UnlinkSig(p, q) /\ b = UnlinkSig(q, p)
         /\ A = ToPid(q, a) /\ B = ToPid(p, b) /\ c = A \o B
  OBVIOUS
<1>3. /\ A \in {<<>>, <<a>>} /\ B \in {<<>>, <<b>>}
      /\ Deliverable(q) => A # <<>>
      /\ Deliverable(p) => B # <<>>
  BY <1>2 DEF ToPid
<1>4. /\ c \in Seq(Signal)
      /\ \A k \in 1..Len(c) : c[k] = a \/ c[k] = b
      /\ A # <<>> => \E k \in 1..Len(c) : c[k] = a
      /\ B # <<>> => \E k \in 1..Len(c) : c[k] = b
  <2>1. a \in Signal /\ b \in Signal /\ c = A \o B
    BY <1>1, <1>2
  <2>2. A \in {<<>>, <<a>>} /\ B \in {<<>>, <<b>>}
    BY <1>3
  <2>3. SentBoth(c, a, A, b, B)
    BY <2>1, <2>2, PairSent
  <2>. QED
    BY <2>3 DEF SentBoth
<1>5. queue' = queue \o c
  <2>1. A \in Seq(Signal) /\ B \in Seq(Signal) /\ queue \in Seq(Signal)
    BY <1>0, <1>1, <1>2, ToPidType DEF TypeOK
  <2>2. (queue \o A) \o B = queue \o c
    BY <1>2, <2>1, TwoParts
  <2>. QED
    BY <1>2, <2>2 DEF Unlink
<1>6. phase[p] # "none" /\ phase[q] # "none" /\ phase' = phase
  BY <1>0 DEF Unlink, Made, Runs
<1>7. LinkKept
  BY DEF Unlink, LinkKept, Deliverable
<1>13. \A k \in 1..Len(c) :
          /\ c[k].kind = "unlink"
          /\ (c[k].to = q /\ c[k].from = p) \/ (c[k].to = p /\ c[k].from = q)
  <2>1. /\ a.kind = "unlink" /\ a.to = q /\ a.from = p
        /\ b.kind = "unlink" /\ b.to = p /\ b.from = q
    BY <1>2 DEF UnlinkSig
  <2>. QED
    BY <1>4, <2>1
<1>8. ASSUME NEW x, NEW y, Touches(c, x, y)
      PROVE  /\ ~WillLink(x, y)'
             /\ (x = q /\ y = p) \/ (x = p /\ y = q)
  <2>1. \A k \in 1..Len(c) : c[k].kind = "unlink"
    BY <1>13
  <2>2. ~WillLink(x, y)'
    BY <1>0, <1>4, <1>5, <1>8, <2>1, WillUnlinked
  <2>3. (x = q /\ y = p) \/ (x = p /\ y = q)
    BY <1>8, <1>13 DEF Touches, About
  <2>. QED
    BY <2>2, <2>3
<1>9. ASSUME Deliverable(p)', Deliverable(q)'
      PROVE  Touches(c, p, q) /\ Touches(c, q, p)
  <2>1. PICK k \in 1..Len(c) : c[k] = b
    BY <1>3, <1>4, <1>6, <1>9 DEF Deliverable
  <2>2. PICK j \in 1..Len(c) : c[j] = a
    BY <1>3, <1>4, <1>6, <1>9 DEF Deliverable
  <2>3. About(c[k], p, q) /\ About(c[j], q, p)
    BY <1>2, <2>1, <2>2 DEF About, UnlinkSig
  <2>. QED
    BY <2>3 DEF Touches
<1>10. \A x, y \in Pid :
          /\ Deliverable(x)' /\ Deliverable(y)'
          /\ Touches(c, x, y) \/ Touches(c, y, x)
          => (WillLink(x, y)' <=> WillLink(y, x)')
  <2> SUFFICES ASSUME NEW x \in Pid, NEW y \in Pid,
                      Deliverable(x)', Deliverable(y)',
                      Touches(c, x, y) \/ Touches(c, y, x)
               PROVE  WillLink(x, y)' <=> WillLink(y, x)'
    OBVIOUS
  <2>1. (x = q /\ y = p) \/ (x = p /\ y = q)
    BY <1>8
  <2>2. Touches(c, x, y) /\ Touches(c, y, x)
    BY <1>9, <2>1
  <2>. QED
    BY <1>8, <2>2
<1>11. \A k \in 1..Len(c) : phase'[c[k].from] # "none"
  BY <1>6, <1>13
<1>12. \A y \in Pid : phase'[y] = "dead" => phase[y] = "dead"
  BY DEF SameDead
<1>. QED
  BY <1>4, <1>5, <1>7, <1>8, <1>10, <1>11, <1>12, LinkGrowStep DEF LinkKept

LEMMA SpawnLinkLinks ==
    ASSUME LinkInv, SpawnInv', StayMade, SameDead,
           NEW p \in Pid, NEW q \in Pid, SpawnLink(p, q)
    PROVE  LinkInv'
<1> USE DEF tables, monitoring
<1>0. TypeOK /\ Made
  BY DEF LinkInv, SpawnInv, DownInv, Types
<1>1. /\ LinkSig(p, q) \in Signal /\ LinkSig(q, p) \in Signal
      /\ GoSig(q) \in Signal /\ GoSig(q).kind = "go"
      /\ p # q => LinkSig(p, q) # LinkSig(q, p)
  <2>1. p # q => LinkSig(p, q).to # LinkSig(q, p).to
    BY DEF LinkSig
  <2>. QED
    BY <2>1, SignalsMade DEF GoSig
<1>2. PICK a, b, A, B, c, g :
         /\ a = LinkSig(p, q) /\ b = LinkSig(q, p) /\ g = GoSig(q)
         /\ A = <<a>> /\ B = ToPid(p, b) /\ c = A \o B
  OBVIOUS
<1>3. /\ A \in {<<>>, <<a>>} /\ B \in {<<>>, <<b>>}
      /\ A # <<>>
      /\ Deliverable(p) => B # <<>>
  BY <1>2 DEF ToPid
<1>4. /\ c \in Seq(Signal)
      /\ \A k \in 1..Len(c) : c[k] = a \/ c[k] = b
      /\ A # <<>> => \E k \in 1..Len(c) : c[k] = a
      /\ B # <<>> => \E k \in 1..Len(c) : c[k] = b
      /\ a # b => \A j, k \in 1..Len(c) : c[j] = c[k] => j = k
  <2>1. a \in Signal /\ b \in Signal /\ c = A \o B
    BY <1>1, <1>2
  <2>2. A \in {<<>>, <<a>>} /\ B \in {<<>>, <<b>>}
    BY <1>3
  <2>3. SentBoth(c, a, A, b, B)
    BY <2>1, <2>2, PairSent
  <2>. QED
    BY <2>3 DEF SentBoth
<1>5. PICK G, add : /\ G = <<g>> /\ add = c \o G
                    /\ G \in Seq(Signal) /\ add \in Seq(Signal)
  <2>1. <<g>> \in Seq(Signal)
    BY <1>1, <1>2, FewSignals
  <2>. QED
    BY <1>4, <2>1, ConcatProperties
<1>6. queue' = queue \o add
  <2>1. A \in Seq(Signal) /\ B \in Seq(Signal) /\ queue \in Seq(Signal)
    BY <1>0, <1>1, <1>2, FewSignals, ToPidType DEF TypeOK
  <2>2. (queue \o A) \o B = queue \o c
    BY <1>2, <2>1, TwoParts
  <2>5. c \in Seq(Signal) /\ G \in Seq(Signal) /\ add = c \o G
    BY <1>4, <1>5
  <2>3. (queue \o c) \o G = queue \o add
    BY <2>1, <2>5, TwoParts
  <2>4. queue' = ((queue \o A) \o B) \o G
    BY <1>2, <1>5 DEF SpawnLink
  <2>. QED
    BY <2>2, <2>3, <2>4
<1>7. /\ \A k \in 1..Len(c) : k \in 1..Len(add) /\ add[k] = c[k]
      /\ \A i \in 1..Len(add) : i \in 1..Len(c) \/ add[i] = g
  <2>1. Len(G) = 1 /\ G[1] = g
    BY <1>5
  <2>2. \A k \in 1..Len(G) : G[k] = g
    BY <2>1
  <2>3. /\ \A i \in 1..Len(c) : i \in 1..Len(add) /\ add[i] = c[i]
        /\ \A i \in 1..Len(add) : i \notin 1..Len(c) =>
              \E k \in 1..Len(G) : i = Len(c) + k /\ add[i] = G[k]
    BY <1>4, <1>5, Longer
  <2>. QED
    BY <2>2, <2>3
<1>8. /\ phase[q] = "none" /\ phase' = [phase EXCEPT ![q] = "alive"]
      /\ links' = links /\ exits' = exits /\ code[p] = "running"
      /\ orphaned' = orphaned \cup (IF Deliverable(p) THEN {} ELSE {<<q, p>>})
  BY DEF SpawnLink, NewContext, Runs
<1>9. /\ phase[p] # "none" /\ p # q
      /\ phase'[p] = phase[p] /\ phase'[q] = "alive"
  BY <1>0, <1>8 DEF Made, TypeOK
<1>10. LinkKept
  BY <1>0, <1>8 DEF LinkKept, Deliverable, TypeOK
<1>11. phase'[p] = "dead" => <<q, p>> \in orphaned'
  BY <1>8, <1>9 DEF Deliverable
<1>12. /\ \E k \in 1..Len(add) : add[k] = LinkSig(p, q)
       /\ Deliverable(p)' => \E k \in 1..Len(add) : add[k] = LinkSig(q, p)
  <2>1. \E k \in 1..Len(c) : c[k] = a
    BY <1>3, <1>4
  <2>2. Deliverable(p)' => \E k \in 1..Len(c) : c[k] = b
    BY <1>3, <1>4, <1>9 DEF Deliverable
  <2>3. \A k \in 1..Len(c) : k \in 1..Len(add) /\ add[k] = c[k]
    BY <1>7
  <2>4. \E k \in 1..Len(add) : add[k] = a
    BY <2>1, <2>3
  <2>5. Deliverable(p)' => \E k \in 1..Len(add) : add[k] = b
    BY <2>2, <2>3
  <2>. QED
    BY <1>2, <2>4, <2>5
<1>13. \A i \in 1..Len(add) : add[i].kind \in {"link", "unlink"} =>
          /\ i \in 1..Len(c) /\ add[i] = c[i]
          /\ add[i] = LinkSig(p, q) \/ add[i] = LinkSig(q, p)
  <2>1. \A k \in 1..Len(c) : c[k] = LinkSig(p, q) \/ c[k] = LinkSig(q, p)
    BY <1>2, <1>4
  <2>2. g.kind = "go"
    BY <1>1, <1>2
  <2>. QED
    BY <1>7, <2>1, <2>2
<1>14. \A j, k \in 1..Len(add) :
          add[j] = add[k] /\ add[j].kind = "link" => j = k
  <2> SUFFICES ASSUME NEW j \in 1..Len(add), NEW k \in 1..Len(add),
                      add[j] = add[k], add[j].kind = "link"
               PROVE  j = k
    OBVIOUS
  <2>1. /\ j \in 1..Len(c) /\ k \in 1..Len(c) /\ c[j] = c[k]
    BY <1>13
  <2>2. a # b
    BY <1>1, <1>2, <1>9
  <2>. QED
    BY <1>4, <2>1, <2>2
<1>15. \A i \in 1..Len(add) : add[i].kind \in {"link", "unlink"} =>
          add[i] = LinkSig(p, q) \/ add[i] = LinkSig(q, p)
  BY <1>13
<1>16. /\ phase'[p] # "none" /\ phase'[q] # "none"
       /\ phase'[q] = "dead" => <<p, q>> \in orphaned'
       /\ add \in Seq(Signal)
  BY <1>5, <1>9
<1>. QED
  BY <1>6, <1>10, <1>11, <1>12, <1>14, <1>15, <1>16, LinkedStep

(* A process that is destroyed tells everybody who will think himself      *)
(* linked to it: whoever it is linked to itself, and whoever has a link    *)
(* signal on its way to it, which will find it dead.                       *)
LEMMA DestroyLinks ==
    ASSUME LinkInv, SpawnInv', NEW p \in Pid, Destroy(p) PROVE LinkInv'
<1>0. TypeOK
  BY DEF LinkInv, SpawnInv, DownInv, Types
<1>1. PICK add \in Seq(Signal) :
          /\ queue' = queue \o add
          /\ \A k \in 1..Len(add) : add[k] \in Downs(p) \cup Exits(p)
          /\ \A x \in Downs(p) \cup Exits(p) :
                \E k \in 1..Len(add) : add[k] = x
  BY <1>0, DestroyAppends
<1>2. \A k \in 1..Len(add) : add[k].kind \notin {"link", "unlink"}
  BY <1>1 DEF Downs, Exits, DownSig, ExitSig
<1>3. \A x, y : ~Touches(add, x, y)
  BY <1>2 DEF Touches, About
<1>4. /\ phase' = [phase EXCEPT ![p] = "dead"] /\ phase[p] = "dying"
      /\ links' = [links EXCEPT ![p] = {}]
      /\ exits' = exits /\ orphaned' = orphaned
  BY DEF Destroy, history, linking
<1>5. /\ \A x \in Pid : x # p => phase'[x] = phase[x] /\ links'[x] = links[x]
      /\ phase'[p] = "dead" /\ links'[p] = {}
  <2>1. links \in [Pid -> SUBSET Pid]
    BY <1>0 DEF TypeOK
  <2>2. phase \in [Pid -> {"none", "alive", "dying", "dead"}]
    BY <1>0 DEF TypeOK
  <2>. QED
    BY <1>4, <2>1, <2>2
<1>6. /\ \A x \in Pid : Deliverable(x)' =>
            (Deliverable(x) \/ phase[x] = "none") /\ links'[x] = links[x]
      /\ \A x \in Pid : links'[x] \subseteq links[x]
      /\ \A x \in Pid : phase'[x] = "none" => phase[x] = "none"
      /\ StayMade
  BY <1>5 DEF Deliverable, StayMade
<1>7. ASSUME NEW x \in Pid, Deliverable(x), Deliverable(x)', WillLink(x, p)
      PROVE  Told(x, p)'
  <2>1. Deliverable(p) /\ x # p
    BY <1>4, <1>5, <1>7 DEF Deliverable
  <2>2. WillLink(p, x)
    BY <1>7, <2>1 DEF LinkInv
  <2>3. CASE x \in links[p]
    <3>1. ExitSig(p, x, reason[p]) \in Exits(p)
      BY <1>7, <2>1, <2>3 DEF Exits
    <3>2. PICK k \in 1..Len(add) : add[k] = ExitSig(p, x, reason[p])
      BY <1>1, <3>1
    <3>3. add[k].kind = "exit" /\ add[k].to = x /\ add[k].from = p
      BY <3>2 DEF ExitSig
    <3>. QED
      BY <1>0, <1>1, <1>4, <3>3, ToldGrows
  <2>4. CASE x \notin links[p]
    <3>1. PICK i \in LinkPlaces(queue, p, x) : queue[i].kind = "link"
      BY <2>2, <2>4 DEF WillLink, Will
    <3>2. /\ i \in 1..Len(queue) /\ queue[i].to = p /\ queue[i].from = x
          /\ queue[i] \in Signal
      BY <1>0, <3>1, ElementOfSeq DEF LinkPlaces, About, TypeOK
    <3>3. queue[i] = LinkSig(x, p)
      BY <3>1, <3>2 DEF Signal, LinkSig
    <3>4. Told(x, p)
      BY <3>2, <3>3 DEF Told
    <3>. QED
      BY <1>0, <1>1, <1>4, <3>4, ToldGrows
  <2>. QED
    BY <2>3, <2>4
<1>8. \A x, y \in Pid :
         /\ Deliverable(x) /\ Deliverable(x)' /\ WillLink(x, y)
         /\ phase[y] # "dead" /\ phase'[y] = "dead"
         => Told(x, y)'
  BY <1>5, <1>7
<1>. QED
  BY <1>1, <1>2, <1>3, <1>4, <1>6, <1>8, LinkGrowStep

(* The handlers.  What will be does not change when it comes to be.        *)
LEMMA LinkHandleStep ==
    ASSUME LinkInv, SpawnInv', StayMade, SameDead,
           queue # <<>>, queue' = Tail(queue), NEW s, s = Head(queue),
           exits \subseteq exits', orphaned \subseteq orphaned',
           \A x \in Pid : Deliverable(x)' => Deliverable(x),
           \A x, y \in Pid : Deliverable(x) =>
              (y \in links'[x] <=> IF About(s, x, y) THEN s.kind = "link"
                                                     ELSE y \in links[x]),
           \A x \in Pid : \A y \in links'[x] :
              y \in links[x] \/ (s.kind = "link" /\ s.to = x /\ s.from = y),
           s.kind = "exit" /\ s.from \in Pid /\ phase[s.from] = "dead" =>
              <<s.from, s.to>> \in exits',
           s.kind = "link" /\ ~Deliverable(s.to) =>
              <<s.from, s.to>> \in orphaned'
    PROVE  LinkInv'
<1>0. /\ TypeOK /\ TypeOK' /\ Made /\ queue \in Seq(Signal)
      /\ links' \in [Pid -> SUBSET Pid]
  BY DEF LinkInv, SpawnInv, DownInv, Types, TypeOK
<1>1. /\ Len(queue) \in Nat /\ Len(queue) > 0
      /\ Len(queue') = Len(queue) - 1
      /\ \A i \in 1..Len(queue') :
            i + 1 \in 1..Len(queue) /\ queue'[i] = queue[i + 1]
      /\ 1 \in 1..Len(queue) /\ s = queue[1] /\ s \in Signal
  BY <1>0, Popped
<1>2. ASSUME NEW x \in Pid, NEW y \in Pid, Deliverable(x)
      PROVE  WillLink(x, y)' <=> WillLink(x, y)
  <2>1. PICK u, has, had : u = queue' /\ has = links'[x] /\ had = links[x]
    OBVIOUS
  <2>2. y \in has <=> IF About(s, x, y) THEN s.kind = "link" ELSE y \in had
    BY <1>2, <2>1
  <2>4. /\ queue \in Seq(Signal) /\ queue # <<>> /\ u = Tail(queue)
        /\ s = Head(queue)
    BY <1>0, <2>1
  <2>3. Will(u, has, x, y) <=> Will(queue, had, x, y)
    BY <2>2, <2>4, WillHandled
  <2>6. (WillLink(x, y)' <=> Will(u, has, x, y))
        /\ (WillLink(x, y) <=> Will(queue, had, x, y))
    BY <2>1 DEF WillLink, Will, LinkPlaces, About
  <2>. QED
    BY <2>3, <2>6
<1>3. ASSUME NEW x \in Pid, NEW y \in Pid, Deliverable(x)', Deliverable(y)'
      PROVE  WillLink(x, y)' <=> WillLink(y, x)'
  BY <1>2, <1>3 DEF LinkInv
<1>4. ASSUME NEW x \in Pid, NEW y \in Pid, Deliverable(x)',
             phase'[y] = "dead", WillLink(x, y)'
      PROVE  Told(x, y)'
  <2>1. Told(x, y) /\ phase[y] = "dead" /\ ~Deliverable(y)
    BY <1>2, <1>4 DEF LinkInv, SameDead, Deliverable
  <2>2. CASE <<y, x>> \in exits \/ <<x, y>> \in orphaned
    BY <2>2 DEF Told
  <2>3. ASSUME NEW i \in 1..Len(queue),
               \/ /\ queue[i].kind = "exit"
                  /\ queue[i].to = x /\ queue[i].from = y
               \/ queue[i] = LinkSig(x, y)
        PROVE  Told(x, y)'
    <3>1. CASE i = 1
      <4>1. CASE s.kind = "exit" /\ s.to = x /\ s.from = y
        BY <2>1, <4>1 DEF Told
      <4>2. CASE s = LinkSig(x, y)
        BY <2>1, <4>2 DEF Told, LinkSig
      <4>. QED
        BY <1>1, <2>3, <3>1, <4>1, <4>2
    <3>2. CASE i # 1
      <4>1. PICK j : j = i - 1 /\ j + 1 = i /\ j \in 1..Len(queue')
        BY <1>1, <3>2
      <4>2. queue'[j] = queue[i]
        BY <1>1, <4>1
      <4>3. \/ /\ queue'[j].kind = "exit"
               /\ queue'[j].to = x /\ queue'[j].from = y
            \/ queue'[j] = LinkSig(x, y)
        BY <2>3, <4>2
      <4>. QED
        BY <4>1, <4>3 DEF Told
    <3>. QED
      BY <3>1, <3>2
  <2>. QED
    BY <2>1, <2>2, <2>3 DEF Told
<1>5. ASSUME NEW i \in 1..Len(queue'), queue'[i].kind \in {"link", "unlink"}
      PROVE  phase'[queue'[i].from] # "none"
  <2>1. PICK j \in 1..Len(queue) : queue'[i] = queue[j] /\ queue[j] \in Signal
    BY <1>0, <1>1, ElementOfSeq
  <2>2. queue[j].from \in Pid /\ phase[queue[j].from] # "none"
    BY <1>5, <2>1, SignalFields DEF LinkInv, LinksMade
  <2>. QED
    BY <2>1, <2>2 DEF StayMade
<1>6. ASSUME NEW x \in Pid, NEW y \in links'[x]
      PROVE  phase'[x] # "none" /\ phase'[y] # "none"
  <2>1. y \in Pid
    BY <1>0, <1>6
  <2>2. phase[x] # "none" /\ phase[y] # "none"
    <3>1. CASE y \in links[x]
      BY <3>1 DEF LinkInv, LinksMade
    <3>2. CASE y \notin links[x]
      <4>1. s.kind = "link" /\ s.to = x /\ s.from = y
        BY <1>6, <3>2
      <4>. QED
        BY <1>0, <1>1, <4>1 DEF LinkInv, LinksMade, Made
    <3>. QED
      BY <3>1, <3>2
  <2>. QED
    BY <2>1, <2>2 DEF StayMade
<1>7. LinksMade'
  <2>1. \A x \in Pid : phase'[x] = "none" => links'[x] = {}
    BY <1>6
  <2>. QED
    BY <1>5, <1>6, <2>1 DEF LinksMade
<1>. QED
  BY <1>3, <1>4, <1>7 DEF LinkInv

LEMMA TickLinks ==
    ASSUME LinkInv, SpawnInv', Tick PROVE LinkInv'
<1> USE DEF tables, history, monitoring, linking
<1>0. TypeOK /\ DeathStep /\ SameDead /\ links \in [Pid -> SUBSET Pid]
  BY TickDeath DEF LinkInv, SpawnInv, DownInv, Types, TypeOK
<1>1. queue # <<>> /\ queue' = Tail(queue)
  BY DEF Tick, OnGo, OnRelay, OnLink, OnUnlink, OnMonitor, OnDemonitor,
         OnExit, OnDown, Fires
<1>2. PICK s : /\ s = Head(queue) /\ s = queue[1] /\ s \in Signal
               /\ s.to \in Pid /\ 1 \in 1..Len(queue)
  BY <1>0, <1>1, Popped, SignalFields
<1>3. StayMade /\ \A x \in Pid : Deliverable(x)' => Deliverable(x)
  <2>1. ASSUME OnExit
        PROVE  \A x \in Pid : /\ Deliverable(x)' => Deliverable(x)
                              /\ phase[x] # "none" => phase'[x] # "none"
    BY <1>0, <1>2, <2>1 DEF OnExit, Resolve, Deliverable, TypeOK
  <2>2. CASE phase' = phase
    BY <2>2 DEF StayMade, Deliverable
  <2>. QED
    BY <2>1, <2>2 DEF StayMade, Tick, OnGo, OnRelay, OnLink, OnUnlink,
       OnMonitor, OnDemonitor, OnDown
<1>4. ASSUME links' = links, s.kind \notin {"link", "unlink"},
             exits \subseteq exits', orphaned \subseteq orphaned',
             s.kind = "exit" /\ s.from \in Pid /\ phase[s.from] = "dead" =>
                <<s.from, s.to>> \in exits'
      PROVE  LinkInv'
  <2>1. \A x, y : ~About(s, x, y)
    BY <1>4 DEF About
  <2>. QED
    BY <1>0, <1>1, <1>2, <1>3, <1>4, <2>1, LinkHandleStep
<1>5. CASE OnGo \/ OnRelay \/ OnMonitor \/ OnDemonitor \/ OnDown
  BY <1>2, <1>4, <1>5 DEF OnGo, OnRelay, OnMonitor, OnDemonitor, OnDown, Fires
<1>6. CASE OnExit
  <2>1. links' = links /\ s.kind = "exit" /\ orphaned' = orphaned
    BY <1>2, <1>6 DEF OnExit, Fires
  <2>2. exits' = IF s.from # System /\ phase[s.from] = "dead"
                 THEN exits \cup {<<s.from, s.to>>} ELSE exits
    BY <1>2, <1>6 DEF OnExit
  <2>. QED
    BY <1>4, <2>1, <2>2, ProcessesAssumption
<1>7. CASE OnLink
  <2>1. /\ s.kind = "link" /\ exits' = exits /\ s.from \in Pid
        /\ Deliverable(s.to) => orphaned' = orphaned
              /\ links' = [links EXCEPT ![s.to] = @ \cup {s.from}]
        /\ ~Deliverable(s.to) => links' = links
              /\ orphaned' = orphaned \cup {<<s.from, s.to>>}
    BY <1>2, <1>7, SignalFields DEF OnLink, Fires
  <2>2. \A x, y \in Pid : Deliverable(x) =>
           (y \in links'[x] <=> IF About(s, x, y) THEN s.kind = "link"
                                                  ELSE y \in links[x])
    BY <1>0, <1>2, <2>1 DEF About
  <2>3. \A x \in Pid : \A y \in links'[x] :
           y \in links[x] \/ (s.kind = "link" /\ s.to = x /\ s.from = y)
    BY <1>0, <1>2, <2>1
  <2>. QED
    BY <1>0, <1>1, <1>2, <1>3, <2>1, <2>2, <2>3, LinkHandleStep
<1>8. CASE OnUnlink
  <2>1. /\ s.kind = "unlink" /\ exits' = exits /\ orphaned' = orphaned
        /\ links' = [links EXCEPT ![s.to] = @ \ {s.from}]
    BY <1>2, <1>8 DEF OnUnlink, Fires
  <2>2. \A x, y \in Pid :
           y \in links'[x] <=> IF About(s, x, y) THEN s.kind = "link"
                                                 ELSE y \in links[x]
    BY <1>0, <1>2, <2>1 DEF About
  <2>3. \A x \in Pid : links'[x] \subseteq links[x]
    BY <1>0, <1>2, <2>1
  <2>. QED
    BY <1>0, <1>1, <1>2, <1>3, <2>1, <2>2, <2>3, LinkHandleStep
<1>. QED
  BY <1>5, <1>6, <1>7, <1>8 DEF Tick

LEMMA LinklessSame ==
    ASSUME LinkInv, SpawnInv', DeathStep, StayMade, SameDead,
           NEW add, add \in Seq(Linkless), queue' = queue \o add,
           UNCHANGED <<links, exits, orphaned>>
    PROVE  LinkInv'
<1>1. phase \in [Pid -> {"none", "alive", "dying", "dead"}]
  BY DEF LinkInv, SpawnInv, DownInv, Types, TypeOK
<1>2. LinkKept
  BY <1>1 DEF LinkKept, DeathStep, StayMade, Deliverable
<1>. QED
  BY <1>2, LinklessStep

LEMMA SilentSame ==
    ASSUME LinkInv, SpawnInv', DeathStep, StayMade, SameDead, queue' = queue,
           UNCHANGED <<links, exits, orphaned>>
    PROVE  LinkInv'
<1>1. queue' = queue \o <<>> /\ <<>> \in Seq(Linkless)
  BY ConcatEmptySeq, EmptySeq DEF LinkInv, SpawnInv, DownInv, Types, TypeOK
<1>. QED
  BY <1>1, LinklessSame

LEMMA UserLinks ==
    ASSUME LinkInv, SpawnInv', UserStep PROVE LinkInv'
<1>0. /\ TypeOK /\ queue \in Seq(Signal)
      /\ DeathStep /\ StayMade /\ SameDead
  BY UserDeath, UserMade DEF LinkInv, SpawnInv, DownInv, Types, TypeOK
<1> USE <1>0 DEF core, history, linking
<1>1. ASSUME NEW p \in Pid, NEW q \in Pid, NEW m \in Message, Send(p, q, m)
      PROVE  LinkInv'
  <2>1. ToPid(q, RelaySig(p, q, m)) \in Seq(Linkless)
    BY LinklessMade, ToPidIn
  <2>. QED
    BY <1>1, <2>1, LinklessSame DEF Send
<1>2. ASSUME NEW p \in Pid, NEW n \in Name, NEW m \in Message,
             SendToName(p, n, m)
      PROVE  LinkInv'
  <2>1. CASE registrations[n] # NoPid
    <3>1. registrations[n] \in Pid
      BY <2>1 DEF TypeOK
    <3>2. ToPid(registrations[n], RelaySig(p, registrations[n], m))
             \in Seq(Linkless)
      BY <3>1, LinklessMade, ToPidIn
    <3>. QED
      BY <1>2, <2>1, <3>2, LinklessSame DEF SendToName
  <2>2. CASE registrations[n] = NoPid
    <3>1. ToPid(p, ExitSig(System, p, "badarg")) \in Seq(Linkless)
      BY LinklessMade, ToPidIn DEF Reason
    <3>. QED
      BY <1>2, <2>2, <3>1, LinklessSame DEF SendToName
  <2>. QED
    BY <2>1, <2>2
<1>3. ASSUME NEW p \in Pid, NEW q \in Pid, NEW r \in Ref, Monitor(p, q, r)
      PROVE  LinkInv'
  <2>1. /\ ToPid(p, DownSig(q, p, r, "noproc")) \in Seq(Linkless)
        /\ <<MonitorSig(p, q, r)>> \in Seq(Linkless)
    BY LinklessMade, ToPidIn, FewSignals DEF Reason
  <2>2. MonitorSignals(p, q, r) \in Seq(Linkless)
    BY <2>1 DEF MonitorSignals
  <2>. QED
    BY <1>3, <2>2, LinklessSame DEF Monitor
<1>4. ASSUME NEW p \in Pid, NEW r \in Ref, Demonitor(p, r) PROVE LinkInv'
  <2>1. target[r] \in Pid
    BY <1>4, ProcessesAssumption
       DEF Demonitor, LinkInv, SpawnInv, DownInv, Types, RefsKnown, TypeOK
  <2>2. ToPid(target[r], DemonitorSig(p, target[r], r)) \in Seq(Linkless)
    BY <2>1, LinklessMade, ToPidIn
  <2>. QED
    BY <1>4, <2>2, LinklessSame DEF Demonitor
<1>5. ASSUME NEW p \in Pid, NEW q \in Pid, NEW why \in UserReason,
             Exit(p, q, why)
      PROVE  LinkInv'
  <2>1. ToPid(q, ExitSig(p, q, why)) \in Seq(Linkless)
    BY LinklessMade, ToPidIn DEF Reason
  <2>. QED
    BY <1>5, <2>1, LinklessSame DEF Exit
<1>6. ASSUME NEW p \in Pid, NEW q \in Pid, Spawn(p, q) PROVE LinkInv'
  <2>1. queue' = queue \o <<GoSig(q)>> /\ <<GoSig(q)>> \in Seq(Linkless)
    BY <1>6, LinklessMade, SignalsMade, FewSignals, AppendIsConcat DEF Spawn
  <2>. QED
    BY <1>6, <2>1, LinklessSame DEF Spawn, NewContext
<1>7. ASSUME NEW p \in Pid, NEW q \in Pid, NEW r \in Ref, SpawnMonitor(p, q, r)
      PROVE  LinkInv'
  <2>1. <<MonitorSig(p, q, r), GoSig(q)>> \in Seq(Linkless)
    BY LinklessMade, FewSignals
  <2>. QED
    BY <1>7, <2>1, LinklessSame DEF SpawnMonitor, NewContext
<1>8. ASSUME NEW p \in Pid, NEW why, Die(p, why) \/ Finish(p, why)
      PROVE  LinkInv'
  BY <1>8, SilentSame DEF Die, Finish
<1>9. ASSUME NEW p \in Pid, TrapExit(p) \/ Receive(p) PROVE LinkInv'
  BY <1>9, SilentSame DEF TrapExit, Receive
<1>10. ASSUME NEW p \in Pid, NEW n \in Name, Register(p, n) \/ Unregister(p, n)
       PROVE  LinkInv'
  BY <1>10, SilentSame DEF Register, Unregister
<1>. QED
  BY <1>1, <1>2, <1>3, <1>4, <1>5, <1>6, <1>7, <1>8, <1>9, <1>10,
     LinkLinks, UnlinkLinks, SpawnLinkLinks DEF UserStep

LEMMA LinkInvInit == Init => LinkInv
<1> SUFFICES ASSUME Init PROVE LinkInv
  OBVIOUS
<1>1. queue = <<>> /\ \A p \in Pid : links[p] = {}
  BY DEF Init
<1>2. 1..Len(queue) = {}
  BY <1>1
<1>3. LinksMade
  BY <1>1, <1>2 DEF LinksMade
<1>4. \A p, q \in Pid : ~WillLink(p, q)
  BY <1>1, <1>2 DEF WillLink, Will, LinkPlaces
<1>. QED
  BY <1>3, <1>4, SpawnInvInit DEF LinkInv

LEMMA LinkInvStep == LinkInv /\ [Next]_vars => LinkInv'
<1> SUFFICES ASSUME LinkInv, [Next]_vars PROVE LinkInv'
  OBVIOUS
<1>0. SpawnInv' /\ TypeOK
  BY SpawnInvStep DEF LinkInv, SpawnInv, DownInv, Types
<1>1. ASSUME UNCHANGED <<queue, phase, reason, links, exits, orphaned>>
      PROVE  LinkInv'
  <2>1. DeathStep /\ SameDead /\ StayMade
    BY <1>1 DEF DeathStep, SameDead, StayMade
  <2>. QED
    BY <1>0, <1>1, <2>1, SilentSame
<1>2. ASSUME NEW p \in Pid, Cleanup(p) PROVE LinkInv'
  BY <1>1, <1>2 DEF Cleanup, core, history, linking
<1>3. CASE UNCHANGED vars
  BY <1>1, <1>3 DEF vars, core, history, linking
<1>. QED
  BY <1>0, <1>2, <1>3, UserLinks, DestroyLinks, TickLinks DEF Next, Microtask

LEMMA LinkInvAlways == Spec => []LinkInv
BY LinkInvInit, LinkInvStep, PTL DEF Spec

(* When no signal is on its way, what will be is what is.                  *)
LEMMA NothingComes ==
    ASSUME Quiet, NEW p, NEW q PROVE WillLink(p, q) <=> q \in links[p]
<1>1. 1..Len(queue) = {}
  BY DEF Quiet
<1>2. LinkPlaces(queue, p, q) = {}
  BY <1>1 DEF LinkPlaces
<1>. QED
  BY <1>2 DEF WillLink, Will

(* Once link and unlink have been handled on both sides, two living        *)
(* processes agree about being linked.                                     *)
THEOREM LinkedAgree == Spec => []LinksAgree
<1>1. LinkInv => LinksAgree
  BY NothingComes DEF LinkInv, LinksAgree, Deliverable
<1>. QED
  BY <1>1, LinkInvAlways, PTL

(* A living process still linked to a dead one has had its EXIT, unless    *)
(* the death overtook the link.                                            *)
THEOREM ExitsAreNotLost == Spec => []ExitLostOnlyByRace
<1>1. LinkInv => ExitLostOnlyByRace
  <2> SUFFICES ASSUME LinkInv, Quiet, NEW p \in Pid, NEW q \in Pid,
                      phase[p] = "alive", q \in links[p], phase[q] = "dead"
               PROVE  <<q, p>> \in exits \/ <<p, q>> \in orphaned
    BY DEF ExitLostOnlyByRace
  <2>1. Deliverable(p) /\ WillLink(p, q)
    BY NothingComes DEF Deliverable
  <2>2. Told(p, q)
    BY <2>1 DEF LinkInv
  <2>3. 1..Len(queue) = {}
    BY DEF Quiet
  <2>. QED
    BY <2>2, <2>3 DEF Told
<1>. QED
  BY <1>1, LinkInvAlways, PTL

-----------------------------------------------------------------------------
(* The state of Monitoring in which Processes is.                          *)
Asked == {s.ref : s \in Queued("monitor")}

Standing == {r \in Ref : target[r] # NoPid /\ Watched(r)}

LifeOf == [p \in Pid |-> Life(p)]

(* A reference is on its way to its subject only once: when its monitor    *)
(* has been handled, none is under way.                                    *)
MonitorsOnce ==
    \A i, j \in 1..Len(queue) :
        /\ queue[i].kind = "monitor" /\ queue[j].kind = "monitor"
        /\ queue[i].ref = queue[j].ref
        => i = j

MonInv == DueInv /\ MonitorsOnce

(* A step of the code is a step of Monitoring, or no business of it.       *)
Conforms == Monitored!Next \/ UNCHANGED Monitored!vars

(* What the invariant knows, in one place.                                 *)
LEMMA MonKnown ==
    ASSUME MonInv
    PROVE  /\ TypeOK /\ RefsKnown /\ Made /\ MonitorsKnown /\ MonitorsOnce
           /\ DownAtMostOnce /\ SpawnMonitorNeverLate /\ NoPid \notin Pid
           /\ queue \in Seq(Signal)
           /\ phase \in [Pid -> {"none", "alive", "dying", "dead"}]
           /\ target \in [Ref -> Pid \cup {NoPid}]
           /\ watcher \in [Ref -> Pid \cup {NoPid}]
           /\ monitors \in [Pid -> SUBSET [ref : Ref, watcher : Pid]]
BY ProcessesAssumption
   DEF MonInv, DueInv, SpawnInv, DownInv, Types, TypeOK

(* What Queued says when signals are added at the end, or the head goes.   *)
LEMMA QueuedGrows ==
    ASSUME TypeOK, NEW add \in Seq(Signal), queue' = queue \o add, NEW kind
    PROVE  Queued(kind)' = Queued(kind)
              \cup {add[k] : k \in {j \in 1..Len(add) : add[j].kind = kind}}
<1>1. /\ Len(queue) \in Nat /\ Len(add) \in Nat
      /\ Len(queue') = Len(queue) + Len(add)
      /\ \A i \in 1..Len(queue) : queue'[i] = queue[i]
      /\ \A k \in 1..Len(add) : queue'[Len(queue) + k] = add[k]
      /\ \A i \in 1..Len(queue') :
            i \notin 1..Len(queue) => i - Len(queue) \in 1..Len(add)
                    /\ i = Len(queue) + (i - Len(queue))
  BY Grown
<1>2. ASSUME NEW x \in Queued(kind)'
      PROVE  x \in Queued(kind)
              \cup {add[k] : k \in {j \in 1..Len(add) : add[j].kind = kind}}
  <2>1. PICK i \in 1..Len(queue') : queue'[i] = x /\ x.kind = kind
    BY <1>2 DEF Queued
  <2>2. CASE i \in 1..Len(queue)
    BY <1>1, <2>1, <2>2 DEF Queued
  <2>3. CASE i \notin 1..Len(queue)
    <3>1. PICK k \in 1..Len(add) : i = Len(queue) + k
      BY <1>1, <2>3
    <3>2. add[k] = x
      BY <1>1, <2>1, <3>1
    <3>. QED
      BY <2>1, <3>2
  <2>. QED
    BY <2>2, <2>3
<1>3. ASSUME NEW x \in Queued(kind) PROVE x \in Queued(kind)'
  <2>1. PICK i \in 1..Len(queue) : queue[i] = x /\ x.kind = kind
    BY <1>3 DEF Queued
  <2>2. i \in 1..Len(queue') /\ queue'[i] = x
    BY <1>1, <2>1
  <2>. QED
    BY <2>1, <2>2 DEF Queued
<1>4. ASSUME NEW k \in 1..Len(add), add[k].kind = kind
      PROVE  add[k] \in Queued(kind)'
  <2>1. Len(queue) + k \in 1..Len(queue') /\ queue'[Len(queue) + k] = add[k]
    BY <1>1
  <2>. QED
    BY <1>4, <2>1 DEF Queued
<1>. QED
  BY <1>2, <1>3, <1>4

(* Handling the head takes it out of the signals of its kind.              *)
LEMMA QueuedPopped ==
    ASSUME TypeOK, queue # <<>>, queue' = Tail(queue), NEW kind
    PROVE  Queued(kind) =
              Queued(kind)' \cup {x \in {Head(queue)} : x.kind = kind}
<1>1. /\ Len(queue) \in Nat /\ Len(queue) > 0
      /\ Len(queue') = Len(queue) - 1
      /\ \A i \in 1..Len(queue') :
            i + 1 \in 1..Len(queue) /\ queue'[i] = queue[i + 1]
      /\ 1 \in 1..Len(queue) /\ Head(queue) = queue[1]
  BY Popped
<1>2. ASSUME NEW x \in Queued(kind)
      PROVE  x \in Queued(kind)' \/ (x = Head(queue) /\ x.kind = kind)
  <2>1. PICK i \in 1..Len(queue) : queue[i] = x /\ x.kind = kind
    BY <1>2 DEF Queued
  <2>2. CASE i = 1
    BY <1>1, <2>1, <2>2
  <2>3. CASE i # 1
    <3>1. PICK j : j = i - 1 /\ j \in 1..Len(queue') /\ i = j + 1
      BY <1>1, <2>3
    <3>2. queue'[j] = x
      BY <1>1, <2>1, <3>1
    <3>. QED
      BY <2>1, <3>1, <3>2 DEF Queued
  <2>. QED
    BY <2>2, <2>3
<1>3. ASSUME NEW x \in Queued(kind)' PROVE x \in Queued(kind)
  <2>1. PICK j \in 1..Len(queue') : queue'[j] = x /\ x.kind = kind
    BY <1>3 DEF Queued
  <2>2. PICK i \in 1..Len(queue) : queue[i] = x
    BY <1>1, <2>1
  <2>. QED
    BY <2>1, <2>2 DEF Queued
<1>4. Head(queue).kind = kind => Head(queue) \in Queued(kind)
  BY <1>1 DEF Queued
<1>. QED
  BY <1>2, <1>3, <1>4

(* New monitor signals are of references that were not asked yet.          *)
LEMMA MonitorsOnceGrows ==
    ASSUME TypeOK, MonitorsOnce,
           NEW add \in Seq(Signal), queue' = queue \o add,
           \A k, l \in 1..Len(add) :
              add[k].kind = "monitor" /\ add[l].kind = "monitor" => k = l,
           \A k \in 1..Len(add) :
              add[k].kind = "monitor" => add[k].ref \notin Asked
    PROVE  MonitorsOnce'
<1>1. /\ Len(queue) \in Nat /\ Len(add) \in Nat
      /\ \A i \in 1..Len(queue) : queue'[i] = queue[i]
      /\ \A k \in 1..Len(add) : queue'[Len(queue) + k] = add[k]
      /\ \A i \in 1..Len(queue') :
            i \notin 1..Len(queue) => i - Len(queue) \in 1..Len(add)
                    /\ i = Len(queue) + (i - Len(queue))
  BY Grown
<1>2. ASSUME NEW i \in 1..Len(queue'), NEW j \in 1..Len(queue'),
             queue'[i].kind = "monitor", queue'[j].kind = "monitor",
             queue'[i].ref = queue'[j].ref,
             i \in 1..Len(queue), j \notin 1..Len(queue)
      PROVE  FALSE
  <2>1. PICK k \in 1..Len(add) : queue'[j] = add[k]
    BY <1>1, <1>2
  <2>2. queue[i] \in Queued("monitor") /\ queue[i].ref = add[k].ref
    BY <1>1, <1>2, <2>1 DEF Queued
  <2>3. add[k].ref \in Asked
    BY <2>2 DEF Asked
  <2>. QED
    BY <1>2, <2>1, <2>3
<1>3. ASSUME NEW i \in 1..Len(queue'), NEW j \in 1..Len(queue'),
             queue'[i].kind = "monitor", queue'[j].kind = "monitor",
             i \notin 1..Len(queue), j \notin 1..Len(queue)
      PROVE  i = j
  <2>1. PICK k \in 1..Len(add) : i = Len(queue) + k /\ queue'[i] = add[k]
    BY <1>1, <1>3
  <2>2. PICK l \in 1..Len(add) : j = Len(queue) + l /\ queue'[j] = add[l]
    BY <1>1, <1>3
  <2>. QED
    BY <1>3, <2>1, <2>2
<1>4. ASSUME NEW i \in 1..Len(queue), NEW j \in 1..Len(queue),
             queue'[i].kind = "monitor", queue'[j].kind = "monitor",
             queue'[i].ref = queue'[j].ref
      PROVE  i = j
  BY <1>1, <1>4 DEF MonitorsOnce
<1>. QED
  BY <1>2, <1>3, <1>4 DEF MonitorsOnce

(* A reference whose monitor is handled is not asked any more.             *)
LEMMA MonitorsOncePopped ==
    ASSUME TypeOK, MonitorsOnce, queue # <<>>, queue' = Tail(queue)
    PROVE  /\ MonitorsOnce'
           /\ Head(queue).kind = "monitor" => Head(queue).ref \notin Asked'
<1>1. /\ Len(queue) \in Nat /\ Len(queue) > 0
      /\ Len(queue') = Len(queue) - 1
      /\ \A i \in 1..Len(queue') :
            i + 1 \in 1..Len(queue) /\ queue'[i] = queue[i + 1]
      /\ 1 \in 1..Len(queue) /\ Head(queue) = queue[1]
  BY Popped
<1>2. ASSUME NEW i \in 1..Len(queue'), NEW j \in 1..Len(queue'),
             queue'[i].kind = "monitor", queue'[j].kind = "monitor",
             queue'[i].ref = queue'[j].ref
      PROVE  i = j
  <2>1. i + 1 = j + 1
    BY <1>1, <1>2 DEF MonitorsOnce
  <2>. QED
    BY <1>1, <2>1
<1>3. ASSUME Head(queue).kind = "monitor", Head(queue).ref \in Asked'
      PROVE  FALSE
  <2>1. PICK i \in 1..Len(queue') :
            queue'[i].kind = "monitor" /\ queue'[i].ref = Head(queue).ref
    BY <1>3 DEF Asked, Queued
  <2>2. i + 1 = 1
    BY <1>1, <1>3, <2>1 DEF MonitorsOnce
  <2>. QED
    BY <1>1, <2>2
<1>. QED
  BY <1>2, <1>3 DEF MonitorsOnce

(* A DOWN that is handled was the only one of its kind.                    *)
LEMMA DownPopped ==
    ASSUME TypeOK, DownAtMostOnce, queue # <<>>, queue' = Tail(queue),
           Head(queue).kind = "down"
    PROVE  Head(queue) \notin Queued("down")' /\ Head(queue).ref \notin notified
<1>1. /\ Len(queue) \in Nat /\ Len(queue) > 0
      /\ Len(queue') = Len(queue) - 1
      /\ \A i \in 1..Len(queue') :
            i + 1 \in 1..Len(queue) /\ queue'[i] = queue[i + 1]
      /\ 1 \in 1..Len(queue) /\ Head(queue) = queue[1]
      /\ Head(queue) \in Signal
  BY Popped
<1>2. 1 \in DownsQueued(Head(queue).ref) /\ Head(queue).ref \in Ref
  BY <1>1, SignalFields DEF DownsQueued
<1>3. Head(queue).ref \notin notified
  BY <1>2 DEF DownAtMostOnce
<1>4. ASSUME Head(queue) \in Queued("down")' PROVE FALSE
  <2>1. PICK i \in 1..Len(queue') : queue'[i] = Head(queue)
    BY <1>4 DEF Queued
  <2>2. i + 1 \in DownsQueued(Head(queue).ref)
    BY <1>1, <2>1 DEF DownsQueued
  <2>3. i + 1 = 1
    BY <1>2, <2>2 DEF DownAtMostOnce
  <2>. QED
    BY <1>1, <2>3
<1>. QED
  BY <1>3, <1>4

(* What Monitoring does not see.                                           *)
LEMMA Unseen ==
    ASSUME TypeOK, Queued("monitor")' = Queued("monitor"),
           Queued("down")' = Queued("down"), LifeOf' = LifeOf,
           Standing' = Standing,
           UNCHANGED <<watcher, target, atSpawn, cancelled, notified>>
    PROVE  Conforms
<1>1. UNCHANGED Monitored!vars
  BY DEF Monitored!vars, Monitored!refs, LifeOf, Standing
<1>. QED
  BY <1>1 DEF Conforms

(* The monitors in force follow from the tables and who is dead.           *)
LEMMA StandingSame ==
    ASSUME TypeOK, SameDead, UNCHANGED <<target, watcher, monitors>>
    PROVE  Standing' = Standing
<1>1. \A r \in Ref : target[r] # NoPid => target[r] \in Pid
  BY DEF TypeOK
<1>2. \A r \in Ref : target[r] # NoPid => (Watched(r)' <=> Watched(r))
  BY <1>1 DEF Watched, SameDead
<1>. QED
  BY <1>2 DEF Standing

(* To be dying is nothing that Monitoring sees.                            *)
LEMMA LifeSame ==
    (\A p \in Pid : phase'[p] = phase[p]
                    \/ {phase[p], phase'[p]} \subseteq {"alive", "dying"})
        => LifeOf' = LifeOf
<1>1. ASSUME NEW p \in Pid,
             phase'[p] = phase[p]
             \/ {phase[p], phase'[p]} \subseteq {"alive", "dying"}
      PROVE  Life(p)' = Life(p)
  BY <1>1 DEF Life
<1>. QED
  BY <1>1 DEF LifeOf

(* ... so that resolving the death promise changes no life.                *)
LEMMA ResolveLife ==
    ASSUME TypeOK, NEW p, NEW why, Resolve(p, why) PROVE LifeOf' = LifeOf
BY LifeSame DEF Resolve, TypeOK

(* Signals that neither ask for a monitor nor tell of a death.             *)
Still == {s \in Signal : s.kind \notin {"monitor", "down"}}

(* What a sequence of such signals holds.                                  *)
LEMMA StillSignals ==
    ASSUME NEW add, add \in Seq(Still)
    PROVE  /\ add \in Seq(Signal)
           /\ \A k \in 1..Len(add) : add[k].kind \notin {"monitor", "down"}
<1>1. Still \subseteq Signal
  BY DEF Still
<1>2. \A k \in 1..Len(add) : add[k] \in Still
  BY ElementOfSeq
<1>. QED
  BY <1>1, <1>2 DEF Still

(* Sending them changes nothing that Monitoring sees of the queue.         *)
LEMMA StillGrows ==
    ASSUME TypeOK, MonitorsOnce,
           NEW add, add \in Seq(Still), queue' = queue \o add
    PROVE  /\ Queued("monitor")' = Queued("monitor")
           /\ Queued("down")' = Queued("down")
           /\ MonitorsOnce'
<1>1. /\ add \in Seq(Signal)
      /\ \A k \in 1..Len(add) : add[k].kind \notin {"monitor", "down"}
  BY StillSignals
<1>2. MonitorsOnce'
  BY <1>1, MonitorsOnceGrows
<1>3. ASSUME NEW kind \in {"monitor", "down"}
      PROVE  Queued(kind)' = Queued(kind)
  <2>1. {j \in 1..Len(add) : add[j].kind = kind} = {}
    BY <1>1
  <2>2. Queued(kind)' = Queued(kind)
            \cup {add[k] : k \in {j \in 1..Len(add) : add[j].kind = kind}}
    BY <1>1, QueuedGrows
  <2>. QED
    BY <2>1, <2>2
<1>. QED
  BY <1>2, <1>3

(* Which signals these are.                                                *)
LEMMA StillMade ==
    /\ \A p, q \in Pid, m \in Message : RelaySig(p, q, m) \in Still
    /\ \A p, q \in Pid : LinkSig(p, q) \in Still /\ UnlinkSig(p, q) \in Still
    /\ \A p, q \in Pid, r \in Ref : DemonitorSig(p, q, r) \in Still
    /\ \A p \in Pid \cup {System}, q \in Pid, why \in Reason :
          ExitSig(p, q, why) \in Still
    /\ \A p \in Pid : GoSig(p) \in Still
<1> USE SignalsMade DEF Still
<1>1. /\ \A p, q \in Pid, m \in Message : RelaySig(p, q, m) \in Still
      /\ \A p, q \in Pid : LinkSig(p, q) \in Still /\ UnlinkSig(p, q) \in Still
  BY DEF RelaySig, LinkSig, UnlinkSig
<1>2. /\ \A p, q \in Pid, r \in Ref : DemonitorSig(p, q, r) \in Still
      /\ \A p \in Pid : GoSig(p) \in Still
  BY DEF DemonitorSig, GoSig
<1>3. \A p \in Pid \cup {System}, q \in Pid, why \in Reason :
         ExitSig(p, q, why) \in Still
  BY DEF ExitSig
<1>. QED
  BY <1>1, <1>2, <1>3

(* User code sends nothing but such signals, monitors apart.               *)
LEMMA StillSent ==
    ASSUME TypeOK, RefsKnown, UserStep, target' = target
    PROVE  \E add \in Seq(Still) : queue' = queue \o add
<1>0. queue \in Seq(Signal)
  BY DEF TypeOK
<1> DEFINE Sent == \E add \in Seq(Still) : queue' = queue \o add
<1>1. ASSUME NEW p \in Pid, NEW q \in Pid, NEW m \in Message, Send(p, q, m)
      PROVE  Sent
  <2>1. ToPid(q, RelaySig(p, q, m)) \in Seq(Still)
    BY StillMade, ToPidIn
  <2>. QED
    BY <1>1, <2>1 DEF Send
<1>2. ASSUME NEW p \in Pid, NEW n \in Name, NEW m \in Message,
             SendToName(p, n, m)
      PROVE  Sent
  <2>1. CASE registrations[n] # NoPid
    <3>1. registrations[n] \in Pid
      BY <2>1 DEF TypeOK
    <3>2. ToPid(registrations[n], RelaySig(p, registrations[n], m))
             \in Seq(Still)
      BY <3>1, StillMade, ToPidIn
    <3>. QED
      BY <1>2, <2>1, <3>2 DEF SendToName
  <2>2. CASE registrations[n] = NoPid
    <3>1. ToPid(p, ExitSig(System, p, "badarg")) \in Seq(Still)
      BY StillMade, ToPidIn DEF Reason
    <3>. QED
      BY <1>2, <2>2, <3>1 DEF SendToName
  <2>. QED
    BY <2>1, <2>2
<1>3. ASSUME NEW p \in Pid, NEW q \in Pid, Link(p, q) PROVE Sent
  <2>1. /\ ToPid(q, LinkSig(p, q)) \in Seq(Still)
        /\ ToPid(p, LinkSig(q, p)) \in Seq(Still)
    BY StillMade, ToPidIn
  <2>2. LinkSignals(p, q) \in Seq(Still)
    BY <2>1, ConcatProperties DEF LinkSignals
  <2>. QED
    BY <1>3, <2>2 DEF Link
<1>4. ASSUME NEW p \in Pid, NEW q \in Pid, Unlink(p, q) PROVE Sent
  <2>1. PICK a, b : /\ a = ToPid(q, UnlinkSig(p, q))
                    /\ b = ToPid(p, UnlinkSig(q, p))
    OBVIOUS
  <2>2. queue' = queue \o (a \o b)
    <3>1. a \in Seq(Signal) /\ b \in Seq(Signal)
      BY <2>1, SignalsMade, ToPidType
    <3>2. (queue \o a) \o b = queue \o (a \o b)
      BY <1>0, <3>1, TwoParts
    <3>. QED
      BY <1>4, <2>1, <3>2 DEF Unlink
  <2>3. a \o b \in Seq(Still)
    <3>1. a \in Seq(Still) /\ b \in Seq(Still)
      BY <2>1, StillMade, ToPidIn
    <3>. QED
      BY <3>1, ConcatProperties
  <2>. QED
    BY <2>2, <2>3
<1>5. ASSUME NEW p \in Pid, NEW q \in Pid, NEW why \in UserReason,
             Exit(p, q, why)
      PROVE  Sent
  <2>1. ToPid(q, ExitSig(p, q, why)) \in Seq(Still)
    BY StillMade, ToPidIn DEF Reason
  <2>. QED
    BY <1>5, <2>1 DEF Exit
<1>6. ASSUME NEW p \in Pid, NEW r \in Ref, Demonitor(p, r) PROVE Sent
  <2>1. target[r] \in Pid
    BY <1>6, ProcessesAssumption DEF Demonitor, RefsKnown, TypeOK
  <2>2. ToPid(target[r], DemonitorSig(p, target[r], r)) \in Seq(Still)
    BY <2>1, StillMade, ToPidIn
  <2>. QED
    BY <1>6, <2>2 DEF Demonitor
<1>7. ASSUME NEW p \in Pid, NEW q \in Pid, Spawn(p, q) PROVE Sent
  <2>1. queue' = queue \o <<GoSig(q)>> /\ <<GoSig(q)>> \in Seq(Still)
    BY <1>0, <1>7, StillMade, SignalsMade, FewSignals, AppendIsConcat DEF Spawn
  <2>. QED
    BY <2>1
<1>8. ASSUME NEW p \in Pid, NEW q \in Pid, SpawnLink(p, q) PROVE Sent
  <2>1. PICK a, b, c : /\ a = <<LinkSig(p, q)>> /\ b = ToPid(p, LinkSig(q, p))
                       /\ c = <<GoSig(q)>>
    OBVIOUS
  <2>2. a \in Seq(Still) /\ b \in Seq(Still) /\ c \in Seq(Still)
    BY <2>1, StillMade, FewSignals, ToPidIn
  <2>3. PICK ab : ab = a \o b /\ ab \in Seq(Still)
    BY <2>2, ConcatProperties
  <2>4. /\ a \in Seq(Signal) /\ b \in Seq(Signal) /\ c \in Seq(Signal)
        /\ ab \in Seq(Signal)
    BY <2>2, <2>3, StillSignals
  <2>5. (queue \o a) \o b = queue \o ab
    <3>1. (queue \o a) \o b = queue \o (a \o b)
      BY <1>0, <2>4, TwoParts
    <3>. QED
      BY <2>3, <3>1
  <2>6. (queue \o ab) \o c = queue \o (ab \o c)
    BY <1>0, <2>4, TwoParts
  <2>7. queue' = ((queue \o a) \o b) \o c
    BY <1>8, <2>1 DEF SpawnLink
  <2>8. queue' = queue \o (ab \o c)
    BY <2>5, <2>6, <2>7
  <2>9. ab \o c \in Seq(Still)
    BY <2>2, <2>3, ConcatProperties
  <2>. QED
    BY <2>8, <2>9
<1>9. ASSUME queue' = queue PROVE Sent
  BY <1>0, <1>9, ConcatEmptySeq, EmptySeq
<1>10. ASSUME NEW p \in Pid, NEW q \in Pid, NEW r \in Ref,
              Monitor(p, q, r) \/ SpawnMonitor(p, q, r)
       PROVE  FALSE
  <2>1. target[r] = NoPid /\ target' = [target EXCEPT ![r] = q]
    BY <1>10 DEF Monitor, SpawnMonitor, NewRef
  <2>2. target'[r] = q
    BY <2>1 DEF TypeOK
  <2>. QED
    BY <2>1, <2>2, ProcessesAssumption
<1> HIDE DEF Sent
<1>11. Sent
  BY <1>1, <1>2, <1>3, <1>4, <1>5, <1>6, <1>7, <1>8, <1>9, <1>10
     DEF UserStep, Die, Finish, TrapExit, Receive, Register, Unregister
<1>. QED
  BY <1>11 DEF Sent

(* Steps of user code.                                                     *)
LEMMA UserDies ==
    ASSUME MonInv, NEW p \in Pid, NEW why, Die(p, why) \/ Finish(p, why)
    PROVE  LifeOf' = LifeOf
BY MonKnown, ResolveLife DEF Die, Finish

(* A new context is a Born.                                                *)
LEMMA BirthConforms ==
    ASSUME MonInv, NEW p \in Pid, NEW q \in Pid, NewContext(p, q),
           Queued("monitor")' = Queued("monitor"),
           Queued("down")' = Queued("down"),
           UNCHANGED <<watcher, target, atSpawn, cancelled, notified>>
    PROVE  Conforms
<1>1. Standing' = Standing
  BY MonKnown, NewContextDeath, StandingSame DEF NewContext
<1>2. LifeOf[q] = "none" /\ LifeOf' = [LifeOf EXCEPT ![q] = "up"]
  <2>1. /\ phase[q] = "none" /\ phase'[q] = "alive"
        /\ \A x \in Pid : x # q => phase'[x] = phase[x]
    BY MonKnown DEF NewContext
  <2>2. Life(q) = "none" /\ Life(q)' = "up"
    BY <2>1 DEF Life
  <2>3. \A x \in Pid : x # q => Life(x)' = Life(x)
    BY <2>1 DEF Life
  <2>. QED
    BY <2>2, <2>3 DEF LifeOf
<1>3. Monitored!Born(q)
  BY <1>1, <1>2
     DEF Monitored!Born, Monitored!Become, Monitored!refs, LifeOf, Standing
<1>. QED
  BY <1>3 DEF Conforms, Monitored!Next

(* demonitor is a Withdraw.                                                *)
LEMMA DemonitorConforms ==
    ASSUME MonInv, NEW p \in Pid, NEW r \in Ref, Demonitor(p, r),
           Queued("monitor")' = Queued("monitor"),
           Queued("down")' = Queued("down")
    PROVE  Conforms
<1>1. /\ UNCHANGED <<phase, monitors, target, watcher, atSpawn, notified>>
      /\ watcher[r] = p /\ cancelled' = cancelled \cup {r}
  BY DEF Demonitor, core, tables
<1>2. Standing' = Standing /\ LifeOf' = LifeOf
  BY <1>1, MonKnown, StandingSame, LifeSame DEF SameDead
<1>3. Monitored!Withdraw(r)
  BY <1>1, <1>2, MonKnown
     DEF Monitored!Withdraw, Monitored!refs, LifeOf, Standing
<1>. QED
  BY <1>3 DEF Conforms, Monitored!Next

(* A fresh reference is nowhere yet.                                       *)
LEMMA FreshRef ==
    ASSUME MonInv, NEW p \in Pid, NEW q \in Pid, NEW r \in Ref, NewRef(p, q, r),
           SameDead, monitors' = monitors
    PROVE  /\ watcher[r] = NoPid /\ r \notin Asked /\ Standing' = Standing
           /\ watcher' = [watcher EXCEPT ![r] = p]
           /\ target' = [target EXCEPT ![r] = q]
<1>1. /\ target[r] = NoPid /\ target' = [target EXCEPT ![r] = q]
      /\ watcher' = [watcher EXCEPT ![r] = p]
  BY DEF NewRef
<1>2. watcher[r] = NoPid
  BY <1>1, MonKnown DEF RefsKnown
<1>3. ASSUME r \in Asked PROVE FALSE
  <2>1. PICK i \in 1..Len(queue) :
            queue[i].kind = "monitor" /\ queue[i].ref = r
    BY <1>3 DEF Asked, Queued
  <2>2. queue[i] \in Signal
    BY MonKnown, ElementOfSeq
  <2>3. target[r] = queue[i].to /\ queue[i].to \in Pid
    BY <2>1, <2>2, MonKnown, SignalFields DEF MonitorsKnown
  <2>. QED
    BY <1>1, <2>3, MonKnown
<1>4. ASSUME NEW x \in Ref PROVE x \in Standing' <=> x \in Standing
  <2>1. CASE x = r
    <3>1. x \notin Standing
      BY <1>1, <2>1 DEF Standing
    <3>2. ASSUME [ref |-> r, watcher |-> p] \in monitors[q] PROVE FALSE
      <4>1. target[r] = q
        BY <3>2, MonKnown DEF MonitorsKnown
      <4>. QED
        BY <1>1, <4>1, MonKnown
    <3>3. target'[r] = q /\ watcher'[r] = p
      BY <1>1, MonKnown
    <3>. QED
      BY <2>1, <3>1, <3>2, <3>3 DEF Standing, Watched
  <2>2. CASE x # r
    <3>1. target'[x] = target[x] /\ watcher'[x] = watcher[x]
      BY <1>1, <2>2, MonKnown
    <3>2. target[x] # NoPid => target[x] \in Pid
      BY MonKnown
    <3>. QED
      BY <3>1, <3>2 DEF Standing, Watched, SameDead
  <2>. QED
    BY <2>1, <2>2
<1>5. Standing \subseteq Ref /\ Standing' \subseteq Ref
  BY DEF Standing
<1>. QED
  BY <1>1, <1>2, <1>3, <1>4, <1>5

(* One more signal at the end of the queue.                                *)
LEMMA QueuedOne ==
    ASSUME TypeOK, NEW x \in Signal, queue' = queue \o <<x>>, NEW kind
    PROVE  Queued(kind)' = Queued(kind) \cup {y \in {x} : y.kind = kind}
<1>1. PICK add : add = <<x>>
  OBVIOUS
<1>2. /\ add \in Seq(Signal) /\ 1..Len(add) = {1} /\ add[1] = x
      /\ queue' = queue \o add
  BY <1>1, FewSignals
<1>3. {add[k] : k \in {j \in 1..Len(add) : add[j].kind = kind}}
         = {y \in {x} : y.kind = kind}
  BY <1>2
<1>. QED
  BY <1>2, <1>3, QueuedGrows

(* The signals of a monitor: its own, or the DOWN if it comes too late.    *)
LEMMA MonitorConforms ==
    ASSUME MonInv, NEW p \in Pid, NEW q \in Pid, NEW r \in Ref,
           Monitor(p, q, r)
    PROVE  Conforms /\ MonitorsOnce'
<1>0. TypeOK
  BY MonKnown
<1>1. /\ NewRef(p, q, r) /\ phase' = phase /\ monitors' = monitors
      /\ phase[q] # "none" /\ queue' = queue \o MonitorSignals(p, q, r)
      /\ UNCHANGED <<notified, cancelled, atSpawn>>
  BY DEF Monitor, core
<1>2. /\ watcher[r] = NoPid /\ r \notin Asked /\ Standing' = Standing
      /\ watcher' = [watcher EXCEPT ![r] = p]
      /\ target' = [target EXCEPT ![r] = q]
      /\ LifeOf' = LifeOf
  BY <1>1, FreshRef, LifeSame DEF SameDead
<1>3. CASE Deliverable(q)
  <2>1. PICK x \in Signal : x = MonitorSig(p, q, r)
    BY SignalsMade
  <2>2. /\ x.kind = "monitor" /\ x.ref = r
        /\ queue' = queue \o <<x>>
    BY <1>1, <1>3, <2>1 DEF MonitorSignals, MonitorSig
  <2>3. /\ Queued("monitor")' = Queued("monitor") \cup {x}
        /\ Queued("down")' = Queued("down")
    <3>1. \A kind : Queued(kind)' = Queued(kind) \cup {y \in {x} : y.kind = kind}
      BY <1>0, <2>2, QueuedOne
    <3>2. /\ {y \in {x} : y.kind = "monitor"} = {x}
          /\ {y \in {x} : y.kind = "down"} = {}
      BY <2>2
    <3>. QED
      BY <3>1, <3>2
  <2>4. Asked' = Asked \cup {r}
    BY <2>2, <2>3 DEF Asked
  <2>5. MonitorsOnce'
    <3>1. PICK add : add = <<x>>
      OBVIOUS
    <3>2. /\ add \in Seq(Signal) /\ 1..Len(add) = {1} /\ add[1] = x
          /\ queue' = queue \o add
      BY <2>2, <3>1, FewSignals
    <3>. QED
      BY <1>2, <2>2, <3>2, MonKnown, MonitorsOnceGrows
  <2>6. q \in Pid /\ LifeOf[q] = "up"
    BY <1>3 DEF Deliverable, LifeOf, Life
  <2>7. Monitored!Ask(r, p, q)
    BY <1>1, <1>2, <2>3, <2>4, <2>6
       DEF Monitored!Ask, Monitored!Assign, Monitored!Living,
           LifeOf, Standing, Asked
  <2>. QED
    BY <2>5, <2>7 DEF Conforms, Monitored!Next
<1>4. CASE ~Deliverable(q)
  <2>1. LifeOf[q] = "gone"
    BY <1>1, <1>4, MonKnown DEF Deliverable, LifeOf, Life
  <2>2. Deliverable(p) <=> LifeOf[p] = "up"
    BY MonKnown DEF Deliverable, LifeOf, Life
  <2>3. PICK d \in Signal : d = DownSig(q, p, r, "noproc")
    BY SignalsMade DEF Reason
  <2>4. /\ d.kind = "down" /\ d.kind # "monitor"
        /\ queue' = queue \o ToPid(p, d)
        /\ d = Monitored!Down(q, p, r, "noproc")
    BY <1>1, <1>4, <2>3 DEF MonitorSignals, DownSig, Monitored!Down
  <2>5. /\ Queued("monitor")' = Queued("monitor")
        /\ Queued("down")' = Queued("down") \cup {x \in {d} : Deliverable(p)}
        /\ MonitorsOnce'
    <3>1. CASE Deliverable(p)
      <4>1. queue' = queue \o <<d>>
        BY <2>4, <3>1 DEF ToPid
      <4>2. /\ Queued("monitor")' = Queued("monitor")
            /\ Queued("down")' = Queued("down") \cup {d}
        <5>1. \A kind :
                 Queued(kind)' = Queued(kind) \cup {y \in {d} : y.kind = kind}
          BY <1>0, <4>1, QueuedOne
        <5>2. /\ {y \in {d} : y.kind = "monitor"} = {}
              /\ {y \in {d} : y.kind = "down"} = {d}
          BY <2>4
        <5>. QED
          BY <5>1, <5>2
      <4>3. PICK add : add = <<d>>
        OBVIOUS
      <4>4. /\ add \in Seq(Signal) /\ 1..Len(add) = {1} /\ add[1] = d
            /\ queue' = queue \o add
        BY <4>1, <4>3, FewSignals
      <4>5. MonitorsOnce'
        BY <2>4, <4>4, MonKnown, MonitorsOnceGrows
      <4>. QED
        BY <3>1, <4>2, <4>5
    <3>2. CASE ~Deliverable(p)
      <4>1. queue' = queue \o <<>> /\ <<>> \in Seq(Still)
        BY <2>4, <3>2, EmptySeq DEF ToPid
      <4>. QED
        BY <3>2, <4>1, MonKnown, StillGrows
    <3>. QED
      BY <3>1, <3>2
  <2>6. Monitored!AskOfTheGone(r, p, q)
    <3>1. {Monitored!Down(q, x, r, "noproc") : x \in Monitored!Living \cap {p}}
             = {x \in {d} : Deliverable(p)}
      BY <2>2, <2>4 DEF Monitored!Living, LifeOf
    <3>. QED
      BY <1>1, <1>2, <2>1, <2>5, <3>1
         DEF Monitored!AskOfTheGone, Monitored!Assign, LifeOf, Standing
  <2>. QED
    BY <2>5, <2>6 DEF Conforms, Monitored!Next
<1>. QED
  BY <1>3, <1>4

(* spawnMonitor is an AskAtBirth.                                          *)
LEMMA SpawnMonitorConforms ==
    ASSUME MonInv, NEW p \in Pid, NEW q \in Pid, NEW r \in Ref,
           SpawnMonitor(p, q, r)
    PROVE  Conforms /\ MonitorsOnce'
<1>0. TypeOK
  BY MonKnown
<1>1. /\ NewRef(p, q, r) /\ NewContext(p, q) /\ monitors' = monitors
      /\ queue' = queue \o <<MonitorSig(p, q, r), GoSig(q)>>
      /\ atSpawn' = atSpawn \cup {r}
      /\ UNCHANGED <<notified, cancelled>>
  BY DEF SpawnMonitor, NewContext
<1>2. SameDead
  BY <1>1, NewContextDeath, MonKnown
<1>3. /\ watcher[r] = NoPid /\ r \notin Asked /\ Standing' = Standing
      /\ watcher' = [watcher EXCEPT ![r] = p]
      /\ target' = [target EXCEPT ![r] = q]
  BY <1>1, <1>2, FreshRef
<1>4. LifeOf[q] = "none" /\ LifeOf' = [LifeOf EXCEPT ![q] = "up"]
  <2>1. /\ phase[q] = "none" /\ phase'[q] = "alive"
        /\ \A x \in Pid : x # q => phase'[x] = phase[x]
    BY <1>1, MonKnown DEF NewContext
  <2>2. Life(q) = "none" /\ Life(q)' = "up"
    BY <2>1 DEF Life
  <2>3. \A x \in Pid : x # q => Life(x)' = Life(x)
    BY <2>1 DEF Life
  <2>. QED
    BY <2>2, <2>3 DEF LifeOf
<1>5. PICK x \in Signal, g \in Signal :
          x = MonitorSig(p, q, r) /\ g = GoSig(q)
  BY SignalsMade
<1>6. x.kind = "monitor" /\ x.ref = r /\ g.kind = "go"
  BY <1>5 DEF MonitorSig, GoSig
<1>7. PICK add : add = <<x, g>>
  OBVIOUS
<1>8. /\ add \in Seq(Signal) /\ 1..Len(add) = {1, 2}
      /\ add[1] = x /\ add[2] = g /\ queue' = queue \o add
  BY <1>1, <1>5, <1>7, FewSignals
<1>9. /\ {j \in 1..Len(add) : add[j].kind = "monitor"} = {1}
      /\ {j \in 1..Len(add) : add[j].kind = "down"} = {}
  BY <1>6, <1>8
<1>10. /\ Queued("monitor")' = Queued("monitor") \cup {x}
       /\ Queued("down")' = Queued("down")
  <2>0. \A kind : Queued(kind)' = Queued(kind)
            \cup {add[k] : k \in {j \in 1..Len(add) : add[j].kind = kind}}
    BY <1>0, <1>8, QueuedGrows
  <2>1. Queued("monitor")' = Queued("monitor") \cup {add[k] : k \in {1}}
    BY <1>9, <2>0
  <2>2. Queued("down")' = Queued("down") \cup {add[k] : k \in {}}
    BY <1>9, <2>0
  <2>. QED
    BY <1>8, <2>1, <2>2
<1>11. Asked' = Asked \cup {r}
  BY <1>6, <1>10 DEF Asked
<1>12. MonitorsOnce'
  BY <1>3, <1>6, <1>8, MonKnown, MonitorsOnceGrows
<1>13. Monitored!AskAtBirth(r, p, q)
  BY <1>1, <1>3, <1>4, <1>10, <1>11
     DEF Monitored!AskAtBirth, Monitored!Assign, Monitored!Become,
         LifeOf, Standing, Asked
<1>. QED
  BY <1>12, <1>13 DEF Conforms, Monitored!Next

(* Each call of user code is an action of Monitoring or a stutter.         *)
LEMMA UserConforms ==
    ASSUME MonInv, UserStep PROVE Conforms /\ MonitorsOnce'
<1>0. TypeOK /\ RefsKnown /\ SameDead
  BY MonKnown, UserDeath
<1>1. ASSUME NEW p \in Pid, NEW q \in Pid, NEW r \in Ref,
             Monitor(p, q, r) \/ SpawnMonitor(p, q, r)
      PROVE  Conforms /\ MonitorsOnce'
  BY <1>1, MonitorConforms, SpawnMonitorConforms
<1>2. CASE target' = target
  <2>1. PICK add : add \in Seq(Still) /\ queue' = queue \o add
    BY <1>0, <1>2, StillSent
  <2>2. /\ Queued("monitor")' = Queued("monitor")
        /\ Queued("down")' = Queued("down") /\ MonitorsOnce'
    BY <1>0, <2>1, MonKnown, StillGrows
  <2>3. ASSUME NEW p \in Pid, NEW q \in Pid, Spawn(p, q) \/ SpawnLink(p, q)
        PROVE  Conforms
    <3>1. /\ NewContext(p, q)
          /\ UNCHANGED <<watcher, target, atSpawn, cancelled, notified>>
      BY <2>3 DEF Spawn, SpawnLink, tables, history, monitoring
    <3>. QED
      BY <2>2, <3>1, BirthConforms
  <2>4. ASSUME NEW p \in Pid, NEW r \in Ref, Demonitor(p, r) PROVE Conforms
    BY <2>2, <2>4, DemonitorConforms
  <2>5. ASSUME LifeOf' = LifeOf,
               UNCHANGED <<watcher, target, atSpawn, cancelled, notified,
                           monitors>>
        PROVE  Conforms
    BY <1>0, <2>2, <2>5, StandingSame, Unseen
  <2>6. ASSUME NEW p \in Pid, NEW why, Die(p, why) \/ Finish(p, why)
        PROVE  Conforms
    <3>1. LifeOf' = LifeOf
      BY <2>6, UserDies
    <3>2. UNCHANGED <<watcher, target, atSpawn, cancelled, notified, monitors>>
      BY <2>6 DEF Die, Finish, tables, history, monitoring
    <3>. QED
      BY <2>5, <3>1, <3>2
  <2>7. ASSUME phase' = phase,
               UNCHANGED <<watcher, target, atSpawn, cancelled, notified,
                           monitors>>
        PROVE  Conforms
    BY <2>5, <2>7, LifeSame
  <2>8. Conforms
    BY <1>1, <2>3, <2>4, <2>6, <2>7
       DEF UserStep, Send, SendToName, Link, Unlink, Exit, TrapExit, Receive,
           Register, Unregister, core, tables, history, monitoring
  <2>. QED
    BY <2>2, <2>8
<1>3. CASE target' # target
  BY <1>1, <1>3
     DEF UserStep, Send, SendToName, Link, Unlink, Demonitor, Exit, Die, Finish,
         TrapExit, Receive, Register, Unregister, Spawn, SpawnLink, tables
<1>. QED
  BY <1>2, <1>3

(* destroy: the references of its table leave it, with their DOWN.         *)
LEMMA DestroyConforms ==
    ASSUME MonInv, NEW p \in Pid, Destroy(p)
    PROVE  Conforms /\ MonitorsOnce'
<1>0. TypeOK
  BY MonKnown
<1>1. /\ phase[p] = "dying" /\ phase' = [phase EXCEPT ![p] = "dead"]
      /\ UNCHANGED <<monitors, target, watcher, atSpawn, cancelled, notified>>
  BY DEF Destroy, tables, history, monitoring
<1>2. PICK add \in Seq(Signal) :
          /\ queue' = queue \o add
          /\ \A k \in 1..Len(add) : add[k] \in Downs(p) \cup Exits(p)
          /\ \A x \in Downs(p) \cup Exits(p) :
                \E k \in 1..Len(add) : add[k] = x
  BY <1>0, DestroyAppends
<1>3. /\ \A x \in Downs(p) : x.kind = "down"
      /\ \A x \in Exits(p) : x.kind = "exit"
  BY DEF Downs, Exits, DownSig, ExitSig
<1>4. \A kind : Queued(kind)' = Queued(kind)
          \cup {add[k] : k \in {j \in 1..Len(add) : add[j].kind = kind}}
  BY <1>0, <1>2, QueuedGrows
<1>5. {add[k] : k \in {j \in 1..Len(add) : add[j].kind = "down"}} = Downs(p)
  <2>1. \A k \in 1..Len(add) : add[k].kind = "down" => add[k] \in Downs(p)
    BY <1>2, <1>3
  <2>2. \A x \in Downs(p) :
           \E k \in 1..Len(add) : add[k] = x /\ add[k].kind = "down"
    BY <1>2, <1>3
  <2>. QED
    BY <2>1, <2>2
<1>6. {add[k] : k \in {j \in 1..Len(add) : add[j].kind = "monitor"}} = {}
  BY <1>2, <1>3
<1>7. /\ Queued("down")' = Queued("down") \cup Downs(p)
      /\ Queued("monitor")' = Queued("monitor")
  BY <1>4, <1>5, <1>6
<1>8. MonitorsOnce'
  <2>1. \A k \in 1..Len(add) : add[k].kind # "monitor"
    BY <1>2, <1>3
  <2>. QED
    BY <1>2, <2>1, MonKnown, MonitorsOnceGrows
<1>9. LifeOf[p] = "up" /\ LifeOf' = [LifeOf EXCEPT ![p] = "gone"]
  <2>1. phase'[p] = "dead" /\ \A x \in Pid : x # p => phase'[x] = phase[x]
    BY <1>1, MonKnown
  <2>2. Life(p) = "up" /\ Life(p)' = "gone"
    BY <1>1, <2>1 DEF Life
  <2>3. \A x \in Pid : x # p => Life(x)' = Life(x)
    BY <2>1 DEF Life
  <2>. QED
    BY <2>2, <2>3 DEF LifeOf
<1>10. \A x \in Pid : Deliverable(x) <=> LifeOf[x] = "up"
  BY MonKnown DEF Deliverable, LifeOf, Life
<1>11. Standing' = Standing \ {r \in Standing : target[r] = p}
  <2>1. ASSUME NEW r \in Ref, target[r] # NoPid
        PROVE  Watched(r)' <=> Watched(r) /\ target[r] # p
    <3>1. target[r] \in Pid
      BY <2>1, MonKnown
    <3>2. CASE target[r] = p
      <4>1. phase'[p] = "dead"
        BY <1>1, MonKnown
      <4>. QED
        BY <1>1, <3>2, <4>1 DEF Watched
    <3>3. CASE target[r] # p
      <4>1. phase'[target[r]] = phase[target[r]]
        BY <1>1, <3>1, <3>3, MonKnown
      <4>. QED
        BY <1>1, <3>3, <4>1 DEF Watched
    <3>. QED
      BY <3>2, <3>3
  <2>. QED
    BY <1>1, <2>1 DEF Standing
<1> DEFINE due == {r \in {x \in Standing : target[x] = p} :
                      watcher[r] \in Monitored!Living \ {p}}
<1>12. Downs(p) = {Monitored!Down(p, watcher[r], r, reason[p]) : r \in due}
  <2>0. ASSUME NEW r \in Ref
        PROVE  watcher[r] \in Monitored!Living
                  <=> watcher[r] \in Pid /\ Deliverable(watcher[r])
    BY <1>10 DEF Monitored!Living, LifeOf
  <2>1. ASSUME NEW m \in monitors[p], m.watcher # p, Deliverable(m.watcher)
        PROVE  m.ref \in due /\ watcher[m.ref] = m.watcher
    <3>1. /\ m \in [ref : Ref, watcher : Pid]
          /\ target[m.ref] = p /\ watcher[m.ref] = m.watcher
      BY MonKnown DEF MonitorsKnown
    <3>2. m = [ref |-> m.ref, watcher |-> watcher[m.ref]]
      BY <3>1
    <3>3. m.ref \in Standing
      BY <1>1, <3>1, <3>2, MonKnown DEF Standing, Watched
    <3>. QED
      BY <2>0, <2>1, <3>1, <3>3
  <2>2. ASSUME NEW r \in due
        PROVE  \E m \in monitors[p] :
                  /\ m.watcher # p /\ Deliverable(m.watcher)
                  /\ m.ref = r /\ m.watcher = watcher[r]
    <3>1. /\ r \in Ref /\ target[r] = p /\ watcher[r] # p
          /\ [ref |-> r, watcher |-> watcher[r]] \in monitors[p]
      BY DEF Standing, Watched
    <3>2. Deliverable(watcher[r])
      BY <2>0, <3>1
    <3>. QED
      BY <3>1, <3>2
  <2>3. \A r : Monitored!Down(p, watcher[r], r, reason[p])
                  = DownSig(p, watcher[r], r, reason[p])
    BY DEF Monitored!Down, DownSig
  <2> HIDE DEF due
  <2>4. ASSUME NEW d \in Downs(p)
        PROVE  \E r \in due : d = DownSig(p, watcher[r], r, reason[p])
    <3>1. PICK m \in monitors[p] :
              /\ m.watcher # p /\ Deliverable(m.watcher)
              /\ d = DownSig(p, m.watcher, m.ref, reason[p])
      BY DEF Downs
    <3>. QED
      BY <2>1, <3>1
  <2>5. ASSUME NEW r \in due
        PROVE  DownSig(p, watcher[r], r, reason[p]) \in Downs(p)
    <3>1. PICK m \in monitors[p] :
              /\ m.watcher # p /\ Deliverable(m.watcher)
              /\ m.ref = r /\ m.watcher = watcher[r]
      BY <2>2
    <3>. QED
      BY <3>1 DEF Downs
  <2>. QED
    BY <2>3, <2>4, <2>5
<1>13. PICK why \in Reason : why = reason[p]
  BY <1>0 DEF TypeOK
<1>14. Monitored!Die(p, why)
  <2>1. LifeOf[p] = "up" => p \in Monitored!Living
    BY DEF Monitored!Living, LifeOf
  <2>. QED
    BY <1>1, <1>7, <1>9, <1>11, <1>12, <1>13, <2>1
       DEF Monitored!Die, Monitored!Become, Monitored!refs, LifeOf, Standing
<1>. QED
  BY <1>8, <1>14 DEF Conforms, Monitored!Next

(* The handlers.                                                           *)
LEMMA TickConforms ==
    ASSUME MonInv, Tick PROVE Conforms /\ MonitorsOnce'
<1>0. TypeOK /\ SameDead
  BY MonKnown, TickDeath
<1>1. queue # <<>> /\ queue' = Tail(queue)
  BY DEF Tick, OnGo, OnRelay, OnLink, OnUnlink, OnMonitor, OnDemonitor,
         OnExit, OnDown, Fires
<1>2. PICK s : /\ s = Head(queue) /\ s = queue[1] /\ s \in Signal
               /\ s.to \in Pid /\ 1 \in 1..Len(queue)
  BY <1>0, <1>1, Popped, SignalFields
<1>3. MonitorsOnce'
  BY <1>0, <1>1, MonKnown, MonitorsOncePopped
<1>4. \A kind : Queued(kind) = Queued(kind)' \cup {x \in {s} : x.kind = kind}
  BY <1>0, <1>1, <1>2, QueuedPopped
<1>5. \A kind : s.kind # kind => Queued(kind)' = Queued(kind)
  BY <1>4
<1>6. CASE OnGo \/ OnRelay \/ OnLink \/ OnUnlink \/ OnExit
  <2>1. /\ UNCHANGED <<watcher, target, atSpawn, cancelled, notified, monitors>>
        /\ s.kind \notin {"monitor", "down"}
    BY <1>2, <1>6
       DEF OnGo, OnRelay, OnLink, OnUnlink, OnExit, Fires, tables, history,
           monitoring
  <2>2. LifeOf' = LifeOf
    <3>1. CASE OnExit
      BY <1>0, <3>1, ResolveLife, LifeSame DEF OnExit
    <3>2. CASE phase' = phase
      BY <3>2, LifeSame
    <3>. QED
      BY <1>6, <3>1, <3>2 DEF OnGo, OnRelay, OnLink, OnUnlink
  <2>. QED
    BY <1>0, <1>3, <1>5, <2>1, <2>2, StandingSame, Unseen
<1>7. CASE OnMonitor
  <2>1. /\ UNCHANGED <<target, watcher, cancelled, notified, atSpawn, phase>>
        /\ s.kind = "monitor"
        /\ monitors' = [monitors EXCEPT ![s.to] =
                            @ \cup {[ref |-> s.ref, watcher |-> s.from]}]
    BY <1>2, <1>7 DEF OnMonitor, Fires, tables
  <2>2. /\ target[s.ref] = s.to /\ watcher[s.ref] = s.from /\ s.ref \in Ref
    BY <1>2, <2>1, MonKnown, SignalFields DEF MonitorsKnown
  <2>3. Asked' = Asked \ {s.ref} /\ s.ref \in Asked
    <3>1. s.ref \notin Asked'
      BY <1>0, <1>1, <1>2, <2>1, MonKnown, MonitorsOncePopped
    <3>2. Queued("monitor") = Queued("monitor")' \cup {s}
      BY <1>4, <2>1
    <3>3. Asked = Asked' \cup {s.ref}
      BY <3>2 DEF Asked
    <3>. QED
      BY <3>1, <3>3
  <2>4. LifeOf' = LifeOf /\ Queued("down")' = Queued("down")
    BY <1>5, <2>1, LifeSame
  <2>5. ASSUME NEW r \in Ref, r # s.ref, target[r] # NoPid
        PROVE  Watched(r)' <=> Watched(r)
    <3>1. target[r] \in Pid
      BY <2>5, MonKnown
    <3>2. [ref |-> r, watcher |-> watcher[r]] \in monitors'[target[r]]
             <=> [ref |-> r, watcher |-> watcher[r]] \in monitors[target[r]]
      BY <1>2, <2>1, <2>5, <3>1, MonKnown
    <3>. QED
      BY <2>1, <3>2 DEF Watched
  <2>6. CASE Deliverable(s.to)
    <3>1. Watched(s.ref)'
      <4>1. [ref |-> s.ref, watcher |-> s.from] \in monitors'[s.to]
        BY <1>2, <2>1, MonKnown
      <4>. QED
        BY <2>1, <2>2, <2>6, <4>1 DEF Watched, Deliverable
    <3>2. Standing' = Standing \cup {s.ref}
      BY <1>2, <2>1, <2>2, <2>5, <3>1, MonKnown DEF Standing
    <3>3. s.to \in Pid /\ LifeOf[s.to] = "up"
      BY <1>2, <2>6 DEF Deliverable, LifeOf, Life
    <3>4. Monitored!Stand(s.ref)
      BY <2>1, <2>2, <2>3, <2>4, <3>2, <3>3
         DEF Monitored!Stand, Monitored!refs, Monitored!Living,
             LifeOf, Standing, Asked
    <3>. QED
      BY <1>3, <2>2, <3>4 DEF Conforms, Monitored!Next
  <2>7. CASE ~Deliverable(s.to)
    <3>1. phase[s.to] = "dead"
      BY <1>2, <2>7, MonKnown DEF Made, Deliverable
    <3>2. Standing' = Standing
      BY <2>1, <2>2, <2>5, <3>1 DEF Standing, Watched
    <3>3. s.ref \notin atSpawn
      BY <1>2, <2>1, <3>1
         DEF MonInv, DueInv, SpawnInv, MonitorComes, Newborn
    <3>4. LifeOf[s.to] = "gone"
      BY <1>2, <3>1 DEF LifeOf, Life
    <3>5. Monitored!Miss(s.ref)
      BY <2>1, <2>2, <2>3, <2>4, <3>2, <3>3, <3>4
         DEF Monitored!Miss, Monitored!refs, LifeOf, Standing, Asked
    <3>. QED
      BY <1>3, <2>2, <3>5 DEF Conforms, Monitored!Next
  <2>. QED
    BY <2>6, <2>7
<1>8. CASE OnDemonitor
  <2>1. /\ UNCHANGED <<target, watcher, cancelled, notified, atSpawn, phase>>
        /\ s.kind = "demonitor"
        /\ monitors' = [monitors EXCEPT ![s.to] = {m \in @ : m.ref # s.ref}]
    BY <1>2, <1>8 DEF OnDemonitor, Fires, tables, history, monitoring
  <2>2. s.ref \in cancelled /\ s.ref \in Ref
    BY <1>2, <2>1, SignalFields DEF MonInv, DueInv
  <2>3. /\ LifeOf' = LifeOf /\ Queued("down")' = Queued("down")
        /\ Queued("monitor")' = Queued("monitor")
    BY <1>5, <2>1, LifeSame
  <2>4. ASSUME NEW r \in Ref, target[r] # NoPid
        PROVE  Watched(r)' <=> Watched(r) /\ ~(r = s.ref /\ target[r] = s.to)
    <3>1. target[r] \in Pid
      BY <2>4, MonKnown
    <3>2. [ref |-> r, watcher |-> watcher[r]] \in monitors'[target[r]]
             <=> /\ [ref |-> r, watcher |-> watcher[r]] \in monitors[target[r]]
                 /\ ~(r = s.ref /\ target[r] = s.to)
      BY <1>2, <2>1, <3>1, MonKnown
    <3>. QED
      BY <2>1, <3>2 DEF Watched
  <2>5. CASE s.ref \in Standing /\ target[s.ref] = s.to
    <3>1. Standing' = Standing \ {s.ref}
      BY <2>1, <2>4, <2>5 DEF Standing
    <3>2. Monitored!Drop(s.ref)
      BY <2>1, <2>2, <2>3, <2>5, <3>1
         DEF Monitored!Drop, Monitored!refs, LifeOf, Standing
    <3>. QED
      BY <1>3, <2>2, <3>2 DEF Conforms, Monitored!Next
  <2>6. CASE ~(s.ref \in Standing /\ target[s.ref] = s.to)
    <3>1. Standing' = Standing
      BY <2>1, <2>2, <2>4, <2>6 DEF Standing
    <3>. QED
      BY <1>0, <1>3, <2>1, <2>3, <3>1, Unseen
  <2>. QED
    BY <2>5, <2>6
<1>9. CASE OnDown
  <2>1. /\ UNCHANGED <<target, watcher, cancelled, atSpawn, phase, monitors>>
        /\ s.kind = "down" /\ notified' = notified \cup {s.ref}
    BY <1>2, <1>9 DEF OnDown, Fires, tables
  <2>2. s \notin Queued("down")' /\ s.ref \notin notified
    BY <1>0, <1>1, <1>2, <2>1, MonKnown, DownPopped
  <2>3. /\ s \in Queued("down") /\ Queued("down")' = Queued("down") \ {s}
        /\ Queued("monitor")' = Queued("monitor")
    <3>1. Queued("down") = Queued("down")' \cup {s}
      BY <1>4, <2>1
    <3>. QED
      BY <1>5, <2>1, <2>2, <3>1
  <2>4. Standing' = Standing /\ LifeOf' = LifeOf
    BY <1>0, <2>1, StandingSame, LifeSame
  <2>5. Monitored!Tell(s)
    BY <2>1, <2>2, <2>3, <2>4
       DEF Monitored!Tell, Monitored!refs, LifeOf, Standing
  <2>. QED
    BY <1>3, <2>3, <2>5 DEF Conforms, Monitored!Next
<1>. QED
  BY <1>6, <1>7, <1>8, <1>9 DEF Tick

(* The references under way are told apart in every step.                  *)
LEMMA MonNext ==
    ASSUME MonInv, [Next]_vars PROVE Conforms /\ MonInv'
<1>0. TypeOK /\ DueInv'
  BY DueInvStep, MonKnown DEF MonInv
<1>1. ASSUME UNCHANGED <<queue, phase, monitors, watcher, target, atSpawn,
                         cancelled, notified>>
      PROVE  Conforms /\ MonitorsOnce'
  <2>1. SameDead /\ LifeOf' = LifeOf
    BY <1>1, LifeSame DEF SameDead
  <2>2. /\ Queued("monitor")' = Queued("monitor")
        /\ Queued("down")' = Queued("down")
    BY <1>1 DEF Queued
  <2>3. MonitorsOnce'
    BY <1>1, MonKnown DEF MonitorsOnce
  <2>. QED
    BY <1>0, <1>1, <2>1, <2>2, <2>3, StandingSame, Unseen
<1>2. ASSUME NEW p \in Pid, Cleanup(p) PROVE Conforms /\ MonitorsOnce'
  BY <1>1, <1>2 DEF Cleanup, core, history, monitoring
<1>3. ASSUME UNCHANGED vars PROVE Conforms /\ MonitorsOnce'
  <2>1. UNCHANGED <<queue, phase, monitors, watcher, target, atSpawn,
                    cancelled, notified>>
    BY <1>3 DEF vars, core, tables, history, monitoring
  <2>. QED
    BY <1>1, <2>1
<1>4. Conforms /\ MonitorsOnce'
  BY <1>2, <1>3, UserConforms, DestroyConforms, TickConforms
     DEF Next, Microtask
<1>. QED
  BY <1>0, <1>4 DEF MonInv

(* No monitor exists at the start.                                         *)
LEMMA MonInit == Init => MonInv /\ Monitored!Init
<1> SUFFICES ASSUME Init PROVE MonInv /\ Monitored!Init
  OBVIOUS
<1>1. /\ queue = <<>> /\ notified = {} /\ cancelled = {} /\ atSpawn = {}
      /\ watcher = [r \in Ref |-> NoPid] /\ target = [r \in Ref |-> NoPid]
      /\ \A p \in Pid : phase[p] \in {"none", "alive"}
  BY DEF Init
<1>2. 1..Len(queue) = {}
  BY <1>1
<1>3. MonInv
  BY <1>2, DueInvInit DEF MonInv, MonitorsOnce
<1>4. Asked = {} /\ Queued("down") = {} /\ Standing = {}
  BY <1>1, <1>2 DEF Asked, Queued, Standing
<1>5. LifeOf \in [Pid -> {"none", "up"}]
  BY <1>1 DEF LifeOf, Life
<1>6. Monitored!Init
  BY <1>1, <1>4, <1>5 DEF Monitored!Init, Asked, Standing, LifeOf
<1>. QED
  BY <1>3, <1>6

(* Monitors keep what Monitoring promises.                                 *)
THEOREM MonitorsKeepPromise == Spec => MonitoringKept
<1>1. MonInv /\ [Next]_vars => MonInv' /\ [Monitored!Next]_(Monitored!vars)
  BY MonNext DEF Conforms
<1>. QED
  BY <1>1, MonInit, PTL DEF Spec, MonitoringKept, Monitored!Spec
=============================================================================
