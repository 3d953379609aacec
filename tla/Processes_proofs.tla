-------------------------- MODULE Processes_proofs --------------------------
(* Proofs about the processes of one node, for any finite number of        *)
(* processes and references, any programs and any bounds: their types;     *)
(* deaths are final, names lead to the living, and a watcher gets at most  *)
(* one DOWN for a reference, after the death.                              *)
EXTENDS Processes, SequenceTheorems, FiniteSetTheorems, TLAPS

(* Facts about the order in which destroy walks a table.                   *)

LEMMA FiniteImage ==
    ASSUME NEW S, IsFiniteSet(S), NEW f, NEW T, T \subseteq {f[x] : x \in S}
    PROVE  IsFiniteSet(T)
<1> DEFINE g == [x \in S |-> f[x]]
           R == {f[x] : x \in S}
<1>1. g \in Surjection(S, R)
  BY DEF Surjection
<1>2. IsFiniteSet(R)
  BY <1>1, FS_Surjection
<1>. QED
  BY <1>2, FS_Subset

(* Any order of a finite set is a sequence of its elements, each once.     *)
LEMMA OrderProperties ==
    ASSUME NEW S, NEW T, IsFiniteSet(S), S \subseteq T,
           NEW s \in SetToSeqs(S)
    PROVE  /\ s \in Seq(T)
           /\ \A i \in 1..Len(s) : s[i] \in S
           /\ \A i, j \in 1..Len(s) : s[i] = s[j] => i = j
<1> DEFINE n == Cardinality(S)
<1>1. n \in Nat
  BY FS_CardinalityType
<1>2. s \in [1..n -> S] /\ \A i, j \in 1..n : i # j => s[i] # s[j]
  BY DEF SetToSeqs
<1> HIDE DEF n
<1>3. s \in Seq(S)
  BY <1>1, <1>2, SeqDef
<1>4. Len(s) = n
  BY <1>1, <1>2, <1>3, LenProperties
<1>5. s \in Seq(T)
  BY <1>3, SeqMonotonic
<1>. QED
  BY <1>2, <1>4, <1>5

(* A receive that takes a notice leaves notices.                           *)
LEMMA RemoveAtType ==
    ASSUME NEW S, NEW s \in Seq(S), NEW i \in 1..Len(s)
    PROVE  RemoveAt(s, i) \in Seq(S)
<1>0. Len(s) \in Nat /\ \A j \in 1..Len(s) : s[j] \in S
  BY LenProperties, ElementOfSeq
<1>1. SubSeq(s, 1, i - 1) \in Seq(S)
  <2>1. \A j \in 1..(i - 1) : s[j] \in S
    BY <1>0
  <2>. QED
    BY <1>0, <2>1, SubSeqProperties
<1>2. SubSeq(s, i + 1, Len(s)) \in Seq(S)
  <2>1. \A j \in (i + 1)..Len(s) : s[j] \in S
    BY <1>0
  <2>. QED
    BY <1>0, <2>1, SubSeqProperties
<1>. QED
  BY <1>1, <1>2, ConcatProperties DEF RemoveAt

(* Empty, one-element and two-element sequences of signals.                *)
LEMMA FewSignals ==
    ASSUME NEW S
    PROVE  /\ <<>> \in Seq(S)
           /\ \A x \in S : <<x>> \in Seq(S)
           /\ \A x, y \in S : <<x, y>> \in Seq(S)
  OBVIOUS

-----------------------------------------------------------------------------
(* What is sent is a signal, and what a signal carries has its type.       *)
LEMMA SignalsMade ==
    /\ \A p, q \in Pid, m \in Message : RelaySig(p, q, m) \in Signal
    /\ \A p, q \in Pid : LinkSig(p, q) \in Signal /\ UnlinkSig(p, q) \in Signal
    /\ \A p, q \in Pid, r \in Ref :
          MonitorSig(p, q, r) \in Signal /\ DemonitorSig(p, q, r) \in Signal
    /\ \A p \in Pid \cup {System}, q \in Pid, why \in Reason :
          ExitSig(p, q, why) \in Signal
    /\ \A p, q \in Pid, r \in Ref, why \in Reason :
          DownSig(p, q, r, why) \in Signal
    /\ \A p \in Pid : GoSig(p) \in Signal
BY DEF Signal, RelaySig, LinkSig, UnlinkSig, MonitorSig, DemonitorSig,
       ExitSig, DownSig, GoSig

LEMMA SignalFields ==
    ASSUME NEW s \in Signal
    PROVE  /\ s.to \in Pid
           /\ s.kind = "relay" => s.body \in Message
           /\ s.kind \in {"link", "unlink"} => s.from \in Pid
           /\ s.kind \in {"monitor", "demonitor"}
                 => s.from \in Pid /\ s.ref \in Ref
           /\ s.kind = "exit"
                 => s.from \in Pid \cup {System} /\ s.reason \in Reason
           /\ s.kind = "down"
                 => s.from \in Pid /\ s.ref \in Ref /\ s.reason \in Reason
<1>1. CASE s \in [kind : {"relay"}, to : Pid, from : Pid, body : Message]
  BY <1>1
<1>2. CASE s \in [kind : {"link", "unlink"}, to : Pid, from : Pid]
  BY <1>2
<1>3. CASE s \in [kind : {"monitor", "demonitor"}, to : Pid, from : Pid,
                  ref : Ref]
  BY <1>3
<1>4. CASE s \in [kind : {"exit"}, to : Pid, from : Pid \cup {System},
                  reason : Reason]
  BY <1>4
<1>5. CASE s \in [kind : {"down"}, to : Pid, from : Pid, ref : Ref,
                  reason : Reason]
  BY <1>5
<1>6. CASE s \in [kind : {"go"}, to : Pid]
  BY <1>6
<1>. QED
  BY <1>1, <1>2, <1>3, <1>4, <1>5, <1>6 DEF Signal

LEMMA ToPidType ==
    ASSUME NEW q, NEW s \in Signal
    PROVE  ToPid(q, s) \in Seq(Signal)
BY FewSignals DEF ToPid

(* The orders in which destroy sends DOWN and EXIT.                        *)
LEMMA DownsFinite ==
    ASSUME TypeOK, NEW p \in Pid
    PROVE  IsFiniteSet(Downs(p)) /\ Downs(p) \subseteq Signal
<1> DEFINE f == [x \in Ref \X Pid |-> DownSig(p, x[2], x[1], reason[p])]
<1>1. IsFiniteSet(Ref \X Pid)
  BY ProcessesAssumption, FS_Product
<1>2. ASSUME NEW d \in Downs(p)
      PROVE  d \in Signal /\ d \in {f[x] : x \in Ref \X Pid}
  <2>1. PICK m \in monitors[p] : d = DownSig(p, m.watcher, m.ref, reason[p])
    BY <1>2 DEF Downs
  <2>2. m \in [ref : Ref, watcher : Pid]
    BY <2>1 DEF TypeOK
  <2>3. <<m.ref, m.watcher>> \in Ref \X Pid
    BY <2>2
  <2>4. d = f[<<m.ref, m.watcher>>]
    BY <2>1, <2>3
  <2>5. d \in Signal
    BY <2>1, <2>2, SignalsMade DEF TypeOK
  <2>. QED
    BY <2>3, <2>4, <2>5
<1> HIDE DEF f
<1>3. Downs(p) \subseteq {f[x] : x \in Ref \X Pid}
  BY <1>2
<1>. QED
  BY <1>1, <1>2, <1>3, FiniteImage

LEMMA ExitsFinite ==
    ASSUME TypeOK, NEW p \in Pid
    PROVE  IsFiniteSet(Exits(p)) /\ Exits(p) \subseteq Signal
<1> DEFINE f == [q \in Pid |-> ExitSig(p, q, reason[p])]
<1>1. ASSUME NEW e \in Exits(p)
      PROVE  e \in Signal /\ e \in {f[q] : q \in Pid}
  <2>1. PICK q \in links[p] : e = ExitSig(p, q, reason[p])
    BY <1>1 DEF Exits
  <2>2. q \in Pid
    BY <2>1 DEF TypeOK
  <2>. QED
    BY <2>1, <2>2, SignalsMade DEF TypeOK
<1> HIDE DEF f
<1>2. Exits(p) \subseteq {f[q] : q \in Pid}
  BY <1>1
<1>. QED
  BY <1>1, <1>2, ProcessesAssumption, FiniteImage
-----------------------------------------------------------------------------
(* The pieces that handlers share keep their types.                        *)
LEMMA ResolveType ==
    ASSUME TypeOK, NEW p \in Pid, NEW why \in Reason, Resolve(p, why)
    PROVE  /\ phase' \in [Pid -> {"none", "alive", "dying", "dead"}]
           /\ reason' \in [Pid -> Reason]
BY DEF Resolve, TypeOK

LEMMA DeliveredType ==
    ASSUME TypeOK, NEW q \in Pid, NEW notice \in Notice
    PROVE  Delivered(q, notice) \in [Pid -> Seq(Notice)]
<1>1. inbox \in [Pid -> Seq(Notice)]
  BY DEF TypeOK
<1>2. Append(inbox[q], notice) \in Seq(Notice)
  BY <1>1, AppendProperties
<1>. QED
  BY <1>1, <1>2 DEF Delivered

LEMMA NewContextType ==
    ASSUME TypeOK, NEW p \in Pid, NEW q \in Pid, NewContext(p, q)
    PROVE  /\ phase' \in [Pid -> {"none", "alive", "dying", "dead"}]
           /\ code' \in [Pid -> {"none", "pending", "running", "finished"}]
BY DEF NewContext, TypeOK

LEMMA NewRefType ==
    ASSUME TypeOK, NEW p \in Pid, NEW q \in Pid, NEW r \in Ref, NewRef(p, q, r)
    PROVE  /\ target' \in [Ref -> Pid \cup {NoPid}]
           /\ watcher' \in [Ref -> Pid \cup {NoPid}]
BY DEF NewRef, TypeOK

LEMMA GrownQueue ==
    ASSUME TypeOK, NEW add \in Seq(Signal)
    PROVE  queue \o add \in Seq(Signal)
BY ConcatProperties DEF TypeOK

(* A reference has a watcher exactly when it has a target.                 *)
RefsKnown == \A r \in Ref : watcher[r] = NoPid <=> target[r] = NoPid

(* Every call of user code keeps the types.                                *)
LEMMA UserTypes ==
    ASSUME TypeOK, RefsKnown, UserStep PROVE TypeOK'
<1> USE DEF core, tables, history, monitoring, linking
<1>0. queue \in Seq(Signal)
  BY DEF TypeOK
<1>1. ASSUME NEW p \in Pid, NEW q \in Pid, NEW m \in Message, Send(p, q, m)
      PROVE  TypeOK'
  <2>1. ToPid(q, RelaySig(p, q, m)) \in Seq(Signal)
    BY SignalsMade, ToPidType
  <2>2. queue' \in Seq(Signal)
    BY <1>1, <2>1, GrownQueue DEF Send
  <2>. QED
    BY <1>1, <2>2 DEF Send, TypeOK
<1>2. ASSUME NEW p \in Pid, NEW n \in Name, NEW m \in Message,
             SendToName(p, n, m)
      PROVE  TypeOK'
  <2>1. CASE registrations[n] # NoPid
    <3>1. registrations[n] \in Pid
      BY <2>1 DEF TypeOK
    <3>2. ToPid(registrations[n], RelaySig(p, registrations[n], m))
             \in Seq(Signal)
      BY <3>1, SignalsMade, ToPidType
    <3>3. queue' \in Seq(Signal)
      BY <1>2, <2>1, <3>2, GrownQueue DEF SendToName
    <3>. QED
      BY <1>2, <3>3 DEF SendToName, TypeOK
  <2>2. CASE registrations[n] = NoPid
    <3>1. ToPid(p, ExitSig(System, p, "badarg")) \in Seq(Signal)
      BY SignalsMade, ToPidType DEF Reason
    <3>2. queue' \in Seq(Signal)
      BY <1>2, <2>2, <3>1, GrownQueue DEF SendToName
    <3>. QED
      BY <1>2, <3>2 DEF SendToName, TypeOK
  <2>. QED
    BY <2>1, <2>2
<1>3. ASSUME NEW p \in Pid, NEW q \in Pid, Link(p, q) PROVE TypeOK'
  <2>1. LinkSignals(p, q) \in Seq(Signal)
    BY SignalsMade, ToPidType, ConcatProperties DEF LinkSignals
  <2>2. queue' \in Seq(Signal)
    BY <1>3, <2>1, GrownQueue DEF Link
  <2>3. orphaned' \in SUBSET (Pid \X Pid)
    BY <1>3 DEF Link, TypeOK
  <2>. QED
    BY <1>3, <2>2, <2>3 DEF Link, TypeOK
<1>4. ASSUME NEW p \in Pid, NEW q \in Pid, Unlink(p, q) PROVE TypeOK'
  <2>1. /\ ToPid(q, UnlinkSig(p, q)) \in Seq(Signal)
        /\ ToPid(p, UnlinkSig(q, p)) \in Seq(Signal)
    BY SignalsMade, ToPidType
  <2>2. queue' \in Seq(Signal)
    BY <1>0, <1>4, <2>1, ConcatProperties DEF Unlink
  <2>. QED
    BY <1>4, <2>2 DEF Unlink, TypeOK
<1>5. ASSUME NEW p \in Pid, NEW q \in Pid, NEW r \in Ref, Monitor(p, q, r)
      PROVE  TypeOK'
  <2>1. /\ <<MonitorSig(p, q, r)>> \in Seq(Signal)
        /\ ToPid(p, DownSig(q, p, r, "noproc")) \in Seq(Signal)
    BY SignalsMade, FewSignals, ToPidType DEF Reason
  <2>2. queue' \in Seq(Signal)
    BY <1>5, <2>1, GrownQueue DEF Monitor, MonitorSignals
  <2>3. /\ target' \in [Ref -> Pid \cup {NoPid}]
        /\ watcher' \in [Ref -> Pid \cup {NoPid}]
    BY <1>5, NewRefType DEF Monitor
  <2>. QED
    BY <1>5, <2>2, <2>3 DEF Monitor, TypeOK
<1>6. ASSUME NEW p \in Pid, NEW r \in Ref, Demonitor(p, r) PROVE TypeOK'
  <2>1. target[r] \in Pid
    BY <1>6, ProcessesAssumption DEF Demonitor, RefsKnown, TypeOK
  <2>2. ToPid(target[r], DemonitorSig(p, target[r], r)) \in Seq(Signal)
    BY <2>1, SignalsMade, ToPidType
  <2>3. queue' \in Seq(Signal)
    BY <1>6, <2>2, GrownQueue DEF Demonitor
  <2>. QED
    BY <1>6, <2>3 DEF Demonitor, TypeOK
<1>7. ASSUME NEW p \in Pid, NEW q \in Pid, NEW why \in UserReason,
             Exit(p, q, why)
      PROVE  TypeOK'
  <2>1. ToPid(q, ExitSig(p, q, why)) \in Seq(Signal)
    BY SignalsMade, ToPidType DEF Reason
  <2>2. queue' \in Seq(Signal)
    BY <1>7, <2>1, GrownQueue DEF Exit
  <2>. QED
    BY <1>7, <2>2 DEF Exit, TypeOK
<1>8. ASSUME NEW p \in Pid, NEW why \in UserReason, Die(p, why) PROVE TypeOK'
  <2>1. /\ phase' \in [Pid -> {"none", "alive", "dying", "dead"}]
        /\ reason' \in [Pid -> Reason]
    BY <1>8, ResolveType DEF Die, Reason
  <2>. QED
    BY <1>8, <2>1 DEF Die, TypeOK
<1>9. ASSUME NEW p \in Pid, NEW why \in UserReason \cup {"normal"},
             Finish(p, why)
      PROVE  TypeOK'
  <2>1. /\ phase' \in [Pid -> {"none", "alive", "dying", "dead"}]
        /\ reason' \in [Pid -> Reason]
    BY <1>9, ResolveType DEF Finish, Reason
  <2>2. code' \in [Pid -> {"none", "pending", "running", "finished"}]
    BY <1>9 DEF Finish, TypeOK
  <2>. QED
    BY <1>9, <2>1, <2>2 DEF Finish, TypeOK
<1>10. ASSUME NEW p \in Pid, TrapExit(p) PROVE TypeOK'
  BY <1>10 DEF TrapExit, TypeOK
<1>11. ASSUME NEW p \in Pid, Receive(p) PROVE TypeOK'
  <2>1. PICK i \in 1..Len(inbox[p]) :
            inbox' = [inbox EXCEPT ![p] = RemoveAt(inbox[p], i)]
    BY <1>11 DEF Receive
  <2>2. inbox[p] \in Seq(Notice)
    BY DEF TypeOK
  <2>3. RemoveAt(inbox[p], i) \in Seq(Notice)
    BY <2>1, <2>2, RemoveAtType
  <2>4. inbox' \in [Pid -> Seq(Notice)]
    BY <2>1, <2>3 DEF TypeOK
  <2>. QED
    BY <1>11, <2>4 DEF Receive, TypeOK
<1>12. ASSUME NEW p \in Pid, NEW n \in Name, Register(p, n) \/ Unregister(p, n)
       PROVE  TypeOK'
  BY <1>12 DEF Register, Unregister, TypeOK
<1>13. ASSUME NEW p \in Pid, NEW q \in Pid, Spawn(p, q) PROVE TypeOK'
  <2>1. queue' \in Seq(Signal)
    BY <1>0, <1>13, SignalsMade, AppendProperties DEF Spawn
  <2>2. /\ phase' \in [Pid -> {"none", "alive", "dying", "dead"}]
        /\ code' \in [Pid -> {"none", "pending", "running", "finished"}]
    BY <1>13, NewContextType DEF Spawn
  <2>. QED
    BY <1>13, <2>1, <2>2 DEF Spawn, NewContext, TypeOK
<1>14. ASSUME NEW p \in Pid, NEW q \in Pid, SpawnLink(p, q) PROVE TypeOK'
  <2>1. /\ <<LinkSig(p, q)>> \in Seq(Signal)
        /\ ToPid(p, LinkSig(q, p)) \in Seq(Signal)
        /\ <<GoSig(q)>> \in Seq(Signal)
    BY SignalsMade, FewSignals, ToPidType
  <2>2. queue' \in Seq(Signal)
    <3>1. queue \o <<LinkSig(p, q)>> \in Seq(Signal)
      BY <1>0, <2>1, ConcatProperties
    <3>2. queue \o <<LinkSig(p, q)>> \o ToPid(p, LinkSig(q, p)) \in Seq(Signal)
      BY <2>1, <3>1, ConcatProperties
    <3>. QED
      BY <1>14, <2>1, <3>2, ConcatProperties DEF SpawnLink
  <2>3. /\ phase' \in [Pid -> {"none", "alive", "dying", "dead"}]
        /\ code' \in [Pid -> {"none", "pending", "running", "finished"}]
    BY <1>14, NewContextType DEF SpawnLink
  <2>4. /\ orphaned' \in SUBSET (Pid \X Pid)
        /\ parent' \in [Pid -> Pid \cup {NoPid}]
    BY <1>14 DEF SpawnLink, TypeOK
  <2>. QED
    BY <1>14, <2>2, <2>3, <2>4 DEF SpawnLink, NewContext, TypeOK
<1>15. ASSUME NEW p \in Pid, NEW q \in Pid, NEW r \in Ref, SpawnMonitor(p, q, r)
       PROVE  TypeOK'
  <2>1. queue' \in Seq(Signal)
    BY <1>15, SignalsMade, FewSignals, GrownQueue DEF SpawnMonitor
  <2>2. /\ phase' \in [Pid -> {"none", "alive", "dying", "dead"}]
        /\ code' \in [Pid -> {"none", "pending", "running", "finished"}]
    BY <1>15, NewContextType DEF SpawnMonitor
  <2>3. /\ target' \in [Ref -> Pid \cup {NoPid}]
        /\ watcher' \in [Ref -> Pid \cup {NoPid}]
    BY <1>15, NewRefType DEF SpawnMonitor
  <2>. QED
    BY <1>15, <2>1, <2>2, <2>3 DEF SpawnMonitor, NewContext, TypeOK
<1>. QED
  BY <1>1, <1>2, <1>3, <1>4, <1>5, <1>6, <1>7, <1>8, <1>9, <1>10, <1>11,
     <1>12, <1>13, <1>14, <1>15 DEF UserStep

(* destroy and the cleanups of names keep the types.                       *)
LEMMA MicrotaskTypes ==
    ASSUME TypeOK, Microtask PROVE TypeOK'
<1> USE DEF core, tables, history, monitoring, linking
<1>1. ASSUME NEW p \in Pid, Destroy(p) PROVE TypeOK'
  <2>1. PICK downs \in SetToSeqs(Downs(p)), exs \in SetToSeqs(Exits(p)) :
            queue' = queue \o downs \o exs
    BY <1>1 DEF Destroy
  <2>2. downs \in Seq(Signal)
    BY DownsFinite, OrderProperties
  <2>3. exs \in Seq(Signal)
    BY ExitsFinite, OrderProperties
  <2>4. queue' \in Seq(Signal)
    BY <2>1, <2>2, <2>3, GrownQueue, ConcatProperties
  <2>5. inbox' \in [Pid -> Seq(Notice)]
    BY <1>1, EmptySeq DEF Destroy, TypeOK
  <2>6. phase' \in [Pid -> {"none", "alive", "dying", "dead"}]
    BY <1>1 DEF Destroy, TypeOK
  <2>7. links' \in [Pid -> SUBSET Pid]
    BY <1>1 DEF Destroy, TypeOK
  <2>. QED
    BY <1>1, <2>4, <2>5, <2>6, <2>7 DEF Destroy, TypeOK
<1>2. ASSUME NEW p \in Pid, Cleanup(p) PROVE TypeOK'
  <2>1. registrations' \in [Name -> Pid \cup {NoPid}]
    BY <1>2 DEF Cleanup, TypeOK
  <2>2. cleanups' \in SUBSET Pid
    BY <1>2 DEF Cleanup, TypeOK
  <2>. QED
    BY <1>2, <2>1, <2>2 DEF Cleanup, TypeOK
<1>. QED
  BY <1>1, <1>2 DEF Microtask

(* What a timer finds at the head of the queue, and what it leaves.        *)
LEMMA FiresType ==
    ASSUME TypeOK, NEW kind, Fires(kind)
    PROVE  /\ Head(queue) \in Signal /\ Head(queue).kind = kind
           /\ queue' \in Seq(Signal)
BY HeadTailProperties DEF Fires, TypeOK

LEMMA TickTypes ==
    ASSUME TypeOK, Tick PROVE TypeOK'
<1> DEFINE s == Head(queue)
<1> USE DEF core, tables, history, monitoring, linking
<1>1. CASE OnGo
  <2>1. s \in Signal /\ queue' \in Seq(Signal)
    BY <1>1, FiresType DEF OnGo
  <2>2. code' \in [Pid -> {"none", "pending", "running", "finished"}]
    BY <1>1, <2>1, SignalFields DEF OnGo, TypeOK
  <2>. QED
    BY <1>1, <2>1, <2>2 DEF OnGo, TypeOK
<1>2. CASE OnRelay
  <2>1. s \in Signal /\ s.kind = "relay" /\ queue' \in Seq(Signal)
    BY <1>2, FiresType DEF OnRelay
  <2>2. s.to \in Pid /\ s.body \in Message
    BY <2>1, SignalFields
  <2>3. [kind |-> "msg", body |-> s.body] \in Notice
    BY <2>2 DEF Notice
  <2>4. inbox' \in [Pid -> Seq(Notice)]
    BY <1>2, <2>2, <2>3, DeliveredType DEF OnRelay
  <2>. QED
    BY <1>2, <2>1, <2>4 DEF OnRelay, TypeOK
<1>3. CASE OnLink
  <2>1. s \in Signal /\ s.kind = "link" /\ queue' \in Seq(Signal)
    BY <1>3, FiresType DEF OnLink
  <2>2. s.to \in Pid /\ s.from \in Pid
    BY <2>1, SignalFields
  <2>3. links' \in [Pid -> SUBSET Pid] /\ orphaned' \in SUBSET (Pid \X Pid)
    <3>0. links \in [Pid -> SUBSET Pid] /\ orphaned \in SUBSET (Pid \X Pid)
      BY DEF TypeOK
    <3>1. CASE Deliverable(s.to)
      <4>1. /\ links' = [links EXCEPT ![s.to] = @ \cup {s.from}]
            /\ orphaned' = orphaned
        BY <1>3, <3>1 DEF OnLink
      <4>. QED
        BY <2>2, <3>0, <4>1
    <3>2. CASE ~Deliverable(s.to)
      <4>1. links' = links /\ orphaned' = orphaned \cup {<<s.from, s.to>>}
        BY <1>3, <3>2 DEF OnLink
      <4>. QED
        BY <2>2, <3>0, <4>1
    <3>. QED
      BY <3>1, <3>2
  <2>. QED
    BY <1>3, <2>1, <2>3 DEF OnLink, TypeOK
<1>4. CASE OnUnlink
  <2>1. s \in Signal /\ queue' \in Seq(Signal)
    BY <1>4, FiresType DEF OnUnlink
  <2>2. links' \in [Pid -> SUBSET Pid]
    BY <1>4, <2>1, SignalFields DEF OnUnlink, TypeOK
  <2>. QED
    BY <1>4, <2>1, <2>2 DEF OnUnlink, TypeOK
<1>5. CASE OnMonitor
  <2>1. s \in Signal /\ s.kind = "monitor" /\ queue' \in Seq(Signal)
    BY <1>5, FiresType DEF OnMonitor
  <2>2. s.to \in Pid /\ s.from \in Pid /\ s.ref \in Ref
    BY <2>1, SignalFields
  <2>3. [ref |-> s.ref, watcher |-> s.from] \in [ref : Ref, watcher : Pid]
    BY <2>2
  <2>4. /\ monitors' \in [Pid -> SUBSET [ref : Ref, watcher : Pid]]
        /\ late' \in SUBSET Ref
    BY <1>5, <2>2, <2>3 DEF OnMonitor, TypeOK
  <2>. QED
    BY <1>5, <2>1, <2>4 DEF OnMonitor, TypeOK
<1>6. CASE OnDemonitor
  <2>1. s \in Signal /\ queue' \in Seq(Signal)
    BY <1>6, FiresType DEF OnDemonitor
  <2>2. monitors' \in [Pid -> SUBSET [ref : Ref, watcher : Pid]]
    BY <1>6, <2>1, SignalFields DEF OnDemonitor, TypeOK
  <2>. QED
    BY <1>6, <2>1, <2>2 DEF OnDemonitor, TypeOK
<1>7. CASE OnExit
  <2>1. s \in Signal /\ s.kind = "exit" /\ queue' \in Seq(Signal)
    BY <1>7, FiresType DEF OnExit
  <2>2. s.to \in Pid /\ s.from \in Pid \cup {System} /\ s.reason \in Reason
    BY <2>1, SignalFields
  <2>3. exits' \in SUBSET (Pid \X Pid)
    BY <1>7, <2>2 DEF OnExit, TypeOK
  <2>4. CASE trap[s.to]
    <3>1. [kind |-> "EXIT", pid |-> s.from, reason |-> s.reason] \in Notice
      BY <2>2 DEF Notice
    <3>2. inbox' \in [Pid -> Seq(Notice)]
      BY <1>7, <2>2, <2>4, <3>1, DeliveredType DEF OnExit
    <3>. QED
      BY <1>7, <2>1, <2>3, <2>4, <3>2 DEF OnExit, TypeOK
  <2>5. CASE ~trap[s.to]
    <3>1. (IF s.reason = "kill" THEN "killed" ELSE s.reason) \in Reason
      BY <2>2 DEF Reason
    <3>2. /\ phase' \in [Pid -> {"none", "alive", "dying", "dead"}]
          /\ reason' \in [Pid -> Reason]
      BY <1>7, <2>2, <2>5, <3>1, ResolveType DEF OnExit
    <3>. QED
      BY <1>7, <2>1, <2>3, <2>5, <3>2 DEF OnExit, TypeOK
  <2>. QED
    BY <2>4, <2>5
<1>8. CASE OnDown
  <2>1. s \in Signal /\ s.kind = "down" /\ queue' \in Seq(Signal)
    BY <1>8, FiresType DEF OnDown
  <2>2. s.to \in Pid /\ s.from \in Pid /\ s.ref \in Ref /\ s.reason \in Reason
    BY <2>1, SignalFields
  <2>3. [kind |-> "DOWN", ref |-> s.ref, pid |-> s.from, reason |-> s.reason]
            \in Notice
    BY <2>2 DEF Notice
  <2>4. inbox' \in [Pid -> Seq(Notice)]
    BY <1>8, <2>2, <2>3, DeliveredType DEF OnDown
  <2>5. notified' \in SUBSET Ref
    BY <1>8, <2>2 DEF OnDown, TypeOK
  <2>. QED
    BY <1>8, <2>1, <2>4, <2>5 DEF OnDown, TypeOK
<1>. QED
  BY <1>1, <1>2, <1>3, <1>4, <1>5, <1>6, <1>7, <1>8 DEF Tick

(* References get their target and their watcher together, once.           *)
LEMMA RefsStep ==
    ASSUME TypeOK, RefsKnown, [Next]_vars PROVE RefsKnown'
<1>1. ASSUME NEW p \in Pid, NEW q \in Pid, NEW r \in Ref, NewRef(p, q, r)
      PROVE  RefsKnown'
  BY <1>1, ProcessesAssumption DEF NewRef, RefsKnown, TypeOK
<1>2. ASSUME UNCHANGED <<target, watcher>> PROVE RefsKnown'
  BY <1>2 DEF RefsKnown
<1> USE DEF core, tables, history, monitoring, linking
<1>3. CASE UserStep
  <2>1. ASSUME NEW p \in Pid, NEW q \in Pid, NEW r \in Ref,
               Monitor(p, q, r) \/ SpawnMonitor(p, q, r)
        PROVE  RefsKnown'
    BY <2>1, <1>1 DEF Monitor, SpawnMonitor
  <2>. QED
    BY <1>2, <1>3, <2>1, ZenonT(40) DEF UserStep, Send, SendToName, Link, Unlink,
       Demonitor, Exit, Die, Finish, TrapExit, Receive, Register, Unregister,
       Spawn, SpawnLink
<1>4. CASE Microtask
  BY <1>2, <1>4 DEF Microtask, Destroy, Cleanup
<1>5. CASE Tick
  BY <1>2, <1>5 DEF Tick, OnGo, OnRelay, OnLink, OnUnlink, OnMonitor,
     OnDemonitor, OnExit, OnDown
<1>6. CASE UNCHANGED vars
  BY <1>2, <1>6 DEF vars
<1>. QED
  BY <1>3, <1>4, <1>5, <1>6 DEF Next

Types == TypeOK /\ RefsKnown

LEMMA TypesInit == Init => Types
<1> SUFFICES ASSUME Init PROVE Types
  OBVIOUS
<1>1. <<>> \in Seq(Signal) /\ <<>> \in Seq(Notice)
  BY EmptySeq
<1>2. "normal" \in Reason
  BY DEF Reason
<1>3. /\ phase \in [Pid -> {"none", "alive", "dying", "dead"}]
      /\ code \in [Pid -> {"none", "pending", "running", "finished"}]
  BY DEF Init
<1>4. /\ reason \in [Pid -> Reason]
      /\ inbox \in [Pid -> Seq(Notice)]
  BY <1>1, <1>2 DEF Init
<1>. QED
  BY <1>1, <1>3, <1>4 DEF Init, Types, TypeOK, RefsKnown

LEMMA TypesStep == Types /\ [Next]_vars => Types'
<1>1. ASSUME TypeOK, UNCHANGED vars PROVE TypeOK'
  BY <1>1 DEF vars, core, tables, history, monitoring, linking, TypeOK
<1>. QED
  BY <1>1, UserTypes, MicrotaskTypes, TickTypes, RefsStep DEF Types, Next

LEMMA TypesAlways == Spec => []Types
BY TypesInit, TypesStep, PTL DEF Spec

(* The state of a node keeps its types: no step confuses the fields of a   *)
(* signal with one another or leaves a table with something foreign in it. *)
THEOREM TypeCorrect == Spec => []TypeOK
<1>1. Types => TypeOK
  BY DEF Types
<1>. QED
  BY <1>1, TypesAlways, PTL

-----------------------------------------------------------------------------
(* Deaths and DOWN.                                                        *)

(* What one step may do to the death of a process.                         *)
DeathStep ==
    \A p \in Pid :
        phase[p] \in {"dying", "dead"} =>
           /\ phase'[p] \in {phase[p], "dead"}
           /\ reason'[p] = reason[p]

(* Only destroy makes a process dead.                                      *)
SameDead == \A p \in Pid : phase'[p] = "dead" <=> phase[p] = "dead"

LEMMA ResolveDeath ==
    ASSUME TypeOK, NEW p \in Pid, NEW why, Resolve(p, why)
    PROVE  DeathStep /\ SameDead
BY DEF Resolve, TypeOK, DeathStep, SameDead

LEMMA NewContextDeath ==
    ASSUME TypeOK, NEW p \in Pid, NEW q \in Pid, NewContext(p, q)
    PROVE  DeathStep /\ SameDead
BY DEF NewContext, TypeOK, DeathStep, SameDead

LEMMA SamePhase ==
    ASSUME TypeOK, UNCHANGED <<phase, reason>>
    PROVE  DeathStep /\ SameDead
BY DEF DeathStep, SameDead

LEMMA UserDeath ==
    ASSUME TypeOK, UserStep PROVE DeathStep /\ SameDead
<1> USE DEF core
<1>1. ASSUME NEW p \in Pid, NEW q \in Pid, NEW r \in Ref,
             Spawn(p, q) \/ SpawnLink(p, q) \/ SpawnMonitor(p, q, r)
      PROVE  DeathStep /\ SameDead
  BY <1>1, NewContextDeath DEF Spawn, SpawnLink, SpawnMonitor
<1>2. ASSUME NEW p \in Pid, NEW q \in Pid, Spawn(p, q) \/ SpawnLink(p, q)
      PROVE  DeathStep /\ SameDead
  BY <1>2, NewContextDeath DEF Spawn, SpawnLink
<1>3. ASSUME NEW p \in Pid, NEW why \in Reason, Die(p, why) \/ Finish(p, why)
      PROVE  DeathStep /\ SameDead
  BY <1>3, ResolveDeath DEF Die, Finish
<1>4. UserReason \cup {"normal"} \subseteq Reason
  BY DEF Reason
<1>. QED
  BY <1>1, <1>2, <1>3, <1>4, SamePhase
     DEF UserStep, Send, SendToName, Link, Unlink, Monitor, Demonitor, Exit,
         TrapExit, Receive, Register, Unregister

LEMMA TickDeath ==
    ASSUME TypeOK, Tick PROVE DeathStep /\ SameDead
<1>1. CASE OnExit
  <2>1. Head(queue).to \in Pid
    BY <1>1, FiresType, SignalFields DEF OnExit
  <2>. QED
    BY <1>1, <2>1, ResolveDeath, SamePhase DEF OnExit
<1>. QED
  BY <1>1, SamePhase DEF Tick, OnGo, OnRelay, OnLink, OnUnlink, OnMonitor,
     OnDemonitor, OnDown

LEMMA MicrotaskDeath ==
    ASSUME TypeOK, Microtask PROVE DeathStep
<1>1. ASSUME NEW p \in Pid, Destroy(p) PROVE DeathStep
  BY <1>1 DEF Destroy, TypeOK, DeathStep
<1>2. ASSUME NEW p \in Pid, Cleanup(p) PROVE DeathStep
  BY <1>2, SamePhase DEF Cleanup, core
<1>. QED
  BY <1>1, <1>2 DEF Microtask

LEMMA NextDeath == Types /\ [Next]_vars => DeathStep
BY UserDeath, TickDeath, MicrotaskDeath, SamePhase
   DEF Types, Next, vars, core

(* The first reason of a death stands and nothing revives a process.       *)
THEOREM DeathsAreFinal == Spec => DeathIsFinal
<1>1. Types /\ [Next]_vars => [DeathStep]_vars
  BY NextDeath
<1>2. Spec => [][DeathStep]_vars
  BY <1>1, TypesAlways, PTL DEF Spec
<1>. QED
  BY <1>2 DEF DeathIsFinal, DeathStep

-----------------------------------------------------------------------------
(* Names.  The death of a process that has one is awaited by register.     *)
NamesWatched ==
    \A n \in Name :
        registrations[n] # NoPid => registrations[n] \in cleanups

LEMMA NamesStep ==
    Types /\ NamesWatched /\ [Next]_vars => NamesWatched'
<1> SUFFICES ASSUME TypeOK, NamesWatched, [Next]_vars PROVE NamesWatched'
  BY DEF Types
<1> USE DEF NamesWatched, tables
<1>0. registrations \in [Name -> Pid \cup {NoPid}]
  BY DEF TypeOK
<1>1. ASSUME UNCHANGED <<registrations, cleanups>> PROVE NamesWatched'
  BY <1>0, <1>1
<1>2. CASE UserStep
  <2>1. ASSUME NEW p \in Pid, NEW n \in Name, Register(p, n)
        PROVE  NamesWatched'
    <3>1. /\ registrations' = [registrations EXCEPT ![n] = p]
          /\ cleanups' = cleanups \cup {p}
      BY <2>1 DEF Register
    <3>. QED
      BY <1>0, <3>1
  <2>2. ASSUME NEW p \in Pid, NEW n \in Name, Unregister(p, n)
        PROVE  NamesWatched'
    BY <1>0, <2>2 DEF Unregister
  <2>. QED
    BY <1>1, <1>2, <2>1, <2>2, ZenonT(40)
       DEF UserStep, Send, SendToName, Link, Unlink, Monitor, Demonitor, Exit,
           Die, Finish, TrapExit, Receive, Spawn, SpawnLink, SpawnMonitor
<1>3. CASE Tick
  BY <1>1, <1>3 DEF Tick, OnGo, OnRelay, OnLink, OnUnlink,
     OnMonitor, OnDemonitor, OnExit, OnDown
<1>4. ASSUME NEW p \in Pid, Destroy(p) PROVE NamesWatched'
  BY <1>1, <1>4 DEF Destroy
<1>5. ASSUME NEW p \in Pid, Cleanup(p) PROVE NamesWatched'
  <2>1. /\ registrations' = [n \in Name |-> IF registrations[n] = p THEN NoPid
                                                       ELSE registrations[n]]
        /\ cleanups' = cleanups \ {p}
    BY <1>5 DEF Cleanup
  <2>. QED
    BY <1>0, <2>1
<1>6. CASE UNCHANGED vars
  BY <1>1, <1>6 DEF vars
<1>. QED
  BY <1>2, <1>3, <1>4, <1>5, <1>6 DEF Next, Microtask

(* A registered name never leads to a destroyed process once the           *)
(* microtasks are done.                                                    *)
THEOREM NamesLeadToLiving == Spec => []NamesOfLiving
<1>1. Init => NamesWatched
  BY DEF Init, NamesWatched
<1>2. TypeOK /\ NamesWatched => NamesOfLiving
  BY DEF TypeOK, NamesWatched, NamesOfLiving, Drained
<1>3. Types => TypeOK
  BY DEF Types
<1>. QED
  BY <1>1, <1>2, <1>3, NamesStep, TypesAlways, PTL DEF Spec
-----------------------------------------------------------------------------
(* DOWN.  The monitor table of a process, and the monitor signals on their *)
(* way to it, name that process and the watcher of their reference.        *)
MonitorsKnown ==
    /\ \A i \in 1..Len(queue) : queue[i].kind = "monitor" =>
          /\ target[queue[i].ref] = queue[i].to
          /\ watcher[queue[i].ref] = queue[i].from
    /\ \A q \in Pid : \A m \in monitors[q] :
          target[m.ref] = q /\ watcher[m.ref] = m.watcher

(* A watcher is told of a death only once the process is destroyed: it can *)
(* rely on the process taking no more messages.                            *)
DownMeansDead ==
    \A r \in Ref :
        r \in notified \/ DownsQueued(r) # {}
            => target[r] # NoPid /\ phase[target[r]] = "dead"

DownInv == Types /\ MonitorsKnown /\ DownMeansDead /\ DownAtMostOnce

DownsIn(s, r) == {i \in 1..Len(s) : s[i].kind = "down" /\ s[i].ref = r}

(* Signals that have nothing to do with monitors.                          *)
Harmless(add) ==
    /\ add \in Seq(Signal)
    /\ \A i \in 1..Len(add) : add[i].kind \notin {"down", "monitor"}

LEMMA HarmlessNone == Harmless(<<>>)
BY EmptySeq DEF Harmless

LEMMA HarmlessOne ==
    ASSUME NEW q, NEW s \in Signal, s.kind \notin {"down", "monitor"}
    PROVE  Harmless(<<s>>) /\ Harmless(ToPid(q, s))
<1>1. Harmless(<<s>>)
  BY FewSignals DEF Harmless
<1>. QED
  BY <1>1, HarmlessNone DEF ToPid

LEMMA HarmlessBoth ==
    ASSUME NEW a, NEW b, Harmless(a), Harmless(b) PROVE Harmless(a \o b)
<1>1. /\ a \in Seq(Signal) /\ b \in Seq(Signal)
      /\ Len(a) \in Nat /\ Len(b) \in Nat
  BY LenProperties DEF Harmless
<1>2. /\ a \o b \in Seq(Signal) /\ Len(a \o b) = Len(a) + Len(b)
      /\ \A i \in 1..Len(a) + Len(b) :
            (a \o b)[i] = IF i <= Len(a) THEN a[i] ELSE b[i - Len(a)]
  BY <1>1, ConcatProperties
<1>3. ASSUME NEW i \in 1..Len(a \o b)
      PROVE  (a \o b)[i].kind \notin {"down", "monitor"}
  <2>1. CASE i <= Len(a)
    BY <1>1, <1>2, <2>1 DEF Harmless
  <2>2. CASE i > Len(a)
    <3>1. i - Len(a) \in 1..Len(b) /\ (a \o b)[i] = b[i - Len(a)]
      BY <1>1, <1>2, <2>2
    <3>. QED
      BY <3>1 DEF Harmless
  <2>. QED
    BY <1>1, <2>1, <2>2
<1>. QED
  BY <1>2, <1>3 DEF Harmless

(* What the signals at the end of the queue add to the DOWN in it.         *)
LEMMA GrownDowns ==
    ASSUME TypeOK, NEW add \in Seq(Signal), queue' = queue \o add, NEW r
    PROVE  /\ \A i \in 1..Len(queue') : queue'[i] =
                 IF i <= Len(queue) THEN queue[i] ELSE add[i - Len(queue)]
           /\ DownsQueued(r)' = DownsQueued(r)
                 \cup {Len(queue) + k : k \in DownsIn(add, r)}
<1>1. /\ queue \in Seq(Signal) /\ Len(queue) \in Nat /\ Len(add) \in Nat
  BY LenProperties DEF TypeOK
<1>2. /\ Len(queue') = Len(queue) + Len(add)
      /\ \A i \in 1..Len(queue) + Len(add) : queue'[i] =
            IF i <= Len(queue) THEN queue[i] ELSE add[i - Len(queue)]
  BY <1>1, ConcatProperties
<1>3. ASSUME NEW i \in DownsQueued(r)'
      PROVE  i \in DownsQueued(r) \cup {Len(queue) + k : k \in DownsIn(add, r)}
  <2>1. /\ i \in 1..Len(queue) + Len(add)
        /\ queue'[i].kind = "down" /\ queue'[i].ref = r
    BY <1>2, <1>3 DEF DownsQueued
  <2>2. CASE i <= Len(queue)
    BY <1>1, <1>2, <2>1, <2>2 DEF DownsQueued
  <2>3. CASE i > Len(queue)
    <3>1. i - Len(queue) \in DownsIn(add, r) /\ i = Len(queue) + (i - Len(queue))
      BY <1>1, <1>2, <2>1, <2>3 DEF DownsIn
    <3>. QED
      BY <3>1
  <2>. QED
    BY <1>1, <2>1, <2>2, <2>3
<1>4. ASSUME NEW i \in DownsQueued(r) PROVE i \in DownsQueued(r)'
  BY <1>1, <1>2 DEF DownsQueued
<1>5. ASSUME NEW k \in DownsIn(add, r) PROVE Len(queue) + k \in DownsQueued(r)'
  <2>1. k \in 1..Len(add) /\ add[k].kind = "down" /\ add[k].ref = r
    BY DEF DownsIn
  <2>2. /\ Len(queue) + k \in 1..Len(queue) + Len(add)
        /\ queue'[Len(queue) + k] = add[k]
    BY <1>1, <1>2, <2>1
  <2>. QED
    BY <1>2, <2>1, <2>2 DEF DownsQueued
<1>. QED
  BY <1>2, <1>3, <1>4, <1>5

(* A step that appends: old references keep their meaning, the dead stay   *)
(* dead, and a DOWN is added only for a dead target, and only the first.   *)
LEMMA AppendStep ==
    ASSUME DownInv, Types',
           NEW add \in Seq(Signal), queue' = queue \o add,
           \A r \in Ref : target[r] # NoPid =>
              target'[r] = target[r] /\ watcher'[r] = watcher[r],
           monitors' = monitors, notified' = notified, DeathStep,
           \A i \in 1..Len(add) :
              /\ add[i].kind = "monitor" =>
                    /\ target'[add[i].ref] = add[i].to
                    /\ watcher'[add[i].ref] = add[i].from
              /\ add[i].kind = "down" =>
                    /\ target'[add[i].ref] \in Pid
                    /\ phase'[target'[add[i].ref]] = "dead"
                    /\ DownsQueued(add[i].ref) = {}
                    /\ add[i].ref \notin notified,
           \A i, j \in 1..Len(add) :
              /\ add[i].kind = "down" /\ add[j].kind = "down"
              /\ add[i].ref = add[j].ref
              => i = j
    PROVE  DownInv'
<1>0. /\ queue \in Seq(Signal) /\ Len(queue) \in Nat
      /\ Len(add) \in Nat /\ TypeOK /\ NoPid \notin Pid
  BY LenProperties, ProcessesAssumption DEF DownInv, Types, TypeOK
<1>1. MonitorsKnown'
  <2>1. ASSUME NEW i \in 1..Len(queue'), queue'[i].kind = "monitor"
        PROVE  /\ target'[queue'[i].ref] = queue'[i].to
               /\ watcher'[queue'[i].ref] = queue'[i].from
    <3>1. queue'[i] = IF i <= Len(queue) THEN queue[i] ELSE add[i - Len(queue)]
      BY <1>0, GrownDowns
    <3>2. CASE i <= Len(queue)
      <4>1. i \in 1..Len(queue) /\ queue[i].kind = "monitor" /\ queue[i] \in Signal
        BY <1>0, <2>1, <3>1, <3>2, ElementOfSeq
      <4>2. queue[i].ref \in Ref /\ queue[i].to \in Pid
        BY <4>1, SignalFields
      <4>3. /\ target[queue[i].ref] = queue[i].to
            /\ watcher[queue[i].ref] = queue[i].from
        BY <4>1 DEF DownInv, MonitorsKnown
      <4>. QED
        BY <1>0, <3>1, <3>2, <4>2, <4>3
    <3>3. CASE i > Len(queue)
      <4>1. i - Len(queue) \in 1..Len(add) /\ queue'[i] = add[i - Len(queue)]
        <5>1. Len(queue') = Len(queue) + Len(add)
          BY <1>0, ConcatProperties
        <5>. QED
          BY <1>0, <3>1, <3>3, <5>1
      <4>. QED
        BY <2>1, <4>1
    <3>. QED
      BY <1>0, <3>2, <3>3
  <2>2. ASSUME NEW q \in Pid, NEW m \in monitors'[q]
        PROVE  target'[m.ref] = q /\ watcher'[m.ref] = m.watcher
    <3>1. m \in monitors[q] /\ m.ref \in Ref
      BY <1>0, <2>2 DEF TypeOK
    <3>2. target[m.ref] = q /\ watcher[m.ref] = m.watcher
      BY <3>1 DEF DownInv, MonitorsKnown
    <3>. QED
      BY <1>0, <3>1, <3>2
  <2>. QED
    BY <2>1, <2>2 DEF MonitorsKnown
<1>2. ASSUME NEW r \in Ref, r \in notified' \/ DownsQueued(r)' # {}
      PROVE  target'[r] # NoPid /\ phase'[target'[r]] = "dead"
  <2>1. CASE r \in notified \/ DownsQueued(r) # {}
    <3>1. target[r] \in Pid /\ phase[target[r]] = "dead"
      BY <1>0, <2>1 DEF DownInv, DownMeansDead, TypeOK
    <3>. QED
      BY <1>0, <3>1 DEF DeathStep
  <2>2. CASE r \notin notified /\ DownsQueued(r) = {}
    <3>1. DownsQueued(r)' = {Len(queue) + k : k \in DownsIn(add, r)}
      BY <1>0, <2>2, GrownDowns
    <3>2. PICK k \in DownsIn(add, r) : TRUE
      BY <1>2, <2>2, <3>1
    <3>3. k \in 1..Len(add) /\ add[k].kind = "down" /\ add[k].ref = r
      BY <3>2 DEF DownsIn
    <3>. QED
      BY <1>0, <3>3
  <2>. QED
    BY <2>1, <2>2
<1>3. ASSUME NEW r \in Ref
      PROVE  /\ \A i, j \in DownsQueued(r)' : i = j
             /\ r \in notified' => DownsQueued(r)' = {}
  <2>1. /\ \A i, j \in DownsQueued(r) : i = j
        /\ r \in notified => DownsQueued(r) = {}
    BY DEF DownInv, DownAtMostOnce
  <2>2. DownsQueued(r)' = DownsQueued(r)
                          \cup {Len(queue) + k : k \in DownsIn(add, r)}
    BY <1>0, GrownDowns
  <2>3. CASE DownsIn(add, r) = {}
    BY <2>1, <2>2, <2>3
  <2>4. CASE DownsIn(add, r) # {}
    <3>1. PICK k \in DownsIn(add, r) : TRUE
      BY <2>4
    <3>2. k \in 1..Len(add) /\ add[k].kind = "down" /\ add[k].ref = r
      BY <3>1 DEF DownsIn
    <3>3. DownsQueued(r) = {} /\ r \notin notified
      BY <3>2
    <3>4. \A i \in DownsIn(add, r) : i = k
      BY <3>2 DEF DownsIn
    <3>5. \A i \in DownsQueued(r)' : i = Len(queue) + k
      BY <2>2, <3>3, <3>4
    <3>. QED
      BY <3>3, <3>5
  <2>. QED
    BY <2>3, <2>4
<1>. QED
  BY <1>1, <1>2, <1>3 DEF DownInv, DownMeansDead, DownAtMostOnce
(* A step that handles the head of the queue.                              *)
LEMMA HandleStep ==
    ASSUME DownInv, Types', queue # <<>>, queue' = Tail(queue),
           target' = target, watcher' = watcher, DeathStep,
           \A q \in Pid : \A m \in monitors'[q] :
              target[m.ref] = q /\ watcher[m.ref] = m.watcher,
           notified \subseteq notified',
           \A r \in notified' \ notified :
              Head(queue).kind = "down" /\ Head(queue).ref = r
    PROVE  DownInv'
<1>0. /\ queue \in Seq(Signal) /\ Len(queue) \in Nat /\ TypeOK
      /\ NoPid \notin Pid
  BY LenProperties, ProcessesAssumption DEF DownInv, Types, TypeOK
<1>1. /\ Len(queue') = Len(queue) - 1 /\ Len(queue) > 0
      /\ \A i \in 1..Len(queue) - 1 : queue'[i] = queue[i + 1]
      /\ Head(queue) = queue[1]
  BY <1>0, HeadTailProperties, EmptySeq
<1>2. ASSUME NEW r, NEW i \in DownsQueued(r)'
      PROVE  i \in Int /\ i # 0 /\ i + 1 \in DownsQueued(r)
  <2>1. i \in 1..Len(queue) - 1 /\ queue'[i].kind = "down" /\ queue'[i].ref = r
    BY <1>1, <1>2 DEF DownsQueued
  <2>. QED
    BY <1>0, <1>1, <2>1 DEF DownsQueued
<1>3. MonitorsKnown'
  <2>1. ASSUME NEW i \in 1..Len(queue'), queue'[i].kind = "monitor"
        PROVE  /\ target[queue'[i].ref] = queue'[i].to
               /\ watcher[queue'[i].ref] = queue'[i].from
    <3>1. i + 1 \in 1..Len(queue) /\ queue'[i] = queue[i + 1]
      BY <1>0, <1>1
    <3>. QED
      BY <2>1, <3>1 DEF DownInv, MonitorsKnown
  <2>. QED
    BY <2>1 DEF MonitorsKnown
<1>4. ASSUME NEW r \in Ref, r \in notified' \/ DownsQueued(r)' # {}
      PROVE  target[r] # NoPid /\ phase'[target[r]] = "dead"
  <2>1. r \in notified \/ DownsQueued(r) # {}
    <3>1. CASE r \in notified
      BY <3>1
    <3>2. CASE r \in notified' \ notified
      <4>1. 1 \in DownsQueued(r)
        BY <1>0, <1>1, <3>2 DEF DownsQueued
      <4>. QED
        BY <4>1
    <3>3. CASE DownsQueued(r)' # {}
      BY <1>2, <3>3
    <3>. QED
      BY <1>4, <3>1, <3>2, <3>3
  <2>2. target[r] \in Pid /\ phase[target[r]] = "dead"
    BY <1>0, <2>1 DEF DownInv, DownMeansDead, TypeOK
  <2>. QED
    BY <1>0, <2>2 DEF DeathStep
<1>5. ASSUME NEW r \in Ref
      PROVE  /\ \A i, j \in DownsQueued(r)' : i = j
             /\ r \in notified' => DownsQueued(r)' = {}
  <2>1. /\ \A i, j \in DownsQueued(r) : i = j
        /\ r \in notified => DownsQueued(r) = {}
    BY DEF DownInv, DownAtMostOnce
  <2>2. ASSUME NEW i \in DownsQueued(r)', NEW j \in DownsQueued(r)'
        PROVE  i = j
    <3>1. i + 1 = j + 1 /\ i \in Int /\ j \in Int
      BY <1>2, <2>1
    <3>. QED
      BY <3>1
  <2>3. ASSUME r \in notified', NEW i \in DownsQueued(r)' PROVE FALSE
    <3>1. i \in Int /\ i # 0 /\ i + 1 \in DownsQueued(r)
      BY <1>2
    <3>2. r \notin notified
      BY <2>1, <3>1
    <3>3. 1 \in DownsQueued(r)
      BY <1>0, <1>1, <2>3, <3>2 DEF DownsQueued
    <3>4. i + 1 = 1
      BY <2>1, <3>1, <3>3
    <3>. QED
      BY <3>1, <3>4
  <2>. QED
    BY <2>2, <2>3
<1>. QED
  BY <1>3, <1>4, <1>5 DEF DownInv, DownMeansDead, DownAtMostOnce

LEMMA HarmlessStep ==
    ASSUME DownInv, Types', DeathStep,
           NEW add, Harmless(add), queue' = queue \o add,
           UNCHANGED <<target, watcher, monitors, notified>>
    PROVE  DownInv'
<1>1. add \in Seq(Signal)
  BY DEF Harmless
<1>2. \A i \in 1..Len(add) : add[i].kind # "down" /\ add[i].kind # "monitor"
  BY DEF Harmless
<1>. QED
  BY <1>1, <1>2, AppendStep

LEMMA SameQueueStep ==
    ASSUME DownInv, Types', DeathStep,
           UNCHANGED <<queue, target, watcher, monitors, notified>>
    PROVE  DownInv'
<1>1. queue' = queue \o <<>>
  BY ConcatEmptySeq DEF DownInv, Types, TypeOK
<1>. QED
  BY <1>1, HarmlessNone, HarmlessStep

(* User code.  Only monitor and spawnMonitor send anything but harmless    *)
(* signals: a monitor that names a fresh reference, or its DOWN at once.   *)
LEMMA MonitorDown ==
    ASSUME DownInv, Types', DeathStep,
           NEW p \in Pid, NEW q \in Pid, NEW r \in Ref, NewRef(p, q, r)
    PROVE  /\ \A x \in Ref : target[x] # NoPid =>
                  target'[x] = target[x] /\ watcher'[x] = watcher[x]
           /\ target'[r] = q /\ watcher'[r] = p
           /\ DownsQueued(r) = {} /\ r \notin notified
BY DEF NewRef, DownInv, DownMeansDead, Types, TypeOK

LEMMA UserDown ==
    ASSUME DownInv, Types', UserStep PROVE DownInv'
<1>0. TypeOK /\ DeathStep
  BY UserDeath DEF DownInv, Types
<1> USE <1>0 DEF core, tables, history, monitoring, linking
<1>1. ASSUME NEW p \in Pid, NEW q \in Pid, NEW m \in Message, Send(p, q, m)
      PROVE  DownInv'
  <2>1. Harmless(ToPid(q, RelaySig(p, q, m)))
    BY SignalsMade, HarmlessOne DEF RelaySig
  <2>. QED
    BY <1>1, <2>1, HarmlessStep DEF Send
<1>2. ASSUME NEW p \in Pid, NEW n \in Name, NEW m \in Message,
             SendToName(p, n, m)
      PROVE  DownInv'
  <2>1. CASE registrations[n] # NoPid
    <3>1. registrations[n] \in Pid
      BY <2>1 DEF TypeOK
    <3>2. Harmless(ToPid(registrations[n], RelaySig(p, registrations[n], m)))
      BY <3>1, SignalsMade, HarmlessOne DEF RelaySig
    <3>. QED
      BY <1>2, <2>1, <3>2, HarmlessStep DEF SendToName
  <2>2. CASE registrations[n] = NoPid
    <3>1. Harmless(ToPid(p, ExitSig(System, p, "badarg")))
      BY SignalsMade, HarmlessOne DEF ExitSig, Reason
    <3>. QED
      BY <1>2, <2>2, <3>1, HarmlessStep DEF SendToName
  <2>. QED
    BY <2>1, <2>2
<1>3. ASSUME NEW p \in Pid, NEW q \in Pid, Link(p, q) PROVE DownInv'
  <2>1. Harmless(LinkSignals(p, q))
    BY SignalsMade, HarmlessOne, HarmlessBoth DEF LinkSignals, LinkSig
  <2>. QED
    BY <1>3, <2>1, HarmlessStep DEF Link
<1>4. ASSUME NEW p \in Pid, NEW q \in Pid, Unlink(p, q) PROVE DownInv'
  <2>1. /\ Harmless(ToPid(q, UnlinkSig(p, q)))
        /\ Harmless(ToPid(p, UnlinkSig(q, p)))
    BY SignalsMade, HarmlessOne DEF UnlinkSig
  <2>2. queue' = queue \o (ToPid(q, UnlinkSig(p, q)) \o ToPid(p, UnlinkSig(q, p)))
    BY <1>4, <2>1, ConcatAssociative, SMTT(20) DEF Unlink, Harmless, TypeOK
  <2>. QED
    BY <1>4, <2>1, <2>2, HarmlessBoth, HarmlessStep DEF Unlink
<1>5. ASSUME NEW p \in Pid, NEW q \in Pid, NEW r \in Ref, Monitor(p, q, r)
      PROVE  DownInv'
  <2>1. /\ \A x \in Ref : target[x] # NoPid =>
              target'[x] = target[x] /\ watcher'[x] = watcher[x]
        /\ target'[r] = q /\ watcher'[r] = p
        /\ DownsQueued(r) = {} /\ r \notin notified
    BY <1>5, MonitorDown DEF Monitor
  <2>2. UNCHANGED <<monitors, notified, phase>> /\ phase[q] # "none"
    BY <1>5 DEF Monitor
  <2>3. CASE Deliverable(q)
    <3>1. queue' = queue \o <<MonitorSig(p, q, r)>>
      BY <1>5, <2>3 DEF Monitor, MonitorSignals
    <3>2. <<MonitorSig(p, q, r)>> \in Seq(Signal)
      BY SignalsMade, FewSignals
    <3> DEFINE add == <<MonitorSig(p, q, r)>>
    <3>3. Len(add) = 1 /\ add[1] = MonitorSig(p, q, r)
      OBVIOUS
    <3>4. \A i \in 1..Len(add) :
             /\ i = 1 /\ add[i].kind = "monitor" /\ add[i].ref = r
             /\ add[i].to = q /\ add[i].from = p
      BY <3>3 DEF MonitorSig
    <3>5. add \in Seq(Signal) /\ queue' = queue \o add
      BY <3>1, <3>2
    <3> HIDE DEF add
    <3>6. \A i \in 1..Len(add) :
             /\ add[i].kind # "down"
             /\ add[i].kind = "monitor" =>
                   /\ target'[add[i].ref] = add[i].to
                   /\ watcher'[add[i].ref] = add[i].from
      BY <2>1, <3>4
    <3>. QED
      BY <2>1, <2>2, <3>5, <3>6, AppendStep
  <2>4. CASE ~Deliverable(q)
    <3>1. phase'[q] = "dead"
      BY <2>2, <2>4 DEF Deliverable, TypeOK
    <3>2. queue' = queue \o ToPid(p, DownSig(q, p, r, "noproc"))
      BY <1>5, <2>4 DEF Monitor, MonitorSignals
    <3>3. DownSig(q, p, r, "noproc") \in Signal
      BY SignalsMade DEF Reason
    <3> DEFINE add == ToPid(p, DownSig(q, p, r, "noproc"))
    <3>4. add \in Seq(Signal)
      BY <3>3, ToPidType
    <3>5. \A i \in 1..Len(add) :
             i = 1 /\ add[i].kind = "down" /\ add[i].ref = r
      BY DEF ToPid, DownSig
    <3>6. queue' = queue \o add
      BY <3>2
    <3> HIDE DEF add
    <3>. QED
      BY <2>1, <2>2, <3>1, <3>4, <3>5, <3>6, AppendStep
  <2>. QED
    BY <2>3, <2>4
<1>6. ASSUME NEW p \in Pid, NEW q \in Pid, NEW r \in Ref, SpawnMonitor(p, q, r)
      PROVE  DownInv'
  <2>1. /\ \A x \in Ref : target[x] # NoPid =>
              target'[x] = target[x] /\ watcher'[x] = watcher[x]
        /\ target'[r] = q /\ watcher'[r] = p
    BY <1>6, MonitorDown DEF SpawnMonitor
  <2>2. UNCHANGED <<monitors, notified>>
    BY <1>6 DEF SpawnMonitor, NewContext
  <2>3. queue' = queue \o <<MonitorSig(p, q, r), GoSig(q)>>
    BY <1>6 DEF SpawnMonitor
  <2>4. <<MonitorSig(p, q, r), GoSig(q)>> \in Seq(Signal)
    BY SignalsMade, FewSignals
  <2> DEFINE add == <<MonitorSig(p, q, r), GoSig(q)>>
  <2>5. Len(add) = 2 /\ add[1] = MonitorSig(p, q, r) /\ add[2] = GoSig(q)
    OBVIOUS
  <2>6. \A i \in 1..Len(add) :
           /\ add[i].kind \in {"monitor", "go"}
           /\ add[i].kind = "monitor" =>
                 add[i].ref = r /\ add[i].to = q /\ add[i].from = p
    BY <2>5 DEF MonitorSig, GoSig
  <2>7. add \in Seq(Signal) /\ queue' = queue \o add
    BY <2>3, <2>4
  <2> HIDE DEF add
  <2>8. \A i \in 1..Len(add) :
           /\ add[i].kind # "down"
           /\ add[i].kind = "monitor" =>
                 /\ target'[add[i].ref] = add[i].to
                 /\ watcher'[add[i].ref] = add[i].from
    BY <2>1, <2>6
  <2>. QED
    BY <2>1, <2>2, <2>7, <2>8, AppendStep
<1>7. ASSUME NEW p \in Pid, NEW r \in Ref, Demonitor(p, r) PROVE DownInv'
  <2>1. target[r] \in Pid
    BY <1>7, ProcessesAssumption
       DEF Demonitor, DownInv, Types, RefsKnown, TypeOK
  <2>2. Harmless(ToPid(target[r], DemonitorSig(p, target[r], r)))
    BY <2>1, SignalsMade, HarmlessOne DEF DemonitorSig
  <2>. QED
    BY <1>7, <2>2, HarmlessStep DEF Demonitor
<1>8. ASSUME NEW p \in Pid, NEW q \in Pid, NEW why \in UserReason,
             Exit(p, q, why)
      PROVE  DownInv'
  <2>1. Harmless(ToPid(q, ExitSig(p, q, why)))
    BY SignalsMade, HarmlessOne DEF ExitSig, Reason
  <2>. QED
    BY <1>8, <2>1, HarmlessStep DEF Exit
<1>9. ASSUME NEW p \in Pid, NEW q \in Pid, Spawn(p, q) PROVE DownInv'
  <2>1. Harmless(<<GoSig(q)>>)
    BY SignalsMade, HarmlessOne DEF GoSig
  <2>2. queue' = queue \o <<GoSig(q)>>
    BY <1>9, SignalsMade, AppendIsConcat DEF Spawn, TypeOK
  <2>. QED
    BY <1>9, <2>1, <2>2, HarmlessStep DEF Spawn, NewContext
<1>10. ASSUME NEW p \in Pid, NEW q \in Pid, SpawnLink(p, q) PROVE DownInv'
  <2> DEFINE there == <<LinkSig(p, q)>>
             back == ToPid(p, LinkSig(q, p))
             start == <<GoSig(q)>>
  <2>1. Harmless(there) /\ Harmless(back) /\ Harmless(start)
    BY SignalsMade, HarmlessOne DEF LinkSig, GoSig
  <2>2. queue' = queue \o there \o back \o start
    BY <1>10 DEF SpawnLink
  <2> HIDE DEF there, back, start
  <2>3. queue' = queue \o (there \o back \o start)
    <3>1. /\ queue \in Seq(Signal) /\ there \in Seq(Signal)
          /\ back \in Seq(Signal) /\ start \in Seq(Signal)
      BY <2>1 DEF Harmless, TypeOK
    <3> DEFINE both == there \o back
    <3>2. both \in Seq(Signal)
      BY <3>1, ConcatProperties
    <3>3. (queue \o there) \o back = queue \o both
      BY <3>1, ConcatAssociative
    <3> HIDE DEF both
    <3>4. (queue \o both) \o start = queue \o (both \o start)
      BY <3>1, <3>2, ConcatAssociative, SMTT(20)
    <3>. QED
      BY <2>2, <3>3, <3>4 DEF both
  <2>4. Harmless(there \o back \o start)
    BY <2>1, HarmlessBoth
  <2>. QED
    BY <1>10, <2>3, <2>4, HarmlessStep DEF SpawnLink, NewContext
<1>. QED
  BY <1>1, <1>2, <1>3, <1>4, <1>5, <1>6, <1>7, <1>8, <1>9, <1>10,
     SameQueueStep
     DEF UserStep, Die, Finish, TrapExit, Receive, Register, Unregister

(* destroy: one DOWN for each entry of the table, never one before.        *)
LEMMA DestroyDown ==
    ASSUME DownInv, Types', NEW p \in Pid, Destroy(p) PROVE DownInv'
<1>0. TypeOK /\ DeathStep
  BY MicrotaskDeath DEF DownInv, Types, Microtask
<1>1. PICK downs \in SetToSeqs(Downs(p)), exs \in SetToSeqs(Exits(p)) :
          queue' = queue \o downs \o exs
  BY DEF Destroy
<1>2. /\ downs \in Seq(Signal) /\ Len(downs) \in Nat
      /\ \A i \in 1..Len(downs) : downs[i] \in Downs(p)
      /\ \A i, j \in 1..Len(downs) : downs[i] = downs[j] => i = j
  BY <1>0, DownsFinite, OrderProperties, LenProperties
<1>3. /\ exs \in Seq(Signal) /\ Len(exs) \in Nat
      /\ \A i \in 1..Len(exs) : exs[i] \in Exits(p)
  BY <1>0, ExitsFinite, OrderProperties, LenProperties
<1> DEFINE add == downs \o exs
<1>4. /\ add \in Seq(Signal) /\ Len(add) = Len(downs) + Len(exs)
      /\ \A i \in 1..Len(downs) + Len(exs) : add[i] =
            IF i <= Len(downs) THEN downs[i] ELSE exs[i - Len(downs)]
  BY <1>2, <1>3, ConcatProperties
<1>5. queue' = queue \o add
  BY <1>0, <1>1, <1>2, <1>3, ConcatAssociative, SMTT(20) DEF TypeOK
<1> HIDE DEF add
<1>6. ASSUME NEW d \in Downs(p)
      PROVE  /\ d.kind = "down"
             /\ target[d.ref] = p /\ DownsQueued(d.ref) = {}
             /\ d.ref \notin notified
             /\ d = DownSig(p, watcher[d.ref], d.ref, reason[p])
  <2>1. PICK m \in monitors[p] : d = DownSig(p, m.watcher, m.ref, reason[p])
    BY DEF Downs
  <2>2. m.ref \in Ref /\ target[m.ref] = p /\ watcher[m.ref] = m.watcher
    BY <1>0, <2>1 DEF DownInv, MonitorsKnown, TypeOK
  <2>3. phase[p] # "dead"
    BY DEF Destroy
  <2>4. d.kind = "down" /\ d.ref = m.ref
    BY <2>1 DEF DownSig
  <2>. QED
    BY <2>1, <2>2, <2>3, <2>4 DEF DownInv, DownMeansDead
<1>7. ASSUME NEW i \in 1..Len(add)
      PROVE  \/ i \in 1..Len(downs) /\ add[i] = downs[i]
             \/ add[i].kind = "exit"
  <2>1. CASE i <= Len(downs)
    BY <1>2, <1>4, <2>1
  <2>2. CASE i > Len(downs)
    <3>1. i - Len(downs) \in 1..Len(exs) /\ add[i] = exs[i - Len(downs)]
      BY <1>2, <1>3, <1>4, <2>2
    <3>2. add[i] \in Exits(p)
      BY <1>3, <3>1
    <3>. QED
      BY <3>2 DEF Exits, ExitSig
  <2>. QED
    BY <1>2, <1>3, <1>4, <2>1, <2>2
<1>8. /\ target' = target /\ watcher' = watcher /\ monitors' = monitors
      /\ notified' = notified /\ phase'[p] = "dead"
  BY <1>0 DEF Destroy, tables, history, monitoring, TypeOK
<1>9. \A i \in 1..Len(add) :
         /\ add[i].kind # "monitor"
         /\ add[i].kind = "down" =>
               /\ target'[add[i].ref] \in Pid
               /\ phase'[target'[add[i].ref]] = "dead"
               /\ DownsQueued(add[i].ref) = {}
               /\ add[i].ref \notin notified
  BY <1>2, <1>6, <1>7, <1>8
<1>10. ASSUME NEW i \in 1..Len(add), NEW j \in 1..Len(add),
              add[i].kind = "down", add[j].kind = "down",
              add[i].ref = add[j].ref
       PROVE  i = j
  <2>1. /\ i \in 1..Len(downs) /\ add[i] = downs[i]
        /\ j \in 1..Len(downs) /\ add[j] = downs[j]
    BY <1>7, <1>10
  <2>2. downs[i] = downs[j]
    <3>1. /\ downs[i] = DownSig(p, watcher[downs[i].ref], downs[i].ref, reason[p])
          /\ downs[j] = DownSig(p, watcher[downs[j].ref], downs[j].ref, reason[p])
      BY <1>2, <1>6, <2>1
    <3>. QED
      BY <1>10, <2>1, <3>1
  <2>. QED
    BY <1>2, <2>1, <2>2
<1>. QED
  BY <1>0, <1>4, <1>5, <1>8, <1>9, <1>10, AppendStep

(* The handlers of signals.                                                *)
LEMMA TickDown ==
    ASSUME DownInv, Types', Tick PROVE DownInv'
<1> DEFINE s == Head(queue)
<1>0. /\ TypeOK /\ DeathStep
      /\ \A q \in Pid : \A m \in monitors[q] :
            target[m.ref] = q /\ watcher[m.ref] = m.watcher
  BY TickDeath DEF DownInv, Types, MonitorsKnown
<1> USE DEF tables, history, monitoring
<1>1. CASE OnGo \/ OnRelay \/ OnLink \/ OnUnlink \/ OnExit
  <2>1. /\ queue # <<>> /\ queue' = Tail(queue)
        /\ UNCHANGED <<target, watcher, monitors, notified>>
    BY <1>1 DEF OnGo, OnRelay, OnLink, OnUnlink, OnExit, Fires
  <2>. QED
    BY <1>0, <2>1, HandleStep
<1>2. CASE OnMonitor
  <2>1. /\ queue # <<>> /\ queue' = Tail(queue)
        /\ UNCHANGED <<target, watcher, notified>>
        /\ s \in Signal /\ s.kind = "monitor"
        /\ monitors' = [monitors EXCEPT ![s.to] =
                            @ \cup {[ref |-> s.ref, watcher |-> s.from]}]
    BY <1>0, <1>2, FiresType DEF OnMonitor, Fires
  <2>2. s = queue[1] /\ 1 \in 1..Len(queue)
    BY <1>0, <2>1, EmptySeq DEF TypeOK
  <2>3. target[s.ref] = s.to /\ watcher[s.ref] = s.from
    BY <2>1, <2>2 DEF DownInv, MonitorsKnown
  <2>4. ASSUME NEW q \in Pid, NEW m \in monitors'[q]
        PROVE  target[m.ref] = q /\ watcher[m.ref] = m.watcher
    <3>1. CASE m \in monitors[q]
      BY <1>0, <3>1
    <3>2. CASE m \notin monitors[q]
      <4>1. q = s.to /\ m = [ref |-> s.ref, watcher |-> s.from]
        BY <1>0, <2>1, <2>4, <3>2 DEF TypeOK
      <4>. QED
        BY <2>3, <4>1
    <3>. QED
      BY <3>1, <3>2
  <2>. QED
    BY <1>0, <2>1, <2>4, HandleStep
<1>3. CASE OnDemonitor
  <2>1. /\ queue # <<>> /\ queue' = Tail(queue)
        /\ UNCHANGED <<target, watcher, notified>>
        /\ \A q \in Pid : monitors'[q] \subseteq monitors[q]
    BY <1>0, <1>3 DEF OnDemonitor, Fires, TypeOK
  <2>. QED
    BY <1>0, <2>1, HandleStep
<1>4. CASE OnDown
  <2>1. /\ queue # <<>> /\ queue' = Tail(queue)
        /\ UNCHANGED <<target, watcher, monitors>>
        /\ s.kind = "down" /\ notified' = notified \cup {s.ref}
    BY <1>4 DEF OnDown, Fires
  <2>. QED
    BY <1>0, <2>1, HandleStep
<1>. QED
  BY <1>1, <1>2, <1>3, <1>4 DEF Tick

LEMMA DownInvInit == Init => DownInv
<1> SUFFICES ASSUME Init PROVE DownInv
  OBVIOUS
<1>1. queue = <<>> /\ notified = {} /\ \A q \in Pid : monitors[q] = {}
  BY DEF Init
<1>2. \A r : DownsQueued(r) = {}
  BY <1>1 DEF DownsQueued
<1>. QED
  BY <1>1, <1>2, TypesInit
     DEF DownInv, MonitorsKnown, DownMeansDead, DownAtMostOnce

LEMMA DownInvStep == DownInv /\ [Next]_vars => DownInv'
<1> SUFFICES ASSUME DownInv, [Next]_vars PROVE DownInv'
  OBVIOUS
<1>0. Types' /\ DeathStep /\ TypeOK
  BY TypesStep, NextDeath DEF DownInv, Types
<1>1. ASSUME NEW p \in Pid, Cleanup(p) PROVE DownInv'
  BY <1>0, <1>1, SameQueueStep
     DEF Cleanup, core, history, monitoring
<1>2. CASE UNCHANGED vars
  BY <1>0, <1>2, SameQueueStep
     DEF vars, core, tables, history, monitoring
<1>. QED
  BY <1>0, <1>1, <1>2, UserDown, DestroyDown, TickDown DEF Next, Microtask

LEMMA DownInvAlways == Spec => []DownInv
BY DownInvInit, DownInvStep, PTL DEF Spec

(* A DOWN, queued or delivered, is about a process that is destroyed.      *)
THEOREM DownsAreOfTheDead == Spec => []DownMeansDead
<1>1. DownInv => DownMeansDead
  BY DEF DownInv
<1>. QED
  BY <1>1, DownInvAlways, PTL

(* A reference gets at most one DOWN, queued or delivered, in every order  *)
(* of death, monitor and demonitor.                                        *)
THEOREM DownsComeOnce == Spec => []DownAtMostOnce
<1>1. DownInv => DownAtMostOnce
  BY DEF DownInv
<1>. QED
  BY <1>1, DownInvAlways, PTL
=============================================================================
