------------------------- MODULE Supervisor_proofs -------------------------
(* A supervisor misses no death of its children, leaves no process of its  *)
(* own unlisted and keeps its children in order, for any specifications,   *)
(* processes and bounds.                                                   *)
EXTENDS Supervisor, SequenceTheorems, FiniteSetTheorems,
        WellFoundedInduction, TLAPS

-----------------------------------------------------------------------------
(* The inductive invariant.                                                *)

Kinds(q, K) == {i \in 1..Len(q) : q[i].kind \in K}
AtMostOne(q, K) == \A i, j \in Kinds(q, K) : i = j
None(q, K) == \A m \in ToSet(q) : m.kind \notin K
Sent(K) == {m \in ToSet(queue) : m.kind \in K}
ExitOf(p) ==
    {m \in ToSet(queue) \cup ToSet(inbox) : m.kind = "EXIT" /\ m.pid = p}

Starting == {"go", "ack"}
Ending == {"monitor", "down"}
Single(q) ==
    /\ AtMostOne(q, Starting) /\ AtMostOne(q, Ending)
    /\ AtMostOne(q, {"flush"}) /\ AtMostOne(q, {"start_children"})

(* One process at a time is on its way up, the one the supervisor waits    *)
(* for, and either a signal is on its way or its init runs.                *)
StartingFit ==
    /\ \A m \in Sent(Starting) :
          /\ pc = "ack" /\ m.pid = job.pid
          /\ m.kind = "go" => life[m.pid] = "pending"
          /\ m.kind = "ack" =>
                /\ life[m.pid] \in {"up", "dead"}
                /\ m.how = "error" => life[m.pid] = "dead"
    /\ \A p \in Pid : life[p] \in {"pending", "init", "zombie"} =>
          /\ pc = "ack" /\ p = job.pid
          /\ life[p] # "pending" => Sent(Starting) = {}

(* One process at a time is monitored, the one the supervisor waits for;   *)
(* what has sent an EXIT is dead.                                          *)
EndingFit ==
    /\ \A m \in Sent(Ending) :
          /\ pc = "down" /\ m.pid = job.pid /\ watched = {}
          /\ m.kind = "down" => ~Alive(m.pid)
    /\ \A p \in watched : pc = "down" /\ p = job.pid /\ Alive(p)
    /\ \A m \in Sent({"flush"}) : pc = "flush"
    /\ pc = "flush" => ~Alive(job.pid)
    /\ \A m \in Sent({"exit"}) : life[m.pid] \in {"up", "dead"}
    /\ \A p \in Pid : ExitOf(p) # {} => ~Alive(p)

(* The children of the next state, in their order. *)
Work == job.before \o job.group \o job.after

(* Two children are not the same process. *)
Apart == [c \in Child |-> {d \in Child : c.pid = d.pid => c.pid = 0}]
AllPairs(list, R) ==
    \A i, j \in 1..Len(list) : i < j => list[j] \in R[list[i]]

(* What the supervisor is doing to its children. *)
JobFit ==
    /\ Between => job = NoJob
    /\ pc \in {"terminate", "down", "flush"} =>
          /\ job.kind = "restart" /\ config.strategy # "one_for_one"
          /\ job.at = 1
    /\ pc \in {"terminate", "start"} => job.pid = 0
    /\ pc \in {"down", "flush"} =>
          Running # 0 /\ job.group[Running].pid = job.pid
    /\ pc \in {"start", "ack"} =>
          /\ job.kind # "none" /\ job.at \in 1..Len(job.group) + 1
          /\ \A i \in job.at..Len(job.group) : job.group[i].pid = 0
    /\ pc = "ack" =>
          /\ job.at <= Len(job.group) /\ job.pid # 0
          /\ job.pid \notin Pids(children) \cup Pids(job.group)
    /\ job.kind = "add" \/ RestartsOne => Len(job.group) <= 1
    /\ RestartsOne =>
          \A i \in 1..Len(job.group) : \E j \in 1..Len(config.specs) :
              config.specs[j].id = job.group[i].spec.id
    /\ Pids(job.before) \cup Pids(job.after) \subseteq Pids(children) \cup {0}
    /\ AllPairs(children, Apart) /\ AllPairs(Work, Apart)

(* The first message tells it to start its children; nothing was before.   *)
BootFit ==
    /\ StartChildren \in ToSet(queue) =>
          pc = "idle" /\ inbox = <<>> /\ queue[1] = StartChildren
    /\ StartChildren \in ToSet(inbox) =>
          pc = "take" /\ inbox = <<StartChildren>>
    /\ StartChildren \in ToSet(queue) \cup ToSet(inbox) =>
          children = <<>> /\ \A p \in Pid : life[p] = "dead"

Base ==
    TypeOK /\ Single(queue) /\ StartingFit /\ EndingFit /\ JobFit /\ BootFit

Goes == pc \notin {"fail", "dead"}

(* The list of children is whole: no restart is taking it apart. *)
Whole == Between \/ job.kind = "add"

(* What of the lists has died has told so, and nobody has heard it yet.    *)
Heard(p) == p = 0 \/ Alive(p) \/ ExitOf(p) # {}
Due ==
    (IF Whole THEN Pids(children) ELSE {})
        \cup Pids(job.before) \cup Pids(job.after)
        \cup (IF pc \in {"start", "ack"} THEN Pids(job.group) \cup {job.pid} ELSE {})
DeathsFit == Goes => \A p \in Due : Heard(p)

(* What lives is in one of the lists, or waited for, or was replaced.      *)
Reached ==
    (IF Whole THEN Pids(children) ELSE {})
        \cup Pids(job.before) \cup Pids(job.group) \cup Pids(job.after)
        \cup {job.pid} \cup replaced
OrphansFit == Goes => \A p \in Pid : Alive(p) => p \in Reached
Tally == DeathsFit /\ OrphansFit

(* Only what was declared or handed to startChild becomes a child.         *)
Known == ToSet(config.specs) \cup config.extra
KnownFit ==
    /\ \A m \in ToSet(queue) \cup ToSet(inbox) :
          m.kind = "start_child" => m.spec \in config.extra
    /\ \A c \in ToSet(children) \cup ToSet(Work) : c.spec \in Known

(* Children are in order, and what startChild may start again is there.    *)
InOrder == [c \in Child |-> {d \in Child :
               Rank(c) # 0 /\ Rank(d) # 0 => Rank(c) < Rank(d)}]
Has(list, id) == \E c \in ToSet(list) : c.spec.id = id
Booted == StartChildren \notin ToSet(queue) \cup ToSet(inbox)
OrderFit ==
    ~Simple /\ Steady =>
        /\ AllPairs(children, InOrder) /\ AllPairs(Work, InOrder)
        /\ Goes => \A spec \in config.extra : Declared(spec.id) # 0 =>
              /\ Whole /\ Booted => Has(children, spec.id)
              /\ ~Between => Has(Work, spec.id)

-----------------------------------------------------------------------------
(* Sequences.                                                              *)

(* The least of a set of numbers. *)
LEMMA Least ==
    ASSUME NEW T \in SUBSET Nat, T # {}
    PROVE  Min(T) \in T /\ \A y \in T : Min(T) <= y
<1>1. IsWellFoundedOn(OpToRel(<, Nat), Nat)
  BY NatLessThanWellFounded
<1>2. PICK x \in T : \A y \in T : ~(<<y, x>> \in OpToRel(<, Nat))
  BY <1>1, WFMin
<1>3. \A y \in T : ~(y < x)
  BY <1>2 DEF OpToRel
<1>4. \A y \in T : x <= y
  BY <1>3
<1>. QED
  BY <1>4 DEF Min

LEMMA Few ==
    ASSUME NEW S, NEW x \in S
    PROVE  /\ <<>> \in Seq(S) /\ Len(<<>>) = 0 /\ ToSet(<<>>) = {}
           /\ <<x>> \in Seq(S) /\ Len(<<x>>) = 1 /\ <<x>>[1] = x
           /\ ToSet(<<x>>) = {x}
BY DEF ToSet

LEMMA SetOf ==
    ASSUME NEW S, NEW q \in Seq(S)
    PROVE  /\ Len(q) \in Nat /\ DOMAIN q = 1..Len(q)
           /\ ToSet(q) = {q[i] : i \in 1..Len(q)}
           /\ ToSet(q) \subseteq S
           /\ \A i \in 1..Len(q) : q[i] \in S /\ q[i] \in ToSet(q)
           /\ \A x \in ToSet(q) : \E i \in 1..Len(q) : x = q[i]
<1>1. Len(q) \in Nat /\ DOMAIN q = 1..Len(q) /\ \A i \in 1..Len(q) : q[i] \in S
  BY LenProperties, ElementOfSeq
<1>. QED
  BY <1>1 DEF ToSet

LEMMA Joined ==
    ASSUME NEW S, NEW p \in Seq(S), NEW q \in Seq(S)
    PROVE  /\ p \o q \in Seq(S)
           /\ Len(p) \in Nat /\ Len(q) \in Nat
           /\ Len(p \o q) = Len(p) + Len(q)
           /\ \A i \in 1..Len(p) + Len(q) :
                 /\ (p \o q)[i] = IF i <= Len(p) THEN p[i] ELSE q[i - Len(p)]
                 /\ i <= Len(p) => i \in 1..Len(p)
                 /\ i > Len(p) => i - Len(p) \in 1..Len(q)
           /\ ToSet(p \o q) = ToSet(p) \cup ToSet(q)
<1>1. Len(p) \in Nat /\ Len(q) \in Nat
  BY LenProperties
<1>2. /\ p \o q \in Seq(S) /\ Len(p \o q) = Len(p) + Len(q)
      /\ \A i \in 1..Len(p) + Len(q) :
            (p \o q)[i] = IF i <= Len(p) THEN p[i] ELSE q[i - Len(p)]
  BY ConcatProperties
<1>3. \A i \in 1..Len(p) + Len(q) :
         /\ i <= Len(p) => i \in 1..Len(p)
         /\ i > Len(p) => i - Len(p) \in 1..Len(q)
  BY <1>1
<1>4. \A x \in ToSet(p \o q) : x \in ToSet(p) \cup ToSet(q)
  <2>1. TAKE x \in ToSet(p \o q)
  <2>2. PICK i \in 1..Len(p) + Len(q) : x = (p \o q)[i]
    BY <1>2, SetOf
  <2>. QED
    BY <1>2, <1>3, <2>2, SetOf
<1>5. \A x \in ToSet(p) : x \in ToSet(p \o q)
  <2>1. TAKE x \in ToSet(p)
  <2>2. PICK i \in 1..Len(p) : x = p[i]
    BY SetOf
  <2>3. i \in 1..Len(p) + Len(q) /\ (p \o q)[i] = x
    BY <1>1, <1>2, <2>2
  <2>. QED
    BY <1>2, <2>3, SetOf
<1>6. \A x \in ToSet(q) : x \in ToSet(p \o q)
  <2>1. TAKE x \in ToSet(q)
  <2>2. PICK i \in 1..Len(q) : x = q[i]
    BY SetOf
  <2>3. i + Len(p) \in 1..Len(p) + Len(q) /\ (p \o q)[i + Len(p)] = x
    BY <1>1, <1>2, <2>2
  <2>. QED
    BY <1>2, <2>3, SetOf
<1>. QED
  BY <1>1, <1>2, <1>3, <1>4, <1>5, <1>6

LEMMA JoinedSet ==
    ASSUME NEW S, NEW p \in Seq(S), NEW q \in Seq(S)
    PROVE  p \o q \in Seq(S) /\ ToSet(p \o q) = ToSet(p) \cup ToSet(q)
BY Joined

LEMMA Rested ==
    ASSUME NEW S, NEW q \in Seq(S), q # <<>>
    PROVE  /\ Head(q) \in S /\ Head(q) = q[1] /\ 1 \in 1..Len(q)
           /\ Tail(q) \in Seq(S) /\ Len(q) \in Nat
           /\ Len(Tail(q)) = Len(q) - 1
           /\ \A i \in 1..Len(Tail(q)) :
                 Tail(q)[i] = q[i + 1] /\ i + 1 \in 1..Len(q)
           /\ ToSet(q) = {Head(q)} \cup ToSet(Tail(q))
<1>1. Len(q) \in Nat /\ Len(q) # 0
  BY EmptySeq, LenProperties
<1>2. /\ Head(q) \in S /\ Tail(q) \in Seq(S) /\ Len(Tail(q)) = Len(q) - 1
      /\ \A i \in 1..Len(Tail(q)) : Tail(q)[i] = q[i + 1]
  BY HeadTailProperties
<1>3. Head(q) = q[1]
  OBVIOUS
<1>4. \A x \in ToSet(q) : x \in {Head(q)} \cup ToSet(Tail(q))
  <2>1. TAKE x \in ToSet(q)
  <2>2. PICK i \in 1..Len(q) : x = q[i]
    BY SetOf
  <2>3. CASE i = 1
    BY <1>3, <2>2, <2>3
  <2>4. CASE i # 1
    <3>1. i - 1 \in 1..Len(Tail(q)) /\ Tail(q)[i - 1] = x
      BY <1>1, <1>2, <2>2, <2>4
    <3>. QED
      BY <1>2, <3>1, SetOf
  <2>. QED
    BY <2>3, <2>4
<1>5. Head(q) \in ToSet(q)
  BY <1>1, <1>3, SetOf
<1>6. \A x \in ToSet(Tail(q)) : x \in ToSet(q)
  <2>1. TAKE x \in ToSet(Tail(q))
  <2>2. PICK i \in 1..Len(Tail(q)) : x = Tail(q)[i]
    BY <1>2, SetOf
  <2>3. i + 1 \in 1..Len(q) /\ q[i + 1] = x
    BY <1>1, <1>2, <2>2
  <2>. QED
    BY <2>3, SetOf
<1>. QED
  BY <1>1, <1>2, <1>3, <1>4, <1>5, <1>6

LEMMA JoinedAt ==
    ASSUME NEW S, NEW p \in Seq(S), NEW q \in Seq(S), NEW m, NEW n,
           Len(p) = m, Len(p) + Len(q) = n
    PROVE  /\ p \o q \in Seq(S) /\ Len(p \o q) = n
           /\ \A k \in 1..n : (p \o q)[k] = IF k <= m THEN p[k] ELSE q[k - m]
BY ConcatProperties

(* A sequence about one of its elements. *)
One(x) == <<x>>
Ahead(q, i) == SubSeq(q, 1, i - 1)
Behind(q, i) == SubSeq(q, i + 1, Len(q))
From(q, i) == SubSeq(q, i, Len(q))
With(q, i, x) == [q EXCEPT ![i] = x]

LEMMA OneIn ==
    ASSUME NEW S, NEW x \in S
    PROVE  /\ One(x) \in Seq(S) /\ Len(One(x)) = 1 /\ One(x)[1] = x
           /\ ToSet(One(x)) = {x}
BY Few DEF One

LEMMA Split ==
    ASSUME NEW S, NEW q \in Seq(S), NEW i \in 1..Len(q)
    PROVE  /\ Ahead(q, i) \in Seq(S) /\ Len(Ahead(q, i)) = i - 1
           /\ Behind(q, i) \in Seq(S)
           /\ q = Ahead(q, i) \o One(q[i]) \o Behind(q, i)
           /\ \A x \in S : With(q, i, x) = Ahead(q, i) \o One(x) \o Behind(q, i)
           /\ RemoveAt(q, i) = Ahead(q, i) \o Behind(q, i)
           /\ From(q, i) = One(q[i]) \o Behind(q, i)
<1> DEFINE front == SubSeq(q, 1, i - 1)
           back == SubSeq(q, i + 1, Len(q))
<1>0. Len(q) \in Nat
  BY LenProperties
<1>1. Len(q) \in Nat /\ \A k \in 1..Len(q) : q[k] \in S
  BY SetOf
<1>2. /\ front \in Seq(S) /\ Len(front) = i - 1
      /\ \A k \in 1..i - 1 : front[k] = q[k]
  BY <1>1, SubSeqProperties
<1>3. /\ back \in Seq(S) /\ Len(back) = Len(q) - i
      /\ \A k \in 1..Len(q) - i : back[k] = q[i + k]
  BY <1>1, SubSeqProperties
<1> HIDE DEF front, back
<1>4. ASSUME NEW y \in S
      PROVE  /\ front \o <<y>> \o back \in Seq(S)
             /\ Len(front \o <<y>> \o back) = Len(q)
             /\ \A k \in 1..Len(q) : (front \o <<y>> \o back)[k]
                                        = IF k = i THEN y ELSE q[k]
  <2>1. /\ front \o <<y>> \in Seq(S) /\ Len(front \o <<y>>) = i
        /\ \A k \in 1..i : (front \o <<y>>)[k] = IF k < i THEN q[k] ELSE y
    <3>1. <<y>> \in Seq(S) /\ Len(<<y>>) = 1 /\ <<y>>[1] = y
      BY Few
    <3>. QED
      BY <1>2, <3>1, Joined
  <2>5. PICK a : a = front \o <<y>>
    OBVIOUS
  <2>6. /\ a \in Seq(S) /\ Len(a) = i
        /\ \A k \in 1..i : a[k] = IF k < i THEN q[k] ELSE y
    BY <2>5, <2>1
  <2>0. Len(a) + Len(back) = Len(q)
    BY <1>1, <1>3, <2>6
  <2>2. /\ a \o back \in Seq(S) /\ Len(a \o back) = Len(q)
        /\ \A k \in 1..Len(q) :
              (a \o back)[k] = IF k <= i THEN a[k] ELSE back[k - i]
    BY <1>3, <2>0, <2>6, JoinedAt
  <2>4. \A k \in 1..Len(q) : (a \o back)[k] = IF k = i THEN y ELSE q[k]
    <3>1. TAKE k \in 1..Len(q)
    <3>2. CASE k <= i
      <4>1. k \in 1..i /\ (a \o back)[k] = a[k]
        BY <1>1, <2>2, <3>2
      <4>2. a[k] = IF k < i THEN q[k] ELSE y
        BY <2>6, <4>1
      <4>. QED
        BY <3>2, <4>1, <4>2
    <3>3. CASE k > i
      <4>1. k - i \in 1..Len(q) - i /\ i + (k - i) = k
        BY <1>1, <3>3
      <4>2. (a \o back)[k] = back[k - i]
        BY <2>2, <3>3
      <4>3. back[k - i] = q[i + (k - i)]
        BY <1>3, <4>1
      <4>4. PICK n : n = i + (k - i)
        OBVIOUS
      <4>5. n = k /\ (a \o back)[k] = q[n] /\ k # i
        BY <1>1, <3>3, <4>1, <4>2, <4>3, <4>4
      <4>. QED
        BY <4>5
    <3>4. k <= i \/ k > i
      BY <1>0
    <3>. QED
      BY <3>2, <3>3, <3>4
  <2>. QED
    BY <2>5, <2>2, <2>4
<1>5. q = front \o <<q[i]>> \o back
  <2>1. q[i] \in S
    BY <1>1
  <2>. QED
    BY <1>4, <2>1, SeqEqual
<1>6. ASSUME NEW x \in S
      PROVE  [q EXCEPT ![i] = x] = front \o <<x>> \o back
  <2>1. /\ [q EXCEPT ![i] = x] \in Seq(S) /\ Len([q EXCEPT ![i] = x]) = Len(q)
        /\ \A k \in 1..Len(q) : [q EXCEPT ![i] = x][k] = IF k = i THEN x ELSE q[k]
    BY <1>1, ExceptSeq
  <2>2. \A k \in 1..Len(q) : [q EXCEPT ![i] = x][k] = (front \o <<x>> \o back)[k]
    BY <1>4, <2>1
  <2>. QED
    BY <1>4, <2>1, <2>2, SeqEqual
<1>7. SubSeq(q, i, Len(q)) = <<q[i]>> \o back
  <2> DEFINE s == SubSeq(q, i, Len(q))
  <2>1. /\ s \in Seq(S) /\ Len(s) = Len(q) - i + 1
        /\ \A k \in 1..Len(q) - i + 1 : s[k] = q[i + k - 1]
    BY <1>1, SubSeqProperties
  <2>2. /\ <<q[i]>> \o back \in Seq(S) /\ Len(<<q[i]>> \o back) = Len(q) - i + 1
        /\ \A k \in 1..Len(q) - i + 1 :
              (<<q[i]>> \o back)[k] = IF k = 1 THEN q[i] ELSE back[k - 1]
    <3>1. q[i] \in S
      BY <1>1
    <3>6. PICK a : a = <<q[i]>>
      OBVIOUS
    <3>2. a \in Seq(S) /\ Len(a) = 1 /\ a[1] = q[i]
      BY <3>1, <3>6, Few
    <3>0. Len(a) = 1 /\ Len(a) + Len(back) = Len(q) - i + 1
      BY <1>0, <1>3, <3>2
    <3>3. /\ a \o back \in Seq(S) /\ Len(a \o back) = Len(q) - i + 1
          /\ \A k \in 1..Len(q) - i + 1 :
                (a \o back)[k] = IF k <= 1 THEN a[k] ELSE back[k - 1]
      <4> DEFINE n == Len(q) - i + 1
      <4>0. PICK m : m = 1
        OBVIOUS
      <4>1. Len(a) = m /\ Len(a) + Len(back) = n
        BY <3>0, <4>0
      <4> HIDE DEF n
      <4>2. /\ a \o back \in Seq(S) /\ Len(a \o back) = n
            /\ \A k \in 1..n : (a \o back)[k] = IF k <= m THEN a[k] ELSE back[k - m]
        BY <1>3, <3>2, <4>1, JoinedAt
      <4>. QED
        BY <4>0, <4>2 DEF n
    <3>4. ASSUME NEW k \in 1..Len(q) - i + 1
          PROVE  (a \o back)[k] = IF k = 1 THEN q[i] ELSE back[k - 1]
      <4>1. k \in Int /\ k >= 1
        BY <1>0
      <4>2. CASE k = 1
        BY <3>2, <3>3, <4>2
      <4>3. CASE k > 1
        BY <3>3, <4>3
      <4>4. k = 1 \/ k > 1
        BY <4>1
      <4>. QED
        BY <4>2, <4>3, <4>4
    <3>5. a \o back = <<q[i]>> \o back
      BY <3>6
    <3>. QED
      BY <3>3, <3>4, <3>5
  <2> HIDE DEF s
  <2>3. \A k \in 1..Len(q) - i + 1 : s[k] = (<<q[i]>> \o back)[k]
    <3>1. TAKE k \in 1..Len(q) - i + 1
    <3>2. CASE k = 1
      BY <1>1, <2>1, <2>2, <3>2
    <3>3. CASE k # 1
      <4>1. k - 1 \in 1..Len(q) - i /\ back[k - 1] = q[i + k - 1]
        BY <1>1, <1>3, <3>3
      <4>. QED
        BY <2>1, <2>2, <3>3, <4>1
    <3>. QED
      BY <3>2, <3>3
  <2>4. s = <<q[i]>> \o back
    BY <2>1, <2>2, <2>3, SeqEqual
  <2>. QED
    BY <2>4 DEF s
<1>8. RemoveAt(q, i) = front \o back
  BY DEF RemoveAt, front, back
<1>. QED
  BY <1>2, <1>3, <1>5, <1>6, <1>7, <1>8
     DEF front, back, Ahead, Behind, From, With, One

LEMMA SplitWith ==
    ASSUME NEW S, NEW q \in Seq(S), NEW i \in 1..Len(q), NEW x \in S
    PROVE  With(q, i, x) = Ahead(q, i) \o One(x) \o Behind(q, i)
BY Split

LEMMA SplitFrom ==
    ASSUME NEW S, NEW q \in Seq(S), NEW i \in 1..Len(q)
    PROVE  Ahead(q, i) \o From(q, i) = q
<1>1. Len(q) \in Nat /\ \A k \in 1..Len(q) : q[k] \in S
  BY SetOf
<1>2. PICK a : a = Ahead(q, i)
  OBVIOUS
<1>3. PICK b : b = From(q, i)
  OBVIOUS
<1>4. a \in Seq(S) /\ Len(a) = i - 1 /\ \A k \in 1..i - 1 : a[k] = q[k]
  BY <1>1, <1>2, SubSeqProperties DEF Ahead
<1>5. /\ b \in Seq(S) /\ Len(b) = Len(q) - i + 1
      /\ \A k \in 1..Len(q) - i + 1 : b[k] = q[i + k - 1]
  BY <1>1, <1>3, SubSeqProperties DEF From
<1>6. Len(a) + Len(b) = Len(q)
  BY <1>1, <1>4, <1>5
<1>7. /\ a \o b \in Seq(S) /\ Len(a \o b) = Len(q)
      /\ \A k \in 1..Len(q) :
            (a \o b)[k] = IF k <= i - 1 THEN a[k] ELSE b[k - (i - 1)]
  BY <1>4, <1>5, <1>6, JoinedAt
<1>8. ASSUME NEW k \in 1..Len(q) PROVE (a \o b)[k] = q[k]
  <2>1. CASE k <= i - 1
    BY <1>1, <1>4, <1>7, <2>1
  <2>2. CASE ~(k <= i - 1)
    <3>1. PICK n : n = k - (i - 1)
      OBVIOUS
    <3>2. n \in 1..Len(q) - i + 1 /\ i + n - 1 = k
      BY <1>1, <2>2, <3>1
    <3>3. (a \o b)[k] = b[n]
      BY <1>7, <2>2, <3>1
    <3>. QED
      BY <1>5, <3>2, <3>3
  <2>. QED
    BY <2>1, <2>2
<1>9. PICK r : r = a \o b
  OBVIOUS
<1>10. r = q
  BY <1>7, <1>8, <1>9, SeqEqual
<1>. QED
  BY <1>2, <1>3, <1>9, <1>10

-----------------------------------------------------------------------------
(* Queues.                                                                 *)
LEMMA SingleRest ==
    ASSUME NEW S, NEW q \in Seq(S), q # <<>>, NEW K, AtMostOne(q, K)
    PROVE  /\ AtMostOne(Tail(q), K)
           /\ Head(q).kind \in K => None(Tail(q), K)
<1>1. /\ Tail(q) \in Seq(S) /\ Len(q) \in Nat /\ Head(q) = q[1] /\ 1 \in 1..Len(q)
      /\ \A i \in 1..Len(Tail(q)) :
            Tail(q)[i] = q[i + 1] /\ i + 1 \in 1..Len(q)
  BY Rested
<1>2. Len(Tail(q)) \in Nat
  BY <1>1, LenProperties
<1>3. \A i \in Kinds(Tail(q), K) : i + 1 \in Kinds(q, K) /\ i \in Int
  BY <1>1, <1>2 DEF Kinds
<1>4. AtMostOne(Tail(q), K)
  BY <1>3 DEF AtMostOne
<1>5. ASSUME Head(q).kind \in K PROVE None(Tail(q), K)
  <2>1. 1 \in Kinds(q, K)
    BY <1>1, <1>5 DEF Kinds
  <2>2. \A i \in 1..Len(Tail(q)) : i \notin Kinds(Tail(q), K)
    <3>1. TAKE i \in 1..Len(Tail(q))
    <3>2. i \in Nat /\ i + 1 # 1
      BY <1>2
    <3>. QED
      BY <1>3, <2>1, <3>2 DEF AtMostOne
  <2>3. \A m \in ToSet(Tail(q)) : \E i \in 1..Len(Tail(q)) : m = Tail(q)[i]
    BY <1>1, SetOf
  <2>. QED
    BY <2>2, <2>3 DEF None, Kinds
<1>. QED
  BY <1>4, <1>5

LEMMA SingleJoin ==
    ASSUME NEW S, NEW p \in Seq(S), NEW q \in Seq(S), NEW K
    PROVE  AtMostOne(p \o q, K) <=>
              /\ AtMostOne(p, K) /\ AtMostOne(q, K)
              /\ None(p, K) \/ None(q, K)
<1>1. PICK s : s = p \o q
  OBVIOUS
<1>2. /\ Len(p) \in Nat /\ Len(q) \in Nat /\ Len(s) = Len(p) + Len(q)
      /\ \A i \in 1..Len(p) + Len(q) :
            /\ s[i] = IF i <= Len(p) THEN p[i] ELSE q[i - Len(p)]
            /\ i <= Len(p) => i \in 1..Len(p)
            /\ i > Len(p) => i - Len(p) \in 1..Len(q)
  BY <1>1, Joined
<1>3. \A i \in Kinds(s, K) :
         /\ i \in Int
         /\ i \in Kinds(p, K) \/ i - Len(p) \in Kinds(q, K)
  BY <1>2 DEF Kinds
<1>4. \A i \in Kinds(p, K) : i \in Int /\ i <= Len(p) /\ i \in Kinds(s, K)
  BY <1>2 DEF Kinds
<1>5. \A i \in Kinds(q, K) : i \in Int /\ i >= 1 /\ i + Len(p) \in Kinds(s, K)
  <2>1. TAKE i \in Kinds(q, K)
  <2>2. i \in 1..Len(q) /\ q[i].kind \in K
    BY DEF Kinds
  <2>3. PICK n : n = i + Len(p)
    OBVIOUS
  <2>4. n \in 1..Len(p) + Len(q) /\ ~(n <= Len(p)) /\ n - Len(p) = i
    BY <1>2, <2>2, <2>3
  <2>5. s[n] = q[i]
    BY <1>2, <2>4
  <2>. QED
    BY <1>2, <2>2, <2>3, <2>4, <2>5 DEF Kinds
<1>6. ASSUME NEW r \in Seq(S) PROVE None(r, K) <=> Kinds(r, K) = {}
  <2>1. /\ \A i \in 1..Len(r) : r[i] \in ToSet(r)
        /\ \A x \in ToSet(r) : \E i \in 1..Len(r) : x = r[i]
    BY SetOf
  <2>. QED
    BY <2>1 DEF None, Kinds
<1>7. ASSUME AtMostOne(p, K), AtMostOne(q, K), None(p, K) \/ None(q, K)
      PROVE  AtMostOne(s, K)
  <2>1. SUFFICES ASSUME NEW i \in Kinds(s, K), NEW j \in Kinds(s, K)
                 PROVE  i = j
    BY DEF AtMostOne
  <2>2. CASE Kinds(p, K) = {}
    <3>1. i - Len(p) = j - Len(p)
      BY <1>3, <1>7, <2>2 DEF AtMostOne
    <3>. QED
      BY <1>2, <1>3, <3>1
  <2>3. CASE Kinds(q, K) = {}
    BY <1>3, <1>7, <2>3 DEF AtMostOne
  <2>. QED
    BY <1>6, <1>7, <2>2, <2>3
<1>8. ASSUME AtMostOne(s, K)
      PROVE  AtMostOne(p, K) /\ AtMostOne(q, K) /\ (None(p, K) \/ None(q, K))
  <2>1. AtMostOne(p, K)
    BY <1>4, <1>8 DEF AtMostOne
  <2>2. AtMostOne(q, K)
    <3>1. SUFFICES ASSUME NEW i \in Kinds(q, K), NEW j \in Kinds(q, K)
                   PROVE  i = j
      BY DEF AtMostOne
    <3>2. i + Len(p) = j + Len(p)
      BY <1>5, <1>8 DEF AtMostOne
    <3>. QED
      BY <1>2, <1>5, <3>2
  <2>3. ~(Kinds(p, K) # {} /\ Kinds(q, K) # {})
    <3>1. ASSUME NEW i \in Kinds(p, K), NEW j \in Kinds(q, K) PROVE FALSE
      <4>1. i = j + Len(p)
        BY <1>4, <1>5, <1>8 DEF AtMostOne
      <4>. QED
        BY <1>2, <1>4, <1>5, <4>1
    <3>. QED
      BY <3>1
  <2>. QED
    BY <1>6, <2>1, <2>2, <2>3
<1>. QED
  BY <1>1, <1>7, <1>8

(* Without one of its elements. *)
LEMMA Without ==
    ASSUME NEW S, NEW q \in Seq(S), NEW i \in 1..Len(q)
    PROVE  /\ RemoveAt(q, i) \in Seq(S)
           /\ ToSet(q) = ToSet(RemoveAt(q, i)) \cup {q[i]}
           /\ \A K : AtMostOne(q, K) =>
                 /\ AtMostOne(RemoveAt(q, i), K)
                 /\ q[i].kind \in K => None(RemoveAt(q, i), K)
<1>1. q[i] \in S
  BY SetOf
<1> DEFINE front == Ahead(q, i)
           back == Behind(q, i)
           x == One(q[i])
           fx == front \o x
<1>2. /\ front \in Seq(S) /\ back \in Seq(S)
      /\ q = fx \o back
      /\ RemoveAt(q, i) = front \o back
  BY Split
<1>6. x \in Seq(S) /\ ToSet(x) = {q[i]}
  BY <1>1, OneIn
<1> HIDE DEF front, back, x
<1>7. fx \in Seq(S) /\ ToSet(fx) = ToSet(front) \cup {q[i]}
  BY <1>2, <1>6, JoinedSet
<1> HIDE DEF fx
<1>8. ToSet(q) = ToSet(front) \cup {q[i]} \cup ToSet(back)
  BY <1>2, <1>7, JoinedSet
<1>9. /\ front \o back \in Seq(S)
      /\ ToSet(front \o back) = ToSet(front) \cup ToSet(back)
  BY <1>2, JoinedSet
<1>10. ASSUME NEW K, AtMostOne(q, K)
       PROVE  /\ AtMostOne(front \o back, K)
              /\ q[i].kind \in K => None(front \o back, K)
  <2>1. AtMostOne(fx, K) /\ AtMostOne(back, K) /\ (None(fx, K) \/ None(back, K))
    BY <1>2, <1>7, <1>10, SingleJoin
  <2>2. AtMostOne(front, K) /\ (None(front, K) \/ None(x, K))
    BY <1>2, <1>6, <2>1, SingleJoin DEF fx
  <2>3. AtMostOne(front \o back, K)
    <3>1. None(fx, K) => None(front, K)
      BY <1>7 DEF None
    <3>. QED
      BY <1>2, <2>1, <2>2, <3>1, SingleJoin
  <2>4. q[i].kind \in K => None(front, K) /\ None(back, K)
    BY <1>6, <1>7, <2>1, <2>2 DEF None
  <2>. QED
    BY <1>9, <2>3, <2>4 DEF None
<1>. QED
  BY <1>2, <1>8, <1>9, <1>10

-----------------------------------------------------------------------------
(* Lists of children.                                                      *)
LEMMA AppendOne ==
    ASSUME NEW S, NEW q \in Seq(S), NEW x \in S
    PROVE  Append(q, x) = q \o One(x)
BY AppendIsConcat DEF One

LEMMA AppendSet ==
    ASSUME NEW S, NEW q \in Seq(S), NEW x \in S
    PROVE  Append(q, x) \in Seq(S) /\ ToSet(Append(q, x)) = ToSet(q) \cup {x}
<1>1. PICK o : o = One(x)
  OBVIOUS
<1>2. o \in Seq(S) /\ ToSet(o) = {x}
  BY <1>1, OneIn
<1>3. q \o o \in Seq(S) /\ ToSet(q \o o) = ToSet(q) \cup ToSet(o)
  BY <1>2, JoinedSet
<1>4. Append(q, x) = q \o o
  BY <1>1, AppendOne
<1>. QED
  BY <1>2, <1>3, <1>4

LEMMA PairsFew ==
    ASSUME NEW S, NEW x \in S, NEW R
    PROVE  AllPairs(<<>>, R) /\ AllPairs(One(x), R)
<1>1. Len(<<>>) = 0 /\ Len(One(x)) = 1
  BY Few, OneIn
<1>. QED
  BY <1>1 DEF AllPairs

LEMMA PairsJoin ==
    ASSUME NEW S, NEW p \in Seq(S), NEW q \in Seq(S), NEW R
    PROVE  AllPairs(p \o q, R) <=>
              /\ AllPairs(p, R) /\ AllPairs(q, R)
              /\ \A x \in ToSet(p), y \in ToSet(q) : y \in R[x]
<1>1. PICK s : s = p \o q
  OBVIOUS
<1>2. /\ Len(p) \in Nat /\ Len(q) \in Nat /\ Len(s) = Len(p) + Len(q)
      /\ \A i \in 1..Len(p) + Len(q) :
            /\ s[i] = IF i <= Len(p) THEN p[i] ELSE q[i - Len(p)]
            /\ i <= Len(p) => i \in 1..Len(p)
            /\ i > Len(p) => i - Len(p) \in 1..Len(q)
  BY <1>1, Joined
<1>3. /\ \A i \in 1..Len(p) : p[i] \in ToSet(p)
      /\ \A x \in ToSet(p) : \E i \in 1..Len(p) : x = p[i]
      /\ \A i \in 1..Len(q) : q[i] \in ToSet(q)
      /\ \A x \in ToSet(q) : \E i \in 1..Len(q) : x = q[i]
  BY SetOf
<1>4. \A i \in 1..Len(p) : i \in 1..Len(s) /\ i <= Len(p) /\ s[i] = p[i]
  BY <1>2
<1>5. ASSUME NEW i \in 1..Len(q)
      PROVE  /\ i + Len(p) \in 1..Len(s) /\ ~(i + Len(p) <= Len(p))
             /\ s[i + Len(p)] = q[i]
  <2>1. PICK n : n = i + Len(p)
    OBVIOUS
  <2>2. n \in 1..Len(p) + Len(q) /\ ~(n <= Len(p)) /\ n - Len(p) = i
    BY <1>2, <2>1
  <2>3. s[n] = q[i]
    BY <1>2, <2>2
  <2>. QED
    BY <1>2, <2>1, <2>2, <2>3
<1>6. ASSUME AllPairs(p, R), AllPairs(q, R),
             \A x \in ToSet(p), y \in ToSet(q) : y \in R[x]
      PROVE  AllPairs(s, R)
  <2>1. SUFFICES ASSUME NEW i \in 1..Len(s), NEW j \in 1..Len(s), i < j
                 PROVE  s[j] \in R[s[i]]
    BY DEF AllPairs
  <2>2. CASE j <= Len(p)
    <3>1. i \in 1..Len(p) /\ j \in 1..Len(p) /\ s[i] = p[i] /\ s[j] = p[j]
      BY <1>2, <2>1, <2>2
    <3>. QED
      BY <1>6, <2>1, <3>1 DEF AllPairs
  <2>3. CASE i > Len(p)
    <3>1. /\ i - Len(p) \in 1..Len(q) /\ j - Len(p) \in 1..Len(q)
          /\ s[i] = q[i - Len(p)] /\ s[j] = q[j - Len(p)]
          /\ i - Len(p) < j - Len(p)
      BY <1>2, <2>1, <2>3
    <3>. QED
      BY <1>6, <3>1 DEF AllPairs
  <2>4. CASE i <= Len(p) /\ j > Len(p)
    <3>1. /\ i \in 1..Len(p) /\ j - Len(p) \in 1..Len(q)
          /\ s[i] = p[i] /\ s[j] = q[j - Len(p)]
      BY <1>2, <2>1, <2>4
    <3>. QED
      BY <1>3, <1>6, <3>1
  <2>5. j <= Len(p) \/ i > Len(p) \/ (i <= Len(p) /\ j > Len(p))
    BY <1>2, <2>1
  <2>. QED
    BY <2>2, <2>3, <2>4, <2>5
<1>7. ASSUME AllPairs(s, R) PROVE AllPairs(p, R)
  BY <1>4, <1>7 DEF AllPairs
<1>8. ASSUME AllPairs(s, R) PROVE AllPairs(q, R)
  <2>1. SUFFICES ASSUME NEW i \in 1..Len(q), NEW j \in 1..Len(q), i < j
                 PROVE  q[j] \in R[q[i]]
    BY DEF AllPairs
  <2>2. i + Len(p) < j + Len(p)
    BY <1>2, <2>1
  <2>. QED
    BY <1>5, <1>8, <2>2 DEF AllPairs
<1>9. ASSUME AllPairs(s, R), NEW x \in ToSet(p), NEW y \in ToSet(q)
      PROVE  y \in R[x]
  <2>1. PICK i \in 1..Len(p) : x = p[i]
    BY <1>3
  <2>2. PICK j \in 1..Len(q) : y = q[j]
    BY <1>3
  <2>3. i < j + Len(p)
    BY <1>2
  <2>. QED
    BY <1>4, <1>5, <1>9, <2>1, <2>2, <2>3 DEF AllPairs
<1>. QED
  BY <1>1, <1>6, <1>7, <1>8, <1>9

(* A list with another element in one place. *)
LEMMA Replaced ==
    ASSUME NEW S, NEW q \in Seq(S), NEW i \in 1..Len(q), NEW x \in S
    PROVE  /\ With(q, i, x) \in Seq(S)
           /\ \A c : c \in ToSet(With(q, i, x)) <=>
                 c \in ToSet(Ahead(q, i)) \/ c = x \/ c \in ToSet(Behind(q, i))
<1> DEFINE front == Ahead(q, i)
           back == Behind(q, i)
<1>1. /\ front \in Seq(S) /\ back \in Seq(S)
      /\ With(q, i, x) = front \o One(x) \o back
  BY Split
<1> HIDE DEF front, back
<1>2. One(x) \in Seq(S) /\ ToSet(One(x)) = {x}
  BY OneIn
<1>3. PICK fx : fx = front \o One(x)
  OBVIOUS
<1>4. fx \in Seq(S) /\ ToSet(fx) = ToSet(front) \cup ToSet(One(x))
  BY <1>1, <1>2, <1>3, JoinedSet
<1>5. fx \o back \in Seq(S) /\ ToSet(fx \o back) = ToSet(fx) \cup ToSet(back)
  BY <1>1, <1>4, JoinedSet
<1>. QED
  BY <1>1, <1>2, <1>3, <1>4, <1>5 DEF front, back

LEMMA About ==
    ASSUME NEW S, NEW q \in Seq(S), NEW i \in 1..Len(q)
    PROVE  /\ q[i] \in S
           /\ \A c : c \in ToSet(q) <=>
                 c \in ToSet(Ahead(q, i)) \/ c = q[i] \/ c \in ToSet(Behind(q, i))
           /\ \A c : c \in ToSet(RemoveAt(q, i)) <=>
                 c \in ToSet(Ahead(q, i)) \/ c \in ToSet(Behind(q, i))
           /\ \A c : c \in ToSet(From(q, i)) <=>
                 c = q[i] \/ c \in ToSet(Behind(q, i))
<1> DEFINE front == Ahead(q, i)
           back == Behind(q, i)
<1>0. PICK x : x = q[i]
  OBVIOUS
<1>1. x \in S
  BY <1>0, SetOf
<1>2. /\ front \in Seq(S) /\ back \in Seq(S)
      /\ q = front \o One(x) \o back
      /\ RemoveAt(q, i) = front \o back
      /\ From(q, i) = One(x) \o back
  BY <1>0, Split
<1> HIDE DEF front, back
<1>3. One(x) \in Seq(S) /\ ToSet(One(x)) = {x}
  BY <1>1, OneIn
<1>4. PICK fx : fx = front \o One(x)
  OBVIOUS
<1>5. fx \in Seq(S) /\ ToSet(fx) = ToSet(front) \cup ToSet(One(x))
  BY <1>2, <1>3, <1>4, JoinedSet
<1>6. ToSet(q) = ToSet(fx) \cup ToSet(back)
  <2>1. q = fx \o back
    BY <1>2, <1>4
  <2>2. ToSet(fx \o back) = ToSet(fx) \cup ToSet(back)
    BY <1>2, <1>5, JoinedSet
  <2>. QED
    BY <2>1, <2>2
<1>7. ToSet(RemoveAt(q, i)) = ToSet(front) \cup ToSet(back)
  BY <1>2, JoinedSet
<1>8. ToSet(From(q, i)) = ToSet(One(x)) \cup ToSet(back)
  BY <1>2, <1>3, JoinedSet
<1>. QED
  <2>1. \A c : c \in ToSet(q) <=> c \in ToSet(front) \/ c = x \/ c \in ToSet(back)
    BY <1>3, <1>5, <1>6
  <2>2. \A c : c \in ToSet(RemoveAt(q, i)) <=>
           c \in ToSet(front) \/ c \in ToSet(back)
    BY <1>7
  <2>3. \A c : c \in ToSet(From(q, i)) <=> c = x \/ c \in ToSet(back)
    BY <1>3, <1>8
  <2>. QED
    BY <1>0, <1>1, <2>1, <2>2, <2>3 DEF front, back

LEMMA ReplacedAt ==
    ASSUME NEW S, NEW q \in Seq(S), NEW i \in 1..Len(q), NEW x \in S
    PROVE  /\ With(q, i, x) \in Seq(S) /\ Len(With(q, i, x)) = Len(q)
           /\ \A k \in 1..Len(q) : With(q, i, x)[k] = IF k = i THEN x ELSE q[k]
BY ExceptSeq DEF With

LEMMA PairsReplaced ==
    ASSUME NEW S, NEW q \in Seq(S), NEW i \in 1..Len(q), NEW x \in S, NEW R,
           AllPairs(q, R)
    PROVE  /\ AllPairs(Ahead(q, i), R) /\ AllPairs(Behind(q, i), R)
           /\ \A c \in ToSet(Ahead(q, i)) :
                 /\ q[i] \in R[c]
                 /\ \A d \in ToSet(Behind(q, i)) : d \in R[c]
           /\ \A d \in ToSet(Behind(q, i)) : d \in R[q[i]]
           /\ AllPairs(RemoveAt(q, i), R)
           /\ (/\ \A c \in ToSet(Ahead(q, i)) : x \in R[c]
               /\ \A d \in ToSet(Behind(q, i)) : d \in R[x])
                 => AllPairs(With(q, i, x), R)
<1> DEFINE front == Ahead(q, i)
           back == Behind(q, i)
<1>2. q[i] \in S
  BY SetOf
<1>3. /\ front \in Seq(S) /\ back \in Seq(S)
      /\ q = front \o One(q[i]) \o back
      /\ With(q, i, x) = front \o One(x) \o back
      /\ RemoveAt(q, i) = front \o back
  BY Split
<1> HIDE DEF front, back
<1>4. ASSUME NEW y \in S
      PROVE  AllPairs(front \o One(y) \o back, R) <=>
                /\ AllPairs(front, R) /\ AllPairs(back, R)
                /\ \A c \in ToSet(front) :
                      y \in R[c] /\ \A d \in ToSet(back) : d \in R[c]
                /\ \A d \in ToSet(back) : d \in R[y]
  <2>1. One(y) \in Seq(S) /\ ToSet(One(y)) = {y} /\ AllPairs(One(y), R)
    BY OneIn, PairsFew
  <2>2. /\ front \o One(y) \in Seq(S)
        /\ ToSet(front \o One(y)) = ToSet(front) \cup {y}
    BY <1>3, <2>1, JoinedSet
  <2>3. AllPairs(front \o One(y), R) <=>
           AllPairs(front, R) /\ \A c \in ToSet(front) : y \in R[c]
    <3>1. AllPairs(front \o One(y), R) <=>
             /\ AllPairs(front, R) /\ AllPairs(One(y), R)
             /\ \A c \in ToSet(front), d \in ToSet(One(y)) : d \in R[c]
      BY <1>3, <2>1, PairsJoin
    <3>. QED
      BY <2>1, <3>1
  <2>4. AllPairs(front \o One(y) \o back, R) <=>
           /\ AllPairs(front \o One(y), R) /\ AllPairs(back, R)
           /\ \A c \in ToSet(front \o One(y)), d \in ToSet(back) : d \in R[c]
    BY <1>3, <2>2, PairsJoin
  <2>. QED
    BY <2>2, <2>3, <2>4
<1>5. AllPairs(front \o back, R) <=>
         /\ AllPairs(front, R) /\ AllPairs(back, R)
         /\ \A c \in ToSet(front), d \in ToSet(back) : d \in R[c]
  BY <1>3, PairsJoin
<1>. QED
  BY <1>2, <1>3, <1>4, <1>5 DEF front, back

(* Another element in a part of a list. *)
LEMMA PairsPatched ==
    ASSUME NEW S, NEW a \in Seq(S), NEW q \in Seq(S), NEW b \in Seq(S),
           NEW i \in 1..Len(q), NEW x \in S, NEW R, AllPairs(a \o q \o b, R),
           \A c \in ToSet(a) \cup ToSet(q) : q[i] \in R[c] => x \in R[c],
           \A d \in ToSet(q) \cup ToSet(b) : d \in R[q[i]] => d \in R[x]
    PROVE  AllPairs(a \o With(q, i, x) \o b, R)
<1>1. /\ With(q, i, x) \in Seq(S)
      /\ \A c \in ToSet(Ahead(q, i)) \cup ToSet(Behind(q, i)) : c \in ToSet(q)
      /\ \A c \in ToSet(With(q, i, x)) : c \in ToSet(q) \/ c = x
      /\ q[i] \in ToSet(q)
  BY About, Replaced
<1>2. PICK w : w = With(q, i, x)
  OBVIOUS
<1>3. ASSUME NEW r \in Seq(S)
      PROVE  AllPairs(a \o r \o b, R) <=>
                /\ AllPairs(a, R) /\ AllPairs(r, R) /\ AllPairs(b, R)
                /\ \A c \in ToSet(a) :
                      /\ \A d \in ToSet(r) : d \in R[c]
                      /\ \A d \in ToSet(b) : d \in R[c]
                /\ \A c \in ToSet(r), d \in ToSet(b) : d \in R[c]
  <2>1. PICK ar : ar = a \o r
    OBVIOUS
  <2>2. /\ ar \in Seq(S) /\ ToSet(ar) = ToSet(a) \cup ToSet(r)
        /\ AllPairs(ar, R) <=>
              /\ AllPairs(a, R) /\ AllPairs(r, R)
              /\ \A c \in ToSet(a), d \in ToSet(r) : d \in R[c]
    BY <2>1, JoinedSet, PairsJoin
  <2>3. AllPairs(ar \o b, R) <=>
           /\ AllPairs(ar, R) /\ AllPairs(b, R)
           /\ \A c \in ToSet(ar), d \in ToSet(b) : d \in R[c]
    BY <2>2, PairsJoin
  <2>. QED
    BY <2>1, <2>2, <2>3
<1>4. /\ AllPairs(a, R) /\ AllPairs(q, R) /\ AllPairs(b, R)
      /\ \A c \in ToSet(a) :
            /\ \A d \in ToSet(q) : d \in R[c]
            /\ \A d \in ToSet(b) : d \in R[c]
      /\ \A c \in ToSet(q), d \in ToSet(b) : d \in R[c]
  BY <1>3
<1>5. w \in Seq(S) /\ AllPairs(w, R)
  BY <1>1, <1>2, <1>4, PairsReplaced
<1>6. /\ \A c \in ToSet(a), d \in ToSet(w) : d \in R[c]
      /\ \A c \in ToSet(w), d \in ToSet(b) : d \in R[c]
  BY <1>1, <1>2, <1>4
<1>7. AllPairs(a \o w \o b, R)
  BY <1>3, <1>4, <1>5, <1>6
<1>. QED
  BY <1>2, <1>7

(* Less of a part of a list. *)
LEMMA PairsDropped ==
    ASSUME NEW S, NEW a \in Seq(S), NEW q \in Seq(S), NEW b \in Seq(S),
           NEW r \in Seq(S), NEW R, AllPairs(a \o q \o b, R),
           ToSet(r) \subseteq ToSet(q), AllPairs(q, R) => AllPairs(r, R)
    PROVE  AllPairs(a \o r \o b, R)
<1>3. ASSUME NEW t \in Seq(S)
      PROVE  AllPairs(a \o t \o b, R) <=>
                /\ AllPairs(a, R) /\ AllPairs(t, R) /\ AllPairs(b, R)
                /\ \A c \in ToSet(a) :
                      /\ \A d \in ToSet(t) : d \in R[c]
                      /\ \A d \in ToSet(b) : d \in R[c]
                /\ \A c \in ToSet(t), d \in ToSet(b) : d \in R[c]
  <2>1. PICK at : at = a \o t
    OBVIOUS
  <2>2. /\ at \in Seq(S) /\ ToSet(at) = ToSet(a) \cup ToSet(t)
        /\ AllPairs(at, R) <=>
              /\ AllPairs(a, R) /\ AllPairs(t, R)
              /\ \A c \in ToSet(a), d \in ToSet(t) : d \in R[c]
    BY <2>1, JoinedSet, PairsJoin
  <2>3. AllPairs(at \o b, R) <=>
           /\ AllPairs(at, R) /\ AllPairs(b, R)
           /\ \A c \in ToSet(at), d \in ToSet(b) : d \in R[c]
    BY <2>2, PairsJoin
  <2>. QED
    BY <2>1, <2>2, <2>3
<1>. QED
  BY <1>3

(* The recursive function of Remaining is defined. *)
LEMMA KeptDefined ==
    ASSUME NEW list \in Seq(Child), NEW n \in Nat, n <= Len(list)
    PROVE  \E f \in [0..n -> Seq(Child)] : \A i \in 0..n :
              f[i] = IF i = 0 THEN <<>>
                     ELSE IF Permanently(list[i]) THEN Append(f[i - 1], list[i])
                     ELSE f[i - 1]
<1> DEFINE Keeps(f, m) ==
               \A i \in 0..m :
                  f[i] = IF i = 0 THEN <<>>
                         ELSE IF Permanently(list[i]) THEN Append(f[i - 1], list[i])
                         ELSE f[i - 1]
           Bad == {m \in 0..Len(list) : ~\E f \in [0..m -> Seq(Child)] : Keeps(f, m)}
<1>0. Len(list) \in Nat /\ \A i \in 1..Len(list) : list[i] \in Child
  BY SetOf
<1>1. Bad = {}
  <2>1. SUFFICES ASSUME Bad # {} PROVE FALSE
    OBVIOUS
  <2>2. PICK m \in Bad : \A y \in Bad : m <= y
    <3>1. Bad \in SUBSET Nat
      BY <1>0
    <3> HIDE DEF Bad
    <3>. QED
      BY <2>1, <3>1, Least
  <2>3. m \in Nat /\ m <= Len(list)
    BY <1>0, <2>2
  <2>4. CASE m = 0
    <3>1. PICK f : f = [i \in 0..0 |-> <<>>]
      OBVIOUS
    <3>2. f \in [0..0 -> Seq(Child)] /\ \A i \in 0..0 : f[i] = <<>> /\ i = 0
      BY <3>1, EmptySeq
    <3>3. Keeps(f, 0)
      BY <3>2
    <3>. QED
      BY <2>2, <2>4, <3>2, <3>3
  <2>5. CASE m # 0
    <3>1. m - 1 \in 0..Len(list) /\ m \in 1..Len(list) /\ ~(m <= m - 1)
      BY <1>0, <2>3, <2>5
    <3>2. PICK f \in [0..m - 1 -> Seq(Child)] : Keeps(f, m - 1)
      BY <2>2, <3>1
    <3>3. list[m] \in Child /\ f[m - 1] \in Seq(Child)
      BY <1>0, <2>3, <3>1
    <3>4. Append(f[m - 1], list[m]) \in Seq(Child)
      BY <3>3, AppendProperties
    <3>5. PICK last \in Seq(Child) :
             last = IF Permanently(list[m]) THEN Append(f[m - 1], list[m])
                    ELSE f[m - 1]
      BY <3>3, <3>4
    <3>6. PICK g : g = [i \in 0..m |-> IF i = m THEN last ELSE f[i]]
      OBVIOUS
    <3>7. \A i \in 0..m - 1 : i \in 0..m /\ i # m /\ f[i] \in Seq(Child)
      BY <2>3
    <3>8. \A i \in 0..m : i = m \/ i \in 0..m - 1
      BY <2>3
    <3>9. g \in [0..m -> Seq(Child)] /\ g[m] = last /\ \A i \in 0..m - 1 : g[i] = f[i]
      BY <2>3, <3>5, <3>6, <3>7, <3>8
    <3>10. \A i \in 0..m - 1 : i # 0 => i - 1 \in 0..m - 1
      BY <2>3
    <3>11. Keeps(g, m)
      <4>1. SUFFICES ASSUME NEW i \in 0..m
                     PROVE  g[i] = IF i = 0 THEN <<>>
                                   ELSE IF Permanently(list[i])
                                   THEN Append(g[i - 1], list[i])
                                   ELSE g[i - 1]
        OBVIOUS
      <4>2. CASE i = m
        <5>1. g[m - 1] = f[m - 1] /\ m # 0
          BY <2>3, <2>5, <3>9
        <5>. QED
          BY <3>5, <3>9, <4>2, <5>1
      <4>3. CASE i \in 0..m - 1
        <5>1. /\ g[i] = f[i] /\ (i # 0 => g[i - 1] = f[i - 1])
              /\ f[i] = IF i = 0 THEN <<>>
                        ELSE IF Permanently(list[i]) THEN Append(f[i - 1], list[i])
                        ELSE f[i - 1]
          BY <3>2, <3>9, <3>10, <4>3
        <5>. QED
          BY <5>1
      <4>. QED
        BY <3>8, <4>2, <4>3
    <3>. QED
      BY <2>2, <3>9, <3>11
  <2>. QED
    BY <2>4, <2>5
<1>2. n \in 0..Len(list)
  BY <1>0
<1>. QED
  BY <1>1, <1>2

(* What restarts is what was in the list and is permanent, in its order. *)
LEMMA RemainingIs ==
    ASSUME NEW list \in Seq(Child)
    PROVE  /\ Remaining(list) \in Seq(Child)
           /\ ToSet(Remaining(list)) = {c \in ToSet(list) : Permanently(c)}
           /\ \A R : AllPairs(list, R) => AllPairs(Remaining(list), R)
<1>0. /\ Len(list) \in Nat /\ 0 \in 0..Len(list) /\ Len(list) \in 0..Len(list)
      /\ \A i \in 1..Len(list) : list[i] \in Child
  BY SetOf
<1> DEFINE Rec(f) == [i \in 0..Len(list) |->
                        IF i = 0 THEN <<>>
                        ELSE IF Permanently(list[i]) THEN Append(f[i - 1], list[i])
                        ELSE f[i - 1]]
           kept == CHOOSE f : f = Rec(f)
<1>1. \E f : f = Rec(f) /\ f \in [0..Len(list) -> Seq(Child)]
  <2>1. PICK f \in [0..Len(list) -> Seq(Child)] : \A i \in 0..Len(list) :
              f[i] = IF i = 0 THEN <<>>
                     ELSE IF Permanently(list[i]) THEN Append(f[i - 1], list[i])
                     ELSE f[i - 1]
    BY <1>0, KeptDefined
  <2>2. f = Rec(f)
    BY <2>1
  <2>. QED
    BY <2>2
<1>2. kept = Rec(kept)
  BY <1>1
<1>3. Remaining(list) = kept[Len(list)]
  BY DEF Remaining
<1> HIDE DEF kept
<1>4. /\ kept[0] = <<>>
      /\ \A i \in 1..Len(list) :
            /\ i - 1 \in 0..Len(list)
            /\ kept[i] = IF Permanently(list[i]) THEN Append(kept[i - 1], list[i])
                         ELSE kept[i - 1]
  <2>1. kept[0] = <<>>
    BY <1>0, <1>2
  <2>2. ASSUME NEW i \in 1..Len(list)
        PROVE  /\ i - 1 \in 0..Len(list)
               /\ kept[i] = IF Permanently(list[i]) THEN Append(kept[i - 1], list[i])
                            ELSE kept[i - 1]
    <3>1. i \in 0..Len(list) /\ i # 0 /\ i - 1 \in 0..Len(list)
      BY <1>0
    <3>. QED
      BY <1>2, <3>1
  <2>. QED
    BY <2>1, <2>2
<1> DEFINE Upto(i) == {c \in Child : Permanently(c) /\ \E j \in 1..i : c = list[j]}
           Fits(i) == /\ kept[i] \in Seq(Child)
                      /\ ToSet(kept[i]) = Upto(i)
                      /\ \A R : AllPairs(list, R) => AllPairs(kept[i], R)
           Bad == {i \in 0..Len(list) : ~Fits(i)}
<1>5. Bad = {}
  <2>1. SUFFICES ASSUME Bad # {} PROVE FALSE
    OBVIOUS
  <2>2. PICK m \in Bad : \A y \in Bad : m <= y
    <3>1. Bad \in SUBSET Nat
      BY <1>0
    <3> HIDE DEF Bad
    <3>. QED
      BY <2>1, <3>1, Least
  <2>3. m \in 0..Len(list) /\ ~Fits(m)
    BY <2>2
  <2>4. m # 0
    <3>1. kept[0] \in Seq(Child) /\ ToSet(kept[0]) = {} /\ \A R : AllPairs(kept[0], R)
      <4>1. <<>> \in Seq(Child) /\ Len(<<>>) = 0 /\ DOMAIN <<>> = {}
        BY EmptySeq
      <4>. QED
        BY <1>4, <4>1 DEF AllPairs, ToSet
    <3>2. Upto(0) = {}
      OBVIOUS
    <3>3. Fits(0)
      BY <3>1, <3>2
    <3>. QED
      BY <2>3, <3>3
  <2>5. m \in 1..Len(list) /\ m - 1 \in 0..Len(list) /\ ~(m <= m - 1)
    BY <1>0, <2>3, <2>4
  <2>6. Fits(m - 1)
    BY <2>2, <2>5
  <2>7. PICK before \in Seq(Child) : before = kept[m - 1]
    BY <2>6
  <2>8. PICK c \in Child : c = list[m]
    BY <1>0, <2>5
  <2>9. \A j \in 1..m : j = m \/ j \in 1..m - 1
    BY <1>0, <2>5
  <2>10. 1..m - 1 \subseteq 1..m /\ m \in 1..m
    BY <1>0, <2>5
  <2>11. CASE ~Permanently(c)
    <3>1. kept[m] = before
      BY <1>4, <2>5, <2>7, <2>8, <2>11
    <3>2. Upto(m) = Upto(m - 1)
      BY <2>8, <2>9, <2>10, <2>11
    <3>3. Fits(m)
      BY <2>6, <2>7, <3>1, <3>2
    <3>. QED
      BY <2>3, <3>3
  <2>12. CASE Permanently(c)
    <3>1. kept[m] = before \o One(c)
      BY <1>4, <2>5, <2>7, <2>8, <2>12, AppendOne
    <3>2. One(c) \in Seq(Child) /\ ToSet(One(c)) = {c} /\ \A R : AllPairs(One(c), R)
      BY OneIn, PairsFew
    <3>3. kept[m] \in Seq(Child) /\ ToSet(kept[m]) = ToSet(before) \cup ToSet(One(c))
      BY <3>1, <3>2, JoinedSet
    <3>4. Upto(m) = Upto(m - 1) \cup {c}
      BY <2>8, <2>9, <2>10, <2>12
    <3>5. ASSUME NEW R, AllPairs(list, R) PROVE AllPairs(kept[m], R)
      <4>1. AllPairs(before, R) /\ AllPairs(One(c), R)
        BY <2>6, <2>7, <3>2, <3>5
      <4>2. ASSUME NEW x \in ToSet(before), NEW y \in ToSet(One(c)) PROVE y \in R[x]
        <5>1. PICK j \in 1..m - 1 : x = list[j]
          BY <2>6, <2>7
        <5>2. j \in 1..Len(list) /\ j < m
          BY <1>0, <2>5
        <5>3. y = list[m]
          BY <2>8, <3>2
        <5>. QED
          BY <2>5, <3>5, <5>1, <5>2, <5>3 DEF AllPairs
      <4>. QED
        <5>1. PICK o : o = One(c)
          OBVIOUS
        <5>2. o \in Seq(Child) /\ AllPairs(o, R)
              /\ \A x \in ToSet(before), y \in ToSet(o) : y \in R[x]
          BY <3>2, <4>1, <4>2, <5>1
        <5>3. AllPairs(before \o o, R)
          BY <4>1, <5>2, PairsJoin
        <5>. QED
          BY <3>1, <5>1, <5>3
    <3>6. Fits(m)
      BY <2>6, <2>7, <3>2, <3>3, <3>4, <3>5
    <3>. QED
      BY <2>3, <3>6
  <2>. QED
    BY <2>11, <2>12
<1>6. Fits(Len(list))
  BY <1>0, <1>5
<1>7. Upto(Len(list)) = {c \in ToSet(list) : Permanently(c)}
  BY <1>0, SetOf
<1>. QED
  BY <1>3, <1>6, <1>7

LEMMA PidsAre ==
    ASSUME NEW list \in Seq(Child)
    PROVE  /\ \A p : p \in Pids(list) <=> \E c \in ToSet(list) : c.pid = p
           /\ \A c \in ToSet(list) : c \in Child /\ c.pid \in Pids(list)
           /\ Pids(list) \subseteq Pid \cup {0}
           /\ \A i \in 1..Len(list) :
                 /\ list[i] \in Child /\ list[i].spec \in ChildSpec
                 /\ list[i].pid \in Pids(list)
<1>1. /\ DOMAIN list = 1..Len(list)
      /\ \A i \in 1..Len(list) : list[i] \in Child /\ list[i] \in ToSet(list)
      /\ \A c \in ToSet(list) : c \in Child /\ \E i \in 1..Len(list) : c = list[i]
  BY SetOf
<1>2. \A c \in Child : c.pid \in Pid \cup {0} /\ c.spec \in ChildSpec
  BY DEF Child
<1>3. \A i \in 1..Len(list) : list[i].pid \in Pids(list)
  BY <1>1 DEF Pids
<1>4. \A p \in Pids(list) : \E i \in 1..Len(list) : p = list[i].pid
  BY <1>1 DEF Pids
<1>. QED
  BY <1>1, <1>2, <1>3, <1>4

LEMMA PidsJoin ==
    ASSUME NEW a \in Seq(Child), NEW b \in Seq(Child)
    PROVE  Pids(a \o b) = Pids(a) \cup Pids(b)
<1>1. PICK s : s = a \o b
  OBVIOUS
<1>2. s \in Seq(Child) /\ ToSet(s) = ToSet(a) \cup ToSet(b)
  BY <1>1, JoinedSet
<1>. QED
  BY <1>1, <1>2, PidsAre

LEMMA PidsFew ==
    /\ <<>> \in Seq(Child) /\ Pids(<<>>) = {}
    /\ \A c \in Child : One(c) \in Seq(Child) /\ Pids(One(c)) = {c.pid}
<1>1. <<>> \in Seq(Child) /\ Pids(<<>>) = {}
  BY EmptySeq DEF Pids
<1>2. ASSUME NEW c \in Child
      PROVE  One(c) \in Seq(Child) /\ Pids(One(c)) = {c.pid}
  <2>1. One(c) \in Seq(Child) /\ ToSet(One(c)) = {c}
    BY OneIn
  <2>. QED
    BY <2>1, PidsAre
<1>. QED
  BY <1>1, <1>2

(* The pids about a child, which differ from its own. *)
LEMMA PidsAbout ==
    ASSUME NEW q \in Seq(Child), NEW i \in 1..Len(q)
    PROVE  /\ Ahead(q, i) \in Seq(Child) /\ Behind(q, i) \in Seq(Child)
           /\ From(q, i) \in Seq(Child) /\ RemoveAt(q, i) \in Seq(Child)
           /\ Pids(q) = Pids(Ahead(q, i)) \cup {q[i].pid} \cup Pids(Behind(q, i))
           /\ Pids(RemoveAt(q, i)) = Pids(Ahead(q, i)) \cup Pids(Behind(q, i))
           /\ Pids(From(q, i)) = {q[i].pid} \cup Pids(Behind(q, i))
           /\ \A x \in Child :
                 /\ With(q, i, x) \in Seq(Child)
                 /\ Pids(With(q, i, x))
                      = Pids(Ahead(q, i)) \cup {x.pid} \cup Pids(Behind(q, i))
           /\ AllPairs(q, Apart) /\ q[i].pid # 0
                 => q[i].pid \notin Pids(Ahead(q, i)) \cup Pids(Behind(q, i))
<1> DEFINE front == Ahead(q, i)
           back == Behind(q, i)
<1>0. PICK y : y = q[i]
  OBVIOUS
<1>1. y \in Child
  BY <1>0, SetOf
<1>2. /\ front \in Seq(Child) /\ back \in Seq(Child)
      /\ q = front \o One(y) \o back
      /\ RemoveAt(q, i) = front \o back
      /\ From(q, i) = One(y) \o back
      /\ \A x \in Child : With(q, i, x) = front \o One(x) \o back
  BY <1>0, Split
<1>3. AllPairs(q, Apart) =>
         /\ \A c \in ToSet(front) : y \in Apart[c]
         /\ \A d \in ToSet(back) : d \in Apart[y]
  BY <1>0, <1>1, PairsReplaced
<1> HIDE DEF front, back
<1>4. ASSUME NEW x \in Child
      PROVE  /\ front \o One(x) \o back \in Seq(Child)
             /\ Pids(front \o One(x) \o back) = Pids(front) \cup {x.pid} \cup Pids(back)
             /\ One(x) \o back \in Seq(Child)
             /\ Pids(One(x) \o back) = {x.pid} \cup Pids(back)
  <2>1. One(x) \in Seq(Child) /\ Pids(One(x)) = {x.pid}
    BY PidsFew
  <2>2. PICK fx : fx = front \o One(x)
    OBVIOUS
  <2>3. fx \in Seq(Child) /\ Pids(fx) = Pids(front) \cup Pids(One(x))
    BY <1>2, <2>1, <2>2, JoinedSet, PidsJoin
  <2>4. fx \o back \in Seq(Child) /\ Pids(fx \o back) = Pids(fx) \cup Pids(back)
    BY <1>2, <2>3, JoinedSet, PidsJoin
  <2>5. /\ One(x) \o back \in Seq(Child)
        /\ Pids(One(x) \o back) = Pids(One(x)) \cup Pids(back)
    BY <1>2, <2>1, JoinedSet, PidsJoin
  <2>. QED
    BY <2>1, <2>2, <2>3, <2>4, <2>5
<1>5. /\ front \o back \in Seq(Child)
      /\ Pids(front \o back) = Pids(front) \cup Pids(back)
  BY <1>2, JoinedSet, PidsJoin
<1>6. ASSUME AllPairs(q, Apart), y.pid # 0
      PROVE  y.pid \notin Pids(front) \cup Pids(back)
  <2>1. \A c \in ToSet(front) : c \in Child /\ c.pid # y.pid
    BY <1>1, <1>2, <1>3, <1>6, PidsAre DEF Apart
  <2>2. \A d \in ToSet(back) : d \in Child /\ d.pid # y.pid
    BY <1>1, <1>2, <1>3, <1>6, PidsAre DEF Apart
  <2>. QED
    BY <1>2, <2>1, <2>2, PidsAre
<1>. QED
  <2>1. /\ front \o One(y) \o back \in Seq(Child)
        /\ Pids(front \o One(y) \o back) = Pids(front) \cup {y.pid} \cup Pids(back)
        /\ One(y) \o back \in Seq(Child)
        /\ Pids(One(y) \o back) = {y.pid} \cup Pids(back)
    BY <1>1, <1>4
  <2>2. /\ Pids(q) = Pids(front) \cup {y.pid} \cup Pids(back)
        /\ From(q, i) \in Seq(Child) /\ Pids(From(q, i)) = {y.pid} \cup Pids(back)
    BY <1>2, <2>1
  <2>3. RemoveAt(q, i) \in Seq(Child) /\ Pids(RemoveAt(q, i)) = Pids(front) \cup Pids(back)
    BY <1>2, <1>5
  <2>4. ASSUME NEW x \in Child
        PROVE  /\ With(q, i, x) \in Seq(Child)
               /\ Pids(With(q, i, x)) = Pids(front) \cup {x.pid} \cup Pids(back)
    BY <1>2, <1>4
  <2>. QED
    BY <1>0, <1>2, <1>6, <2>2, <2>3, <2>4 DEF front, back

(* A child without its process. *)
Zero(c) == [c EXCEPT !.pid = 0]

LEMMA Zeroed ==
    ASSUME NEW c \in Child
    PROVE  /\ Zero(c) \in Child /\ Zero(c).pid = 0 /\ Zero(c).spec = c.spec
           /\ \A d \in Child : d.pid = 0 => \A e \in Child : d \in Apart[e] /\ e \in Apart[d]
BY DEF Child, Zero, Apart

-----------------------------------------------------------------------------
(* The children that the code looks for.                                   *)
LEMMA Chosen ==
    ASSUME NEW n \in Nat, NEW T, T \subseteq 1..n, T # {}
    PROVE  Min(T) \in T /\ Min(T) \in 1..n /\ Min(T) # 0
<1>1. T \in SUBSET Nat
  OBVIOUS
<1>2. Min(T) \in T
  BY <1>1, Least
<1>3. \A m \in 1..n : m # 0
  OBVIOUS
<1>. QED
  BY <1>2, <1>3

LEMMA Configured ==
    ASSUME config \in Config
    PROVE  /\ config.specs \in Seq(ChildSpec) /\ config.extra \subseteq ChildSpec
           /\ config.strategy \in Strategy /\ Sound(config)
           /\ Len(config.specs) \in Nat
           /\ \A i \in 1..Len(config.specs) :
                 config.specs[i] \in ChildSpec /\ config.specs[i] \in ToSet(config.specs)
<1>1. config \in [strategy : Strategy, specs : Seq(ChildSpec), extra : SUBSET ChildSpec]
  BY SupervisorAssumption
<1>2. Sound(config)
  BY SupervisorAssumption
<1>3. /\ config.specs \in Seq(ChildSpec) /\ config.extra \subseteq ChildSpec
      /\ config.strategy \in Strategy
  BY <1>1
<1>. QED
  BY <1>2, <1>3, SetOf

LEMMA DeclaredIs ==
    ASSUME config \in Config, NEW id
    PROVE  \/ /\ Declared(id) = 0
              /\ \A i \in 1..Len(config.specs) : config.specs[i].id # id
           \/ /\ Declared(id) \in 1..Len(config.specs)
              /\ config.specs[Declared(id)].id = id
<1> DEFINE T == {i \in 1..Len(config.specs) : config.specs[i].id = id}
<1>1. Len(config.specs) \in Nat
  BY Configured
<1>2. Declared(id) = IF T # {} THEN Min(T) ELSE 0
  BY DEF Declared, SelectInSeq
<1>3. T # {} => Min(T) \in T
  <2>1. T \subseteq 1..Len(config.specs)
    OBVIOUS
  <2> HIDE DEF T
  <2>. QED
    BY <1>1, <2>1, Chosen
<1>. QED
  BY <1>2, <1>3

Place(id) == SelectInSeq(children, LAMBDA c : c.spec.id = id)

LEMMA PlaceIs ==
    ASSUME children \in Seq(Child), NEW id
    PROVE  \/ /\ Place(id) = 0
              /\ \A i \in 1..Len(children) : children[i].spec.id # id
           \/ /\ Place(id) \in 1..Len(children) /\ Place(id) # 0
              /\ children[Place(id)].spec.id = id
<1> DEFINE T == {i \in 1..Len(children) : children[i].spec.id = id}
<1>1. Len(children) \in Nat
  BY SetOf
<1>2. Place(id) = IF T # {} THEN Min(T) ELSE 0
  BY DEF Place, SelectInSeq
<1>3. T # {} => Min(T) \in T
  <2>1. T \subseteq 1..Len(children)
    OBVIOUS
  <2> HIDE DEF T
  <2>. QED
    BY <1>1, <2>1, Chosen
<1>. QED
  BY <1>1, <1>2, <1>3

LEMMA DeadIs ==
    ASSUME children \in Seq(Child)
    PROVE  \/ /\ Dead = 0
              /\ Head(inbox).pid \notin Pids(children)
           \/ /\ Dead \in 1..Len(children) /\ Dead # 0
              /\ children[Dead].pid = Head(inbox).pid
<1> DEFINE T == {i \in 1..Len(children) : children[i].pid = Head(inbox).pid}
<1>1. Len(children) \in Nat /\ DOMAIN children = 1..Len(children)
  BY SetOf
<1>2. Dead = IF T # {} THEN Min(T) ELSE 0
  BY DEF Dead, SelectInSeq
<1>3. T # {} => Min(T) \in T
  <2>1. T \subseteq 1..Len(children)
    OBVIOUS
  <2> HIDE DEF T
  <2>. QED
    BY <1>1, <2>1, Chosen
<1>4. T = {} => Head(inbox).pid \notin Pids(children)
  BY <1>1 DEF Pids
<1>. QED
  BY <1>1, <1>2, <1>3, <1>4

LEMMA RunningIs ==
    ASSUME job.group \in Seq(Child)
    PROVE  \/ /\ Running = 0
              /\ \A i \in 1..Len(job.group) : job.group[i].pid = 0
              /\ Pids(job.group) \subseteq {0}
           \/ /\ Running \in 1..Len(job.group) /\ Running # 0
              /\ job.group[Running].pid # 0
<1> DEFINE T == {i \in 1..Len(job.group) : job.group[i].pid # 0}
<1>1. Len(job.group) \in Nat /\ DOMAIN job.group = 1..Len(job.group)
  BY SetOf
<1>2. Running = IF T # {} THEN Min(T) ELSE 0
  BY DEF Running, SelectInSeq
<1>3. T # {} => Min(T) \in T
  <2>1. T \subseteq 1..Len(job.group)
    OBVIOUS
  <2> HIDE DEF T
  <2>. QED
    BY <1>1, <2>1, Chosen
<1>4. T = {} => Pids(job.group) \subseteq {0}
  BY <1>1 DEF Pids
<1>. QED
  BY <1>1, <1>2, <1>3, <1>4

-----------------------------------------------------------------------------
(* What is sent.                                                           *)
Post == Signal \cup Message

LEMMA Shapes ==
    ASSUME NEW m \in Post
    PROVE  /\ m.kind \in {"go", "monitor", "exit", "down", "flush", "ack",
                          "EXIT", "start_children", "start_child"}
           /\ m.kind \notin {"start_children", "start_child"} => m.pid \in Pid
           /\ m \in Message <=>
                 m.kind \in {"EXIT", "start_children", "start_child"}
           /\ m.kind = "ack" => m.how \in {"ok", "error"}
           /\ m.kind = "EXIT" => m.why \in {"normal", "error", "killed"}
           /\ m.kind = "start_child" => m.spec \in ChildSpec
           /\ m.kind = "start_children" <=> m = StartChildren
<1>1. CASE m \in [kind : {"go", "monitor", "exit", "down", "flush"}, pid : Pid]
  BY <1>1 DEF Message, StartChildren
<1>2. CASE m \in [kind : {"ack"}, pid : Pid, how : {"ok", "error"}]
  BY <1>2 DEF Message, StartChildren
<1>3. CASE m \in [kind : {"EXIT"}, pid : Pid, why : {"normal", "error", "killed"}]
  BY <1>3 DEF Message, StartChildren
<1>4. CASE m = StartChildren
  BY <1>4 DEF Message, StartChildren
<1>5. CASE m \in [kind : {"start_child"}, spec : ChildSpec]
  BY <1>5 DEF Message, StartChildren
<1>. QED
  BY <1>1, <1>2, <1>3, <1>4, <1>5 DEF Post, Signal, Message

LEMMA Made ==
    /\ \A p \in Pid :
          /\ \A kind \in {"go", "monitor", "exit", "down", "flush"} :
                /\ Sig(kind, p) \in Post
                /\ Sig(kind, p).kind = kind /\ Sig(kind, p).pid = p
          /\ \A how \in {"ok", "error"} :
                /\ Ack(p, how) \in Post
                /\ Ack(p, how).kind = "ack" /\ Ack(p, how).pid = p
                /\ Ack(p, how).how = how
          /\ \A why \in {"normal", "error", "killed"} :
                /\ Exit(p, why) \in Post
                /\ Exit(p, why).kind = "EXIT" /\ Exit(p, why).pid = p
    /\ \A spec \in ChildSpec :
          /\ StartChildOf(spec) \in Post
          /\ StartChildOf(spec).kind = "start_child"
          /\ StartChildOf(spec).spec = spec
BY DEF Post, Signal, Message, Sig, Ack, Exit, StartChildOf

(* Of each class at most one is on its way. *)
Classes == {Starting, Ending, {"flush"}, {"start_children"}}

LEMMA SingleIs ==
    ASSUME NEW q
    PROVE  Single(q) <=> \A K \in Classes : AtMostOne(q, K)
BY DEF Single, Classes

LEMMA Sends ==
    ASSUME NEW q \in Seq(Post), Single(q), NEW add \in Seq(Post), Single(add),
           \A K \in Classes : None(q, K) \/ None(add, K)
    PROVE  /\ q \o add \in Seq(Post) /\ Single(q \o add)
           /\ ToSet(q \o add) = ToSet(q) \cup ToSet(add)
<1>1. \A K \in Classes : AtMostOne(q \o add, K)
  BY SingleIs, SingleJoin
<1>2. q \o add \in Seq(Post) /\ ToSet(q \o add) = ToSet(q) \cup ToSet(add)
  BY JoinedSet
<1>. QED
  BY <1>1, <1>2, SingleIs

LEMMA OneSingle ==
    ASSUME NEW m \in Post
    PROVE  /\ One(m) \in Seq(Post) /\ Single(One(m)) /\ ToSet(One(m)) = {m}
           /\ \A K : m.kind \notin K => None(One(m), K)
           /\ <<>> \in Seq(Post) /\ Single(<<>>) /\ ToSet(<<>>) = {}
           /\ \A K : None(<<>>, K)
<1>1. One(m) \in Seq(Post) /\ Len(One(m)) = 1 /\ ToSet(One(m)) = {m}
  BY OneIn
<1>2. <<>> \in Seq(Post) /\ Len(<<>>) = 0 /\ ToSet(<<>>) = {}
  BY Few
<1>3. \A K : AtMostOne(One(m), K) /\ AtMostOne(<<>>, K)
  BY <1>1, <1>2 DEF AtMostOne, Kinds
<1>. QED
  BY <1>1, <1>2, <1>3, SingleIs DEF None

LEMMA SendsOne ==
    ASSUME NEW q \in Seq(Post), Single(q), NEW m \in Post,
           \A K \in Classes : m.kind \in K => None(q, K)
    PROVE  /\ Append(q, m) \in Seq(Post) /\ Single(Append(q, m))
           /\ ToSet(Append(q, m)) = ToSet(q) \cup {m}
<1>1. Append(q, m) = q \o One(m)
  BY AppendOne
<1>2. /\ One(m) \in Seq(Post) /\ Single(One(m)) /\ ToSet(One(m)) = {m}
      /\ \A K : m.kind \notin K => None(One(m), K)
  BY OneSingle
<1>3. \A K \in Classes : None(q, K) \/ None(One(m), K)
  BY <1>2
<1>4. PICK o : o = One(m)
  OBVIOUS
<1>5. q \o o \in Seq(Post) /\ Single(q \o o) /\ ToSet(q \o o) = ToSet(q) \cup ToSet(o)
  BY <1>2, <1>3, <1>4, Sends
<1>. QED
  BY <1>1, <1>2, <1>4, <1>5

LEMMA TakesOne ==
    ASSUME NEW q \in Seq(Post), Single(q), q # <<>>
    PROVE  /\ Head(q) \in Post /\ Tail(q) \in Seq(Post) /\ Single(Tail(q))
           /\ ToSet(q) = {Head(q)} \cup ToSet(Tail(q))
           /\ \A K \in Classes : Head(q).kind \in K => None(Tail(q), K)
           /\ Head(q) = q[1]
<1>1. \A K \in Classes :
         /\ AtMostOne(Tail(q), K)
         /\ Head(q).kind \in K => None(Tail(q), K)
  BY SingleIs, SingleRest
<1>2. /\ Head(q) \in Post /\ Tail(q) \in Seq(Post) /\ Head(q) = q[1]
      /\ ToSet(q) = {Head(q)} \cup ToSet(Tail(q))
  BY Rested
<1>. QED
  BY <1>1, <1>2, SingleIs

LEMMA Inbox ==
    ASSUME NEW box \in Seq(Message), box # <<>>
    PROVE  /\ Head(box) \in Message /\ Head(box) \in ToSet(box)
           /\ Tail(box) \in Seq(Message)
           /\ ToSet(box) = {Head(box)} \cup ToSet(Tail(box))
BY Rested

LEMMA NoneLess ==
    ASSUME NEW q, NEW r, NEW K, ToSet(r) \subseteq ToSet(q), None(q, K)
    PROVE  None(r, K)
BY DEF None

(* The signals of a death. *)
LEMMA DeathSends ==
    ASSUME NEW p \in Pid, NEW why \in {"normal", "error", "killed"}
    PROVE  LET add == DeathOf(p, why)
           IN  /\ add \in Seq(Post) /\ Single(add)
               /\ \A K \in Classes : K # Ending => None(add, K)
               /\ p \notin watched => None(add, Ending)
               /\ \A m \in ToSet(add) :
                     \/ m = Exit(p, why)
                     \/ m = Sig("down", p) /\ p \in watched
               /\ pc # "dead" => Exit(p, why) \in ToSet(add)
<1> DEFINE down == Sig("down", p)
           exit == Exit(p, why)
           add == DeathOf(p, why)
<1>1. /\ down \in Post /\ down.kind = "down"
      /\ exit \in Post /\ exit.kind = "EXIT"
  BY Made
<1>2. add = IF pc = "dead" THEN <<>>
            ELSE IF p \in watched THEN <<down>> \o <<exit>>
            ELSE <<>> \o <<exit>>
  BY DEF DeathOf, ToSupervisor
<1> HIDE DEF down, exit, add
<1>3. /\ One(down) \in Seq(Post) /\ Single(One(down)) /\ ToSet(One(down)) = {down}
      /\ \A K : "down" \notin K => None(One(down), K)
      /\ One(exit) \in Seq(Post) /\ Single(One(exit)) /\ ToSet(One(exit)) = {exit}
      /\ \A K : "EXIT" \notin K => None(One(exit), K)
      /\ <<>> \in Seq(Post) /\ Single(<<>>) /\ ToSet(<<>>) = {}
      /\ \A K : None(<<>>, K)
  BY <1>1, OneSingle
<1>4. \A K \in Classes : "EXIT" \notin K /\ (K # Ending => "down" \notin K)
  BY DEF Classes, Starting, Ending
<1>5. PICK two : two = One(down) \o One(exit)
  OBVIOUS
<1>6. /\ two \in Seq(Post) /\ Single(two)
      /\ ToSet(two) = ToSet(One(down)) \cup ToSet(One(exit))
  BY <1>3, <1>4, <1>5, Sends
<1>7. <<>> \o One(exit) = One(exit)
  BY <1>3, ConcatEmptySeq
<1>8. add = IF pc = "dead" THEN <<>> ELSE IF p \in watched THEN two ELSE One(exit)
  BY <1>2, <1>5, <1>7 DEF One
<1>9. CASE pc = "dead"
  BY <1>3, <1>8, <1>9 DEF down, exit, add
<1>10. CASE pc # "dead" /\ p \in watched
  <2>1. ToSet(two) = {down, exit}
    BY <1>3, <1>6
  <2>2. \A K \in Classes : K # Ending => None(two, K)
    BY <1>1, <1>4, <2>1 DEF None
  <2>3. /\ add \in Seq(Post) /\ Single(add)
        /\ \A K \in Classes : K # Ending => None(add, K)
        /\ ToSet(add) = {down, exit}
    BY <1>6, <1>8, <1>10, <2>1, <2>2
  <2>4. exit \in ToSet(add) /\ \A m \in ToSet(add) : m = exit \/ m = down
    BY <2>3
  <2>. QED
    BY <1>10, <2>3, <2>4 DEF down, exit, add
<1>11. CASE pc # "dead" /\ p \notin watched
  <2>1. None(One(exit), Ending)
    BY <1>3 DEF Ending
  <2>. QED
    BY <1>3, <1>4, <1>8, <1>11, <2>1 DEF down, exit, add
<1>. QED
  BY <1>9, <1>10, <1>11

(* The exit signals of a supervisor that fails. *)
LEMMA FailsSends ==
    ASSUME Single(queue), queue \in Seq(Post), Fails
    PROVE  /\ queue' \in Seq(Post) /\ Single(queue')
           /\ ToSet(queue) \subseteq ToSet(queue')
           /\ \A m \in ToSet(queue') :
                 \/ m \in ToSet(queue)
                 \/ \E p \in Pid : Alive(p) /\ m = Sig("exit", p)
<1> DEFINE S == {Sig("exit", p) : p \in {q \in Pid : Alive(q)}}
<1>1. S \subseteq Post /\ \A m \in S : m.kind = "exit"
  BY Made
<1>2. IsFiniteSet(S)
  <2>1. IsFiniteSet({q \in Pid : Alive(q)})
    BY SupervisorAssumption, FS_Subset
  <2> DEFINE g == [p \in {q \in Pid : Alive(q)} |-> Sig("exit", p)]
  <2>2. g \in Surjection({q \in Pid : Alive(q)}, S)
    BY DEF Surjection
  <2>. QED
    BY <2>1, <2>2, FS_Surjection
<1>3. PICK exits \in SetToSeqs(S) : queue' = queue \o exits
  BY DEF Fails
<1>4. \A m \in S : \E p \in Pid : Alive(p) /\ m = Sig("exit", p)
  OBVIOUS
<1> HIDE DEF S
<1>5. exits \in Seq(S)
  <2>1. PICK n : n = Cardinality(S)
    OBVIOUS
  <2>2. n \in Nat
    BY <1>2, <2>1, FS_CardinalityType
  <2>3. exits \in [1..n -> S]
    BY <2>1 DEF SetToSeqs
  <2>. QED
    BY <2>2, <2>3, SeqDef
<1>6. ToSet(exits) \subseteq S /\ exits \in Seq(Post)
  BY <1>1, <1>5, SetOf, SeqMonotonic
<1>7. \A K \in Classes : "exit" \notin K
  BY DEF Classes, Starting, Ending
<1>8. \A K \in Classes : None(exits, K)
  BY <1>1, <1>6, <1>7 DEF None
<1>9. \A K \in Classes : AtMostOne(exits, K)
  BY <1>6, <1>8, SetOf DEF None, AtMostOne, Kinds
<1>10. /\ queue \o exits \in Seq(Post) /\ Single(queue \o exits)
       /\ ToSet(queue \o exits) = ToSet(queue) \cup ToSet(exits)
  BY <1>6, <1>8, <1>9, SingleIs, Sends
<1>. QED
  BY <1>3, <1>4, <1>6, <1>10

(* Nobody that lives is left out. *)
LEMMA FailsReaches ==
    ASSUME Single(queue), queue \in Seq(Post), Fails, NEW p \in Pid, Alive(p)
    PROVE  Sig("exit", p) \in ToSet(queue')
<1> DEFINE S == {Sig("exit", q) : q \in {x \in Pid : Alive(x)}}
<1>1. S \subseteq Post /\ Sig("exit", p) \in S
  BY Made
<1>2. IsFiniteSet(S)
  <2>1. IsFiniteSet({x \in Pid : Alive(x)})
    BY SupervisorAssumption, FS_Subset
  <2> DEFINE g == [q \in {x \in Pid : Alive(x)} |-> Sig("exit", q)]
  <2>2. g \in Surjection({x \in Pid : Alive(x)}, S)
    BY DEF Surjection
  <2>. QED
    BY <2>1, <2>2, FS_Surjection
<1>3. PICK exits \in SetToSeqs(S) : queue' = queue \o exits
  BY DEF Fails
<1> HIDE DEF S
<1>4. PICK n : n = Cardinality(S) /\ n \in Nat
  BY <1>2, FS_CardinalityType
<1>5. exits \in [1..n -> S] /\ \A i, j \in 1..n : i # j => exits[i] # exits[j]
  BY <1>4 DEF SetToSeqs
<1>6. exits \in Surjection(1..n, S)
  <2>1. IsFiniteSet(1..n) /\ Cardinality(1..n) = n
    BY <1>4, FS_Interval
  <2>2. exits \in Injection(1..n, S)
    BY <1>5 DEF Injection, IsInjective
  <2>. QED
    BY <1>2, <1>4, <2>1, <2>2, FS_Injection
<1>7. exits \in Seq(S) /\ Len(exits) = n
  BY <1>4, <1>5, SeqDef, LenProperties
<1>8. exits \in Seq(Post)
  BY <1>1, <1>7, SeqMonotonic
<1>9. PICK i \in 1..n : exits[i] = Sig("exit", p)
  BY <1>1, <1>6 DEF Surjection
<1>10. Sig("exit", p) \in ToSet(exits)
  BY <1>7, <1>9, SetOf
<1>11. ToSet(queue \o exits) = ToSet(queue) \cup ToSet(exits)
  BY <1>8, JoinedSet
<1>. QED
  BY <1>3, <1>10, <1>11

(* The flush timer is removed. *)
LEMMA Unflushed ==
    ASSUME NEW q \in Seq(Post), Single(q)
    PROVE  LET r == RemoveFirstMatch(q, IsFlush)
           IN  /\ r \in Seq(Post) /\ Single(r)
               /\ ToSet(r) \subseteq ToSet(q)
               /\ \A m \in ToSet(q) : m.kind # "flush" => m \in ToSet(r)
               /\ None(r, {"flush"})
<1> DEFINE r == RemoveFirstMatch(q, IsFlush)
           T == {i \in 1..Len(q) : IsFlush(q[i])}
<1>1. /\ Len(q) \in Nat /\ \A i \in 1..Len(q) : q[i] \in ToSet(q)
      /\ \A m \in ToSet(q) : \E i \in 1..Len(q) : m = q[i]
  BY SetOf
<1>2. r = IF T # {} THEN RemoveAt(q, Min(T)) ELSE q
  BY DEF RemoveFirstMatch, SelectInSeq
<1>3. T \subseteq 1..Len(q) /\ \A i \in T : q[i].kind = "flush"
  BY DEF IsFlush
<1>4. T = {} => None(q, {"flush"})
  BY <1>1 DEF None, IsFlush
<1> HIDE DEF T, r
<1>5. CASE T = {}
  BY <1>2, <1>4, <1>5 DEF r
<1>6. CASE T # {}
  <2>1. PICK i \in 1..Len(q) : i \in T /\ r = RemoveAt(q, i)
    BY <1>1, <1>2, <1>3, <1>6, Chosen
  <2>2. q[i].kind \in {"flush"} /\ {"flush"} \in Classes
    BY <1>3, <2>1 DEF Classes
  <2>3. /\ r \in Seq(Post) /\ ToSet(q) = ToSet(r) \cup {q[i]}
        /\ \A K \in Classes : AtMostOne(r, K)
        /\ None(r, {"flush"})
    BY <2>1, <2>2, Without, SingleIs
  <2>. QED
    BY <2>2, <2>3, SingleIs DEF r
<1>. QED
  BY <1>5, <1>6

(* The EXIT of a process is taken from the inbox, or is not there. *)
LEMMA Flushed ==
    ASSUME inbox \in Seq(Message), NEW p
    PROVE  /\ Flush(p) \in Seq(Message)
           /\ ToSet(Flush(p)) \subseteq ToSet(inbox)
           /\ \A m \in ToSet(inbox) :
                 ~(m.kind = "EXIT" /\ m.pid = p) => m \in ToSet(Flush(p))
           /\ Flush(p) # inbox => \E m \in ToSet(inbox) : m.kind = "EXIT" /\ m.pid = p
<1> DEFINE T == {i \in 1..Len(inbox) : inbox[i].kind = "EXIT" /\ inbox[i].pid = p}
<1>1. /\ Len(inbox) \in Nat /\ \A i \in 1..Len(inbox) : inbox[i] \in ToSet(inbox)
  BY SetOf
<1>2. Flush(p) = IF T # {} THEN RemoveAt(inbox, Min(T)) ELSE inbox
  BY DEF Flush, RemoveFirstMatch, SelectInSeq
<1>3. /\ T \subseteq 1..Len(inbox)
      /\ \A i \in T : inbox[i].kind = "EXIT" /\ inbox[i].pid = p
  OBVIOUS
<1> HIDE DEF T
<1>4. CASE T = {}
  BY <1>2, <1>4
<1>5. CASE T # {}
  <2>1. PICK i \in 1..Len(inbox) : i \in T /\ Flush(p) = RemoveAt(inbox, i)
    BY <1>1, <1>2, <1>3, <1>5, Chosen
  <2>2. /\ Flush(p) \in Seq(Message)
        /\ ToSet(inbox) = ToSet(Flush(p)) \cup {inbox[i]}
    BY <2>1, Without
  <2>. QED
    BY <1>1, <1>3, <2>1, <2>2
<1>. QED
  BY <1>4, <1>5

-----------------------------------------------------------------------------
(* The supervisor between two timers: what is on its way stays.            *)

(* No process starts or ends while the supervisor runs. *)
LEMMA Idle ==
    ASSUME Base, Runs
    PROVE  /\ queue \in Seq(Post) /\ \A K \in Classes : None(queue, K)
           /\ \A p \in Pid : life[p] \in {"up", "dead"}
           /\ watched = {} /\ StartChildren \notin ToSet(queue)
<1>1. pc \in {"take", "terminate", "start", "fail"}
  BY DEF Runs
<1>2. queue \in Seq(Post)
  BY DEF Base, TypeOK, Post
<1>3. \A p \in Pid : life[p] \in {"up", "dead"}
  BY <1>1 DEF Base, StartingFit, TypeOK
<1>4. watched = {}
  BY <1>1 DEF Base, EndingFit
<1>5. StartChildren \notin ToSet(queue)
  BY <1>1 DEF Base, BootFit
<1>6. None(queue, Starting)
  BY <1>1 DEF Base, StartingFit, Sent, None
<1>7. None(queue, Ending) /\ None(queue, {"flush"})
  BY <1>1 DEF Base, EndingFit, Sent, None
<1>8. None(queue, {"start_children"})
  <2>1. \A m \in ToSet(queue) : m \in Post
    BY <1>2, SetOf
  <2>. QED
    BY <1>5, <2>1, Shapes DEF None
<1>. QED
  BY <1>2, <1>3, <1>4, <1>5, <1>6, <1>7, <1>8 DEF Classes

LEMMA QuietFits ==
    ASSUME Base, Runs, UNCHANGED <<queue, life, watched>>,
           ToSet(inbox') \subseteq ToSet(inbox), pc' # "flush",
           StartChildren \notin ToSet(inbox')
    PROVE  Single(queue') /\ StartingFit' /\ EndingFit' /\ BootFit'
<1>1. /\ \A K \in Classes : None(queue, K)
      /\ \A p \in Pid : life[p] \in {"up", "dead"}
      /\ watched = {} /\ StartChildren \notin ToSet(queue)
  BY Idle
<1>2. None(queue, Starting) /\ None(queue, Ending) /\ None(queue, {"flush"})
  BY <1>1 DEF Classes
<1>3. Sent(Starting) = {} /\ Sent(Ending) = {} /\ Sent({"flush"}) = {}
  BY <1>2 DEF None, Sent
<1>4. Sent(Starting)' = {} /\ Sent(Ending)' = {} /\ Sent({"flush"})' = {}
  BY <1>3 DEF Sent
<1>5. StartingFit'
  BY <1>1, <1>4 DEF StartingFit
<1>6. \A p \in Pid : ExitOf(p)' # {} => ~Alive(p)'
  <2>1. \A p \in Pid : ExitOf(p)' \subseteq ExitOf(p)
    BY DEF ExitOf
  <2>2. \A p \in Pid : ExitOf(p) # {} => ~Alive(p)
    BY DEF Base, EndingFit
  <2>3. \A p \in Pid : ~Alive(p) => ~Alive(p)'
    BY DEF Alive
  <2>. QED
    BY <2>1, <2>2, <2>3
<1>7. \A m \in Sent({"exit"})' : life'[m.pid] \in {"up", "dead"}
  BY DEF Base, EndingFit, Sent
<1>8. EndingFit'
  BY <1>1, <1>4, <1>6, <1>7 DEF EndingFit
<1>9. BootFit'
  BY <1>1 DEF BootFit
<1>10. Single(queue')
  BY DEF Base
<1>. QED
  BY <1>5, <1>8, <1>9, <1>10

(* A message is taken, or the supervisor works on the one it has taken. *)
LEMMA Taken ==
    ASSUME Base, pc = "take", inbox # <<>>
    PROVE  /\ Runs /\ Tail(inbox) \in Seq(Message)
           /\ Head(inbox) \in Message /\ Head(inbox) \in ToSet(inbox)
           /\ ToSet(Tail(inbox)) \subseteq ToSet(inbox)
           /\ ToSet(inbox) = {Head(inbox)} \cup ToSet(Tail(inbox))
           /\ StartChildren \notin ToSet(Tail(inbox))
           /\ job = NoJob
           /\ Head(inbox).kind = "EXIT" =>
                 /\ Head(inbox).pid \in Pid /\ ~Alive(Head(inbox).pid)
                 /\ Head(inbox).why \in {"normal", "error", "killed"}
           /\ Head(inbox).kind = "start_child" => Head(inbox).spec \in ChildSpec
<1>1. inbox \in Seq(Message)
  BY DEF Base, TypeOK
<1>2. /\ Tail(inbox) \in Seq(Message)
      /\ Head(inbox) \in Message /\ Head(inbox) \in ToSet(inbox)
      /\ ToSet(inbox) = {Head(inbox)} \cup ToSet(Tail(inbox))
  BY <1>1, Inbox
<1>3. StartChildren \notin ToSet(Tail(inbox))
  <2>1. CASE StartChildren \in ToSet(inbox)
    <3>1. inbox = <<StartChildren>>
      BY <2>1 DEF Base, BootFit
    <3>2. Tail(inbox) = <<>>
      BY <3>1
    <3>. QED
      BY <3>2, Few
  <2>2. CASE StartChildren \notin ToSet(inbox)
    BY <1>2, <2>2
  <2>. QED
    BY <2>1, <2>2
<1>4. Head(inbox) \in Post
  BY <1>2 DEF Post
<1>5. ASSUME Head(inbox).kind = "EXIT"
      PROVE  Head(inbox).pid \in Pid /\ ~Alive(Head(inbox).pid)
  <2>1. Head(inbox).pid \in Pid
    BY <1>4, <1>5, Shapes
  <2>2. Head(inbox) \in ExitOf(Head(inbox).pid)
    BY <1>2, <1>5 DEF ExitOf
  <2>. QED
    BY <2>1, <2>2 DEF Base, EndingFit
<1>6. job = NoJob /\ Runs
  BY DEF Base, JobFit, Between, Runs
<1>. QED
  BY <1>2, <1>3, <1>4, <1>5, <1>6, Shapes

LEMMA NotTaken ==
    ASSUME Base, Runs, pc # "take" \/ inbox = <<>>
    PROVE  StartChildren \notin ToSet(inbox)
<1>1. CASE inbox = <<>>
  BY <1>1, Few
<1>2. CASE pc # "take"
  BY <1>2 DEF Base, BootFit
<1>. QED
  BY <1>1, <1>2

LEMMA JobMade ==
    /\ NoJob \in Job
    /\ \A kind \in {"start", "restart", "add"}, a, b, c \in Seq(Child) :
          LET next == JobOf(kind, a, b, c)
          IN  /\ next \in Job /\ next.kind = kind /\ next.at = 1
              /\ next.tries = 0 /\ next.pid = 0
              /\ next.before = a /\ next.group = b /\ next.after = c
<1>1. MaxRetries \in Nat \ {0}
  BY SupervisorAssumption
<1>2. <<>> \in Seq(Child) /\ 0 \in 0..MaxRetries - 1
  BY <1>1, EmptySeq
<1>3. NoJob \in Job
  BY <1>2 DEF NoJob, Job
<1>4. NoJob.at = 1 /\ NoJob.tries = 0 /\ NoJob.pid = 0
  BY DEF NoJob
<1>5. PICK n \in Job : n = NoJob
  BY <1>3
<1>6. ASSUME NEW kind \in {"start", "restart", "add"},
             NEW a \in Seq(Child), NEW b \in Seq(Child), NEW c \in Seq(Child)
      PROVE  LET next == JobOf(kind, a, b, c)
             IN  /\ next \in Job /\ next.kind = kind /\ next.at = 1
                 /\ next.tries = 0 /\ next.pid = 0
                 /\ next.before = a /\ next.group = b /\ next.after = c
  <2>1. JobOf(kind, a, b, c) = [n EXCEPT !.kind = kind, !.before = a, !.group = b,
                                         !.after = c]
    BY <1>5 DEF JobOf
  <2> HIDE DEF JobOf
  <2>2. n.at = 1 /\ n.tries = 0 /\ n.pid = 0
    BY <1>4, <1>5
  <2>3. PICK m : m = [n EXCEPT !.kind = kind, !.before = a, !.group = b, !.after = c]
    OBVIOUS
  <2>4. m \in Job
    BY <2>3 DEF Job
  <2>5. /\ m.kind = kind /\ m.at = 1 /\ m.tries = 0 /\ m.pid = 0
        /\ m.before = a /\ m.group = b /\ m.after = c
    BY <2>2, <2>3 DEF Job
  <2>. QED
    BY <2>1, <2>3, <2>4, <2>5
<1>. QED
  BY <1>3, <1>6

LEMMA JobParts ==
    ASSUME job \in Job
    PROVE  /\ job.before \in Seq(Child) /\ job.group \in Seq(Child)
           /\ job.after \in Seq(Child) /\ job.at \in Nat
           /\ job.tries \in 0..MaxRetries - 1 /\ job.pid \in Pid \cup {0}
           /\ job.kind \in {"none", "start", "restart", "add"}
           /\ Len(job.group) \in Nat
BY SetOf DEF Job

(* The job of one message. *)
LEMMA BeginStep ==
    ASSUME Base, pc = "take", inbox # <<>>, NEW next \in Job, NEW where,
           where \in {"take", "terminate", "start"}, Begin(next, where)
    PROVE  TypeOK' /\ Single(queue') /\ StartingFit' /\ EndingFit' /\ BootFit'
<1>1. /\ Runs /\ Tail(inbox) \in Seq(Message)
      /\ ToSet(Tail(inbox)) \subseteq ToSet(inbox)
      /\ StartChildren \notin ToSet(Tail(inbox))
  BY Taken
<1>2. /\ inbox' = Tail(inbox) /\ job' = next /\ pc' = where
      /\ UNCHANGED <<config, queue, life, born, watched, children, replaced>>
  BY DEF Begin, processes
<1>3. TypeOK'
  BY <1>1, <1>2 DEF Base, TypeOK, Alive
<1>. QED
  BY <1>1, <1>2, <1>3, QuietFits

LEMMA BeginFits ==
    ASSUME Base, pc = "take", inbox # <<>>,
           NEW kind \in {"start", "restart", "add"},
           NEW a \in Seq(Child), NEW b \in Seq(Child), NEW c \in Seq(Child),
           NEW where \in {"terminate", "start"},
           Begin(JobOf(kind, a, b, c), where),
           where = "terminate" =>
              kind = "restart" /\ config.strategy # "one_for_one",
           where = "start" => Pids(b) \subseteq {0},
           kind = "add" \/ (config.strategy = "one_for_one" /\ kind = "restart")
              => Len(b) <= 1,
           config.strategy = "one_for_one" /\ kind = "restart" =>
              \A i \in 1..Len(b) : \E j \in 1..Len(config.specs) :
                  config.specs[j].id = b[i].spec.id,
           Pids(a) \cup Pids(c) \subseteq Pids(children) \cup {0},
           AllPairs(a \o b \o c, Apart)
    PROVE  Base'
<1>1. PICK next : next = JobOf(kind, a, b, c)
  OBVIOUS
<1>2. /\ next \in Job /\ next.kind = kind /\ next.at = 1
      /\ next.tries = 0 /\ next.pid = 0
      /\ next.before = a /\ next.group = b /\ next.after = c
  BY <1>1, JobMade
<1>3. TypeOK' /\ Single(queue') /\ StartingFit' /\ EndingFit' /\ BootFit'
  BY <1>1, <1>2, BeginStep
<1>4. job' = next /\ pc' = where /\ children' = children /\ config' = config
  BY <1>1 DEF Begin
<1>5. Len(b) \in Nat /\ \A i \in 1..Len(b) : b[i].pid \in Pids(b)
  BY SetOf, PidsAre
<1>6. JobFit'
  <2>1. AllPairs(children', Apart') /\ AllPairs(Work', Apart')
    <3>1. Apart' = Apart
      BY DEF Apart, Child
    <3>2. AllPairs(children, Apart)
      BY DEF Base, JobFit
    <3>. QED
      BY <1>2, <1>4, <3>1, <3>2 DEF Work
  <2>2. Pids(job'.before) \cup Pids(job'.after) \subseteq Pids(children') \cup {0}
    BY <1>2, <1>4
  <2>3. pc' = "start" => \A i \in job'.at..Len(job'.group) : job'.group[i].pid = 0
    BY <1>2, <1>4, <1>5
  <2>4. pc' = "start" => job'.at \in 1..Len(job'.group) + 1
    BY <1>2, <1>4, <1>5
  <2>5. /\ job'.kind = "add" \/ RestartsOne' => Len(job'.group) <= 1
        /\ RestartsOne' =>
              \A i \in 1..Len(job'.group) : \E j \in 1..Len(config'.specs) :
                  config'.specs[j].id = job'.group[i].spec.id
    BY <1>2, <1>4 DEF RestartsOne
  <2>6. /\ pc' \notin {"idle", "take", "down", "flush", "ack"}
        /\ pc' = "terminate" =>
              job'.kind = "restart" /\ config'.strategy # "one_for_one"
        /\ job'.at = 1 /\ job'.pid = 0 /\ job'.kind # "none"
    BY <1>2, <1>4
  <2>. QED
    BY <2>1, <2>2, <2>3, <2>4, <2>5, <2>6 DEF JobFit, Between
<1>. QED
  BY <1>3, <1>6 DEF Base

(* The children to start with. *)
Booting == IF Simple THEN <<>>
           ELSE [i \in DOMAIN config.specs |-> AsChild(config.specs[i])]

LEMMA BootingIs ==
    ASSUME config \in Config
    PROVE  /\ Booting \in Seq(Child) /\ <<>> \in Seq(Child)
           /\ \A i \in 1..Len(Booting) : Booting[i].pid = 0
           /\ ~Simple =>
                 /\ Len(Booting) = Len(config.specs)
                 /\ \A i \in 1..Len(config.specs) :
                       Booting[i] \in Child /\ Booting[i].spec = config.specs[i]
           /\ Simple => Booting = <<>>
           /\ Pids(Booting) \subseteq {0} /\ Pids(<<>>) = {}
<1>1. /\ config.specs \in Seq(ChildSpec) /\ Len(config.specs) \in Nat
      /\ \A i \in 1..Len(config.specs) : config.specs[i] \in ChildSpec
      /\ DOMAIN config.specs = 1..Len(config.specs)
  BY Configured, SetOf
<1>2. CASE Simple
  BY <1>2, PidsFew DEF Booting
<1>3. CASE ~Simple
  <2>1. \A i \in 1..Len(config.specs) :
           /\ AsChild(config.specs[i]) \in Child /\ AsChild(config.specs[i]).pid = 0
           /\ AsChild(config.specs[i]).spec = config.specs[i]
    BY <1>1 DEF AsChild, Child
  <2>2. /\ Booting \in [1..Len(config.specs) -> Child]
        /\ \A i \in 1..Len(config.specs) : Booting[i] = AsChild(config.specs[i])
    BY <1>1, <1>3, <2>1 DEF Booting
  <2>3. Len(Booting) = Len(config.specs) /\ Booting \in Seq(Child)
    BY <1>1, <2>2, SeqDef, LenProperties
  <2>4. Pids(Booting) \subseteq {0}
    BY <2>1, <2>2, <2>3, SetOf DEF Pids
  <2>. QED
    BY <1>3, <2>1, <2>2, <2>3, <2>4, PidsFew
<1>. QED
  BY <1>2, <1>3

LEMMA StartAllStep == Base /\ StartAll => Base'
<1> SUFFICES ASSUME Base, StartAll PROVE Base'
  OBVIOUS
<1>1. /\ Booting \in Seq(Child) /\ \A i \in 1..Len(Booting) : Booting[i].pid = 0
      /\ Pids(Booting) \subseteq {0} /\ Pids(<<>>) = {} /\ <<>> \in Seq(Child)
  BY BootingIs DEF Base, TypeOK
<1>2. Begin(JobOf("start", <<>>, Booting, <<>>), "start")
  BY DEF StartAll, Booting
<1>3. pc = "take" /\ inbox # <<>>
  BY DEF StartAll, Takes
<1>4. AllPairs(<<>> \o Booting \o <<>>, Apart)
  <2>1. <<>> \o Booting \o <<>> = Booting
    BY <1>1, ConcatEmptySeq
  <2>2. \A i \in 1..Len(Booting) : Booting[i] \in Child
    BY <1>1, SetOf
  <2>3. AllPairs(Booting, Apart)
    BY <1>1, <2>2, Zeroed DEF AllPairs
  <2>. QED
    BY <2>1, <2>3
<1>. QED
  BY <1>1, <1>2, <1>3, <1>4, BeginFits

(* A place in the list, and a child there without a process. *)
LEMMA PlaceFits ==
    ASSUME Base, NEW i \in 1..Len(children), NEW x \in Child, x.pid = 0
    PROVE  /\ Ahead(children, i) \in Seq(Child)
           /\ Behind(children, i) \in Seq(Child)
           /\ One(x) \in Seq(Child) /\ Len(One(x)) = 1 /\ Pids(One(x)) = {0}
           /\ Pids(Ahead(children, i)) \cup Pids(Behind(children, i))
                 \subseteq Pids(children)
           /\ AllPairs(Ahead(children, i) \o One(x) \o Behind(children, i), Apart)
           /\ AllPairs(With(children, i, x), Apart)
<1>1. children \in Seq(Child) /\ AllPairs(children, Apart)
  BY DEF Base, TypeOK, JobFit
<1>2. /\ Ahead(children, i) \in Seq(Child) /\ Behind(children, i) \in Seq(Child)
      /\ Pids(Ahead(children, i)) \cup Pids(Behind(children, i)) \subseteq Pids(children)
  BY <1>1, PidsAbout
<1>3. One(x) \in Seq(Child) /\ Len(One(x)) = 1 /\ Pids(One(x)) = {0}
  BY OneIn, PidsFew
<1>4. \A e \in Child : x \in Apart[e] /\ e \in Apart[x]
  BY Zeroed
<1>5. /\ \A c \in ToSet(Ahead(children, i)) : x \in Apart[c]
      /\ \A d \in ToSet(Behind(children, i)) : d \in Apart[x]
  BY <1>2, <1>4, PidsAre
<1>6. AllPairs(With(children, i, x), Apart)
  BY <1>1, <1>5, PairsReplaced
<1>7. With(children, i, x) = Ahead(children, i) \o One(x) \o Behind(children, i)
  BY <1>1, SplitWith
<1>. QED
  BY <1>2, <1>3, <1>6, <1>7

(* ... or at one of the ends of the list. *)
LEMMA EndFits ==
    ASSUME Base, NEW x \in Child, x.pid = 0
    PROVE  /\ One(x) \in Seq(Child) /\ Len(One(x)) = 1 /\ Pids(One(x)) = {0}
           /\ children \o One(x) \o <<>> = children \o One(x)
           /\ <<>> \o One(x) \o children = One(x) \o children
           /\ AllPairs(children \o One(x) \o <<>>, Apart)
           /\ AllPairs(<<>> \o One(x) \o children, Apart)
<1>1. children \in Seq(Child) /\ AllPairs(children, Apart)
  BY DEF Base, TypeOK, JobFit
<1>2. PICK o : o = One(x)
  OBVIOUS
<1>3. /\ o \in Seq(Child) /\ Len(o) = 1 /\ Pids(o) = {0} /\ ToSet(o) = {x}
      /\ AllPairs(o, Apart)
  BY <1>2, OneIn, PidsFew, PairsFew
<1>4. \A e \in ToSet(children) : x \in Apart[e] /\ e \in Apart[x]
  BY <1>1, PidsAre, Zeroed
<1>5. AllPairs(children \o o, Apart) /\ AllPairs(o \o children, Apart)
  BY <1>1, <1>3, <1>4, PairsJoin
<1>6. children \o o \in Seq(Child) /\ o \o children \in Seq(Child)
  BY <1>1, <1>3, JoinedSet
<1>7. children \o o \o <<>> = children \o o /\ <<>> \o o \o children = o \o children
  BY <1>3, <1>6, ConcatEmptySeq
<1>. QED
  BY <1>2, <1>3, <1>5, <1>7

(* The child that is put into the list, and where. *)
Added == IF Simple THEN config.specs[1] ELSE Head(inbox).spec

LEMMA AddChildIs ==
    ASSUME Base, AddChild
    PROVE  /\ pc = "take" /\ inbox # <<>> /\ Head(inbox).kind = "start_child"
           /\ Added \in ChildSpec
           /\ \E x \in Child :
                 /\ x.pid = 0 /\ x.spec = Added
                 /\ \/ /\ Simple
                       /\ Begin(JobOf("add", <<>>, One(x), children), "start")
                    \/ /\ ~Simple
                       /\ \A i \in 1..Len(children) : children[i].spec.id # Added.id
                       /\ Begin(JobOf("add", children, One(x), <<>>), "start")
                    \/ /\ ~Simple
                       /\ \E i \in 1..Len(children) :
                             /\ children[i].spec.id = Added.id
                             /\ Begin(JobOf("add", Ahead(children, i), One(x),
                                            Behind(children, i)), "start")
<1>1. pc = "take" /\ inbox # <<>> /\ Head(inbox).kind = "start_child"
  BY DEF AddChild, Takes
<1>2. Added \in ChildSpec
  <2>1. Head(inbox).spec \in ChildSpec
    BY <1>1, Taken
  <2>2. ASSUME Simple PROVE config.specs[1] \in ChildSpec
    BY <2>2, Configured DEF Base, TypeOK, Simple, Sound
  <2>. QED
    BY <2>1, <2>2 DEF Added
<1>3. PICK x : x = AsChild(Added)
  OBVIOUS
<1>4. x \in Child /\ x.pid = 0 /\ x.spec = Added
  BY <1>2, <1>3 DEF AsChild, Child
<1>5. children \in Seq(Child)
  BY DEF Base, TypeOK
<1>6. CASE Simple
  <2>1. Begin(JobOf("add", <<>>, One(x), children), "start")
    BY <1>3, <1>6 DEF AddChild, One, Added
  <2>. QED
    BY <1>1, <1>2, <1>4, <1>6, <2>1
<1>7. CASE ~Simple /\ Place(Added.id) = 0
  <2>1. Begin(JobOf("add", children, One(x), <<>>), "start")
    BY <1>3, <1>7 DEF AddChild, One, Added, Place
  <2>2. \A i \in 1..Len(children) : children[i].spec.id # Added.id
    BY <1>5, <1>7, PlaceIs
  <2>. QED
    BY <1>1, <1>2, <1>4, <1>7, <2>1, <2>2
<1>8. CASE ~Simple /\ Place(Added.id) # 0
  <2>1. PICK i \in 1..Len(children) :
            i = Place(Added.id) /\ children[i].spec.id = Added.id
    BY <1>5, <1>8, PlaceIs
  <2>2. Begin(JobOf("add", Ahead(children, i), One(x), Behind(children, i)), "start")
    BY <1>3, <1>8, <2>1 DEF AddChild, One, Added, Place, Ahead, Behind
  <2>. QED
    BY <1>1, <1>2, <1>4, <1>8, <2>1, <2>2
<1>. QED
  BY <1>6, <1>7, <1>8

LEMMA AddChildStep == Base /\ AddChild => Base'
<1> SUFFICES ASSUME Base, AddChild PROVE Base'
  OBVIOUS
<1>1. pc = "take" /\ inbox # <<>> /\ Head(inbox).kind = "start_child"
  BY AddChildIs
<1>2. PICK x \in Child :
         /\ x.pid = 0
         /\ \/ Begin(JobOf("add", <<>>, One(x), children), "start")
            \/ Begin(JobOf("add", children, One(x), <<>>), "start")
            \/ \E i \in 1..Len(children) :
                  Begin(JobOf("add", Ahead(children, i), One(x),
                              Behind(children, i)), "start")
  BY AddChildIs
<1>3. children \in Seq(Child) /\ <<>> \in Seq(Child) /\ Pids(<<>>) = {}
  BY PidsFew DEF Base, TypeOK
<1> DEFINE Fits(a, b, c) ==
              /\ a \in Seq(Child) /\ b \in Seq(Child) /\ c \in Seq(Child)
              /\ Pids(b) \subseteq {0} /\ Len(b) <= 1
              /\ Pids(a) \cup Pids(c) \subseteq Pids(children) \cup {0}
              /\ AllPairs(a \o b \o c, Apart)
<1>4. ASSUME NEW a, NEW b, NEW c, Fits(a, b, c),
             Begin(JobOf("add", a, b, c), "start")
      PROVE  Base'
  BY <1>1, <1>4, BeginFits
<1> HIDE DEF Fits
<1>5. /\ One(x) \in Seq(Child) /\ Len(One(x)) = 1 /\ Pids(One(x)) = {0}
      /\ AllPairs(children \o One(x) \o <<>>, Apart)
      /\ AllPairs(<<>> \o One(x) \o children, Apart)
  BY <1>2, EndFits
<1>6. Fits(<<>>, One(x), children) /\ Fits(children, One(x), <<>>)
  BY <1>3, <1>5 DEF Fits
<1>7. ASSUME NEW i \in 1..Len(children)
      PROVE  Fits(Ahead(children, i), One(x), Behind(children, i))
  <2>1. /\ Ahead(children, i) \in Seq(Child) /\ Behind(children, i) \in Seq(Child)
        /\ Pids(Ahead(children, i)) \cup Pids(Behind(children, i)) \subseteq Pids(children)
        /\ AllPairs(Ahead(children, i) \o One(x) \o Behind(children, i), Apart)
    BY <1>2, PlaceFits
  <2>. QED
    BY <1>5, <2>1 DEF Fits
<1>. QED
  BY <1>2, <1>4, <1>6, <1>7

LEMMA NoJobIs ==
    /\ NoJob \in Job /\ NoJob.kind = "none" /\ NoJob.at = 1 /\ NoJob.tries = 0
    /\ NoJob.pid = 0 /\ NoJob.before = <<>> /\ NoJob.group = <<>>
    /\ NoJob.after = <<>>
BY JobMade DEF NoJob

(* Between two messages nothing is to be known of a job. *)
LEMMA BetweenFits ==
    ASSUME job' = NoJob, pc' \in {"idle", "take", "dead"},
           AllPairs(children', Apart)
    PROVE  JobFit'
<1>1. Apart' = Apart
  BY DEF Apart, Child
<1>2. <<>> \in Seq(Child) /\ Len(<<>>) = 0 /\ Pids(<<>>) = {}
  BY PidsFew
<1>3. Work' = <<>>
  BY <1>2, NoJobIs, ConcatEmptySeq DEF Work
<1>4. AllPairs(<<>>, Apart)
  BY <1>2 DEF AllPairs
<1>5. ~RestartsOne'
  BY NoJobIs DEF RestartsOne
<1>. QED
  BY <1>1, <1>2, <1>3, <1>4, <1>5, NoJobIs DEF JobFit, Between

LEMMA UnknownStep == Base /\ Unknown => Base'
<1> SUFFICES ASSUME Base, Unknown PROVE Base'
  OBVIOUS
<1>1. /\ pc = "take" /\ inbox # <<>> /\ Begin(NoJob, "take")
      /\ pc' = "take" /\ job' = NoJob /\ children' = children
  BY DEF Unknown, Takes, Begin
<1>2. TypeOK' /\ Single(queue') /\ StartingFit' /\ EndingFit' /\ BootFit'
  BY <1>1, NoJobIs, BeginStep
<1>3. JobFit'
  BY <1>1, BetweenFits DEF Base, JobFit
<1>. QED
  BY <1>2, <1>3 DEF Base

LEMMA ForgetStep == Base /\ Forget => Base'
<1> SUFFICES ASSUME Base, Forget PROVE Base'
  OBVIOUS
<1>1. /\ pc = "take" /\ inbox # <<>> /\ Dead # 0
      /\ inbox' = Tail(inbox)
      /\ children' = IF Simple THEN RemoveAt(children, Dead)
                     ELSE [children EXCEPT ![Dead].pid = 0]
      /\ UNCHANGED <<config, queue, life, born, watched, pc, job, replaced>>
  BY DEF Forget, Takes, processes
<1>2. /\ Runs /\ Tail(inbox) \in Seq(Message)
      /\ ToSet(Tail(inbox)) \subseteq ToSet(inbox)
      /\ StartChildren \notin ToSet(Tail(inbox)) /\ job = NoJob
  BY <1>1, Taken
<1>3. children \in Seq(Child) /\ AllPairs(children, Apart)
  BY DEF Base, TypeOK, JobFit
<1>4. PICK i \in 1..Len(children) : i = Dead
  BY <1>1, <1>3, DeadIs
<1>5. PICK x \in Child : x = Zero(children[i]) /\ x.pid = 0
  BY <1>3, PidsAre, Zeroed
<1>6. children' = IF Simple THEN RemoveAt(children, i) ELSE With(children, i, x)
  BY <1>1, <1>4, <1>5 DEF With, Zero
<1>7. children' \in Seq(Child) /\ AllPairs(children', Apart)
  <2>1. RemoveAt(children, i) \in Seq(Child) /\ With(children, i, x) \in Seq(Child)
    BY <1>3, PidsAbout
  <2>2. AllPairs(RemoveAt(children, i), Apart)
    BY <1>3, <1>5, PairsReplaced
  <2>3. AllPairs(With(children, i, x), Apart)
    BY <1>5, PlaceFits
  <2>. QED
    BY <1>6, <2>1, <2>2, <2>3
<1>8. TypeOK'
  BY <1>1, <1>2, <1>7 DEF Base, TypeOK, Alive
<1>9. Single(queue') /\ StartingFit' /\ EndingFit' /\ BootFit'
  BY <1>1, <1>2, QuietFits
<1>10. JobFit'
  BY <1>1, <1>2, <1>7, BetweenFits
<1>. QED
  BY <1>8, <1>9, <1>10 DEF Base

(* A child that is restarted. *)
LEMMA RestartIs ==
    ASSUME Base, NEW strategy, Restart(strategy)
    PROVE  /\ pc = "take" /\ inbox # <<>> /\ Head(inbox).kind = "EXIT"
           /\ config.strategy = strategy
           /\ children \in Seq(Child) /\ AllPairs(children, Apart)
           /\ Dead \in 1..Len(children) /\ Len(children) \in Nat
           /\ children[Dead].pid = Head(inbox).pid
           /\ Head(inbox).pid \in Pid /\ ~Alive(Head(inbox).pid)
           /\ Zero(children[Dead]) \in Child /\ Zero(children[Dead]).pid = 0
           /\ Zero(children[Dead]).spec = children[Dead].spec
           /\ children[Dead] \in Child
<1>1. /\ pc = "take" /\ inbox # <<>> /\ Head(inbox).kind = "EXIT" /\ Dead # 0
      /\ config.strategy = strategy
  BY DEF Restart, Takes
<1>2. children \in Seq(Child) /\ AllPairs(children, Apart)
  BY DEF Base, TypeOK, JobFit
<1>3. Head(inbox).pid \in Pid /\ ~Alive(Head(inbox).pid)
  BY <1>1, Taken
<1>4. Dead \in 1..Len(children) /\ children[Dead].pid = Head(inbox).pid
  BY <1>1, <1>2, DeadIs
<1>5. children[Dead] \in Child /\ Len(children) \in Nat
  BY <1>2, <1>4, SetOf
<1>. QED
  BY <1>1, <1>2, <1>3, <1>4, <1>5, Zeroed

LEMMA OneForOneStep == Base /\ doOneForOneRestart /\ ~Fails => Base'
<1> SUFFICES ASSUME Base, doOneForOneRestart, ~Fails PROVE Base'
  OBVIOUS
<1>1. /\ Restart("one_for_one") /\ Declared(children[Dead].spec.id) # 0
      /\ Begin(JobOf("restart", SubSeq(children, 1, Dead - 1),
                     <<[children[Dead] EXCEPT !.pid = 0]>>,
                     SubSeq(children, Dead + 1, Len(children))), "start")
  BY DEF doOneForOneRestart
<1>2. PICK i \in 1..Len(children) : i = Dead
  BY <1>1, RestartIs
<1>3. PICK x \in Child : /\ x = Zero(children[i]) /\ x.pid = 0
                         /\ x.spec = children[i].spec
  BY <1>1, <1>2, RestartIs
<1>4. Begin(JobOf("restart", Ahead(children, i), One(x), Behind(children, i)), "start")
  BY <1>1, <1>2, <1>3 DEF Ahead, Behind, One, Zero
<1>5. /\ Ahead(children, i) \in Seq(Child) /\ Behind(children, i) \in Seq(Child)
      /\ One(x) \in Seq(Child) /\ Len(One(x)) = 1 /\ Pids(One(x)) = {0}
      /\ Pids(Ahead(children, i)) \cup Pids(Behind(children, i)) \subseteq Pids(children)
      /\ AllPairs(Ahead(children, i) \o One(x) \o Behind(children, i), Apart)
  BY <1>3, PlaceFits
<1>6. \A k \in 1..Len(One(x)) : \E j \in 1..Len(config.specs) :
         config.specs[j].id = One(x)[k].spec.id
  <2>1. One(x)[1] = x
    BY OneIn
  <2>2. \E j \in 1..Len(config.specs) : config.specs[j].id = x.spec.id
    BY <1>1, <1>2, <1>3, DeclaredIs DEF Base, TypeOK
  <2>. QED
    BY <1>5, <2>1, <2>2
<1>7. pc = "take" /\ inbox # <<>>
  BY <1>1, RestartIs
<1>8. ASSUME NEW a \in Seq(Child), NEW o \in Seq(Child), NEW b \in Seq(Child),
             Len(o) <= 1, Pids(o) \subseteq {0},
             Pids(a) \cup Pids(b) \subseteq Pids(children) \cup {0},
             AllPairs(a \o o \o b, Apart),
             \A k \in 1..Len(o) : \E j \in 1..Len(config.specs) :
                config.specs[j].id = o[k].spec.id,
             Begin(JobOf("restart", a, o, b), "start")
      PROVE  Base'
  BY <1>7, <1>8, BeginFits
<1>9. Pids(One(x)) \subseteq {0} /\ Len(One(x)) <= 1
  BY <1>5
<1>. QED
  BY <1>4, <1>5, <1>6, <1>8, <1>9

LEMMA OneForAllStep == Base /\ doOneForAllRestart => Base'
<1> SUFFICES ASSUME Base, doOneForAllRestart PROVE Base'
  OBVIOUS
<1>1. /\ Restart("one_for_all")
      /\ Begin(JobOf("restart", <<>>, [children EXCEPT ![Dead].pid = 0], <<>>),
               "terminate")
  BY DEF doOneForAllRestart
<1>2. PICK i \in 1..Len(children) : i = Dead
  BY <1>1, RestartIs
<1>3. PICK x \in Child : x = Zero(children[i]) /\ x.pid = 0
  BY <1>1, <1>2, RestartIs
<1>4. PICK w : w = With(children, i, x)
  OBVIOUS
<1>5. Begin(JobOf("restart", <<>>, w, <<>>), "terminate")
  BY <1>1, <1>2, <1>3, <1>4 DEF With, Zero
<1>6. children \in Seq(Child)
  BY DEF Base, TypeOK
<1>7. w \in Seq(Child) /\ AllPairs(w, Apart)
  BY <1>3, <1>4, <1>6, PlaceFits, PidsAbout
<1>8. /\ <<>> \in Seq(Child) /\ Pids(<<>>) = {}
      /\ AllPairs(<<>> \o w \o <<>>, Apart)
  BY <1>7, PidsFew, ConcatEmptySeq
<1>9. pc = "take" /\ inbox # <<>> /\ config.strategy = "one_for_all"
  BY <1>1, RestartIs
<1>. QED
  BY <1>5, <1>7, <1>8, <1>9, BeginFits

LEMMA RestForOneStep == Base /\ doRestForOneRestart => Base'
<1> SUFFICES ASSUME Base, doRestForOneRestart PROVE Base'
  OBVIOUS
<1>1. /\ Restart("rest_for_one")
      /\ Begin(JobOf("restart", SubSeq(children, 1, Dead - 1),
                     SubSeq(children, Dead, Len(children)), <<>>), "terminate")
  BY DEF doRestForOneRestart
<1>2. PICK i \in 1..Len(children) : i = Dead
  BY <1>1, RestartIs
<1>3. PICK a, b : a = Ahead(children, i) /\ b = From(children, i)
  OBVIOUS
<1>4. Begin(JobOf("restart", a, b, <<>>), "terminate")
  BY <1>1, <1>2, <1>3 DEF Ahead, From
<1>5. children \in Seq(Child) /\ AllPairs(children, Apart)
  BY DEF Base, TypeOK, JobFit
<1>6. /\ a \in Seq(Child) /\ b \in Seq(Child) /\ Pids(a) \subseteq Pids(children)
  BY <1>3, <1>5, PidsAbout
<1>7. a \o b = children
  BY <1>3, <1>5, SplitFrom
<1>8. /\ <<>> \in Seq(Child) /\ Pids(<<>>) = {}
      /\ AllPairs(a \o b \o <<>>, Apart)
  BY <1>5, <1>7, PidsFew, ConcatEmptySeq
<1>9. pc = "take" /\ inbox # <<>> /\ config.strategy = "rest_for_one"
  BY <1>1, RestartIs
<1>. QED
  BY <1>4, <1>6, <1>8, <1>9, BeginFits

LEMMA RestStep == Base /\ Rest => Base'
<1> SUFFICES ASSUME Base, Rest PROVE Base'
  OBVIOUS
<1>1. /\ pc = "take" /\ inbox = <<>> /\ pc' = "idle"
      /\ UNCHANGED <<config, queue, life, born, watched, inbox, children, job,
                     replaced>>
  BY DEF Rest, processes
<1>2. Runs /\ job = NoJob /\ AllPairs(children, Apart)
  BY <1>1 DEF Runs, Base, JobFit, Between
<1>3. StartChildren \notin ToSet(inbox)
  BY <1>1, <1>2, NotTaken
<1>4. TypeOK'
  BY <1>1 DEF Base, TypeOK, Alive
<1>5. Single(queue') /\ StartingFit' /\ EndingFit' /\ BootFit'
  BY <1>1, <1>2, <1>3, QuietFits
<1>6. JobFit'
  BY <1>1, <1>2, BetweenFits
<1>. QED
  BY <1>4, <1>5, <1>6 DEF Base

LEMMA FailsStep == Base /\ Runs /\ Fails => Base'
<1> SUFFICES ASSUME Base, Runs, Fails PROVE Base'
  OBVIOUS
<1>1. /\ pc' = "dead" /\ inbox' = <<>> /\ children' = <<>> /\ job' = NoJob
      /\ UNCHANGED <<config, life, born, watched, replaced>>
  BY DEF Fails, processes
<1>2. /\ queue \in Seq(Post) /\ \A K \in Classes : None(queue, K)
      /\ \A p \in Pid : life[p] \in {"up", "dead"}
      /\ watched = {} /\ StartChildren \notin ToSet(queue)
  BY Idle
<1>3. Single(queue)
  BY DEF Base
<1>4. /\ queue' \in Seq(Post) /\ Single(queue')
      /\ \A m \in ToSet(queue') :
            \/ m \in ToSet(queue)
            \/ \E p \in Pid : Alive(p) /\ m = Sig("exit", p)
  BY <1>2, <1>3, FailsSends
<1>5. \A m \in ToSet(queue') :
         \/ m \in ToSet(queue)
         \/ m.kind = "exit" /\ m.pid \in Pid /\ Alive(m.pid)
  BY <1>4, Made
<1>6. /\ <<>> \in Seq(Message) /\ ToSet(<<>>) = {}
      /\ <<>> \in Seq(Child) /\ Len(<<>>) = 0
  BY SetOf, PidsFew DEF ToSet
<1>7. TypeOK'
  BY <1>1, <1>4, <1>6, NoJobIs DEF Base, TypeOK, Alive, Post
<1>8. /\ None(queue, Starting) /\ None(queue, Ending) /\ None(queue, {"flush"})
      /\ None(queue, {"start_children"})
  BY <1>2 DEF Classes
<1>9. /\ Sent(Starting)' = {} /\ Sent(Ending)' = {} /\ Sent({"flush"})' = {}
      /\ StartChildren \notin ToSet(queue')
  BY <1>5, <1>8 DEF Sent, None, Starting, Ending, StartChildren
<1>10. StartingFit'
  BY <1>1, <1>2, <1>9 DEF StartingFit
<1>11. EndingFit'
  <2>1. \A p \in Pid : ExitOf(p)' # {} => ~Alive(p)'
    <3>1. \A p \in Pid : ExitOf(p)' \subseteq ExitOf(p)
      BY <1>1, <1>5, <1>6 DEF ExitOf
    <3>2. \A p \in Pid : ExitOf(p) # {} => ~Alive(p)
      BY DEF Base, EndingFit
    <3>3. \A p \in Pid : ~Alive(p) => ~Alive(p)'
      BY <1>1 DEF Alive
    <3>. QED
      BY <3>1, <3>2, <3>3
  <2>2. \A m \in Sent({"exit"}) : life[m.pid] \in {"up", "dead"}
    BY DEF Base, EndingFit
  <2>3. \A m \in Sent({"exit"})' : life'[m.pid] \in {"up", "dead"}
    BY <1>1, <1>2, <1>5, <2>2 DEF Sent
  <2>. QED
    BY <1>1, <1>2, <1>9, <2>1, <2>3 DEF EndingFit
<1>12. BootFit'
  BY <1>1, <1>6, <1>9 DEF BootFit
<1>13. JobFit'
  <2>1. AllPairs(<<>>, Apart)
    BY <1>6 DEF AllPairs
  <2>. QED
    BY <1>1, <2>1, BetweenFits
<1>. QED
  BY <1>4, <1>7, <1>10, <1>11, <1>12, <1>13 DEF Base

(* A step of the supervisor that is not a failure of its own accord. *)
LEMMA FailingStep ==
    Base /\ (\/ doSimpleOneForOneRestart
             \/ doOneForOneRestart
             \/ GiveUp) => Base'
<1> SUFFICES ASSUME Base, \/ doSimpleOneForOneRestart
                          \/ doOneForOneRestart
                          \/ GiveUp
             PROVE  Base'
  OBVIOUS
<1>1. CASE doSimpleOneForOneRestart
  BY <1>1, FailsStep DEF doSimpleOneForOneRestart, Restart, Takes, Runs
<1>2. CASE doOneForOneRestart
  <2>1. Runs
    BY <1>2 DEF doOneForOneRestart, Restart, Takes, Runs
  <2>. QED
    BY <1>2, <2>1, FailsStep, OneForOneStep
<1>3. CASE GiveUp
  BY <1>3, FailsStep DEF GiveUp, Runs
<1>. QED
  BY <1>1, <1>2, <1>3

(* The place of a child that runs depends on the group alone. *)
LEMMA RunningKept ==
    ASSUME job'.group = job.group
    PROVE  Running' = Running
BY DEF Running, SelectInSeq

LEMMA TerminateNextStep == Base /\ TerminateNext => Base'
<1> SUFFICES ASSUME Base, TerminateNext PROVE Base'
  OBVIOUS
<1>1. pc = "terminate" /\ Running # 0 /\ Runs
  BY DEF TerminateNext, Runs
<1>2. job \in Job
  BY DEF Base, TypeOK
<1>3. /\ Running \in 1..Len(job.group) /\ job.group[Running].pid # 0
      /\ job.group \in Seq(Child)
  BY <1>1, <1>2, JobParts, RunningIs
<1>4. PICK p : p = job.group[Running].pid
  OBVIOUS
<1>5. p \in Pid
  <2>1. p \in Pid \cup {0}
    BY <1>3, <1>4, PidsAre
  <2>. QED
    BY <1>3, <1>4, <2>1
<1>6. CASE job.group[Running].spec.shutdown = "other"
  BY <1>1, <1>6, FailsStep DEF TerminateNext
<1>7. CASE job.group[Running].spec.shutdown # "other"
  <2>1. /\ queue' = queue \o (IF Alive(p)
                              THEN <<Sig("monitor", p), Sig("exit", p)>>
                              ELSE <<Sig("down", p)>>)
        /\ job' = [job EXCEPT !.pid = p] /\ pc' = "down"
        /\ UNCHANGED <<config, life, born, watched, inbox, children, replaced>>
    BY <1>4, <1>7 DEF TerminateNext, processes
  <2>2. /\ queue \in Seq(Post) /\ \A K \in Classes : None(queue, K)
        /\ \A q \in Pid : life[q] \in {"up", "dead"}
        /\ watched = {} /\ StartChildren \notin ToSet(queue)
    BY <1>1, Idle
  <2>3. Single(queue) /\ StartChildren \notin ToSet(inbox)
    BY <1>1, NotTaken DEF Base
  <2>4. PICK monitor, exit, down : /\ monitor = Sig("monitor", p)
                                   /\ exit = Sig("exit", p)
                                   /\ down = Sig("down", p)
    OBVIOUS
  <2>5. /\ monitor \in Post /\ monitor.kind = "monitor" /\ monitor.pid = p
        /\ exit \in Post /\ exit.kind = "exit" /\ exit.pid = p
        /\ down \in Post /\ down.kind = "down" /\ down.pid = p
    BY <1>5, <2>4, Made
  <2>6. PICK add : add = IF Alive(p) THEN One(monitor) \o One(exit) ELSE One(down)
    OBVIOUS
  <2>7. queue' = queue \o add
    BY <2>1, <2>4, <2>6 DEF One
  <2>8. /\ add \in Seq(Post) /\ Single(add)
        /\ \A m \in ToSet(add) : IF Alive(p) THEN m = monitor \/ m = exit
                                             ELSE m = down
    <3>1. /\ One(monitor) \in Seq(Post) /\ Single(One(monitor))
          /\ ToSet(One(monitor)) = {monitor}
          /\ One(exit) \in Seq(Post) /\ Single(One(exit))
          /\ ToSet(One(exit)) = {exit}
          /\ One(down) \in Seq(Post) /\ Single(One(down))
          /\ ToSet(One(down)) = {down}
          /\ \A K : "exit" \notin K => None(One(exit), K)
      BY <2>5, OneSingle
    <3>2. \A K \in Classes : None(One(exit), K)
      BY <3>1 DEF Classes, Starting, Ending
    <3>3. PICK two : two = One(monitor) \o One(exit)
      OBVIOUS
    <3>4. /\ two \in Seq(Post) /\ Single(two) /\ ToSet(two) = {monitor, exit}
      BY <3>1, <3>2, <3>3, Sends
    <3>. QED
      BY <2>6, <3>1, <3>3, <3>4
  <2>9. /\ queue \o add \in Seq(Post) /\ Single(queue \o add)
        /\ ToSet(queue \o add) = ToSet(queue) \cup ToSet(add)
    BY <2>2, <2>3, <2>8, Sends
  <2>10. \A m \in ToSet(queue') :
            \/ m \in ToSet(queue)
            \/ /\ m.kind \in {"monitor", "exit", "down"} /\ m.pid = p
               /\ m.kind = "down" => ~Alive(p)
               /\ m.kind = "exit" => Alive(p)
    BY <2>5, <2>7, <2>8, <2>9
  <2>11. job' \in Job /\ job'.pid = p /\ job'.group = job.group
         /\ job'.kind = job.kind /\ job'.at = job.at
         /\ job'.before = job.before /\ job'.after = job.after
    BY <1>2, <1>5, <2>1 DEF Job
  <2>12. TypeOK'
    BY <2>1, <2>7, <2>9, <2>11 DEF Base, TypeOK, Alive, Post
  <2>13. /\ None(queue, Starting) /\ None(queue, Ending) /\ None(queue, {"flush"})
         /\ None(queue, {"start_children"})
    BY <2>2 DEF Classes
  <2>14. /\ Sent(Starting)' = {} /\ Sent({"flush"})' = {}
         /\ StartChildren \notin ToSet(queue')
    BY <2>10, <2>13 DEF Sent, None, Starting, StartChildren
  <2>15. StartingFit'
    BY <2>1, <2>2, <2>14 DEF StartingFit
  <2>16. EndingFit'
    <3>1. \A q \in Pid : ExitOf(q)' # {} => ~Alive(q)'
      <4>1. \A q \in Pid : ExitOf(q)' \subseteq ExitOf(q)
        BY <2>1, <2>10 DEF ExitOf
      <4>2. \A q \in Pid : ExitOf(q) # {} => ~Alive(q)
        BY DEF Base, EndingFit
      <4>3. \A q \in Pid : ~Alive(q) => ~Alive(q)'
        BY <2>1 DEF Alive
      <4>. QED
        BY <4>1, <4>2, <4>3
    <3>2. \A m \in Sent(Ending)' : /\ pc' = "down" /\ m.pid = job'.pid
                                   /\ watched' = {}
                                   /\ m.kind = "down" => ~Alive(m.pid)'
      <4>1. \A m \in Sent(Ending)' : m.pid = p /\ (m.kind = "down" => ~Alive(p))
        BY <2>10, <2>13 DEF Sent, None, Ending
      <4>2. ~Alive(p) => ~Alive(p)'
        BY <2>1 DEF Alive
      <4>. QED
        BY <2>1, <2>2, <2>11, <4>1, <4>2
    <3>3. \A m \in Sent({"exit"}) : life[m.pid] \in {"up", "dead"}
      BY DEF Base, EndingFit
    <3>4. \A m \in Sent({"exit"})' : life'[m.pid] \in {"up", "dead"}
      BY <1>5, <2>1, <2>2, <2>10, <3>3 DEF Sent
    <3>. QED
      BY <2>1, <2>2, <2>14, <3>1, <3>2, <3>4 DEF EndingFit
  <2>17. BootFit'
    BY <2>1, <2>3, <2>14 DEF BootFit
  <2>18. JobFit'
    <3>1. Running' = Running /\ Apart' = Apart /\ Work' = Work
      BY <2>11, RunningKept DEF Apart, Child, Work
    <3>2. RestartsOne' = RestartsOne
      BY <2>1, <2>11 DEF RestartsOne
    <3>3. Pids(job'.before) \cup Pids(job'.after) \subseteq Pids(children') \cup {0}
      BY <2>1, <2>11 DEF Base, JobFit
    <3>4. /\ job.kind = "restart" /\ config.strategy # "one_for_one" /\ job.at = 1
          /\ AllPairs(children, Apart) /\ AllPairs(Work, Apart)
      BY <1>1 DEF Base, JobFit
    <3>5. AllPairs(children', Apart') /\ AllPairs(Work', Apart')
      BY <2>1, <3>1, <3>4
    <3>6. ~RestartsOne'
      BY <2>1, <3>4 DEF RestartsOne
    <3>7. Running' # 0 /\ job'.group[Running'].pid = job'.pid
      BY <1>1, <1>4, <2>11, <3>1
    <3>. QED
      BY <2>1, <2>11, <3>3, <3>4, <3>5, <3>6, <3>7 DEF JobFit, Between
  <2>. QED
    BY <2>7, <2>9, <2>12, <2>15, <2>16, <2>17, <2>18 DEF Base
<1>. QED
  BY <1>6, <1>7

LEMMA AllTerminatedStep == Base /\ AllTerminated => Base'
<1> SUFFICES ASSUME Base, AllTerminated PROVE Base'
  OBVIOUS
<1>1. /\ pc = "terminate" /\ Running = 0 /\ pc' = "start" /\ Runs
      /\ job' = [job EXCEPT !.group = Remaining(job.group)]
      /\ UNCHANGED <<config, queue, life, born, watched, inbox, children, replaced>>
  BY DEF AllTerminated, Runs, processes
<1>2. job \in Job
  BY DEF Base, TypeOK
<1>3. /\ job.group \in Seq(Child) /\ job.before \in Seq(Child)
      /\ job.after \in Seq(Child)
  BY <1>2, JobParts
<1>4. PICK r : r = Remaining(job.group)
  OBVIOUS
<1>5. /\ r \in Seq(Child) /\ ToSet(r) \subseteq ToSet(job.group)
      /\ AllPairs(job.group, Apart) => AllPairs(r, Apart)
  BY <1>3, <1>4, RemainingIs
<1>6. /\ job' \in Job /\ job'.group = r /\ job'.kind = job.kind
      /\ job'.at = job.at /\ job'.pid = job.pid
      /\ job'.before = job.before /\ job'.after = job.after
  BY <1>1, <1>2, <1>4, <1>5 DEF Job
<1>7. \A i \in 1..Len(r) : r[i].pid = 0 /\ r[i] \in ToSet(job.group)
  <2>1. \A c \in ToSet(job.group) : c.pid = 0
    BY <1>1, <1>3, RunningIs, SetOf
  <2>. QED
    BY <1>5, <2>1, SetOf
<1>8. AllPairs(job.before \o r \o job.after, Apart)
  BY <1>3, <1>5, PairsDropped DEF Base, JobFit, Work
<1>9. Len(r) \in Nat /\ job.kind = "restart" /\ job.at = 1 /\ job.pid = 0
  BY <1>1, <1>5, SetOf DEF Base, JobFit
<1>10. ~RestartsOne'
  BY <1>1 DEF Base, JobFit, RestartsOne
<1>11. TypeOK'
  BY <1>1, <1>6 DEF Base, TypeOK, Alive
<1>12. Single(queue') /\ StartingFit' /\ EndingFit' /\ BootFit'
  BY <1>1, NotTaken, QuietFits
<1>13. JobFit'
  <2>1. Apart' = Apart /\ Work' = job.before \o r \o job.after
    BY <1>6 DEF Apart, Child, Work
  <2>2. Pids(job'.before) \cup Pids(job'.after) \subseteq Pids(children') \cup {0}
    BY <1>1, <1>6 DEF Base, JobFit, Pids
  <2>. QED
    BY <1>1, <1>6, <1>7, <1>8, <1>9, <1>10, <2>1, <2>2 DEF Base, JobFit, Between
<1>. QED
  BY <1>11, <1>12, <1>13 DEF Base

(* A process that nobody mentions. *)
LEMMA FreshIs ==
    ASSUME Base, Fresh # {}
    PROVE  /\ Min(Fresh) \in Pid /\ Min(Fresh) # 0 /\ life[Min(Fresh)] = "dead"
           /\ Min(Fresh) \notin Pids(children) \cup Pids(job.group)
           /\ \A m \in ToSet(queue) \cup ToSet(inbox) :
                 m.kind \notin {"start_children", "start_child"} =>
                    m.pid # Min(Fresh)
<1>1. Fresh \subseteq Pid /\ Pid \subseteq Nat \ {0}
  BY SupervisorAssumption DEF Fresh
<1>2. PICK p : p = Min(Fresh)
  OBVIOUS
<1>3. p \in Fresh
  BY <1>1, <1>2, Least
<1>4. life[p] = "dead" /\ p \notin Mentioned
  BY <1>3 DEF Fresh
<1>5. ToSet(queue \o inbox) = ToSet(queue) \cup ToSet(inbox)
  <2>1. queue \in Seq(Post) /\ inbox \in Seq(Message)
    BY DEF Base, TypeOK, Post
  <2>2. inbox \in Seq(Post)
    BY <2>1, SeqMonotonic DEF Post
  <2>. QED
    BY <2>1, <2>2, JoinedSet
<1>6. /\ p \notin Pids(children) \cup Pids(job.group)
      /\ \A m \in ToSet(queue) \cup ToSet(inbox) :
            m.kind \notin {"start_children", "start_child"} => m.pid # p
  BY <1>4, <1>5 DEF Mentioned
<1>. QED
  BY <1>1, <1>2, <1>3, <1>4, <1>6

(* What is started is a specification. *)
LEMMA StartSpecIs ==
    ASSUME Base, pc \in {"start", "ack"}, job.at <= Len(job.group)
    PROVE  /\ StartSpec \in ChildSpec /\ job.at \in 1..Len(job.group)
           /\ job.group[job.at] \in Child /\ job.group[job.at].pid = 0
           /\ StartSpec.id = job.group[job.at].spec.id
           /\ ~RestartsOne => StartSpec = job.group[job.at].spec
           /\ RestartsOne => StartSpec \in ToSet(config.specs)
<1>1. job \in Job /\ config \in Config
  BY DEF Base, TypeOK
<1>2. job.group \in Seq(Child) /\ Len(job.group) \in Nat
  BY <1>1, JobParts
<1>3. /\ job.at \in 1..Len(job.group)
      /\ \A i \in job.at..Len(job.group) : job.group[i].pid = 0
  BY <1>2 DEF Base, JobFit
<1>4. /\ job.group[job.at] \in Child /\ job.group[job.at].spec \in ChildSpec
      /\ job.group[job.at].pid = 0
  BY <1>2, <1>3, PidsAre
<1>5. CASE ~RestartsOne
  BY <1>3, <1>4, <1>5 DEF StartSpec
<1>6. CASE RestartsOne
  <2>1. PICK id : id = job.group[job.at].spec.id
    OBVIOUS
  <2>2. \E j \in 1..Len(config.specs) : config.specs[j].id = id
    BY <1>3, <1>6, <2>1 DEF Base, JobFit
  <2>3. /\ Declared(id) \in 1..Len(config.specs)
        /\ config.specs[Declared(id)].id = id
    BY <1>1, <2>2, DeclaredIs
  <2>4. config.specs[Declared(id)] \in ChildSpec
        /\ config.specs[Declared(id)] \in ToSet(config.specs)
    BY <1>1, <2>3, Configured
  <2>5. StartSpec = config.specs[Declared(id)]
    BY <1>6, <2>1 DEF StartSpec
  <2>. QED
    BY <1>3, <1>4, <1>6, <2>1, <2>3, <2>4, <2>5
<1>. QED
  BY <1>5, <1>6

LEMMA StartNextStep == Base /\ StartNext => Base'
<1> SUFFICES ASSUME Base, StartNext PROVE Base'
  OBVIOUS
<1>1. PICK p : p = Min(Fresh)
  OBVIOUS
<1>2. /\ pc = "start" /\ job.at <= Len(job.group) /\ Runs /\ Fresh # {}
      /\ life' = [life EXCEPT ![p] = "pending"]
      /\ born' = [q \in DOMAIN born \cup {p} |->
                     IF q = p THEN StartSpec ELSE born[q]]
      /\ job' = [job EXCEPT !.pid = p]
      /\ queue' = Append(queue, Sig("go", p))
      /\ replaced' = replaced \ {p}
      /\ pc' = "ack"
      /\ UNCHANGED <<config, watched, inbox, children>>
  BY <1>1 DEF StartNext, StartsNext, Runs
<1>3. /\ p \in Pid /\ p # 0 /\ life[p] = "dead"
      /\ p \notin Pids(children) \cup Pids(job.group)
      /\ \A m \in ToSet(queue) \cup ToSet(inbox) :
            m.kind \notin {"start_children", "start_child"} => m.pid # p
  BY <1>1, <1>2, FreshIs
<1>4. StartSpec \in ChildSpec
  BY <1>2, StartSpecIs
<1>5. /\ queue \in Seq(Post) /\ \A K \in Classes : None(queue, K)
      /\ \A q \in Pid : life[q] \in {"up", "dead"}
      /\ watched = {} /\ StartChildren \notin ToSet(queue)
  BY <1>2, Idle
<1>6. Single(queue) /\ StartChildren \notin ToSet(inbox)
  BY <1>2, NotTaken DEF Base
<1>7. PICK go \in Post : go = Sig("go", p) /\ go.kind = "go" /\ go.pid = p
  BY <1>3, Made
<1>8. /\ queue' \in Seq(Post) /\ Single(queue')
      /\ ToSet(queue') = ToSet(queue) \cup {go}
  BY <1>2, <1>5, <1>6, <1>7, SendsOne
<1>9. job \in Job /\ life \in [Pid -> {"pending", "init", "up", "zombie", "dead"}]
      /\ born \in [{q \in Pid : Alive(q)} -> ChildSpec]
  BY DEF Base, TypeOK
<1>10. /\ job' \in Job /\ job'.pid = p /\ job'.group = job.group
       /\ job'.kind = job.kind /\ job'.at = job.at
       /\ job'.before = job.before /\ job'.after = job.after
  BY <1>2, <1>3, <1>9 DEF Job
<1>11. /\ life' \in [Pid -> {"pending", "init", "up", "zombie", "dead"}]
       /\ \A q \in Pid : life'[q] = IF q = p THEN "pending" ELSE life[q]
  BY <1>2, <1>3, <1>9
<1>12. \A q \in Pid : Alive(q)' <=> q = p \/ Alive(q)
  BY <1>11 DEF Alive
<1>13. TypeOK'
  <2>1. born' \in [{q \in Pid : Alive(q)'} -> ChildSpec]
    <3>1. {q \in Pid : Alive(q)'} = {q \in Pid : Alive(q)} \cup {p}
      BY <1>3, <1>12
    <3>. QED
      BY <1>2, <1>4, <1>9, <3>1
  <2>2. queue' \in Seq(Signal \cup Message)
    BY <1>8 DEF Post
  <2>. QED
    BY <1>2, <1>10, <1>11, <2>1, <2>2 DEF Base, TypeOK
<1>14. /\ None(queue, Starting) /\ None(queue, Ending) /\ None(queue, {"flush"})
  BY <1>5 DEF Classes
<1>15. /\ Sent(Starting)' \subseteq {go} /\ Sent(Ending)' = {}
       /\ Sent({"flush"})' = {} /\ Sent({"exit"})' = Sent({"exit"})
  BY <1>7, <1>8, <1>14 DEF Sent, None, Ending
<1>16. StartingFit'
  BY <1>2, <1>3, <1>5, <1>7, <1>10, <1>11, <1>15 DEF StartingFit
<1>17. EndingFit'
  <2>1. \A q \in Pid : ExitOf(q)' # {} => ~Alive(q)'
    <3>1. \A q \in Pid : ExitOf(q)' = ExitOf(q)
      BY <1>2, <1>7, <1>8 DEF ExitOf
    <3>2. \A q \in Pid : ExitOf(q) # {} => ~Alive(q)
      BY DEF Base, EndingFit
    <3>3. ExitOf(p) = {}
      BY <1>3 DEF ExitOf
    <3>. QED
      BY <1>12, <3>1, <3>2, <3>3
  <2>2. \A m \in Sent({"exit"}) : life'[m.pid] \in {"up", "dead"}
    <3>1. \A m \in Sent({"exit"}) : m.pid \in Pid /\ m.pid # p
      BY <1>3, <1>5, SetOf, Shapes DEF Sent
    <3>. QED
      BY <1>5, <1>11, <3>1
  <2>. QED
    BY <1>2, <1>5, <1>15, <2>1, <2>2 DEF EndingFit
<1>18. BootFit'
  <2>1. StartChildren \notin ToSet(queue')
    BY <1>5, <1>7, <1>8 DEF StartChildren
  <2>. QED
    BY <1>2, <1>6, <2>1 DEF BootFit
<1>19. JobFit'
  <2>1. Apart' = Apart /\ Work' = Work /\ RestartsOne' = RestartsOne
    BY <1>2, <1>10 DEF Apart, Child, Work, RestartsOne
  <2>2. /\ Pids(job'.before) \cup Pids(job'.after) \subseteq Pids(children') \cup {0}
        /\ job'.pid \notin Pids(children') \cup Pids(job'.group)
    BY <1>2, <1>3, <1>10 DEF Base, JobFit
  <2>3. /\ job'.kind # "none" /\ job'.at \in 1..Len(job'.group) + 1
        /\ \A i \in job'.at..Len(job'.group) : job'.group[i].pid = 0
        /\ job'.at <= Len(job'.group)
    BY <1>2, <1>10 DEF Base, JobFit
  <2>4. /\ job'.kind = "add" \/ RestartsOne' => Len(job'.group) <= 1
        /\ RestartsOne' =>
              \A i \in 1..Len(job'.group) : \E j \in 1..Len(config'.specs) :
                  config'.specs[j].id = job'.group[i].spec.id
    BY <1>2, <1>10, <2>1 DEF Base, JobFit
  <2>5. AllPairs(children', Apart') /\ AllPairs(Work', Apart')
    BY <1>2, <2>1 DEF Base, JobFit
  <2>. QED
    BY <1>2, <1>3, <1>10, <2>2, <2>3, <2>4, <2>5 DEF JobFit, Between
<1>. QED
  BY <1>8, <1>13, <1>16, <1>17, <1>18, <1>19 DEF Base

LEMMA RemovedAt ==
    ASSUME NEW S, NEW q \in Seq(S), NEW i \in 1..Len(q)
    PROVE  /\ RemoveAt(q, i) \in Seq(S) /\ Len(RemoveAt(q, i)) = Len(q) - 1
           /\ \A k \in 1..Len(q) - 1 :
                 RemoveAt(q, i)[k] = IF k < i THEN q[k] ELSE q[k + 1]
<1>1. Len(q) \in Nat /\ \A k \in 1..Len(q) : q[k] \in S
  BY SetOf
<1>2. PICK a : a = Ahead(q, i)
  OBVIOUS
<1>3. PICK b : b = Behind(q, i)
  OBVIOUS
<1>4. a \in Seq(S) /\ Len(a) = i - 1 /\ \A k \in 1..i - 1 : a[k] = q[k]
  BY <1>1, <1>2, SubSeqProperties DEF Ahead
<1>5. /\ b \in Seq(S) /\ Len(b) = Len(q) - i
      /\ \A k \in 1..Len(q) - i : b[k] = q[i + k]
  BY <1>1, <1>3, SubSeqProperties DEF Behind
<1>6. Len(a) + Len(b) = Len(q) - 1
  BY <1>1, <1>4, <1>5
<1>7. /\ a \o b \in Seq(S) /\ Len(a \o b) = Len(a) + Len(b)
      /\ \A k \in 1..Len(a) + Len(b) :
            (a \o b)[k] = IF k <= Len(a) THEN a[k] ELSE b[k - Len(a)]
  <2>1. a \in Seq(S) /\ b \in Seq(S)
    BY <1>4, <1>5
  <2>. QED
    BY <2>1, Joined
<1>8. ASSUME NEW k \in 1..Len(q) - 1
      PROVE  (a \o b)[k] = IF k < i THEN q[k] ELSE q[k + 1]
  <2>1. k \in 1..Len(a) + Len(b)
    BY <1>6
  <2>2. CASE k < i
    <3>1. k <= Len(a) /\ k \in 1..i - 1
      BY <1>1, <1>4, <2>2
    <3>2. (a \o b)[k] = a[k]
      BY <1>7, <2>1, <3>1
    <3>. QED
      BY <1>4, <2>2, <3>1, <3>2
  <2>3. CASE ~(k < i)
    <3>1. ~(k <= Len(a))
      BY <1>1, <1>4, <2>3
    <3>2. PICK n : n = k - Len(a)
      OBVIOUS
    <3>3. n \in 1..Len(q) - i /\ i + n = k + 1
      BY <1>1, <1>4, <2>3, <3>2
    <3>4. (a \o b)[k] = b[n]
      BY <1>7, <2>1, <3>1, <3>2
    <3>. QED
      BY <1>5, <2>3, <3>3, <3>4
  <2>. QED
    BY <2>2, <2>3
<1>9. RemoveAt(q, i) = a \o b
  BY <1>2, <1>3 DEF RemoveAt, Ahead, Behind
<1>. QED
  BY <1>6, <1>7, <1>8, <1>9

LEMMA IgnoredStep == Base /\ Ignored => Base'
<1> SUFFICES ASSUME Base, Ignored PROVE Base'
  OBVIOUS
<1>1. /\ pc = "start" /\ job.at <= Len(job.group) /\ Runs
      /\ job' = IF Simple \/ Temporary
                THEN [job EXCEPT !.group = RemoveAt(job.group, job.at)]
                ELSE [job EXCEPT !.at = job.at + 1]
      /\ pc' \in {"start", "fail"}
      /\ UNCHANGED <<config, queue, life, born, watched, inbox, children, replaced>>
  BY DEF Ignored, StartsNext, Runs, processes
<1>2. job \in Job
  BY DEF Base, TypeOK
<1>3. /\ job.group \in Seq(Child) /\ job.before \in Seq(Child)
      /\ job.after \in Seq(Child) /\ Len(job.group) \in Nat
  BY <1>2, JobParts
<1>4. /\ job.at \in 1..Len(job.group)
      /\ \A i \in job.at..Len(job.group) : job.group[i].pid = 0
      /\ job.kind # "none" /\ job.pid = 0
      /\ AllPairs(children, Apart) /\ AllPairs(Work, Apart)
      /\ job.kind = "add" \/ RestartsOne => Len(job.group) <= 1
      /\ RestartsOne =>
            \A i \in 1..Len(job.group) : \E j \in 1..Len(config.specs) :
                config.specs[j].id = job.group[i].spec.id
      /\ Pids(job.before) \cup Pids(job.after) \subseteq Pids(children) \cup {0}
  BY <1>1, <1>3 DEF Base, JobFit
<1>5. PICK g, n : /\ g = IF Simple \/ Temporary
                         THEN RemoveAt(job.group, job.at) ELSE job.group
                  /\ n = IF Simple \/ Temporary THEN job.at ELSE job.at + 1
  OBVIOUS
<1>6. /\ RemoveAt(job.group, job.at) \in Seq(Child)
      /\ Len(RemoveAt(job.group, job.at)) = Len(job.group) - 1
      /\ \A k \in 1..Len(job.group) - 1 :
            RemoveAt(job.group, job.at)[k] =
               IF k < job.at THEN job.group[k] ELSE job.group[k + 1]
  BY <1>3, <1>4, RemovedAt
<1>7. /\ g \in Seq(Child) /\ n \in Nat /\ n \in 1..Len(g) + 1
      /\ Len(g) <= Len(job.group) /\ Len(g) \in Nat
      /\ \A i \in n..Len(g) : g[i].pid = 0
      /\ \A i \in 1..Len(g) : \E k \in 1..Len(job.group) : g[i] = job.group[k]
  <2>1. CASE Simple \/ Temporary
    <3>1. /\ g \in Seq(Child) /\ Len(g) = Len(job.group) - 1 /\ n = job.at
          /\ \A k \in 1..Len(g) :
                g[k] = IF k < job.at THEN job.group[k] ELSE job.group[k + 1]
      BY <1>5, <1>6, <2>1
    <3>2. \A i \in 1..Len(g) : i \in 1..Len(job.group) /\ i + 1 \in 1..Len(job.group)
      BY <1>3, <3>1
    <3>3. ASSUME NEW i \in n..Len(g) PROVE g[i].pid = 0
      <4>1. i \in 1..Len(g) /\ ~(i < job.at) /\ i + 1 \in job.at..Len(job.group)
        BY <1>3, <1>4, <3>1
      <4>. QED
        BY <1>4, <3>1, <4>1
    <3>. QED
      BY <1>3, <1>4, <3>1, <3>2, <3>3
  <2>2. CASE ~(Simple \/ Temporary)
    BY <1>3, <1>4, <1>5, <2>2
  <2>. QED
    BY <2>1, <2>2
<1>8. /\ job' \in Job /\ job'.group = g /\ job'.at = n
      /\ job'.kind = job.kind /\ job'.pid = job.pid
      /\ job'.before = job.before /\ job'.after = job.after
  BY <1>1, <1>2, <1>5, <1>7 DEF Job
<1>9. AllPairs(job.before \o g \o job.after, Apart)
  <2>1. ToSet(g) \subseteq ToSet(job.group)
    <3>1. ToSet(RemoveAt(job.group, job.at)) \subseteq ToSet(job.group)
      BY <1>3, <1>4, Without
    <3>. QED
      BY <1>5, <3>1
  <2>2. AllPairs(job.group, Apart) => AllPairs(g, Apart)
    <3>1. AllPairs(job.group, Apart) =>
             AllPairs(RemoveAt(job.group, job.at), Apart)
      <4>1. SUFFICES ASSUME AllPairs(job.group, Apart)
                     PROVE  AllPairs(RemoveAt(job.group, job.at), Apart)
        OBVIOUS
      <4>2. job.group[job.at] \in Child
        BY <1>3, <1>4, SetOf
      <4>. QED
        BY <1>3, <1>4, <4>1, <4>2, PairsReplaced
    <3>. QED
      BY <1>5, <3>1
  <2>. QED
    BY <1>3, <1>4, <1>7, <2>1, <2>2, PairsDropped DEF Work
<1>10. TypeOK'
  BY <1>1, <1>8 DEF Base, TypeOK, Alive
<1>11. Single(queue') /\ StartingFit' /\ EndingFit' /\ BootFit'
  BY <1>1, NotTaken, QuietFits
<1>12. JobFit'
  <2>1. /\ Apart' = Apart /\ Work' = job.before \o g \o job.after
        /\ RestartsOne' = RestartsOne
    BY <1>1, <1>8 DEF Apart, Child, Work, RestartsOne
  <2>2. AllPairs(children', Apart') /\ AllPairs(Work', Apart')
    BY <1>1, <1>4, <1>9, <2>1
  <2>3. Pids(job'.before) \cup Pids(job'.after) \subseteq Pids(children') \cup {0}
    BY <1>1, <1>4, <1>8
  <2>4. job'.kind = "add" \/ RestartsOne' => Len(job'.group) <= 1
    BY <1>3, <1>4, <1>7, <1>8, <2>1
  <2>5. RestartsOne' =>
           \A i \in 1..Len(job'.group) : \E j \in 1..Len(config'.specs) :
              config'.specs[j].id = job'.group[i].spec.id
    <3>1. SUFFICES ASSUME RestartsOne, NEW i \in 1..Len(g)
                   PROVE  \E j \in 1..Len(config.specs) :
                             config.specs[j].id = g[i].spec.id
      BY <1>1, <1>8, <2>1
    <3>. QED
      BY <1>4, <1>7, <3>1
  <2>. QED
    BY <1>1, <1>4, <1>7, <1>8, <2>2, <2>3, <2>4, <2>5 DEF JobFit, Between
<1>. QED
  BY <1>10, <1>11, <1>12 DEF Base

LEMMA WorkIs ==
    ASSUME Base
    PROVE  /\ job \in Job /\ Work \in Seq(Child) /\ AllPairs(Work, Apart)
           /\ job.before \in Seq(Child) /\ job.group \in Seq(Child)
           /\ job.after \in Seq(Child)
           /\ Pids(Work) = Pids(job.before) \cup Pids(job.group) \cup Pids(job.after)
           /\ \A c : c \in ToSet(Work) <=> \/ c \in ToSet(job.before)
                                           \/ c \in ToSet(job.group)
                                           \/ c \in ToSet(job.after)
<1>1. job \in Job
  BY DEF Base, TypeOK
<1>2. PICK a, g, b : a = job.before /\ g = job.group /\ b = job.after
  OBVIOUS
<1>3. a \in Seq(Child) /\ g \in Seq(Child) /\ b \in Seq(Child)
  BY <1>1, <1>2, JobParts
<1>4. PICK h : h = a \o g
  OBVIOUS
<1>5. /\ h \in Seq(Child) /\ ToSet(h) = ToSet(a) \cup ToSet(g)
      /\ Pids(h) = Pids(a) \cup Pids(g)
  BY <1>3, <1>4, JoinedSet, PidsJoin
<1>6. /\ h \o b \in Seq(Child) /\ ToSet(h \o b) = ToSet(h) \cup ToSet(b)
      /\ Pids(h \o b) = Pids(h) \cup Pids(b)
  BY <1>3, <1>5, JoinedSet, PidsJoin
<1>7. Work = h \o b
  BY <1>2, <1>4 DEF Work
<1>8. AllPairs(Work, Apart)
  BY DEF Base, JobFit
<1>. QED
  BY <1>1, <1>2, <1>3, <1>5, <1>6, <1>7, <1>8

LEMMA AllStartedStep == Base /\ AllStarted => Base'
<1> SUFFICES ASSUME Base, AllStarted PROVE Base'
  OBVIOUS
<1>1. /\ pc = "start" /\ pc' = "take" /\ Runs /\ job' = NoJob
      /\ children' = Work
      /\ replaced' = IF job.kind = "add"
                     THEN replaced \cup (Pids(children) \ (Pids(Work) \cup {0}))
                     ELSE replaced
      /\ UNCHANGED <<config, queue, life, born, watched, inbox>>
  BY DEF AllStarted, Runs, processes, Work
<1>2. Work \in Seq(Child) /\ AllPairs(Work, Apart)
  BY WorkIs
<1>3. replaced' \subseteq Pid
  BY <1>1, PidsAre DEF Base, TypeOK
<1>4. TypeOK'
  BY <1>1, <1>2, <1>3, NoJobIs DEF Base, TypeOK, Alive
<1>5. Single(queue') /\ StartingFit' /\ EndingFit' /\ BootFit'
  BY <1>1, NotTaken, QuietFits
<1>6. JobFit'
  BY <1>1, <1>2, BetweenFits
<1>. QED
  BY <1>4, <1>5, <1>6 DEF Base

-----------------------------------------------------------------------------
(* Timers.                                                                 *)
LEMMA Fired ==
    ASSUME Base, queue # <<>>
    PROVE  /\ queue \in Seq(Post) /\ Head(queue) \in Post
           /\ Head(queue) \in ToSet(queue)
           /\ Tail(queue) \in Seq(Post) /\ Single(Tail(queue))
           /\ ToSet(queue) = {Head(queue)} \cup ToSet(Tail(queue))
           /\ \A K \in Classes : Head(queue).kind \in K => None(Tail(queue), K)
           /\ StartChildren \notin ToSet(Tail(queue))
<1>1. queue \in Seq(Post) /\ Single(queue)
  BY DEF Base, TypeOK, Post
<1>2. /\ Head(queue) \in Post /\ Tail(queue) \in Seq(Post) /\ Single(Tail(queue))
      /\ ToSet(queue) = {Head(queue)} \cup ToSet(Tail(queue))
      /\ \A K \in Classes : Head(queue).kind \in K => None(Tail(queue), K)
      /\ Head(queue) = queue[1]
  BY <1>1, TakesOne
<1>3. StartChildren \notin ToSet(Tail(queue))
  <2>1. SUFFICES ASSUME StartChildren \in ToSet(Tail(queue)) PROVE FALSE
    OBVIOUS
  <2>2. Head(queue) = StartChildren
    BY <1>2, <2>1 DEF Base, BootFit
  <2>3. StartChildren.kind = "start_children"
    BY DEF StartChildren
  <2>4. None(Tail(queue), {"start_children"})
    BY <1>2, <2>2, <2>3 DEF Classes
  <2>. QED
    BY <2>1, <2>3, <2>4 DEF None
<1>. QED
  BY <1>1, <1>2, <1>3

(* Its signals are gone, and the process it waits for is up or dead. *)
LEMMA SettledIs ==
    ASSUME Base, pc # "ack"
    PROVE  /\ \A q \in Pid : life[q] \in {"up", "dead"}
           /\ None(queue, Starting)
BY DEF Base, StartingFit, TypeOK, Sent, None

LEMMA JobKept ==
    ASSUME Base, UNCHANGED <<config, pc, children, job>>
    PROVE  JobFit'
<1>1. Running' = Running /\ Apart' = Apart /\ Work' = Work
  BY RunningKept DEF Apart, Child, Work
<1>2. RestartsOne' = RestartsOne /\ Between' = Between
  BY DEF RestartsOne, Between
<1>3. JobFit
  BY DEF Base
<1>4. AllPairs(children', Apart') /\ AllPairs(Work', Apart')
  BY <1>1, <1>3 DEF JobFit
<1>5. /\ Pids(job'.before) \cup Pids(job'.after) \subseteq Pids(children') \cup {0}
      /\ pc' = "ack" => job'.pid \notin Pids(children') \cup Pids(job'.group)
  BY <1>3 DEF JobFit
<1>. QED
  BY <1>1, <1>2, <1>3, <1>4, <1>5 DEF JobFit

(* A timer that starts and ends no process. *)
LEMMA Calm ==
    ASSUME Base, UNCHANGED <<life, watched>>, watched = {},
           None(queue', Starting), None(queue', Ending),
           \A q \in Pid : life[q] \in {"up", "dead"},
           \A m \in ToSet(queue') : m \in ToSet(queue) \/ m.kind = "flush",
           ToSet(inbox') \subseteq ToSet(inbox) \cup ToSet(queue),
           None(queue', {"flush"}) \/ pc' = "flush",
           (pc = "flush" => ~Alive(job.pid))'
    PROVE  StartingFit' /\ EndingFit'
<1>1. Sent(Starting)' = {} /\ Sent(Ending)' = {}
  BY DEF Sent, None
<1>2. StartingFit'
  BY <1>1 DEF StartingFit
<1>3. \A m \in Sent({"flush"})' : pc' = "flush"
  BY DEF Sent, None
<1>4. \A m \in Sent({"exit"})' : life'[m.pid] \in {"up", "dead"}
  BY DEF Base, EndingFit, Sent
<1>5. \A q \in Pid : ExitOf(q)' # {} => ~Alive(q)'
  <2>1. \A q \in Pid : ExitOf(q)' \subseteq ExitOf(q)
    BY DEF ExitOf
  <2>2. \A q \in Pid : ExitOf(q) # {} => ~Alive(q)
    BY DEF Base, EndingFit
  <2>3. \A q \in Pid : ~Alive(q) => ~Alive(q)'
    BY DEF Alive
  <2>. QED
    BY <2>1, <2>2, <2>3
<1>6. EndingFit'
  BY <1>1, <1>3, <1>4, <1>5 DEF EndingFit
<1>. QED
  BY <1>2, <1>6

LEMMA OnGoStep == Base /\ OnGo => Base'
<1> SUFFICES ASSUME Base, OnGo PROVE Base'
  OBVIOUS
<1>1. PICK p : p = Head(queue).pid
  OBVIOUS
<1>2. /\ queue # <<>> /\ Head(queue).kind = "go"
      /\ life' = [life EXCEPT ![p] = "init"] /\ queue' = Tail(queue)
      /\ UNCHANGED <<config, born, watched, inbox, pc, children, job, replaced>>
  BY <1>1 DEF OnGo, Fires
<1>3. /\ queue' \in Seq(Post) /\ Single(queue') /\ Head(queue) \in Post
      /\ ToSet(queue) = {Head(queue)} \cup ToSet(queue')
      /\ None(queue', Starting) /\ StartChildren \notin ToSet(queue')
  BY <1>2, Fired DEF Classes, Starting
<1>4. p \in Pid /\ Head(queue) \in Sent(Starting)
  BY <1>1, <1>2, <1>3, Shapes DEF Sent, Starting
<1>5. pc = "ack" /\ p = job.pid /\ life[p] = "pending"
  BY <1>1, <1>2, <1>4 DEF Base, StartingFit
<1>6. life \in [Pid -> {"pending", "init", "up", "zombie", "dead"}]
  BY DEF Base, TypeOK
<1>7. /\ life' \in [Pid -> {"pending", "init", "up", "zombie", "dead"}]
      /\ \A q \in Pid : life'[q] = IF q = p THEN "init" ELSE life[q]
  BY <1>2, <1>4, <1>6
<1>8. \A q \in Pid : Alive(q)' <=> Alive(q)
  BY <1>5, <1>7 DEF Alive
<1>9. TypeOK'
  <2>1. {q \in Pid : Alive(q)'} = {q \in Pid : Alive(q)}
    BY <1>8
  <2>. QED
    BY <1>2, <1>3, <1>7, <2>1 DEF Base, TypeOK, Post
<1>10. StartingFit'
  <2>1. Sent(Starting)' = {}
    BY <1>3 DEF Sent, None
  <2>2. \A q \in Pid : life'[q] \in {"pending", "init", "zombie"} =>
           pc = "ack" /\ q = job.pid /\ life'[q] # "pending"
    BY <1>5, <1>7 DEF Base, StartingFit
  <2>. QED
    BY <1>2, <2>1, <2>2 DEF StartingFit
<1>11. EndingFit'
  <2>1. Sent(Ending) = {} /\ watched = {} /\ Sent({"flush"}) = {}
    BY <1>5 DEF Base, EndingFit
  <2>2. Sent(Ending)' = {} /\ Sent({"flush"})' = {}
    BY <1>3, <2>1 DEF Sent
  <2>3. \A m \in Sent({"exit"})' : life'[m.pid] \in {"up", "dead"}
    <3>1. \A m \in Sent({"exit"})' : m \in Sent({"exit"}) /\ m.pid \in Pid
      BY <1>3, SetOf, Shapes DEF Sent
    <3>2. \A m \in Sent({"exit"}) : life[m.pid] \in {"up", "dead"}
      BY DEF Base, EndingFit
    <3>3. \A m \in Sent({"exit"}) : m.pid # p
      BY <1>5, <3>2
    <3>. QED
      BY <1>7, <3>1, <3>2, <3>3
  <2>4. \A q \in Pid : ExitOf(q)' # {} => ~Alive(q)'
    <3>1. \A q \in Pid : ExitOf(q)' \subseteq ExitOf(q)
      BY <1>2, <1>3 DEF ExitOf
    <3>. QED
      BY <1>8, <3>1 DEF Base, EndingFit
  <2>. QED
    BY <1>2, <1>5, <2>1, <2>2, <2>3, <2>4 DEF EndingFit
<1>12. BootFit'
  BY <1>2, <1>3, <1>5 DEF Base, BootFit
<1>13. JobFit'
  BY <1>2, JobKept
<1>. QED
  BY <1>3, <1>9, <1>10, <1>11, <1>12, <1>13 DEF Base

LEMMA OnMonitorStep == Base /\ OnMonitor => Base'
<1> SUFFICES ASSUME Base, OnMonitor PROVE Base'
  OBVIOUS
<1>1. PICK p : p = Head(queue).pid
  OBVIOUS
<1>2. /\ queue # <<>> /\ Head(queue).kind = "monitor" /\ queue' = Tail(queue)
      /\ watched' = IF Alive(p) THEN watched \cup {p} ELSE watched
      /\ UNCHANGED <<config, life, born, inbox, pc, children, job, replaced>>
  BY <1>1 DEF OnMonitor, Fires
<1>3. /\ queue' \in Seq(Post) /\ Single(queue') /\ Head(queue) \in Post
      /\ ToSet(queue) = {Head(queue)} \cup ToSet(queue')
      /\ None(queue', Ending) /\ StartChildren \notin ToSet(queue')
  BY <1>2, Fired DEF Classes, Ending
<1>4. p \in Pid /\ Head(queue) \in Sent(Ending)
  BY <1>1, <1>2, <1>3, Shapes DEF Sent, Ending
<1>5. pc = "down" /\ p = job.pid /\ watched = {}
  BY <1>1, <1>4 DEF Base, EndingFit
<1>6. \A q \in Pid : life[q] \in {"up", "dead"} /\ (Alive(q)' <=> Alive(q))
  BY <1>2, <1>5, SettledIs DEF Alive
<1>7. TypeOK'
  BY <1>2, <1>3, <1>4 DEF Base, TypeOK, Post, Alive
<1>8. StartingFit'
  <2>1. Sent(Starting)' = {}
    BY <1>3, <1>5, SettledIs DEF Sent, None
  <2>. QED
    BY <1>2, <1>6, <2>1 DEF StartingFit
<1>9. EndingFit'
  <2>1. Sent(Ending)' = {} /\ Sent({"flush"})' = {}
    BY <1>3, <1>5 DEF Sent, None, Base, EndingFit
  <2>2. \A m \in Sent({"exit"})' : life'[m.pid] \in {"up", "dead"}
    BY <1>2, <1>3 DEF Base, EndingFit, Sent
  <2>3. \A q \in Pid : ExitOf(q)' # {} => ~Alive(q)'
    <3>1. \A q \in Pid : ExitOf(q)' \subseteq ExitOf(q)
      BY <1>2, <1>3 DEF ExitOf
    <3>. QED
      BY <1>6, <3>1 DEF Base, EndingFit
  <2>4. \A q \in watched' : q = p /\ Alive(q)'
    BY <1>2, <1>4, <1>5, <1>6
  <2>. QED
    BY <1>2, <1>5, <2>1, <2>2, <2>3, <2>4 DEF EndingFit
<1>10. BootFit'
  BY <1>2, <1>3, <1>5 DEF Base, BootFit
<1>11. JobFit'
  BY <1>2, JobKept
<1>. QED
  BY <1>3, <1>7, <1>8, <1>9, <1>10, <1>11 DEF Base

(* A process whose context is destroyed sends the signals of its death. *)
LEMMA DeathStep ==
    ASSUME Base, NEW p \in Pid, NEW why \in {"normal", "error", "killed"},
           life[p] \in {"init", "up"}, Dies(p),
           NEW q \in Seq(Post), Single(q), ToSet(q) \subseteq ToSet(queue),
           queue' = q \o DeathOf(p, why),
           UNCHANGED <<config, inbox, pc, children, job, replaced>>
    PROVE  Base'
<1>1. /\ life' = [life EXCEPT ![p] = IF @ = "init" THEN "zombie" ELSE "dead"]
      /\ born' = Restrict(born, DOMAIN born \ {p})
      /\ watched' = watched \ {p}
  BY DEF Dies
<1>2. PICK add : add = DeathOf(p, why)
  OBVIOUS
<1>3. /\ add \in Seq(Post) /\ Single(add)
      /\ \A K \in Classes : K # Ending => None(add, K)
      /\ p \notin watched => None(add, Ending)
      /\ \A m \in ToSet(add) : \/ m = Exit(p, why)
                               \/ m = Sig("down", p) /\ p \in watched
  BY <1>2, DeathSends
<1>4. /\ Exit(p, why) \in Post /\ Exit(p, why).kind = "EXIT" /\ Exit(p, why).pid = p
      /\ Sig("down", p) \in Post /\ Sig("down", p).kind = "down"
      /\ Sig("down", p).pid = p
  BY Made
<1>5. /\ \A x \in watched : pc = "down" /\ x = job.pid /\ Alive(x)
      /\ \A m \in Sent(Ending) : /\ pc = "down" /\ m.pid = job.pid /\ watched = {}
                                 /\ m.kind = "down" => ~Alive(m.pid)
  BY DEF Base, EndingFit
<1>6. \A K \in Classes : None(q, K) \/ None(add, K)
  <2>1. p \in watched => None(queue, Ending)
    BY <1>5 DEF Sent, None
  <2>2. p \in watched => None(q, Ending)
    BY <2>1, NoneLess
  <2>. QED
    BY <1>3, <2>2
<1>7. /\ queue' \in Seq(Post) /\ Single(queue')
      /\ ToSet(queue') = ToSet(q) \cup ToSet(add)
  BY <1>2, <1>3, <1>6, Sends
<1>8. /\ life \in [Pid -> {"pending", "init", "up", "zombie", "dead"}]
      /\ born \in [{x \in Pid : Alive(x)} -> ChildSpec]
  BY DEF Base, TypeOK
<1>9. /\ life' \in [Pid -> {"pending", "init", "up", "zombie", "dead"}]
      /\ \A x \in Pid : life'[x] = IF x # p THEN life[x]
                                   ELSE IF life[p] = "init" THEN "zombie" ELSE "dead"
  BY <1>1, <1>8
<1>10. \A x \in Pid : Alive(x)' <=> Alive(x) /\ x # p
  BY <1>9 DEF Alive
<1>11. TypeOK'
  <2>1. {x \in Pid : Alive(x)'} = {x \in Pid : Alive(x)} \ {p}
    BY <1>10
  <2>2. born' \in [{x \in Pid : Alive(x)'} -> ChildSpec]
    BY <1>1, <1>8, <2>1 DEF Restrict
  <2>3. watched' \subseteq Pid
    BY <1>1 DEF Base, TypeOK
  <2>. QED
    BY <1>7, <1>9, <2>2, <2>3 DEF Base, TypeOK, Post
<1>12. Sent(Starting)' \subseteq Sent(Starting)
  BY <1>3, <1>7 DEF Sent, None, Classes, Starting, Ending
<1>13. StartingFit'
  <2>1. \A m \in Sent(Starting)' :
           /\ pc' = "ack" /\ m.pid = job'.pid
           /\ m.kind = "go" => life'[m.pid] = "pending"
           /\ m.kind = "ack" =>
                 /\ life'[m.pid] \in {"up", "dead"}
                 /\ m.how = "error" => life'[m.pid] = "dead"
    <3>1. TAKE m \in Sent(Starting)'
    <3>2. m \in ToSet(queue) /\ m \in Sent(Starting) /\ m.pid \in Pid
      <4>1. m \in Sent(Starting)
        BY <1>12
      <4>2. m \in ToSet(queue) /\ m.kind \in Starting
        BY <4>1 DEF Sent
      <4>3. queue \in Seq(Post)
        BY DEF Base, TypeOK, Post
      <4>. QED
        BY <4>1, <4>2, <4>3, SetOf, Shapes DEF Starting
    <3>3. /\ pc = "ack" /\ m.pid = job.pid
          /\ m.kind = "go" => life[m.pid] = "pending"
          /\ m.kind = "ack" =>
                /\ life[m.pid] \in {"up", "dead"}
                /\ m.how = "error" => life[m.pid] = "dead"
      BY <3>2 DEF Base, StartingFit
    <3>. QED
      BY <1>9, <3>2, <3>3
  <2>2. \A x \in Pid : life'[x] \in {"pending", "init", "zombie"} =>
           /\ pc = "ack" /\ x = job.pid
           /\ life'[x] # "pending" => Sent(Starting) = {}
    BY <1>9 DEF Base, StartingFit
  <2>. QED
    BY <1>12, <2>1, <2>2 DEF StartingFit
<1>14. EndingFit'
  <2>1. \A m \in Sent(Ending)' : /\ pc' = "down" /\ m.pid = job'.pid /\ watched' = {}
                                 /\ m.kind = "down" => ~Alive(m.pid)'
    <3>1. TAKE m \in Sent(Ending)'
    <3>2. m \in ToSet(queue') /\ m.kind \in Ending
      BY DEF Sent
    <3>3. CASE m \in ToSet(q)
      <4>1. m \in ToSet(queue) /\ m \in Sent(Ending)
        BY <3>2, <3>3 DEF Sent
      <4>2. m \in Post
        BY <3>3, SetOf
      <4>3. m.pid \in Pid
        BY <3>2, <4>2, Shapes DEF Ending
      <4>. QED
        BY <1>1, <1>5, <1>10, <4>1, <4>3
    <3>4. CASE m \in ToSet(add)
      <4>1. m = Sig("down", p) /\ p \in watched
        BY <1>3, <1>4, <3>2, <3>4 DEF Ending
      <4>. QED
        BY <1>1, <1>4, <1>5, <1>10, <4>1
    <3>. QED
      BY <1>7, <3>2, <3>3, <3>4
  <2>2. \A x \in watched' : pc' = "down" /\ x = job'.pid /\ Alive(x)'
    <3>1. watched \subseteq Pid
      BY DEF Base, TypeOK
    <3>. QED
      BY <1>1, <1>5, <1>10, <3>1
  <2>3. Sent({"flush"})' \subseteq Sent({"flush"})
    BY <1>3, <1>4, <1>7 DEF Sent
  <2>4. (pc = "flush" => ~Alive(job.pid))'
    <3>1. SUFFICES ASSUME pc = "flush" PROVE ~Alive(job.pid)'
      OBVIOUS
    <3>2. ~Alive(job.pid) /\ job.pid \in Pid
      <4>1. Running # 0 /\ job.group[Running].pid = job.pid
        BY <3>1 DEF Base, JobFit
      <4>2. job \in Job
        BY DEF Base, TypeOK
      <4>3. job.pid # 0
        BY <4>1, <4>2, JobParts, RunningIs
      <4>. QED
        BY <3>1, <4>2, <4>3, JobParts DEF Base, EndingFit
    <3>. QED
      BY <1>10, <3>2
  <2>5. \A m \in Sent({"exit"})' : life'[m.pid] \in {"up", "dead"}
    <3>1. TAKE m \in Sent({"exit"})'
    <3>2. m \in ToSet(q) /\ m.kind = "exit"
      BY <1>3, <1>4, <1>7 DEF Sent
    <3>3. m \in Sent({"exit"}) /\ m.pid \in Pid
      BY <3>2, SetOf, Shapes DEF Sent
    <3>4. life[m.pid] \in {"up", "dead"}
      BY <3>3 DEF Base, EndingFit
    <3>. QED
      BY <1>9, <3>3, <3>4
  <2>6. \A x \in Pid : ExitOf(x)' # {} => ~Alive(x)'
    <3>1. \A x \in Pid : x # p => ExitOf(x)' \subseteq ExitOf(x)
      BY <1>3, <1>4, <1>7 DEF ExitOf
    <3>2. \A x \in Pid : ExitOf(x) # {} => ~Alive(x)
      BY DEF Base, EndingFit
    <3>. QED
      BY <1>10, <3>1, <3>2
  <2>7. \A m \in Sent({"flush"}) : pc = "flush"
    BY DEF Base, EndingFit
  <2>. QED
    BY <2>1, <2>2, <2>3, <2>4, <2>5, <2>6, <2>7 DEF EndingFit
<1>15. BootFit'
  <2>1. StartChildren \notin ToSet(queue) \cup ToSet(inbox)
    BY DEF Base, BootFit
  <2>2. StartChildren.kind = "start_children"
    BY DEF StartChildren
  <2>3. \A m \in ToSet(add) : m # StartChildren
    BY <1>3, <1>4, <2>2
  <2>4. StartChildren \notin ToSet(queue')
    BY <1>7, <2>1, <2>3
  <2>. QED
    BY <2>1, <2>4 DEF BootFit
<1>16. JobFit'
  BY JobKept
<1>. QED
  BY <1>7, <1>11, <1>13, <1>14, <1>15, <1>16 DEF Base

LEMMA OnExitStep == Base /\ OnExit => Base'
<1> SUFFICES ASSUME Base, OnExit PROVE Base'
  OBVIOUS
<1>1. PICK p : p = Head(queue).pid
  OBVIOUS
<1>2. /\ queue # <<>> /\ Head(queue).kind = "exit" /\ ~Runs
      /\ UNCHANGED <<config, inbox, pc, children, job, replaced>>
      /\ \/ Alive(p) /\ Dies(p) /\ queue' = Tail(queue) \o DeathOf(p, "killed")
         \/ queue' = Tail(queue) /\ UNCHANGED <<life, born, watched>>
  BY <1>1 DEF OnExit, Fires, processes
<1>3. /\ Tail(queue) \in Seq(Post) /\ Single(Tail(queue)) /\ Head(queue) \in Post
      /\ ToSet(queue) = {Head(queue)} \cup ToSet(Tail(queue))
      /\ StartChildren \notin ToSet(Tail(queue))
  BY <1>2, Fired
<1>4. p \in Pid /\ Head(queue) \in Sent({"exit"})
  BY <1>1, <1>2, <1>3, Shapes DEF Sent
<1>5. life[p] \in {"up", "dead"}
  BY <1>1, <1>4 DEF Base, EndingFit
<1>6. CASE Alive(p) /\ Dies(p) /\ queue' = Tail(queue) \o DeathOf(p, "killed")
  <2>1. life[p] \in {"init", "up"}
    BY <1>5, <1>6 DEF Alive
  <2>. QED
    BY <1>2, <1>3, <1>4, <1>6, <2>1, DeathStep
<1>7. CASE queue' = Tail(queue) /\ UNCHANGED <<life, born, watched>>
  <2>1. Sent(Starting)' = Sent(Starting) /\ Sent(Ending)' = Sent(Ending)
    BY <1>2, <1>3, <1>7 DEF Sent, Starting, Ending
  <2>2. StartingFit'
    BY <1>2, <1>7, <2>1 DEF Base, StartingFit
  <2>3. \A x : Alive(x)' <=> Alive(x)
    BY <1>7 DEF Alive
  <2>4. EndingFit'
    <3>1. \A m \in Sent({"exit"})' : life'[m.pid] \in {"up", "dead"}
      BY <1>3, <1>7 DEF Base, EndingFit, Sent
    <3>2. Sent({"flush"})' \subseteq Sent({"flush"})
      BY <1>3, <1>7 DEF Sent
    <3>3. \A x \in Pid : ExitOf(x)' \subseteq ExitOf(x)
      BY <1>2, <1>3, <1>7 DEF ExitOf
    <3>4. (pc = "flush" => ~Alive(job.pid))'
      BY <1>2, <1>7 DEF Base, EndingFit, Alive
    <3>5. \A m \in Sent(Ending)' :
             /\ pc' = "down" /\ m.pid = job'.pid /\ watched' = {}
             /\ m.kind = "down" => ~Alive(m.pid)'
      BY <1>2, <1>7, <2>1, <2>3 DEF Base, EndingFit
    <3>6. \A x \in watched' : pc' = "down" /\ x = job'.pid /\ Alive(x)'
      BY <1>2, <1>7, <2>3 DEF Base, EndingFit
    <3>7. \A m \in Sent({"flush"}) : pc = "flush"
      BY DEF Base, EndingFit
    <3>8. \A x \in Pid : ExitOf(x)' # {} => ~Alive(x)'
      BY <2>3, <3>3 DEF Base, EndingFit
    <3>. QED
      BY <1>2, <3>1, <3>2, <3>4, <3>5, <3>6, <3>7, <3>8 DEF EndingFit
  <2>5. BootFit'
    BY <1>2, <1>3, <1>7 DEF Base, BootFit
  <2>6. JobFit'
    BY <1>2, JobKept
  <2>7. TypeOK'
    BY <1>2, <1>3, <1>7 DEF Base, TypeOK, Post, Alive
  <2>. QED
    BY <1>3, <1>7, <2>2, <2>4, <2>5, <2>6, <2>7 DEF Base
<1>. QED
  BY <1>2, <1>6, <1>7

LEMMA CrashStep ==
    ASSUME Base, NEW p \in Pid, NEW why \in {"normal", "error"}, Crash(p, why)
    PROVE  Base'
<1>1. /\ life[p] \in {"init", "up"} /\ Dies(p)
      /\ queue' = queue \o DeathOf(p, why)
      /\ UNCHANGED <<config, inbox, pc, children, job, replaced>>
  BY DEF Crash
<1>2. queue \in Seq(Post) /\ Single(queue)
  BY DEF Base, TypeOK, Post
<1>. QED
  BY <1>1, <1>2, DeathStep

(* What is sent on behalf of an init that ends. *)
LEMMA InitIs ==
    ASSUME Base, NEW p \in Pid, life[p] \in {"init", "zombie"}
    PROVE  /\ pc = "ack" /\ p = job.pid /\ watched = {}
           /\ queue \in Seq(Post) /\ Single(queue)
           /\ None(queue, Starting) /\ None(queue, Ending) /\ None(queue, {"flush"})
           /\ StartChildren \notin ToSet(queue) \cup ToSet(inbox)
           /\ \A x \in Pid : x # p => life[x] \in {"up", "dead"}
<1>1. queue \in Seq(Post) /\ Single(queue)
  BY DEF Base, TypeOK, Post
<1>2. /\ pc = "ack" /\ p = job.pid /\ Sent(Starting) = {}
      /\ \A x \in Pid : x # p => life[x] \in {"up", "dead"}
  BY DEF Base, StartingFit, TypeOK
<1>3. watched = {} /\ Sent(Ending) = {} /\ Sent({"flush"}) = {}
  BY <1>2 DEF Base, EndingFit
<1>4. StartChildren \notin ToSet(queue) \cup ToSet(inbox)
  BY DEF Base, BootFit
<1>. QED
  BY <1>1, <1>2, <1>3, <1>4 DEF Sent, None

(* An init ends: the process is up or dead, its answer is on its way, and  *)
(* perhaps its EXIT.                                                       *)
LEMMA InitStep ==
    ASSUME Base, NEW p \in Pid, life[p] \in {"init", "zombie"},
           NEW how \in {"ok", "error"}, NEW now \in {"up", "dead"},
           how = "error" => now = "dead",
           now = "up" => life[p] = "init",
           life' = [life EXCEPT ![p] = now],
           born' \in [{x \in Pid : Alive(x)'} -> ChildSpec],
           NEW add \in Seq(Post), queue' = queue \o One(Ack(p, how)) \o add,
           ToSet(add) \subseteq {Exit(p, "error")}, Single(add),
           now = "up" => add = <<>>,
           UNCHANGED <<config, watched, inbox, pc, children, job, replaced>>
    PROVE  Base'
<1>1. /\ pc = "ack" /\ p = job.pid /\ watched = {}
      /\ queue \in Seq(Post) /\ Single(queue)
      /\ None(queue, Starting) /\ None(queue, Ending) /\ None(queue, {"flush"})
      /\ StartChildren \notin ToSet(queue) \cup ToSet(inbox)
      /\ \A x \in Pid : x # p => life[x] \in {"up", "dead"}
  BY InitIs
<1>2. PICK a : a = Ack(p, how)
  OBVIOUS
<1>3. /\ a \in Post /\ a.kind = "ack" /\ a.pid = p /\ a.how = how
      /\ Exit(p, "error").kind = "EXIT" /\ Exit(p, "error").pid = p
  BY <1>2, Made
<1>4. PICK o : o = One(a)
  OBVIOUS
<1>5. /\ o \in Seq(Post) /\ Single(o) /\ ToSet(o) = {a}
      /\ \A K : "ack" \notin K => None(o, K)
  BY <1>3, <1>4, OneSingle
<1>6. \A K \in Classes : None(queue, K) \/ None(o, K)
  BY <1>1, <1>5 DEF Classes, Ending
<1>7. PICK h : h = queue \o o
  OBVIOUS
<1>8. h \in Seq(Post) /\ Single(h) /\ ToSet(h) = ToSet(queue) \cup {a}
  BY <1>1, <1>5, <1>6, <1>7, Sends
<1>9. \A K \in Classes : None(add, K)
  BY <1>3 DEF Classes, None, Starting, Ending
<1>10. h \o add \in Seq(Post) /\ Single(h \o add)
       /\ ToSet(h \o add) = ToSet(h) \cup ToSet(add)
  BY <1>8, <1>9, Sends
<1>11. /\ queue' \in Seq(Post) /\ Single(queue')
       /\ \A m \in ToSet(queue') : \/ m \in ToSet(queue)
                                   \/ m = a
                                   \/ m.kind = "EXIT" /\ m.pid = p
       /\ now = "up" => \A m \in ToSet(queue') : m \in ToSet(queue) \/ m = a
  <2>1. queue' = h \o add
    BY <1>2, <1>4, <1>7
  <2>2. now = "up" => ToSet(add) = {}
    BY OneSingle, <1>3
  <2>. QED
    BY <1>3, <1>8, <1>10, <2>1, <2>2
<1>12. life \in [Pid -> {"pending", "init", "up", "zombie", "dead"}]
  BY DEF Base, TypeOK
<1>13. /\ life' \in [Pid -> {"pending", "init", "up", "zombie", "dead"}]
       /\ \A x \in Pid : life'[x] = IF x = p THEN now ELSE life[x]
  BY <1>12
<1>14. \A x \in Pid : Alive(x)' => Alive(x)
  BY <1>13 DEF Alive
<1>15. \A x \in Pid : Alive(x)' <=> IF x = p THEN now = "up" ELSE Alive(x)
  BY <1>13 DEF Alive
<1>16. TypeOK'
  BY <1>11, <1>13 DEF Base, TypeOK, Post
<1>17. StartingFit'
  <2>1. Sent(Starting)' \subseteq {a}
    BY <1>1, <1>11 DEF Sent, None, Starting
  <2>2. \A x \in Pid : life'[x] \in {"up", "dead"}
    BY <1>1, <1>13
  <2>3. life'[p] = now
    BY <1>13
  <2>. QED
    BY <1>1, <1>3, <2>1, <2>2, <2>3 DEF StartingFit
<1>18. EndingFit'
  <2>1. Sent(Ending)' = {} /\ Sent({"flush"})' = {}
    BY <1>1, <1>3, <1>11 DEF Sent, None, Ending
  <2>2. \A m \in Sent({"exit"})' : life'[m.pid] \in {"up", "dead"}
    <3>1. TAKE m \in Sent({"exit"})'
    <3>2. m \in ToSet(queue) /\ m.kind = "exit"
      BY <1>3, <1>11 DEF Sent
    <3>3. m.pid \in Pid
      BY <1>1, <3>2, SetOf, Shapes
    <3>. QED
      BY <1>1, <1>13, <3>3
  <2>3. \A x \in Pid : ExitOf(x)' # {} => ~Alive(x)'
    <3>1. \A x \in Pid : x # p => ExitOf(x)' \subseteq ExitOf(x)
      BY <1>3, <1>11 DEF ExitOf
    <3>2. now = "up" => ExitOf(p)' \subseteq ExitOf(p)
      BY <1>3, <1>11 DEF ExitOf
    <3>3. \A x \in Pid : ExitOf(x) # {} => ~Alive(x)
      BY DEF Base, EndingFit
    <3>. QED
      BY <1>14, <1>15, <3>1, <3>2, <3>3
  <2>. QED
    BY <1>1, <2>1, <2>2, <2>3 DEF EndingFit
<1>19. BootFit'
  <2>1. StartChildren.kind = "start_children"
    BY DEF StartChildren
  <2>2. StartChildren \notin ToSet(queue')
    BY <1>1, <1>3, <1>11, <2>1
  <2>. QED
    BY <1>1, <2>2 DEF BootFit
<1>20. JobFit'
  BY JobKept
<1>. QED
  BY <1>11, <1>16, <1>17, <1>18, <1>19, <1>20 DEF Base

LEMMA InitOkStep ==
    ASSUME Base, NEW p \in Pid, InitOk(p)
    PROVE  Base'
<1>1. PICK now : now = IF life[p] = "init" THEN "up" ELSE "dead"
  OBVIOUS
<1>2. /\ life[p] \in {"init", "zombie"} /\ life' = [life EXCEPT ![p] = now]
      /\ queue' = queue \o ToSupervisor(<<Ack(p, "ok")>>)
      /\ UNCHANGED <<config, born, watched, inbox, pc, children, job, replaced>>
  BY <1>1 DEF InitOk
<1>3. pc = "ack" /\ queue \in Seq(Post)
  BY <1>2, InitIs
<1>4. queue' = queue \o One(Ack(p, "ok"))
  BY <1>2, <1>3 DEF ToSupervisor, One
<1>5. PICK o : o = One(Ack(p, "ok"))
  OBVIOUS
<1>6. o \in Seq(Post) /\ <<>> \in Seq(Post) /\ Single(<<>>) /\ ToSet(<<>>) = {}
  BY <1>5, Made, OneSingle
<1>7. queue \o o \o <<>> = queue \o o
  <2>1. queue \o o \in Seq(Post)
    BY <1>3, <1>6, JoinedSet
  <2>. QED
    BY <2>1, ConcatEmptySeq
<1>8. {x \in Pid : Alive(x)'} = {x \in Pid : Alive(x)}
  <2>1. life \in [Pid -> {"pending", "init", "up", "zombie", "dead"}]
    BY DEF Base, TypeOK
  <2>. QED
    BY <1>1, <1>2, <2>1 DEF Alive
<1>9. born' \in [{x \in Pid : Alive(x)'} -> ChildSpec]
  BY <1>2, <1>8 DEF Base, TypeOK
<1>10. now \in {"up", "dead"} /\ (now = "up" => life[p] = "init")
  BY <1>1
<1>11. queue' = queue \o One(Ack(p, "ok")) \o <<>>
  BY <1>4, <1>5, <1>7
<1>. QED
  BY <1>2, <1>6, <1>9, <1>10, <1>11, InitStep

LEMMA InitFailStep ==
    ASSUME Base, NEW p \in Pid, InitFail(p)
    PROVE  Base'
<1>1. /\ life[p] \in {"init", "zombie"} /\ life' = [life EXCEPT ![p] = "dead"]
      /\ born' = Restrict(born, DOMAIN born \ {p}) /\ watched' = watched \ {p}
      /\ queue' = queue \o ToSupervisor(<<Ack(p, "error")>>)
                        \o IF life[p] = "init" THEN DeathOf(p, "error") ELSE <<>>
      /\ UNCHANGED <<config, inbox, pc, children, job, replaced>>
  BY DEF InitFail
<1>2. pc = "ack" /\ watched = {} /\ watched' = watched
  BY <1>1, InitIs
<1>3. PICK add : add = IF life[p] = "init" THEN DeathOf(p, "error") ELSE <<>>
  OBVIOUS
<1>4. queue' = queue \o One(Ack(p, "error")) \o add
  BY <1>1, <1>2, <1>3 DEF ToSupervisor, One
<1>5. add \in Seq(Post) /\ Single(add) /\ ToSet(add) \subseteq {Exit(p, "error")}
  <2>1. PICK d : d = DeathOf(p, "error")
    OBVIOUS
  <2>2. /\ d \in Seq(Post) /\ Single(d)
        /\ \A m \in ToSet(d) : m = Exit(p, "error")
    BY <1>2, <2>1, DeathSends
  <2>3. <<>> \in Seq(Post) /\ Single(<<>>) /\ ToSet(<<>>) = {}
    BY Made, OneSingle
  <2>. QED
    BY <1>3, <2>1, <2>2, <2>3
<1>6. born' \in [{x \in Pid : Alive(x)'} -> ChildSpec]
  <2>1. /\ life \in [Pid -> {"pending", "init", "up", "zombie", "dead"}]
        /\ born \in [{x \in Pid : Alive(x)} -> ChildSpec]
    BY DEF Base, TypeOK
  <2>2. {x \in Pid : Alive(x)'} = {x \in Pid : Alive(x)} \ {p}
    BY <1>1, <2>1 DEF Alive
  <2>. QED
    BY <1>1, <2>1, <2>2 DEF Restrict
<1>. QED
  BY <1>1, <1>2, <1>4, <1>5, <1>6, InitStep

LEMMA StartChildStep ==
    ASSUME Base, NEW spec \in config.extra, StartChild(spec)
    PROVE  Base'
<1>1. /\ ~Runs /\ queue' = Append(queue, StartChildOf(spec))
      /\ UNCHANGED <<config, life, born, watched, inbox, pc, children, job, replaced>>
  BY DEF StartChild, processes
<1>2. spec \in ChildSpec
  BY Configured DEF Base, TypeOK
<1>3. PICK m \in Post : m = StartChildOf(spec) /\ m.kind = "start_child"
  BY <1>2, Made
<1>4. queue \in Seq(Post) /\ Single(queue)
  BY DEF Base, TypeOK, Post
<1>5. \A K \in Classes : m.kind \notin K
  BY <1>3 DEF Classes, Starting, Ending
<1>6. /\ queue' \in Seq(Post) /\ Single(queue')
      /\ ToSet(queue') = ToSet(queue) \cup {m}
  BY <1>1, <1>3, <1>4, <1>5, SendsOne
<1>7. /\ Sent(Starting)' = Sent(Starting) /\ Sent(Ending)' = Sent(Ending)
      /\ Sent({"flush"})' = Sent({"flush"}) /\ Sent({"exit"})' = Sent({"exit"})
      /\ \A x \in Pid : ExitOf(x)' = ExitOf(x)
  BY <1>1, <1>3, <1>6 DEF Sent, ExitOf, Starting, Ending
<1>8. \A x : Alive(x)' <=> Alive(x)
  BY <1>1 DEF Alive
<1>9. StartingFit'
  BY <1>1, <1>7 DEF Base, StartingFit
<1>10. EndingFit'
  <2>1. (pc = "flush" => ~Alive(job.pid))'
    BY <1>1 DEF Base, EndingFit, Alive
  <2>. QED
    BY <1>1, <1>7, <1>8, <2>1 DEF Base, EndingFit
<1>11. BootFit'
  <2>1. StartChildren.kind = "start_children"
    BY DEF StartChildren
  <2>2. StartChildren \in ToSet(queue') <=> StartChildren \in ToSet(queue)
    BY <1>3, <1>6, <2>1
  <2>3. StartChildren \in ToSet(queue) => queue'[1] = queue[1]
    <3>1. SUFFICES ASSUME StartChildren \in ToSet(queue) PROVE queue'[1] = queue[1]
      OBVIOUS
    <3>2. 1 \in 1..Len(queue)
      BY <1>4, <3>1, SetOf
    <3>. QED
      BY <1>1, <1>3, <1>4, <3>2, AppendProperties
  <2>. QED
    BY <1>1, <2>2, <2>3 DEF Base, BootFit
<1>12. JobFit'
  BY <1>1, JobKept
<1>13. TypeOK'
  BY <1>1, <1>6 DEF Base, TypeOK, Post, Alive
<1>. QED
  BY <1>6, <1>9, <1>10, <1>11, <1>12, <1>13 DEF Base

(* The child that the supervisor waited for is gone. *)
LEMMA TerminatedFits ==
    ASSUME Base, pc \in {"down", "flush"}, job' = Terminated, pc' = "terminate",
           config' = config, children' = children
    PROVE  /\ job' \in Job /\ JobFit'
           /\ \E c \in Child :
                 /\ c.pid = 0 /\ c.spec = job.group[Running].spec
                 /\ Running \in 1..Len(job.group)
                 /\ job'.group = With(job.group, Running, c)
           /\ job'.before = job.before /\ job'.after = job.after
           /\ job'.pid = 0 /\ job'.kind = job.kind
<1>1. /\ job \in Job /\ job.kind = "restart" /\ config.strategy # "one_for_one"
      /\ job.at = 1 /\ Running # 0 /\ job.group[Running].pid = job.pid
      /\ Pids(job.before) \cup Pids(job.after) \subseteq Pids(children) \cup {0}
      /\ AllPairs(children, Apart) /\ AllPairs(Work, Apart)
  BY DEF Base, TypeOK, JobFit
<1>2. /\ job.group \in Seq(Child) /\ job.before \in Seq(Child)
      /\ job.after \in Seq(Child)
  BY <1>1, JobParts
<1>3. PICK i \in 1..Len(job.group) : i = Running
  BY <1>1, <1>2, RunningIs
<1>4. job.group[i] \in Child
  BY <1>2, SetOf
<1>5. PICK x \in Child : /\ x = Zero(job.group[i]) /\ x.pid = 0
                         /\ x.spec = job.group[i].spec
                         /\ \A e \in Child : x \in Apart[e] /\ e \in Apart[x]
  BY <1>4, Zeroed
<1>6. PICK g : g = With(job.group, i, x)
  OBVIOUS
<1>7. g \in Seq(Child) /\ AllPairs(job.before \o g \o job.after, Apart)
  <2>1. g \in Seq(Child)
    BY <1>2, <1>6, PidsAbout
  <2>2. /\ \A c \in ToSet(job.before) \cup ToSet(job.group) : x \in Apart[c]
        /\ \A d \in ToSet(job.group) \cup ToSet(job.after) : d \in Apart[x]
    BY <1>2, <1>5, PidsAre
  <2>3. PICK a, q, b : a = job.before /\ q = job.group /\ b = job.after
    OBVIOUS
  <2>4. /\ a \in Seq(Child) /\ q \in Seq(Child) /\ b \in Seq(Child)
        /\ i \in 1..Len(q) /\ AllPairs(a \o q \o b, Apart)
    BY <1>1, <1>2, <2>3 DEF Work
  <2>5. /\ \A c \in ToSet(a) \cup ToSet(q) : q[i] \in Apart[c] => x \in Apart[c]
        /\ \A d \in ToSet(q) \cup ToSet(b) : d \in Apart[q[i]] => d \in Apart[x]
    BY <2>2, <2>3
  <2>6. AllPairs(a \o With(q, i, x) \o b, Apart)
    BY <2>4, <2>5, PairsPatched
  <2>. QED
    BY <1>6, <2>1, <2>3, <2>6
<1>8. /\ job'.group = g /\ job' \in Job /\ job'.pid = 0
      /\ job'.before = job.before /\ job'.after = job.after
      /\ job'.kind = job.kind /\ job'.at = job.at
  <2>1. job' = [job EXCEPT !.group = g, !.pid = 0]
    <3>1. Terminated =
             [job EXCEPT !.group = [job.group EXCEPT ![Running] =
                                      [job.group[Running] EXCEPT !.pid = 0]],
                         !.pid = 0]
      BY <1>1 DEF Terminated, Job
    <3>2. g = [job.group EXCEPT ![Running] = [job.group[Running] EXCEPT !.pid = 0]]
      BY <1>3, <1>5, <1>6 DEF With, Zero
    <3>. QED
      BY <3>1, <3>2
  <2>. QED
    BY <1>1, <1>7, <2>1 DEF Job
<1>9. JobFit'
  <2>1. Apart' = Apart /\ Work' = job.before \o g \o job.after
    BY <1>8 DEF Apart, Child, Work
  <2>2. ~RestartsOne'
    BY <1>1 DEF RestartsOne
  <2>3. Pids(job'.before) \cup Pids(job'.after) \subseteq Pids(children') \cup {0}
    BY <1>1, <1>8
  <2>. QED
    BY <1>1, <1>7, <1>8, <2>1, <2>2, <2>3 DEF JobFit, Between
<1>. QED
  BY <1>3, <1>5, <1>6, <1>8, <1>9

(* The process it waits for. *)
LEMMA AwaitedIs ==
    ASSUME Base, pc \in {"down", "flush"}
    PROVE  job.pid \in Pid /\ job.pid # 0
<1>1. Running # 0 /\ job.group[Running].pid = job.pid /\ job \in Job
  BY DEF Base, TypeOK, JobFit
<1>2. job.pid # 0
  BY <1>1, JobParts, RunningIs
<1>. QED
  BY <1>1, <1>2, JobParts

LEMMA OnDownStep == Base /\ OnDown => Base'
<1> SUFFICES ASSUME Base, OnDown PROVE Base'
  OBVIOUS
<1>1. PICK p : p = Head(queue).pid
  OBVIOUS
<1>2. /\ queue # <<>> /\ Head(queue).kind = "down" /\ pc = "down"
      /\ UNCHANGED <<config, life, born, watched, children, replaced>>
      /\ \/ /\ queue' = Tail(queue) /\ inbox' = Flush(p)
            /\ job' = Terminated /\ pc' = "terminate"
         \/ /\ queue' = Append(Tail(queue), Sig("flush", p)) /\ pc' = "flush"
            /\ UNCHANGED <<inbox, job>>
  BY <1>1 DEF OnDown, Fires, processes
<1>3. /\ Tail(queue) \in Seq(Post) /\ Single(Tail(queue)) /\ Head(queue) \in Post
      /\ ToSet(queue) = {Head(queue)} \cup ToSet(Tail(queue))
      /\ None(Tail(queue), Ending) /\ StartChildren \notin ToSet(Tail(queue))
  BY <1>2, Fired DEF Classes, Ending
<1>4. p \in Pid /\ Head(queue) \in Sent(Ending)
  BY <1>1, <1>2, <1>3, Shapes DEF Sent, Ending
<1>5. /\ p = job.pid /\ watched = {} /\ ~Alive(p) /\ Sent({"flush"}) = {}
      /\ StartChildren \notin ToSet(inbox) /\ inbox \in Seq(Message)
  BY <1>1, <1>2, <1>4 DEF Base, EndingFit, BootFit, TypeOK
<1>6. None(queue, Starting) /\ \A q \in Pid : life[q] \in {"up", "dead"}
  BY <1>2, SettledIs
<1>7. None(Tail(queue), Starting) /\ None(Tail(queue), {"flush"})
  BY <1>3, <1>5, <1>6 DEF None, Sent
<1>8. CASE /\ queue' = Tail(queue) /\ inbox' = Flush(p)
           /\ job' = Terminated /\ pc' = "terminate"
  <2>1. inbox' \in Seq(Message) /\ ToSet(inbox') \subseteq ToSet(inbox)
    BY <1>5, <1>8, Flushed
  <2>2. job' \in Job /\ JobFit'
    BY <1>2, <1>8, TerminatedFits
  <2>3. StartingFit' /\ EndingFit'
    BY <1>2, <1>3, <1>5, <1>6, <1>7, <1>8, <2>1, Calm
  <2>4. TypeOK'
    BY <1>2, <1>3, <1>8, <2>1, <2>2 DEF Base, TypeOK, Post, Alive
  <2>5. BootFit'
    BY <1>3, <1>5, <1>8, <2>1 DEF BootFit
  <2>. QED
    BY <1>3, <1>8, <2>2, <2>3, <2>4, <2>5 DEF Base
<1>9. CASE /\ queue' = Append(Tail(queue), Sig("flush", p)) /\ pc' = "flush"
           /\ UNCHANGED <<inbox, job>>
  <2>1. PICK m \in Post : m = Sig("flush", p) /\ m.kind = "flush"
    BY <1>4, Made
  <2>2. \A K \in Classes : m.kind \in K => None(Tail(queue), K)
    BY <1>7, <2>1 DEF Classes, Starting, Ending
  <2>3. /\ queue' \in Seq(Post) /\ Single(queue')
        /\ ToSet(queue') = ToSet(Tail(queue)) \cup {m}
    BY <1>3, <1>9, <2>1, <2>2, SendsOne
  <2>4. None(queue', Starting) /\ None(queue', Ending)
    BY <1>3, <1>7, <2>1, <2>3 DEF None, Starting, Ending
  <2>5. (pc = "flush" => ~Alive(job.pid))'
    BY <1>2, <1>5, <1>9 DEF Alive
  <2>6. \A x \in ToSet(queue') : x \in ToSet(queue) \/ x.kind = "flush"
    BY <1>3, <2>1, <2>3
  <2>7. StartingFit' /\ EndingFit'
    BY <1>2, <1>5, <1>6, <1>9, <2>4, <2>5, <2>6, Calm
  <2>8. TypeOK'
    BY <1>2, <1>9, <2>3 DEF Base, TypeOK, Post, Alive
  <2>9. BootFit'
    <3>1. StartChildren.kind = "start_children"
      BY DEF StartChildren
    <3>2. StartChildren \notin ToSet(queue')
      BY <1>3, <2>1, <2>3, <3>1
    <3>. QED
      BY <1>5, <1>9, <3>2 DEF BootFit
  <2>10. JobFit'
    <3>1. Running' = Running /\ Apart' = Apart /\ Work' = Work
      BY <1>9, RunningKept DEF Apart, Child, Work
    <3>2. /\ job.kind = "restart" /\ config.strategy # "one_for_one" /\ job.at = 1
          /\ Running # 0 /\ job.group[Running].pid = job.pid
          /\ Pids(job.before) \cup Pids(job.after) \subseteq Pids(children) \cup {0}
          /\ AllPairs(children, Apart) /\ AllPairs(Work, Apart)
      BY <1>2 DEF Base, JobFit
    <3>3. AllPairs(children', Apart') /\ AllPairs(Work', Apart')
      BY <1>2, <3>1, <3>2
    <3>4. ~RestartsOne'
      BY <1>2, <3>2 DEF RestartsOne
    <3>5. Pids(job'.before) \cup Pids(job'.after) \subseteq Pids(children') \cup {0}
      BY <1>2, <1>9, <3>2
    <3>. QED
      BY <1>2, <1>9, <3>1, <3>2, <3>3, <3>4, <3>5 DEF JobFit, Between
  <2>. QED
    BY <2>3, <2>7, <2>8, <2>9, <2>10 DEF Base
<1>. QED
  BY <1>2, <1>8, <1>9

LEMMA OnFlushStep == Base /\ OnFlush => Base'
<1> SUFFICES ASSUME Base, OnFlush PROVE Base'
  OBVIOUS
<1>1. /\ queue # <<>> /\ Head(queue).kind = "flush"
      /\ queue' = Tail(queue) /\ job' = Terminated /\ pc' = "terminate"
      /\ UNCHANGED <<config, life, born, watched, inbox, children, replaced>>
  BY DEF OnFlush, Fires, processes
<1>2. /\ Tail(queue) \in Seq(Post) /\ Single(Tail(queue)) /\ Head(queue) \in Post
      /\ ToSet(queue) = {Head(queue)} \cup ToSet(Tail(queue))
      /\ None(Tail(queue), {"flush"}) /\ StartChildren \notin ToSet(Tail(queue))
  BY <1>1, Fired DEF Classes
<1>3. Head(queue) \in Sent({"flush"})
  BY <1>1, <1>2 DEF Sent
<1>4. /\ pc = "flush" /\ watched = {} /\ Sent(Ending) = {}
      /\ StartChildren \notin ToSet(inbox)
  BY <1>3 DEF Base, EndingFit, BootFit
<1>5. None(queue, Starting) /\ \A q \in Pid : life[q] \in {"up", "dead"}
  BY <1>4, SettledIs
<1>6. None(Tail(queue), Starting) /\ None(Tail(queue), Ending)
  BY <1>2, <1>4, <1>5 DEF None, Sent
<1>7. job' \in Job /\ JobFit'
  BY <1>1, <1>4, TerminatedFits
<1>8. StartingFit' /\ EndingFit'
  BY <1>1, <1>2, <1>4, <1>5, <1>6, Calm
<1>9. TypeOK'
  BY <1>1, <1>2, <1>7 DEF Base, TypeOK, Post, Alive
<1>10. BootFit'
  BY <1>1, <1>2, <1>4 DEF BootFit
<1>. QED
  BY <1>1, <1>2, <1>7, <1>8, <1>9, <1>10 DEF Base

LEMMA OnMessageStep == Base /\ OnMessage => Base'
<1> SUFFICES ASSUME Base, OnMessage PROVE Base'
  OBVIOUS
<1>1. PICK m : m = Head(queue)
  OBVIOUS
<1>2. /\ queue # <<>> /\ ~Runs
      /\ m.kind \in {"EXIT", "start_children", "start_child"}
      /\ UNCHANGED <<config, life, born, watched, children, replaced>>
      /\ \/ /\ pc = "dead" /\ queue' = Tail(queue)
            /\ UNCHANGED <<inbox, pc, job>>
         \/ /\ pc = "flush" /\ job' = Terminated /\ pc' = "terminate"
            /\ queue' = RemoveFirstMatch(Tail(queue), IsFlush)
            /\ UNCHANGED inbox
         \/ /\ pc # "dead" /\ queue' = Tail(queue) /\ inbox' = Append(inbox, m)
            /\ pc' = (IF pc = "idle" THEN "take" ELSE pc)
            /\ UNCHANGED job
  BY <1>1 DEF OnMessage, Fires, processes
<1>3. /\ Tail(queue) \in Seq(Post) /\ Single(Tail(queue)) /\ m \in Post
      /\ queue \in Seq(Post) /\ m \in ToSet(queue)
      /\ ToSet(queue) = {m} \cup ToSet(Tail(queue))
      /\ StartChildren \notin ToSet(Tail(queue))
  BY <1>1, <1>2, Fired
<1>4. m \in Message
  BY <1>2, <1>3, Shapes
<1>5. \A x : Alive(x)' <=> Alive(x)
  BY <1>2 DEF Alive
<1>6. inbox \in Seq(Message)
  BY DEF Base, TypeOK
(* Nothing but a message leaves the queue. *)
<1>7. ASSUME queue' = Tail(queue), job' = job,
             ToSet(inbox') \subseteq ToSet(inbox) \cup {m},
             pc' = IF pc = "idle" THEN "take" ELSE pc
      PROVE  Single(queue') /\ StartingFit' /\ EndingFit'
  <2>1. /\ Sent(Starting)' = Sent(Starting) /\ Sent(Ending)' = Sent(Ending)
        /\ Sent({"flush"})' = Sent({"flush"}) /\ Sent({"exit"})' = Sent({"exit"})
    BY <1>2, <1>3, <1>7 DEF Sent, Starting, Ending
  <2>2. \A x \in Pid : ExitOf(x)' \subseteq ExitOf(x)
    BY <1>3, <1>7 DEF ExitOf
  <2>3. StartingFit'
    BY <1>2, <1>7, <2>1 DEF Base, StartingFit
  <2>4. (pc = "flush" => ~Alive(job.pid))'
    BY <1>2, <1>7 DEF Base, EndingFit, Alive
  <2>5. \A x \in Sent(Ending)' :
           /\ pc' = "down" /\ x.pid = job'.pid /\ watched' = {}
           /\ x.kind = "down" => ~Alive(x.pid)'
    BY <1>2, <1>5, <1>7, <2>1 DEF Base, EndingFit
  <2>6. \A x \in watched' : pc' = "down" /\ x = job'.pid /\ Alive(x)'
    BY <1>2, <1>5, <1>7 DEF Base, EndingFit
  <2>7. \A x \in Sent({"flush"})' : pc' = "flush"
    BY <1>7, <2>1 DEF Base, EndingFit
  <2>8. \A x \in Sent({"exit"})' : life'[x.pid] \in {"up", "dead"}
    BY <1>2, <2>1 DEF Base, EndingFit
  <2>9. \A x \in Pid : ExitOf(x)' # {} => ~Alive(x)'
    BY <1>5, <2>2 DEF Base, EndingFit
  <2>10. EndingFit'
    BY <2>4, <2>5, <2>6, <2>7, <2>8, <2>9 DEF EndingFit
  <2>. QED
    BY <1>3, <1>7, <2>3, <2>10
<1>8. CASE pc = "dead" /\ queue' = Tail(queue) /\ UNCHANGED <<inbox, pc, job>>
  <2>1. Single(queue') /\ StartingFit' /\ EndingFit'
    BY <1>7, <1>8
  <2>2. TypeOK'
    BY <1>2, <1>3, <1>8 DEF Base, TypeOK, Post, Alive
  <2>3. BootFit'
    BY <1>3, <1>8 DEF Base, BootFit
  <2>4. JobFit'
    BY <1>2, <1>8, JobKept
  <2>. QED
    BY <2>1, <2>2, <2>3, <2>4 DEF Base
<1>9. CASE /\ pc = "flush" /\ job' = Terminated /\ pc' = "terminate"
           /\ queue' = RemoveFirstMatch(Tail(queue), IsFlush)
           /\ UNCHANGED inbox
  <2>1. /\ queue' \in Seq(Post) /\ Single(queue')
        /\ ToSet(queue') \subseteq ToSet(Tail(queue))
        /\ None(queue', {"flush"})
    BY <1>3, <1>9, Unflushed
  <2>2. /\ watched = {} /\ Sent(Ending) = {} /\ StartChildren \notin ToSet(inbox)
    BY <1>9 DEF Base, EndingFit, BootFit
  <2>3. None(queue, Starting) /\ \A q \in Pid : life[q] \in {"up", "dead"}
    BY <1>9, SettledIs
  <2>4. ToSet(queue') \subseteq ToSet(queue)
    BY <1>3, <2>1
  <2>5. None(queue', Starting) /\ None(queue', Ending)
    BY <2>2, <2>3, <2>4 DEF None, Sent
  <2>6. job' \in Job /\ JobFit'
    BY <1>2, <1>9, TerminatedFits
  <2>7. StartingFit' /\ EndingFit'
    BY <1>2, <1>9, <2>1, <2>2, <2>3, <2>4, <2>5, Calm
  <2>8. TypeOK'
    BY <1>2, <1>9, <2>1, <2>6 DEF Base, TypeOK, Post, Alive
  <2>9. BootFit'
    BY <1>3, <1>9, <2>1, <2>2 DEF BootFit
  <2>. QED
    BY <2>1, <2>6, <2>7, <2>8, <2>9 DEF Base
<1>10. CASE /\ pc # "dead" /\ queue' = Tail(queue) /\ inbox' = Append(inbox, m)
            /\ pc' = (IF pc = "idle" THEN "take" ELSE pc)
            /\ UNCHANGED job
  <2>1. inbox' = inbox \o One(m)
    BY <1>4, <1>6, <1>10, AppendOne
  <2>2. /\ inbox' \in Seq(Message)
        /\ ToSet(inbox') = ToSet(inbox) \cup {m}
    <3>1. PICK o : o = One(m)
      OBVIOUS
    <3>2. o \in Seq(Message) /\ ToSet(o) = {m}
      BY <1>4, <3>1, OneIn
    <3>. QED
      BY <1>6, <2>1, <3>1, <3>2, JoinedSet
  <2>3. Single(queue') /\ StartingFit' /\ EndingFit'
    BY <1>7, <1>10, <2>2
  <2>4. TypeOK'
    BY <1>2, <1>3, <1>10, <2>2 DEF Base, TypeOK, Post, Alive
  <2>5. JobFit'
    <3>1. CASE pc = "idle"
      BY <1>2, <1>10, <3>1, BetweenFits DEF Base, JobFit, Between
    <3>2. CASE pc # "idle"
      BY <1>2, <1>10, <3>2, JobKept
    <3>. QED
      BY <3>1, <3>2
  <2>6. BootFit'
    <3>1. StartChildren \notin ToSet(inbox)
      BY <1>2 DEF Base, BootFit, Runs
    <3>2. StartChildren \in ToSet(inbox') =>
             /\ m = StartChildren /\ pc = "idle" /\ inbox = <<>>
             /\ children = <<>> /\ \A p \in Pid : life[p] = "dead"
      BY <1>3, <2>2, <3>1 DEF Base, BootFit
    <3>3. inbox = <<>> => inbox' = <<m>>
      BY <1>10
    <3>. QED
      BY <1>2, <1>3, <1>10, <3>2, <3>3 DEF BootFit
  <2>. QED
    BY <2>3, <2>4, <2>5, <2>6 DEF Base
<1>. QED
  BY <1>2, <1>8, <1>9, <1>10

(* The init_ack of the process that was started. *)
LEMMA AckIs ==
    ASSUME Base, OnAck
    PROVE  /\ pc = "ack" /\ job.pid \in Pid /\ job \in Job
           /\ queue' = Tail(queue) /\ queue' \in Seq(Post) /\ Single(queue')
           /\ ToSet(queue') \subseteq ToSet(queue)
           /\ UNCHANGED <<config, life, born, watched, inbox, children, replaced>>
           /\ \A m \in ToSet(queue) : m \notin ToSet(queue') => m.kind = "ack"
           /\ watched = {} /\ \A q \in Pid : life[q] \in {"up", "dead"}
           /\ None(queue', Starting) /\ None(queue', Ending)
           /\ None(queue', {"flush"})
           /\ StartChildren \notin ToSet(queue) \cup ToSet(inbox)
           /\ Head(queue).how = "error" => life[job.pid] = "dead"
           /\ job.at \in 1..Len(job.group) /\ job.kind # "none"
           /\ \A i \in job.at..Len(job.group) : job.group[i].pid = 0
           /\ job.pid \notin Pids(children) \cup Pids(job.group)
           /\ \/ /\ Head(queue).how = "ok" /\ pc' = "start"
                 /\ job' = [job EXCEPT !.group[job.at].pid = job.pid,
                                       !.pid = 0, !.at = @ + 1, !.tries = 0]
              \/ Head(queue).how = "error" /\ pc' = "fail" /\ job' = job
              \/ /\ Head(queue).how = "error" /\ pc' = "take" /\ job' = NoJob
                 /\ job.kind = "add" /\ ~Simple
              \/ /\ Head(queue).how = "error" /\ pc' = "start" /\ RestartsOne
                 /\ Temporary /\ job' = [job EXCEPT !.pid = 0, !.at = @ + 1]
              \/ /\ Head(queue).how = "error" /\ pc' = "start"
                 /\ job.tries + 1 \in 0..MaxRetries - 1
                 /\ job' = [job EXCEPT !.pid = 0, !.tries = @ + 1]
<1>1. PICK p : p = Head(queue).pid
  OBVIOUS
<1>2. /\ queue # <<>> /\ Head(queue).kind = "ack" /\ queue' = Tail(queue)
      /\ UNCHANGED <<config, life, born, watched, inbox, children, replaced>>
  BY DEF OnAck, Fires, processes
<1>3. /\ queue' \in Seq(Post) /\ Single(queue') /\ Head(queue) \in Post
      /\ ToSet(queue) = {Head(queue)} \cup ToSet(queue')
      /\ None(queue', Starting) /\ StartChildren \notin ToSet(queue')
  BY <1>2, Fired DEF Classes, Starting
<1>4. p \in Pid /\ Head(queue) \in Sent(Starting) /\ Head(queue).how \in {"ok", "error"}
  BY <1>1, <1>2, <1>3, Shapes DEF Sent, Starting
<1>5. /\ pc = "ack" /\ p = job.pid /\ life[p] \in {"up", "dead"}
      /\ Head(queue).how = "error" => life[p] = "dead"
  BY <1>1, <1>2, <1>4 DEF Base, StartingFit
<1>6. \A q \in Pid : life[q] \in {"up", "dead"}
  <2>1. life \in [Pid -> {"pending", "init", "up", "zombie", "dead"}]
    BY DEF Base, TypeOK
  <2>. QED
    BY <1>5, <2>1 DEF Base, StartingFit
<1>7. watched = {} /\ Sent(Ending) = {} /\ Sent({"flush"}) = {}
      /\ StartChildren \notin ToSet(inbox)
  BY <1>5 DEF Base, EndingFit, BootFit
<1>8. None(queue', Ending) /\ None(queue', {"flush"})
  BY <1>3, <1>7 DEF None, Sent
<1>9. StartChildren \notin ToSet(queue)
  BY <1>2, <1>3 DEF StartChildren
<1>10. job \in Job /\ job.tries \in 0..MaxRetries - 1 /\ MaxRetries \in Nat \ {0}
  BY JobParts, SupervisorAssumption DEF Base, TypeOK
<1>11. /\ job.at \in 1..Len(job.group) /\ job.kind # "none"
       /\ \A i \in job.at..Len(job.group) : job.group[i].pid = 0
       /\ job.pid \notin Pids(children) \cup Pids(job.group)
  BY <1>5, <1>10, JobParts DEF Base, JobFit
<1>12. \/ /\ Head(queue).how = "ok" /\ pc' = "start"
          /\ job' = [job EXCEPT !.group[job.at].pid = job.pid,
                                !.pid = 0, !.at = @ + 1, !.tries = 0]
       \/ Head(queue).how # "ok" /\ pc' = "fail" /\ job' = job
       \/ /\ Head(queue).how # "ok" /\ pc' = "take" /\ job' = NoJob
          /\ ~Fatal /\ Temporary /\ ~RestartsOne
       \/ /\ Head(queue).how # "ok" /\ pc' = "start" /\ RestartsOne
          /\ Temporary /\ job' = [job EXCEPT !.pid = 0, !.at = @ + 1]
       \/ /\ Head(queue).how # "ok" /\ pc' = "start" /\ ~Fatal /\ ~Temporary
          /\ job' = [job EXCEPT !.pid = 0, !.tries = @ + 1]
  BY DEF OnAck
<1>13. ~Fatal /\ Temporary /\ ~RestartsOne => job.kind = "add" /\ ~Simple
  BY DEF Fatal, Unforgiving
<1>14. ~Fatal /\ ~Temporary => job.tries + 1 \in 0..MaxRetries - 1
  BY <1>10 DEF Fatal
<1>15. Head(queue).how # "ok" => Head(queue).how = "error"
  BY <1>4
<1>16. \/ /\ Head(queue).how = "ok" /\ pc' = "start"
          /\ job' = [job EXCEPT !.group[job.at].pid = job.pid,
                                !.pid = 0, !.at = @ + 1, !.tries = 0]
       \/ Head(queue).how = "error" /\ pc' = "fail" /\ job' = job
       \/ /\ Head(queue).how = "error" /\ pc' = "take" /\ job' = NoJob
          /\ job.kind = "add" /\ ~Simple
       \/ /\ Head(queue).how = "error" /\ pc' = "start" /\ RestartsOne
          /\ Temporary /\ job' = [job EXCEPT !.pid = 0, !.at = @ + 1]
       \/ /\ Head(queue).how = "error" /\ pc' = "start"
          /\ job.tries + 1 \in 0..MaxRetries - 1
          /\ job' = [job EXCEPT !.pid = 0, !.tries = @ + 1]
  BY <1>12, <1>13, <1>14, <1>15
<1>17. /\ ToSet(queue') \subseteq ToSet(queue)
       /\ \A m \in ToSet(queue) : m \notin ToSet(queue') => m.kind = "ack"
  BY <1>2, <1>3
<1>. QED
  BY <1>2, <1>3, <1>4, <1>5, <1>6, <1>7, <1>8, <1>9, <1>10, <1>11, <1>16, <1>17

(* A process that has started is the child's. *)
LEMMA StartedFits ==
    ASSUME Base, OnAck, pc' = "start",
           job' = [job EXCEPT !.group[job.at].pid = job.pid,
                              !.pid = 0, !.at = @ + 1, !.tries = 0]
    PROVE  /\ job' \in Job /\ JobFit'
           /\ \E c \in Child :
                 /\ c.pid = job.pid /\ c.spec = job.group[job.at].spec
                 /\ job'.group = With(job.group, job.at, c)
           /\ job'.before = job.before /\ job'.after = job.after
           /\ job'.pid = 0 /\ job'.kind = job.kind
<1>1. /\ job \in Job /\ job.at \in 1..Len(job.group) /\ job.kind # "none"
      /\ job.pid \in Pid /\ pc = "ack"
      /\ \A i \in job.at..Len(job.group) : job.group[i].pid = 0
      /\ job.pid \notin Pids(children) \cup Pids(job.group)
      /\ UNCHANGED <<config, children>>
  BY AckIs
<1>2. /\ job.group \in Seq(Child) /\ job.before \in Seq(Child)
      /\ job.after \in Seq(Child) /\ Len(job.group) \in Nat
  BY <1>1, JobParts
<1>3. /\ job.kind = "add" \/ RestartsOne => Len(job.group) <= 1
      /\ RestartsOne =>
            \A i \in 1..Len(job.group) : \E j \in 1..Len(config.specs) :
                config.specs[j].id = job.group[i].spec.id
      /\ Pids(job.before) \cup Pids(job.after) \subseteq Pids(children) \cup {0}
      /\ AllPairs(children, Apart) /\ AllPairs(Work, Apart)
  BY DEF Base, JobFit
<1>4. PICK i \in 1..Len(job.group) : i = job.at
  BY <1>1
<1>5. job.group[i] \in Child /\ Pid \subseteq Nat \ {0}
  BY <1>2, SetOf, SupervisorAssumption
<1>6. PICK x : x = [job.group[i] EXCEPT !.pid = job.pid]
  OBVIOUS
<1>7. x \in Child /\ x.pid = job.pid /\ x.spec = job.group[i].spec /\ x.pid # 0
  BY <1>1, <1>5, <1>6 DEF Child
<1>8. PICK g : g = With(job.group, i, x)
  OBVIOUS
<1>9. /\ g \in Seq(Child) /\ Len(g) = Len(job.group)
      /\ \A k \in 1..Len(job.group) : g[k] = IF k = i THEN x ELSE job.group[k]
  <2>1. PICK q : q = job.group
    OBVIOUS
  <2>2. q \in Seq(Child) /\ i \in 1..Len(q) /\ x \in Child
    BY <1>2, <1>7, <2>1
  <2>3. /\ With(q, i, x) \in Seq(Child) /\ Len(With(q, i, x)) = Len(q)
        /\ \A k \in 1..Len(q) : With(q, i, x)[k] = IF k = i THEN x ELSE q[k]
    <3>1. \A y \in Child : With(q, i, y) \in Seq(Child) /\ Len(With(q, i, y)) = Len(q)
      BY <2>2, ReplacedAt
    <3>2. \A y \in Child : \A k \in 1..Len(q) :
             With(q, i, y)[k] = IF k = i THEN y ELSE q[k]
      BY <2>2, SetOf DEF With
    <3>. QED
      BY <2>2, <3>1, <3>2
  <2>. QED
    BY <1>8, <2>1, <2>3
<1>10. AllPairs(job.before \o g \o job.after, Apart)
  <2>1. PICK a, q, b : a = job.before /\ q = job.group /\ b = job.after
    OBVIOUS
  <2>2. /\ a \in Seq(Child) /\ q \in Seq(Child) /\ b \in Seq(Child)
        /\ i \in 1..Len(q) /\ AllPairs(a \o q \o b, Apart)
    BY <1>2, <1>3, <2>1 DEF Work
  <2>3. x.pid \notin Pids(a) \cup Pids(q) \cup Pids(b)
    BY <1>1, <1>3, <1>7, <2>1
  <2>4. \A c \in ToSet(a) \cup ToSet(q) \cup ToSet(b) : c \in Child /\ c.pid # x.pid
    BY <2>2, <2>3, PidsAre
  <2>5. \A c \in Child : c.pid # x.pid => c \in Apart[x] /\ x \in Apart[c]
    BY <1>7 DEF Apart
  <2>6. /\ \A c \in ToSet(a) \cup ToSet(q) : q[i] \in Apart[c] => x \in Apart[c]
        /\ \A d \in ToSet(q) \cup ToSet(b) : d \in Apart[q[i]] => d \in Apart[x]
    BY <2>4, <2>5
  <2>7. AllPairs(a \o With(q, i, x) \o b, Apart)
    BY <1>7, <2>2, <2>6, PairsPatched
  <2>. QED
    BY <1>8, <2>1, <2>7
<1>11. job' = [job EXCEPT !.group = g, !.pid = 0, !.at = job.at + 1, !.tries = 0]
  <2>1. job' = [job EXCEPT !.group = [job.group EXCEPT ![job.at] =
                              [job.group[job.at] EXCEPT !.pid = job.pid]],
                           !.pid = 0, !.at = job.at + 1, !.tries = 0]
    BY <1>1 DEF Job
  <2>. QED
    BY <1>4, <1>6, <1>8, <2>1 DEF With
<1>12. /\ job' \in Job /\ job'.group = g /\ job'.pid = 0 /\ job'.at = job.at + 1
       /\ job'.before = job.before /\ job'.after = job.after
       /\ job'.kind = job.kind
  <2>1. 0 \in 0..MaxRetries - 1 /\ job.at + 1 \in Nat
    BY <1>1, <1>2, SupervisorAssumption
  <2>. QED
    BY <1>1, <1>9, <1>11, <2>1 DEF Job
<1>13. JobFit'
  <2>1. /\ Apart' = Apart /\ Work' = job.before \o g \o job.after
        /\ RestartsOne' = RestartsOne
    BY <1>1, <1>12 DEF Apart, Child, Work, RestartsOne
  <2>2. AllPairs(children', Apart') /\ AllPairs(Work', Apart')
    BY <1>1, <1>3, <1>10, <2>1
  <2>3. Pids(job'.before) \cup Pids(job'.after) \subseteq Pids(children') \cup {0}
    BY <1>1, <1>3, <1>12
  <2>4. job'.kind = "add" \/ RestartsOne' => Len(job'.group) <= 1
    BY <1>3, <1>9, <1>12, <2>1
  <2>5. RestartsOne' =>
           \A k \in 1..Len(job'.group) : \E j \in 1..Len(config'.specs) :
              config'.specs[j].id = job'.group[k].spec.id
    <3>1. SUFFICES ASSUME RestartsOne, NEW k \in 1..Len(g)
                   PROVE  \E j \in 1..Len(config.specs) :
                             config.specs[j].id = g[k].spec.id
      BY <1>1, <1>12, <2>1
    <3>2. g[k].spec = job.group[k].spec /\ k \in 1..Len(job.group)
      BY <1>7, <1>9, <3>1
    <3>. QED
      BY <1>3, <3>1, <3>2
  <2>6. job'.at \in 1..Len(job'.group) + 1
    BY <1>1, <1>2, <1>9, <1>12
  <2>7. \A k \in job'.at..Len(job'.group) : job'.group[k].pid = 0
    BY <1>1, <1>2, <1>4, <1>9, <1>12
  <2>. QED
    BY <1>1, <1>12, <2>2, <2>3, <2>4, <2>5, <2>6, <2>7 DEF JobFit, Between
<1>. QED
  BY <1>4, <1>7, <1>8, <1>12, <1>13

LEMMA OnAckStep == Base /\ OnAck => Base'
<1> SUFFICES ASSUME Base, OnAck PROVE Base'
  OBVIOUS
<1>1. /\ pc = "ack" /\ job.pid \in Pid /\ job \in Job
      /\ queue' \in Seq(Post) /\ Single(queue')
      /\ ToSet(queue') \subseteq ToSet(queue)
      /\ UNCHANGED <<config, life, born, watched, inbox, children, replaced>>
      /\ watched = {} /\ \A q \in Pid : life[q] \in {"up", "dead"}
      /\ None(queue', Starting) /\ None(queue', Ending) /\ None(queue', {"flush"})
      /\ StartChildren \notin ToSet(queue) \cup ToSet(inbox)
      /\ job.at \in 1..Len(job.group) /\ job.kind # "none"
      /\ \A i \in job.at..Len(job.group) : job.group[i].pid = 0
      /\ pc' \in {"start", "fail", "take"}
  BY AckIs
<1>2. StartingFit' /\ EndingFit' /\ BootFit'
  <2>1. StartingFit' /\ EndingFit'
    BY <1>1, Calm
  <2>2. BootFit'
    BY <1>1 DEF BootFit
  <2>. QED
    BY <2>1, <2>2
<1>3. /\ job.kind = "add" \/ RestartsOne => Len(job.group) <= 1
      /\ RestartsOne =>
            \A i \in 1..Len(job.group) : \E j \in 1..Len(config.specs) :
                config.specs[j].id = job.group[i].spec.id
      /\ Pids(job.before) \cup Pids(job.after) \subseteq Pids(children) \cup {0}
      /\ AllPairs(children, Apart) /\ AllPairs(Work, Apart)
  BY DEF Base, JobFit
(* The lists are what they were. *)
<1>4. ASSUME job' \in Job, job'.before = job.before, job'.group = job.group,
             job'.after = job.after, job'.kind = job.kind,
             job'.at \in job.at..Len(job.group) + 1,
             pc' = "fail" \/ (pc' = "start" /\ job'.pid = 0)
      PROVE  JobFit'
  <2>1. /\ Apart' = Apart /\ Work' = Work /\ RestartsOne' = RestartsOne
    BY <1>1, <1>4 DEF Apart, Child, Work, RestartsOne
  <2>2. AllPairs(children', Apart') /\ AllPairs(Work', Apart')
    BY <1>1, <1>3, <2>1
  <2>3. Pids(job'.before) \cup Pids(job'.after) \subseteq Pids(children') \cup {0}
    BY <1>1, <1>3, <1>4
  <2>4. /\ job'.kind = "add" \/ RestartsOne' => Len(job'.group) <= 1
        /\ RestartsOne' =>
              \A i \in 1..Len(job'.group) : \E j \in 1..Len(config'.specs) :
                  config'.specs[j].id = job'.group[i].spec.id
    BY <1>1, <1>3, <1>4, <2>1
  <2>5. /\ job'.at \in 1..Len(job'.group) + 1
        /\ \A i \in job'.at..Len(job'.group) : job'.group[i].pid = 0
    <3>1. Len(job.group) \in Nat
      BY <1>1, JobParts
    <3>. QED
      BY <1>1, <1>4, <3>1
  <2>. QED
    BY <1>1, <1>4, <2>2, <2>3, <2>4, <2>5 DEF JobFit, Between
<1>5. job' \in Job /\ JobFit'
  <2>0. Len(job.group) \in Nat /\ job.at \in Nat
    BY <1>1, JobParts
  <2>1. CASE /\ pc' = "start"
             /\ job' = [job EXCEPT !.group[job.at].pid = job.pid,
                                   !.pid = 0, !.at = @ + 1, !.tries = 0]
    BY <2>1, StartedFits
  <2>2. CASE pc' = "fail" /\ job' = job
    BY <1>1, <1>4, <2>0, <2>2
  <2>3. CASE pc' = "take" /\ job' = NoJob
    BY <1>1, <1>3, <2>3, BetweenFits, NoJobIs
  <2>4. CASE pc' = "start" /\ job' = [job EXCEPT !.pid = 0, !.at = @ + 1]
    <3>0. PICK n \in Nat : n = job.at + 1
      BY <2>0
    <3>1. /\ job' \in Job /\ job'.before = job.before /\ job'.group = job.group
          /\ job'.after = job.after /\ job'.kind = job.kind
          /\ job'.at = n /\ job'.pid = 0
      <4>1. job' = [job EXCEPT !.pid = 0, !.at = n]
        BY <1>1, <2>4, <3>0 DEF Job
      <4>. QED
        BY <1>1, <4>1 DEF Job
    <3>. QED
      BY <1>1, <1>4, <2>0, <2>4, <3>0, <3>1
  <2>5. CASE /\ pc' = "start" /\ job.tries + 1 \in 0..MaxRetries - 1
             /\ job' = [job EXCEPT !.pid = 0, !.tries = @ + 1]
    <3>1. /\ job' \in Job /\ job'.before = job.before /\ job'.group = job.group
          /\ job'.after = job.after /\ job'.kind = job.kind
          /\ job'.at = job.at /\ job'.pid = 0
      BY <1>1, <2>5 DEF Job
    <3>. QED
      BY <1>1, <1>4, <2>0, <2>5, <3>1
  <2>. QED
    BY <2>1, <2>2, <2>3, <2>4, <2>5, AckIs
<1>6. TypeOK'
  BY <1>1, <1>5 DEF Base, TypeOK, Post, Alive
<1>. QED
  BY <1>1, <1>2, <1>5, <1>6 DEF Base

-----------------------------------------------------------------------------
(* Every step keeps the first part of the invariant.                       *)
LEMMA BaseInit == Init => Base
<1> SUFFICES ASSUME Init PROVE Base
  OBVIOUS
<1>1. /\ config \in Config /\ queue = <<StartChildren>> /\ born = <<>>
      /\ life = [p \in Pid |-> "dead"] /\ watched = {} /\ inbox = <<>>
      /\ pc = "idle" /\ children = <<>> /\ job = NoJob /\ replaced = {}
  BY DEF Init
<1>2. \A p \in Pid : life[p] = "dead" /\ ~Alive(p)
  BY <1>1 DEF Alive
<1>3. StartChildren \in Message /\ StartChildren.kind = "start_children"
  BY DEF Message, StartChildren
<1>4. PICK s \in Post : s = StartChildren
  BY <1>3 DEF Post
<1>5. queue = One(s)
  BY <1>1, <1>4 DEF One
<1>6. /\ queue \in Seq(Post) /\ Single(queue) /\ ToSet(queue) = {StartChildren}
  BY <1>4, <1>5, OneSingle
<1>7. /\ <<>> \in Seq(Message) /\ ToSet(<<>>) = {} /\ <<>> \in Seq(Child)
      /\ Len(<<>>) = 0
  BY PidsFew, SetOf DEF ToSet
<1>8. TypeOK
  <2>1. {p \in Pid : Alive(p)} = {}
    BY <1>2
  <2>2. born \in [{p \in Pid : Alive(p)} -> ChildSpec]
    BY <1>1, <2>1
  <2>. QED
    BY <1>1, <1>6, <1>7, <2>2, NoJobIs DEF TypeOK, Post
<1>9. \A K : "start_children" \notin K => Sent(K) = {}
  BY <1>3, <1>6 DEF Sent
<1>10. /\ Sent(Starting) = {} /\ Sent(Ending) = {} /\ Sent({"flush"}) = {}
       /\ Sent({"exit"}) = {}
  BY <1>9 DEF Starting, Ending
<1>11. StartingFit
  BY <1>2, <1>10 DEF StartingFit
<1>12. EndingFit
  BY <1>1, <1>2, <1>10 DEF EndingFit
<1>13. BootFit
  BY <1>1, <1>2, <1>6, <1>7 DEF BootFit
<1>14. JobFit
  <2>1. Work = <<>>
    BY <1>1, <1>7, NoJobIs, ConcatEmptySeq DEF Work
  <2>2. AllPairs(<<>>, Apart)
    BY <1>7 DEF AllPairs
  <2>3. Pids(<<>>) = {}
    BY PidsFew
  <2>. QED
    BY <1>1, <2>1, <2>2, <2>3, NoJobIs DEF JobFit, Between, RestartsOne
<1>. QED
  BY <1>6, <1>8, <1>11, <1>12, <1>13, <1>14 DEF Base

LEMMA StutterStep == Base /\ UNCHANGED vars => Base'
<1> SUFFICES ASSUME Base, UNCHANGED vars PROVE Base'
  OBVIOUS
<1>1. UNCHANGED <<config, queue, life, born, watched, inbox, pc, children, job,
                  replaced>>
  BY DEF vars, processes
<1>2. JobFit'
  BY <1>1, JobKept
<1>3. TypeOK'
  BY <1>1 DEF Base, TypeOK, Alive
<1>4. StartingFit' /\ BootFit'
  BY <1>1 DEF Base, StartingFit, BootFit, Sent
<1>5. EndingFit'
  BY <1>1 DEF Base, EndingFit, Sent, ExitOf, Alive
<1>. QED
  BY <1>1, <1>2, <1>3, <1>4, <1>5 DEF Base

LEMMA BaseStep == Base /\ [Next]_vars => Base'
<1> SUFFICES ASSUME Base, [Next]_vars PROVE Base'
  OBVIOUS
<1>1. CASE Supervise
  BY <1>1, RestStep, StartAllStep, AddChildStep, UnknownStep, ForgetStep,
     FailingStep, OneForAllStep, RestForOneStep, TerminateNextStep,
     AllTerminatedStep, StartNextStep, IgnoredStep, AllStartedStep DEF Supervise
<1>2. CASE Tick
  BY <1>2, OnGoStep, OnMonitorStep, OnExitStep, OnMessageStep, OnDownStep,
     OnFlushStep, OnAckStep DEF Tick
<1>3. ASSUME NEW p \in Pid, \/ InitOk(p) \/ InitFail(p)
                            \/ \E why \in {"normal", "error"} : Crash(p, why)
      PROVE  Base'
  BY <1>3, InitOkStep, InitFailStep, CrashStep
<1>4. ASSUME NEW spec \in config.extra, StartChild(spec) PROVE Base'
  BY <1>4, StartChildStep
<1>5. CASE UNCHANGED vars
  BY <1>5, StutterStep
<1>. QED
  BY <1>1, <1>2, <1>3, <1>4, <1>5 DEF Next

-----------------------------------------------------------------------------
(* Deaths that are missed and processes that are lost.                     *)
LEMMA TallyKept ==
    ASSUME Tally, Goes' => Goes,
           Goes' => \A p \in Due' : \/ p = 0 \/ Alive(p)' \/ ExitOf(p)' # {}
                                    \/ p \in Due /\ (Heard(p) => Heard(p)'),
           Goes' => \A p \in Pid : Alive(p)' =>
                       \/ p \in Reached'
                       \/ Alive(p) /\ (p \in Reached => p \in Reached')
    PROVE  Tally'
<1>1. DeathsFit'
  BY DEF Tally, DeathsFit, Heard
<1>2. OrphansFit'
  BY DEF Tally, OrphansFit
<1>. QED
  BY <1>1, <1>2 DEF Tally

LEMMA NoTally == ASSUME ~Goes' PROVE Tally'
BY DEF Tally, DeathsFit, OrphansFit

(* Between two messages the list of children is all there is. *)
LEMMA BetweenLists ==
    ASSUME Base, Between
    PROVE  Due = Pids(children) /\ Reached = Pids(children) \cup {0} \cup replaced
<1>1. job = NoJob
  BY DEF Base, JobFit
<1>2. /\ Pids(job.before) = {} /\ Pids(job.group) = {} /\ Pids(job.after) = {}
      /\ job.pid = 0
  BY <1>1, NoJobIs, PidsFew
<1>3. Whole /\ pc \notin {"start", "ack"}
  BY DEF Whole, Between
<1>. QED
  BY <1>2, <1>3 DEF Due, Reached

LEMMA BetweenLists1 ==
    ASSUME job' = NoJob, pc' \in {"idle", "take"}
    PROVE  /\ Due' = Pids(children')
           /\ Reached' = Pids(children') \cup {0} \cup replaced'
<1>1. /\ Pids(job'.before) = {} /\ Pids(job'.group) = {} /\ Pids(job'.after) = {}
      /\ job'.pid = 0
  BY NoJobIs, PidsFew
<1>2. Whole'
  BY DEF Whole, Between
<1>. QED
  BY <1>1, <1>2 DEF Due, Reached

(* A step that takes at most the EXIT of one process. *)
LEMMA HeardKept ==
    ASSUME NEW lost, UNCHANGED life,
           \A m \in ToSet(queue) \cup ToSet(inbox) :
               \/ m \in ToSet(queue') \cup ToSet(inbox')
               \/ m.kind # "EXIT" \/ m.pid = lost
    PROVE  \A p : p # lost /\ Heard(p) => Heard(p)'
<1>1. ASSUME NEW p, p # lost, Heard(p) PROVE Heard(p)'
  <2>1. Alive(p)' <=> Alive(p)
    BY DEF Alive
  <2>2. ExitOf(p) \subseteq ExitOf(p)'
    BY <1>1 DEF ExitOf
  <2>. QED
    BY <1>1, <2>1, <2>2 DEF Heard
<1>. QED
  BY <1>1

(* The supervisor takes a message, perhaps the EXIT of a process that is   *)
(* not in the new lists, and puts the children into lists of their own.    *)
LEMMA BeginTally ==
    ASSUME Base, Tally, pc = "take", inbox # <<>>,
           NEW kind \in {"start", "restart", "add"},
           NEW a \in Seq(Child), NEW b \in Seq(Child), NEW c \in Seq(Child),
           NEW where \in {"terminate", "start"},
           Begin(JobOf(kind, a, b, c), where),
           Pids(a) \cup Pids(c) \subseteq Pids(children) \cup {0},
           Head(inbox).kind = "EXIT" =>
              kind # "add" /\ Head(inbox).pid \notin Pids(a) \cup Pids(c),
           where = "start" => Pids(b) \subseteq {0},
           kind # "add" => \A p \in Pids(children) : p \in Pid /\ Alive(p) =>
                               p \in Pids(a) \cup Pids(b) \cup Pids(c)
    PROVE  Tally'
<1>1. PICK next : next = JobOf(kind, a, b, c)
  OBVIOUS
<1>2. /\ next.kind = kind /\ next.pid = 0
      /\ next.before = a /\ next.group = b /\ next.after = c
  BY <1>1, JobMade
<1>3. /\ job' = next /\ pc' = where /\ children' = children /\ inbox' = Tail(inbox)
      /\ UNCHANGED <<config, queue, life, replaced>>
  BY <1>1 DEF Begin, processes
<1>4. Due = Pids(children) /\ Reached = Pids(children) \cup {0} \cup replaced
  BY BetweenLists DEF Between
<1>5. ToSet(inbox) = {Head(inbox)} \cup ToSet(inbox')
  BY <1>3, Taken
<1>6. PICK lost : lost = IF Head(inbox).kind = "EXIT" THEN Head(inbox).pid ELSE -1
  OBVIOUS
<1>7. \A p : p # lost /\ Heard(p) => Heard(p)'
  BY <1>3, <1>5, <1>6, HeardKept
<1>8. Whole' <=> kind = "add"
  BY <1>2, <1>3 DEF Whole, Between
<1>9. Goes
  BY DEF Goes
<1>10. -1 \notin Pids(children)
  BY PidsAre, SupervisorAssumption DEF Base, TypeOK
<1>11. \A p \in Due' : p = 0 \/ (p \in Due /\ p # lost)
  <2>1. \A p \in Due' : \/ kind = "add" /\ p \in Pids(children)
                        \/ p \in Pids(a) \cup Pids(c) \cup {0}
    BY <1>2, <1>3, <1>8 DEF Due
  <2>. QED
    BY <1>4, <1>6, <1>10, <2>1
<1>12. Reached \subseteq Reached' \cup {p \in Pids(children) : kind # "add"}
  BY <1>2, <1>3, <1>4, <1>8 DEF Reached
<1>13. Pids(a) \cup Pids(b) \cup Pids(c) \subseteq Reached'
  BY <1>2, <1>3 DEF Reached
<1>14. \A p : Alive(p)' => Alive(p)
  BY <1>3 DEF Alive
<1>15. \A p \in Pid : Alive(p)' => p \in Reached' \/ (Alive(p) /\ (p \in Reached => p \in Reached'))
  BY <1>12, <1>13, <1>14
<1>. QED
  BY <1>7, <1>9, <1>11, <1>15, TallyKept

LEMMA DueIs ==
    ASSUME Base
    PROVE  /\ Due \subseteq Pid \cup {0} /\ -1 \notin Due
           /\ -1 \notin Pid /\ 0 \notin Pid
<1>1. /\ children \in Seq(Child) /\ job.before \in Seq(Child)
      /\ job.group \in Seq(Child) /\ job.after \in Seq(Child)
      /\ job.pid \in Pid \cup {0}
  BY JobParts DEF Base, TypeOK
<1>2. /\ Pids(children) \subseteq Pid \cup {0}
      /\ Pids(job.before) \subseteq Pid \cup {0}
      /\ Pids(job.group) \subseteq Pid \cup {0}
      /\ Pids(job.after) \subseteq Pid \cup {0}
  BY <1>1, PidsAre
<1>3. -1 \notin Pid /\ 0 \notin Pid
  BY SupervisorAssumption
<1>. QED
  BY <1>1, <1>2, <1>3 DEF Due

(* A step that leaves the lists alone and loses no EXIT. *)
LEMMA ListsTally ==
    ASSUME Base, Tally, Goes' => Goes, UNCHANGED <<children, job, replaced>>,
           Whole' <=> Whole,
           pc' \in {"start", "ack"} <=> pc \in {"start", "ack"},
           \A p \in Pid : Alive(p)' => Alive(p),
           \A p \in Pid : Heard(p) => Heard(p)'
    PROVE  Tally'
<1>1. Due' = Due /\ Reached' = Reached
  BY DEF Due, Reached
<1>2. \A p \in Due' : p = 0 \/ (p \in Due /\ (Heard(p) => Heard(p)'))
  BY <1>1, DueIs
<1>. QED
  BY <1>1, <1>2, TallyKept

LEMMA PostsTally ==
    ASSUME Base, Tally, Goes' => Goes, UNCHANGED <<life, children, job, replaced>>,
           Whole' <=> Whole,
           pc' \in {"start", "ack"} <=> pc \in {"start", "ack"},
           \A m \in ToSet(queue) \cup ToSet(inbox) :
               m \in ToSet(queue') \cup ToSet(inbox') \/ m.kind # "EXIT"
    PROVE  Tally'
<1>1. \A p : p # -1 /\ Heard(p) => Heard(p)'
  BY HeardKept
<1>2. \A p \in Pid : Alive(p)' => Alive(p)
  BY DEF Alive
<1>. QED
  BY <1>1, <1>2, DueIs, ListsTally

LEMMA RestTally == Base /\ Tally /\ Rest => Tally'
<1> SUFFICES ASSUME Base, Tally, Rest PROVE Tally'
  OBVIOUS
<1>1. pc = "take" /\ pc' = "idle" /\ UNCHANGED <<queue, life, inbox, children, job, replaced>>
  BY DEF Rest, processes
<1>2. Goes /\ Whole /\ Whole'
  BY <1>1 DEF Goes, Whole, Between
<1>. QED
  BY <1>1, <1>2, PostsTally

LEMMA StutterTally == Base /\ Tally /\ UNCHANGED vars => Tally'
<1> SUFFICES ASSUME Base, Tally, UNCHANGED vars PROVE Tally'
  OBVIOUS
<1>1. UNCHANGED <<queue, life, inbox, pc, children, job, replaced>>
  BY DEF vars, processes
<1>2. (Goes' <=> Goes) /\ (Whole' <=> Whole)
  BY <1>1 DEF Goes, Whole, Between
<1>. QED
  BY <1>1, <1>2, PostsTally

LEMMA StartAllTally == Base /\ Tally /\ StartAll => Tally'
<1> SUFFICES ASSUME Base, Tally, StartAll PROVE Tally'
  OBVIOUS
<1>1. /\ Booting \in Seq(Child) /\ Pids(Booting) \subseteq {0}
      /\ Pids(<<>>) = {} /\ <<>> \in Seq(Child)
  BY BootingIs DEF Base, TypeOK
<1>2. Begin(JobOf("start", <<>>, Booting, <<>>), "start")
  BY DEF StartAll, Booting
<1>3. pc = "take" /\ inbox # <<>> /\ Head(inbox).kind = "start_children"
  BY DEF StartAll, Takes
<1>4. \A p \in Pid : ~Alive(p)
  <2>1. Head(inbox) \in Post /\ Head(inbox) \in ToSet(inbox)
    BY <1>3, Taken DEF Post
  <2>2. Head(inbox) = StartChildren
    BY <1>3, <2>1, Shapes
  <2>. QED
    BY <2>1, <2>2 DEF Base, BootFit, Alive
<1>5. Pids(<<>>) \cup Pids(<<>>) \subseteq Pids(children) \cup {0}
  BY <1>1
<1>. QED
  BY <1>1, <1>2, <1>3, <1>4, <1>5, BeginTally

LEMMA AddChildTally == Base /\ Tally /\ AddChild => Tally'
<1> SUFFICES ASSUME Base, Tally, AddChild PROVE Tally'
  OBVIOUS
<1>1. pc = "take" /\ inbox # <<>> /\ Head(inbox).kind = "start_child"
  BY AddChildIs
<1>2. PICK x \in Child :
         /\ x.pid = 0
         /\ \/ Begin(JobOf("add", <<>>, One(x), children), "start")
            \/ Begin(JobOf("add", children, One(x), <<>>), "start")
            \/ \E i \in 1..Len(children) :
                  Begin(JobOf("add", Ahead(children, i), One(x),
                              Behind(children, i)), "start")
  BY AddChildIs
<1>3. /\ children \in Seq(Child) /\ <<>> \in Seq(Child) /\ Pids(<<>>) = {}
      /\ One(x) \in Seq(Child) /\ Pids(One(x)) = {0}
  BY <1>2, PidsFew DEF Base, TypeOK
<1>4. ASSUME NEW a \in Seq(Child), NEW c \in Seq(Child),
             Pids(a) \cup Pids(c) \subseteq Pids(children) \cup {0},
             Begin(JobOf("add", a, One(x), c), "start")
      PROVE  Tally'
  <2>1. Pids(One(x)) \subseteq {0}
    BY <1>3
  <2>. QED
    BY <1>1, <1>3, <1>4, <2>1, BeginTally
<1>5. \A i \in 1..Len(children) :
         /\ Ahead(children, i) \in Seq(Child) /\ Behind(children, i) \in Seq(Child)
         /\ Pids(Ahead(children, i)) \cup Pids(Behind(children, i))
               \subseteq Pids(children) \cup {0}
  BY <1>3, PidsAbout
<1>6. Pids(children) \cup Pids(<<>>) \subseteq Pids(children) \cup {0}
  BY <1>3
<1>. QED
  BY <1>2, <1>3, <1>4, <1>5, <1>6

LEMMA UnknownTally == Base /\ Tally /\ Unknown => Tally'
<1> SUFFICES ASSUME Base, Tally, Unknown PROVE Tally'
  OBVIOUS
<1>1. /\ pc = "take" /\ inbox # <<>> /\ Head(inbox).kind = "EXIT" /\ Dead = 0
      /\ pc' = "take" /\ job' = NoJob /\ inbox' = Tail(inbox)
      /\ UNCHANGED <<queue, life, children, replaced>>
  BY DEF Unknown, Takes, Begin, processes
<1>2. Head(inbox).pid \notin Pids(children)
  BY <1>1, DeadIs DEF Base, TypeOK
<1>3. ToSet(inbox) = {Head(inbox)} \cup ToSet(inbox')
  BY <1>1, Taken
<1>4. \A p : p # Head(inbox).pid /\ Heard(p) => Heard(p)'
  BY <1>1, <1>3, HeardKept
<1>5. Due = Pids(children) /\ Reached = Pids(children) \cup {0} \cup replaced
  BY <1>1, BetweenLists DEF Between
<1>6. Due' = Pids(children) /\ Reached' = Pids(children) \cup {0} \cup replaced
  BY <1>1, BetweenLists1
<1>7. Goes
  BY <1>1 DEF Goes
<1>8. \A p : Alive(p)' => Alive(p)
  BY <1>1 DEF Alive
<1>. QED
  BY <1>2, <1>4, <1>5, <1>6, <1>7, <1>8, TallyKept

LEMMA ForgetTally == Base /\ Tally /\ Forget => Tally'
<1> SUFFICES ASSUME Base, Tally, Forget PROVE Tally'
  OBVIOUS
<1>1. /\ pc = "take" /\ inbox # <<>> /\ Head(inbox).kind = "EXIT" /\ Dead # 0
      /\ inbox' = Tail(inbox)
      /\ children' = IF Simple THEN RemoveAt(children, Dead)
                     ELSE [children EXCEPT ![Dead].pid = 0]
      /\ UNCHANGED <<queue, life, pc, job, replaced>>
  BY DEF Forget, Takes, processes
<1>2. /\ ToSet(inbox) = {Head(inbox)} \cup ToSet(inbox') /\ job = NoJob
      /\ Head(inbox).pid \in Pid /\ ~Alive(Head(inbox).pid)
  BY <1>1, Taken
<1>3. children \in Seq(Child) /\ AllPairs(children, Apart)
  BY DEF Base, TypeOK, JobFit
<1>4. PICK i \in 1..Len(children) : i = Dead /\ children[i].pid = Head(inbox).pid
  BY <1>1, <1>3, DeadIs
<1>5. PICK x \in Child : x = Zero(children[i]) /\ x.pid = 0
  BY <1>3, PidsAre, Zeroed
<1>6. children' = IF Simple THEN RemoveAt(children, i) ELSE With(children, i, x)
  BY <1>1, <1>4, <1>5 DEF With, Zero
<1>7. PICK p : p = Head(inbox).pid
  OBVIOUS
<1>8. p # 0
  BY <1>2, <1>7, DueIs
<1>9. PICK a, b : a = Ahead(children, i) /\ b = Behind(children, i)
  OBVIOUS
<1>10. /\ Pids(children) = Pids(a) \cup {p} \cup Pids(b)
       /\ p \notin Pids(a) \cup Pids(b)
       /\ Pids(children') \in {Pids(a) \cup Pids(b), Pids(a) \cup {0} \cup Pids(b)}
  BY <1>3, <1>4, <1>5, <1>6, <1>7, <1>8, <1>9, PidsAbout
<1>11. \A x1 : x1 # p /\ Heard(x1) => Heard(x1)'
  BY <1>1, <1>2, <1>7, HeardKept
<1>12. Due = Pids(children) /\ Reached = Pids(children) \cup {0} \cup replaced
  BY <1>1, BetweenLists DEF Between
<1>13. Due' = Pids(children') /\ Reached' = Pids(children') \cup {0} \cup replaced
  BY <1>1, <1>2, BetweenLists1
<1>14. Goes
  BY <1>1 DEF Goes
<1>15. \A x1 : Alive(x1)' => Alive(x1)
  BY <1>1 DEF Alive
<1>16. ~Alive(p)
  BY <1>2, <1>7
<1>. QED
  BY <1>10, <1>11, <1>12, <1>13, <1>14, <1>15, <1>16, TallyKept

LEMMA OneForOneTally == Base /\ Tally /\ doOneForOneRestart /\ ~Fails => Tally'
<1> SUFFICES ASSUME Base, Tally, doOneForOneRestart, ~Fails PROVE Tally'
  OBVIOUS
<1>1. /\ Restart("one_for_one")
      /\ Begin(JobOf("restart", SubSeq(children, 1, Dead - 1),
                     <<[children[Dead] EXCEPT !.pid = 0]>>,
                     SubSeq(children, Dead + 1, Len(children))), "start")
  BY DEF doOneForOneRestart
<1>2. PICK i \in 1..Len(children) : i = Dead
  BY <1>1, RestartIs
<1>3. PICK x \in Child : x = Zero(children[i]) /\ x.pid = 0
  BY <1>1, <1>2, RestartIs
<1>4. PICK a, b : a = Ahead(children, i) /\ b = Behind(children, i)
  OBVIOUS
<1>5. Begin(JobOf("restart", a, One(x), b), "start")
  BY <1>1, <1>2, <1>3, <1>4 DEF Ahead, Behind, One, Zero
<1>6. PICK p \in Pid : p = Head(inbox).pid /\ ~Alive(p) /\ children[i].pid = p
  BY <1>1, <1>2, RestartIs
<1>7. children \in Seq(Child) /\ AllPairs(children, Apart) /\ p # 0
  BY <1>6, DueIs DEF Base, TypeOK, JobFit
<1>8. /\ a \in Seq(Child) /\ b \in Seq(Child)
      /\ Pids(children) = Pids(a) \cup {p} \cup Pids(b)
      /\ p \notin Pids(a) \cup Pids(b)
  <2>1. children[i].pid = p
    BY <1>6
  <2>. QED
    BY <1>4, <1>7, <2>1, PidsAbout
<1>9. One(x) \in Seq(Child) /\ Pids(One(x)) \subseteq {0}
  BY <1>3, PidsFew
<1>10. pc = "take" /\ inbox # <<>>
  BY <1>1, RestartIs
<1>11. /\ Pids(a) \cup Pids(b) \subseteq Pids(children) \cup {0}
       /\ Head(inbox).pid \notin Pids(a) \cup Pids(b)
       /\ \A q \in Pids(children) : q \in Pid /\ Alive(q) =>
             q \in Pids(a) \cup Pids(One(x)) \cup Pids(b)
  BY <1>6, <1>8
<1>. QED
  BY <1>5, <1>8, <1>9, <1>10, <1>11, BeginTally

LEMMA OneForAllTally == Base /\ Tally /\ doOneForAllRestart => Tally'
<1> SUFFICES ASSUME Base, Tally, doOneForAllRestart PROVE Tally'
  OBVIOUS
<1>1. /\ Restart("one_for_all")
      /\ Begin(JobOf("restart", <<>>, [children EXCEPT ![Dead].pid = 0], <<>>),
               "terminate")
  BY DEF doOneForAllRestart
<1>2. PICK i \in 1..Len(children) : i = Dead
  BY <1>1, RestartIs
<1>3. PICK x \in Child : x = Zero(children[i]) /\ x.pid = 0
  BY <1>1, <1>2, RestartIs
<1>4. PICK w : w = With(children, i, x)
  OBVIOUS
<1>5. Begin(JobOf("restart", <<>>, w, <<>>), "terminate")
  BY <1>1, <1>2, <1>3, <1>4 DEF With, Zero
<1>6. PICK p \in Pid : p = Head(inbox).pid /\ ~Alive(p) /\ children[i].pid = p
  BY <1>1, <1>2, RestartIs
<1>7. children \in Seq(Child) /\ p # 0
  BY <1>6, DueIs DEF Base, TypeOK
<1>8. w \in Seq(Child) /\ Pids(children) \subseteq Pids(w) \cup {p}
  BY <1>3, <1>4, <1>6, <1>7, PidsAbout
<1>9. <<>> \in Seq(Child) /\ Pids(<<>>) = {}
  BY PidsFew
<1>10. pc = "take" /\ inbox # <<>>
  BY <1>1, RestartIs
<1>11. /\ Pids(<<>>) \cup Pids(<<>>) \subseteq Pids(children) \cup {0}
       /\ Head(inbox).pid \notin Pids(<<>>) \cup Pids(<<>>)
       /\ \A q \in Pids(children) : q \in Pid /\ Alive(q) =>
             q \in Pids(<<>>) \cup Pids(w) \cup Pids(<<>>)
  BY <1>6, <1>8, <1>9
<1>. QED
  BY <1>5, <1>8, <1>9, <1>10, <1>11, BeginTally

LEMMA RestForOneTally == Base /\ Tally /\ doRestForOneRestart => Tally'
<1> SUFFICES ASSUME Base, Tally, doRestForOneRestart PROVE Tally'
  OBVIOUS
<1>1. /\ Restart("rest_for_one")
      /\ Begin(JobOf("restart", SubSeq(children, 1, Dead - 1),
                     SubSeq(children, Dead, Len(children)), <<>>), "terminate")
  BY DEF doRestForOneRestart
<1>2. PICK i \in 1..Len(children) : i = Dead
  BY <1>1, RestartIs
<1>3. PICK a, b, r : /\ a = Ahead(children, i) /\ b = From(children, i)
                     /\ r = Behind(children, i)
  OBVIOUS
<1>4. Begin(JobOf("restart", a, b, <<>>), "terminate")
  BY <1>1, <1>2, <1>3 DEF Ahead, From
<1>5. PICK p \in Pid : p = Head(inbox).pid /\ ~Alive(p) /\ children[i].pid = p
  BY <1>1, <1>2, RestartIs
<1>6. children \in Seq(Child) /\ AllPairs(children, Apart) /\ p # 0
  BY <1>5, DueIs DEF Base, TypeOK, JobFit
<1>7. /\ a \in Seq(Child) /\ b \in Seq(Child)
      /\ Pids(children) = Pids(a) \cup {p} \cup Pids(r)
      /\ Pids(b) = {p} \cup Pids(r) /\ p \notin Pids(a)
  BY <1>3, <1>5, <1>6, PidsAbout
<1>8. <<>> \in Seq(Child) /\ Pids(<<>>) = {}
  BY PidsFew
<1>9. pc = "take" /\ inbox # <<>>
  BY <1>1, RestartIs
<1>10. /\ Pids(a) \cup Pids(<<>>) \subseteq Pids(children) \cup {0}
       /\ Head(inbox).pid \notin Pids(a) \cup Pids(<<>>)
       /\ \A q \in Pids(children) : q \in Pid /\ Alive(q) =>
             q \in Pids(a) \cup Pids(b) \cup Pids(<<>>)
  BY <1>5, <1>7, <1>8
<1>. QED
  BY <1>4, <1>7, <1>8, <1>9, <1>10, BeginTally

LEMMA FailsTally == Fails => Tally'
<1>1. Fails => ~Goes'
  BY DEF Fails, Goes
<1>. QED
  BY <1>1, NoTally

LEMMA FailingTally ==
    Base /\ Tally /\ (\/ doSimpleOneForOneRestart
                      \/ doOneForOneRestart
                      \/ GiveUp) => Tally'
BY FailsTally, OneForOneTally DEF doSimpleOneForOneRestart, GiveUp

LEMMA TerminateNextTally == Base /\ Tally /\ TerminateNext => Tally'
<1> SUFFICES ASSUME Base, Tally, TerminateNext PROVE Tally'
  OBVIOUS
<1>1. pc = "terminate"
  BY DEF TerminateNext
<1>2. PICK p : p = job.group[Running].pid
  OBVIOUS
<1>3. CASE job.group[Running].spec.shutdown = "other"
  BY <1>3, FailsTally DEF TerminateNext
<1>4. CASE job.group[Running].spec.shutdown # "other"
  <2>1. /\ queue' = queue \o (IF Alive(p)
                              THEN <<Sig("monitor", p), Sig("exit", p)>>
                              ELSE <<Sig("down", p)>>)
        /\ job' = [job EXCEPT !.pid = p] /\ pc' = "down"
        /\ UNCHANGED <<life, inbox, children, replaced>>
    BY <1>2, <1>4 DEF TerminateNext, processes
  <2>2. /\ Running \in 1..Len(job.group) /\ job.group \in Seq(Child) /\ job \in Job
        /\ job.group[Running].pid # 0
    BY JobParts, RunningIs DEF Base, TypeOK, TerminateNext
  <2>3. p \in Pid
    <3>1. p \in Pid \cup {0}
      BY <1>2, <2>2, PidsAre
    <3>. QED
      BY <1>2, <2>2, <3>1
  <2>4. PICK m1, m2, m3 : /\ m1 = Sig("monitor", p) /\ m2 = Sig("exit", p)
                          /\ m3 = Sig("down", p)
    OBVIOUS
  <2>5. m1 \in Post /\ m2 \in Post /\ m3 \in Post
    BY <2>3, <2>4, Made
  <2>6. PICK add : add = IF Alive(p) THEN <<m1, m2>> ELSE <<m3>>
    OBVIOUS
  <2>7. queue' = queue \o add /\ add \in Seq(Post) /\ queue \in Seq(Post)
    <3>1. queue' = queue \o add
      BY <2>1, <2>4, <2>6
    <3>2. add \in Seq(Post)
      BY <2>5, <2>6
    <3>. QED
      BY <3>1, <3>2 DEF Base, TypeOK, Post
  <2>8. ToSet(queue) \subseteq ToSet(queue')
    BY <2>7, JoinedSet
  <2>9. \A q : q # -1 /\ Heard(q) => Heard(q)'
    BY <2>1, <2>8, HeardKept
  <2>10. /\ job'.pid = p /\ job'.group = job.group /\ job'.kind = job.kind
         /\ job'.before = job.before /\ job'.after = job.after
    BY <2>1, <2>2 DEF Job
  <2>11. Goes /\ (Whole' <=> Whole) /\ job.pid = 0
    BY <1>1, <2>1, <2>10 DEF Goes, Whole, Between, Base, JobFit
  <2>12. Due' = Due
    BY <1>1, <2>1, <2>10, <2>11 DEF Due
  <2>13. Reached \subseteq Reached' \cup {0}
    BY <2>1, <2>10, <2>11 DEF Reached
  <2>14. \A q : Alive(q)' => Alive(q)
    BY <2>1 DEF Alive
  <2>15. -1 \notin Due /\ 0 \notin Pid
    BY DueIs
  <2>. QED
    BY <2>9, <2>11, <2>12, <2>13, <2>14, <2>15, TallyKept
<1>. QED
  BY <1>3, <1>4

LEMMA AllTerminatedTally == Base /\ Tally /\ AllTerminated => Tally'
<1> SUFFICES ASSUME Base, Tally, AllTerminated PROVE Tally'
  OBVIOUS
<1>1. /\ pc = "terminate" /\ Running = 0 /\ pc' = "start"
      /\ job' = [job EXCEPT !.group = Remaining(job.group)]
      /\ UNCHANGED <<queue, life, inbox, children, replaced>>
  BY DEF AllTerminated, processes
<1>2. job \in Job /\ job.group \in Seq(Child)
  BY JobParts DEF Base, TypeOK
<1>3. PICK r : r = Remaining(job.group)
  OBVIOUS
<1>4. r \in Seq(Child) /\ ToSet(r) \subseteq ToSet(job.group)
  BY <1>2, <1>3, RemainingIs
<1>5. /\ job'.group = r /\ job'.kind = job.kind /\ job'.pid = job.pid
      /\ job'.before = job.before /\ job'.after = job.after
  BY <1>1, <1>2, <1>3 DEF Job
<1>6. Pids(job.group) \subseteq {0}
  BY <1>1, <1>2, RunningIs
<1>7. Pids(r) \subseteq {0}
  BY <1>2, <1>4, <1>6, PidsAre
<1>8. Goes /\ (Whole' <=> Whole) /\ job.pid = 0
  BY <1>1, <1>5 DEF Goes, Whole, Between, Base, JobFit
<1>9. Due' \subseteq Due \cup {0}
  BY <1>1, <1>5, <1>7, <1>8 DEF Due
<1>10. Reached \subseteq Reached' \cup {0}
  BY <1>1, <1>5, <1>6, <1>8 DEF Reached
<1>11. \A q : q # -1 /\ Heard(q) => Heard(q)'
  BY <1>1, HeardKept
<1>12. \A q : Alive(q)' => Alive(q)
  BY <1>1 DEF Alive
<1>13. -1 \notin Due /\ 0 \notin Pid
  BY DueIs
<1>. QED
  BY <1>8, <1>9, <1>10, <1>11, <1>12, <1>13, TallyKept

LEMMA StartNextTally == Base /\ Tally /\ StartNext => Tally'
<1> SUFFICES ASSUME Base, Tally, StartNext PROVE Tally'
  OBVIOUS
<1>1. PICK p : p = Min(Fresh)
  OBVIOUS
<1>2. /\ pc = "start" /\ Fresh # {}
      /\ life' = [life EXCEPT ![p] = "pending"]
      /\ job' = [job EXCEPT !.pid = p]
      /\ queue' = Append(queue, Sig("go", p))
      /\ replaced' = replaced \ {p}
      /\ pc' = "ack" /\ UNCHANGED <<inbox, children>>
  BY <1>1 DEF StartNext, StartsNext
<1>3. p \in Pid /\ p # 0
  BY <1>1, <1>2, FreshIs
<1>4. PICK go \in Post : go = Sig("go", p)
  BY <1>3, Made
<1>5. /\ queue \in Seq(Post) /\ job \in Job
      /\ life \in [Pid -> {"pending", "init", "up", "zombie", "dead"}]
  <2>1. queue \in Seq(Post)
    BY DEF Base, TypeOK, Post
  <2>. QED
    BY <2>1 DEF Base, TypeOK
<1>6. ToSet(queue) \subseteq ToSet(queue')
  BY <1>2, <1>4, <1>5, AppendSet
<1>7. /\ job'.pid = p /\ job'.group = job.group /\ job'.kind = job.kind
      /\ job'.before = job.before /\ job'.after = job.after
  BY <1>2, <1>5 DEF Job
<1>8. \A q \in Pid : life'[q] = IF q = p THEN "pending" ELSE life[q]
  BY <1>2, <1>3, <1>5
<1>9. Alive(p)' /\ \A q \in Pid : q # p => (Alive(q)' <=> Alive(q))
  BY <1>3, <1>8 DEF Alive
<1>10. \A q \in Pid : q # p /\ Heard(q) => Heard(q)'
  <2>1. \A q \in Pid : ExitOf(q) \subseteq ExitOf(q)'
    BY <1>2, <1>6 DEF ExitOf
  <2>. QED
    BY <1>9, <2>1 DEF Heard
<1>11. Goes /\ (Whole' <=> Whole)
  BY <1>2, <1>7 DEF Goes, Whole, Between
<1>12. Due' \subseteq Due \cup {p}
  BY <1>2, <1>7, <1>11 DEF Due
<1>13. Reached \subseteq Reached' \cup {job.pid} /\ p \in Reached'
  BY <1>2, <1>7, <1>11 DEF Reached
<1>14. job.pid = 0
  BY <1>2 DEF Base, JobFit
<1>15. Due \subseteq Pid \cup {0} /\ 0 \notin Pid
  BY DueIs
<1>16. \A q \in Due' : q = 0 \/ Alive(q)' \/ (q \in Due /\ (Heard(q) => Heard(q)'))
  BY <1>9, <1>10, <1>12, <1>15
<1>17. \A q \in Pid : Alive(q)' =>
          q \in Reached' \/ (Alive(q) /\ (q \in Reached => q \in Reached'))
  BY <1>9, <1>13, <1>14, <1>15
<1>. QED
  BY <1>11, <1>16, <1>17, TallyKept

LEMMA IgnoredTally == Base /\ Tally /\ Ignored => Tally'
<1> SUFFICES ASSUME Base, Tally, Ignored PROVE Tally'
  OBVIOUS
<1>1. /\ pc = "start" /\ job.at <= Len(job.group)
      /\ job' = IF Simple \/ Temporary
                THEN [job EXCEPT !.group = RemoveAt(job.group, job.at)]
                ELSE [job EXCEPT !.at = job.at + 1]
      /\ pc' \in {"start", "fail"}
      /\ UNCHANGED <<queue, life, inbox, children, replaced>>
  BY DEF Ignored, StartsNext, processes
<1>2. job \in Job /\ job.group \in Seq(Child)
  BY JobParts DEF Base, TypeOK
<1>3. job.at \in 1..Len(job.group) /\ job.group[job.at].pid = 0
  BY <1>1, StartSpecIs
<1>4. PICK g : g = IF Simple \/ Temporary THEN RemoveAt(job.group, job.at)
                                          ELSE job.group
  OBVIOUS
<1>5. /\ job'.group = g /\ job'.kind = job.kind /\ job'.pid = job.pid
      /\ job'.before = job.before /\ job'.after = job.after
  BY <1>1, <1>2, <1>4 DEF Job
<1>6. Pids(g) \subseteq Pids(job.group) /\ Pids(job.group) \subseteq Pids(g) \cup {0}
  <2>1. PICK q, i : q = job.group /\ i = job.at
    OBVIOUS
  <2>2. q \in Seq(Child) /\ i \in 1..Len(q) /\ q[i].pid = 0
    BY <1>2, <1>3, <2>1
  <2>3. /\ Pids(RemoveAt(q, i)) \subseteq Pids(q)
        /\ Pids(q) \subseteq Pids(RemoveAt(q, i)) \cup {0}
    BY <2>2, PidsAbout
  <2>. QED
    BY <1>4, <2>1, <2>3
<1>7. Goes /\ (Whole' <=> Whole)
  BY <1>1, <1>5 DEF Goes, Whole, Between
<1>8. Due' \subseteq Due
  BY <1>1, <1>5, <1>6, <1>7 DEF Due
<1>9. Reached \subseteq Reached' \cup {0}
  BY <1>1, <1>5, <1>6, <1>7 DEF Reached
<1>10. \A q : q # -1 /\ Heard(q) => Heard(q)'
  BY <1>1, HeardKept
<1>11. \A q : Alive(q)' => Alive(q)
  BY <1>1 DEF Alive
<1>12. -1 \notin Due /\ 0 \notin Pid
  BY DueIs
<1>. QED
  BY <1>7, <1>8, <1>9, <1>10, <1>11, <1>12, TallyKept

LEMMA AllStartedTally == Base /\ Tally /\ AllStarted => Tally'
<1> SUFFICES ASSUME Base, Tally, AllStarted PROVE Tally'
  OBVIOUS
<1>1. /\ pc = "start" /\ pc' = "take" /\ job' = NoJob
      /\ children' = Work
      /\ replaced' = IF job.kind = "add"
                     THEN replaced \cup (Pids(children) \ (Pids(Work) \cup {0}))
                     ELSE replaced
      /\ UNCHANGED <<queue, life, inbox>>
  BY DEF AllStarted, processes, Work
<1>2. Pids(Work) = Pids(job.before) \cup Pids(job.group) \cup Pids(job.after)
  BY WorkIs
<1>3. Due' = Pids(Work) /\ Reached' = Pids(Work) \cup {0} \cup replaced'
  BY <1>1, BetweenLists1
<1>4. Goes /\ (Whole => job.kind = "add") /\ job.pid = 0
  BY <1>1 DEF Goes, Whole, Between, Base, JobFit
<1>5. Due' \subseteq Due
  BY <1>1, <1>2, <1>3 DEF Due
<1>6. Reached \subseteq Reached'
  BY <1>1, <1>2, <1>3, <1>4 DEF Reached
<1>7. \A q : q # -1 /\ Heard(q) => Heard(q)'
  BY <1>1, HeardKept
<1>8. \A q : Alive(q)' => Alive(q)
  BY <1>1 DEF Alive
<1>9. -1 \notin Due
  BY DueIs
<1>. QED
  BY <1>4, <1>5, <1>6, <1>7, <1>8, <1>9, TallyKept

LEMMA OnGoTally == Base /\ Tally /\ OnGo => Tally'
<1> SUFFICES ASSUME Base, Tally, OnGo PROVE Tally'
  OBVIOUS
<1>1. PICK p : p = Head(queue).pid
  OBVIOUS
<1>2. /\ queue # <<>> /\ Head(queue).kind = "go"
      /\ life' = [life EXCEPT ![p] = "init"] /\ queue' = Tail(queue)
      /\ UNCHANGED <<inbox, pc, children, job, replaced>>
  BY <1>1 DEF OnGo, Fires
<1>3. /\ ToSet(queue) = {Head(queue)} \cup ToSet(queue') /\ Head(queue) \in Post
  BY <1>2, Fired
<1>4. p \in Pid /\ Head(queue) \in Sent(Starting)
  BY <1>1, <1>2, <1>3, Shapes DEF Sent, Starting
<1>5. life[p] = "pending"
  BY <1>1, <1>2, <1>4 DEF Base, StartingFit
<1>6. life \in [Pid -> {"pending", "init", "up", "zombie", "dead"}]
  BY DEF Base, TypeOK
<1>7. \A q \in Pid : Alive(q)' <=> Alive(q)
  BY <1>2, <1>5, <1>6 DEF Alive
<1>8. \A q \in Pid : ExitOf(q)' = ExitOf(q)
  BY <1>2, <1>3 DEF ExitOf
<1>9. \A q \in Pid : Heard(q)' <=> Heard(q)
  BY <1>7, <1>8 DEF Heard
<1>10. (Goes' <=> Goes) /\ (Whole' <=> Whole)
  BY <1>2 DEF Goes, Whole, Between
<1>. QED
  BY <1>2, <1>7, <1>9, <1>10, ListsTally

LEMMA OnMonitorTally == Base /\ Tally /\ OnMonitor => Tally'
<1> SUFFICES ASSUME Base, Tally, OnMonitor PROVE Tally'
  OBVIOUS
<1>1. /\ queue # <<>> /\ Head(queue).kind = "monitor" /\ queue' = Tail(queue)
      /\ UNCHANGED <<life, inbox, pc, children, job, replaced>>
  BY DEF OnMonitor, Fires
<1>2. ToSet(queue) = {Head(queue)} \cup ToSet(queue')
  BY <1>1, Fired
<1>3. (Goes' <=> Goes) /\ (Whole' <=> Whole)
  BY <1>1 DEF Goes, Whole, Between
<1>. QED
  BY <1>1, <1>2, <1>3, PostsTally

(* A process dies and sends its EXIT. *)
LEMMA DeathTally ==
    ASSUME Base, Tally, NEW p \in Pid, NEW why \in {"normal", "error", "killed"},
           NEW now \in {"zombie", "dead"}, life' = [life EXCEPT ![p] = now],
           NEW q \in Seq(Post),
           \A m \in ToSet(queue) : m \in ToSet(q) \/ m.kind # "EXIT",
           queue' = q \o DeathOf(p, why),
           UNCHANGED <<config, inbox, pc, children, job, replaced>>
    PROVE  Tally'
<1>1. (Goes' <=> Goes) /\ (Whole' <=> Whole)
  BY DEF Goes, Whole, Between
<1>2. CASE ~Goes
  BY <1>1, <1>2, NoTally
<1>3. CASE Goes
  <2>1. PICK add : add = DeathOf(p, why)
    OBVIOUS
  <2>2. add \in Seq(Post) /\ Exit(p, why) \in ToSet(add)
    BY <1>3, <2>1, DeathSends DEF Goes
  <2>3. ToSet(queue') = ToSet(q) \cup ToSet(add)
    BY <2>1, <2>2, JoinedSet
  <2>4. Exit(p, why).kind = "EXIT" /\ Exit(p, why).pid = p
    BY Made
  <2>5. life \in [Pid -> {"pending", "init", "up", "zombie", "dead"}]
    BY DEF Base, TypeOK
  <2>6. \A x \in Pid : Alive(x)' <=> Alive(x) /\ x # p
    BY <2>5 DEF Alive
  <2>7. \A x \in Pid : ExitOf(x) \subseteq ExitOf(x)'
    BY <2>3 DEF ExitOf
  <2>8. ExitOf(p)' # {}
    BY <2>2, <2>3, <2>4 DEF ExitOf
  <2>9. \A x \in Pid : Heard(x) => Heard(x)'
    BY <2>6, <2>7, <2>8 DEF Heard
  <2>. QED
    BY <1>1, <2>6, <2>9, ListsTally
<1>. QED
  BY <1>2, <1>3

LEMMA OnExitTally == Base /\ Tally /\ OnExit => Tally'
<1> SUFFICES ASSUME Base, Tally, OnExit PROVE Tally'
  OBVIOUS
<1>1. PICK p : p = Head(queue).pid
  OBVIOUS
<1>2. /\ queue # <<>> /\ Head(queue).kind = "exit"
      /\ UNCHANGED <<config, inbox, pc, children, job, replaced>>
      /\ \/ Dies(p) /\ queue' = Tail(queue) \o DeathOf(p, "killed")
         \/ queue' = Tail(queue) /\ UNCHANGED life
  BY <1>1 DEF OnExit, Fires, processes
<1>3. /\ Tail(queue) \in Seq(Post) /\ Head(queue) \in Post
      /\ ToSet(queue) = {Head(queue)} \cup ToSet(Tail(queue))
  BY <1>2, Fired
<1>4. p \in Pid
  BY <1>1, <1>2, <1>3, Shapes
<1>5. CASE Dies(p) /\ queue' = Tail(queue) \o DeathOf(p, "killed")
  <2>1. PICK now \in {"zombie", "dead"} : life' = [life EXCEPT ![p] = now]
    BY <1>5 DEF Dies
  <2>2. \A m \in ToSet(queue) : m \in ToSet(Tail(queue)) \/ m.kind # "EXIT"
    BY <1>2, <1>3
  <2>. QED
    BY <1>2, <1>3, <1>4, <1>5, <2>1, <2>2, DeathTally
<1>6. CASE queue' = Tail(queue) /\ UNCHANGED life
  <2>1. (Goes' <=> Goes) /\ (Whole' <=> Whole)
    BY <1>2 DEF Goes, Whole, Between
  <2>2. \A m \in ToSet(queue) : m \in ToSet(queue') \/ m.kind # "EXIT"
    BY <1>2, <1>3, <1>6
  <2>. QED
    BY <1>2, <1>6, <2>1, <2>2, PostsTally
<1>. QED
  BY <1>2, <1>5, <1>6

LEMMA CrashTally ==
    ASSUME Base, Tally, NEW p \in Pid, NEW why \in {"normal", "error"}, Crash(p, why)
    PROVE  Tally'
<1>1. /\ Dies(p) /\ queue' = queue \o DeathOf(p, why)
      /\ UNCHANGED <<config, inbox, pc, children, job, replaced>>
  BY DEF Crash
<1>2. PICK now \in {"zombie", "dead"} : life' = [life EXCEPT ![p] = now]
  BY <1>1 DEF Dies
<1>3. queue \in Seq(Post)
  BY DEF Base, TypeOK, Post
<1>. QED
  BY <1>1, <1>2, <1>3, DeathTally

LEMMA InitOkTally ==
    ASSUME Base, Tally, NEW p \in Pid, InitOk(p)
    PROVE  Tally'
<1>1. PICK now : now = IF life[p] = "init" THEN "up" ELSE "dead"
  OBVIOUS
<1>2. /\ life[p] \in {"init", "zombie"} /\ life' = [life EXCEPT ![p] = now]
      /\ queue' = queue \o ToSupervisor(<<Ack(p, "ok")>>)
      /\ UNCHANGED <<inbox, pc, children, job, replaced>>
  BY <1>1 DEF InitOk
<1>3. pc = "ack" /\ queue \in Seq(Post)
  BY <1>2, InitIs
<1>4. PICK o : o = One(Ack(p, "ok"))
  OBVIOUS
<1>5. queue' = queue \o o /\ o \in Seq(Post)
  BY <1>2, <1>3, <1>4, Made, OneIn DEF ToSupervisor, One
<1>6. ToSet(queue) \subseteq ToSet(queue')
  BY <1>3, <1>5, JoinedSet
<1>7. life \in [Pid -> {"pending", "init", "up", "zombie", "dead"}]
  BY DEF Base, TypeOK
<1>8. \A x \in Pid : Alive(x)' <=> Alive(x)
  BY <1>1, <1>2, <1>7 DEF Alive
<1>9. \A x \in Pid : ExitOf(x) \subseteq ExitOf(x)'
  BY <1>2, <1>6 DEF ExitOf
<1>10. \A x \in Pid : Heard(x) => Heard(x)'
  BY <1>8, <1>9 DEF Heard
<1>11. (Goes' <=> Goes) /\ (Whole' <=> Whole)
  BY <1>2 DEF Goes, Whole, Between
<1>. QED
  BY <1>2, <1>8, <1>10, <1>11, ListsTally

LEMMA InitFailTally ==
    ASSUME Base, Tally, NEW p \in Pid, InitFail(p)
    PROVE  Tally'
<1>1. /\ life[p] \in {"init", "zombie"} /\ life' = [life EXCEPT ![p] = "dead"]
      /\ queue' = queue \o ToSupervisor(<<Ack(p, "error")>>)
                        \o IF life[p] = "init" THEN DeathOf(p, "error") ELSE <<>>
      /\ UNCHANGED <<config, inbox, pc, children, job, replaced>>
  BY DEF InitFail
<1>2. pc = "ack" /\ queue \in Seq(Post)
  BY <1>1, InitIs
<1>3. PICK o : o = One(Ack(p, "error"))
  OBVIOUS
<1>4. o \in Seq(Post)
  BY <1>3, Made, OneIn
<1>5. PICK q : q = queue \o o
  OBVIOUS
<1>6. q \in Seq(Post) /\ ToSet(queue) \subseteq ToSet(q)
  BY <1>2, <1>4, <1>5, JoinedSet
<1>7. queue' = q \o (IF life[p] = "init" THEN DeathOf(p, "error") ELSE <<>>)
  BY <1>1, <1>2, <1>3, <1>5 DEF ToSupervisor, One
<1>8. CASE life[p] = "init"
  <2>1. queue' = q \o DeathOf(p, "error")
    BY <1>7, <1>8
  <2>. QED
    BY <1>1, <1>6, <2>1, DeathTally
<1>9. CASE life[p] # "init"
  <2>1. queue' = q
    <3>1. queue' = q \o <<>>
      BY <1>7, <1>9
    <3>. QED
      BY <1>6, <3>1, ConcatEmptySeq
  <2>2. \A x \in Pid : Alive(x)' => Alive(x)
    <3>1. life \in [Pid -> {"pending", "init", "up", "zombie", "dead"}]
      BY DEF Base, TypeOK
    <3>. QED
      BY <1>1, <3>1 DEF Alive
  <2>3. \A x \in Pid : Alive(x) => Alive(x)'
    <3>1. life \in [Pid -> {"pending", "init", "up", "zombie", "dead"}]
      BY DEF Base, TypeOK
    <3>. QED
      BY <1>1, <1>9, <3>1 DEF Alive
  <2>4. \A x \in Pid : ExitOf(x) \subseteq ExitOf(x)'
    BY <1>1, <1>6, <2>1 DEF ExitOf
  <2>5. \A x \in Pid : Heard(x) => Heard(x)'
    BY <2>3, <2>4 DEF Heard
  <2>6. (Goes' <=> Goes) /\ (Whole' <=> Whole)
    BY <1>1 DEF Goes, Whole, Between
  <2>. QED
    BY <1>1, <2>2, <2>5, <2>6, ListsTally
<1>. QED
  BY <1>8, <1>9

LEMMA StartChildTally ==
    ASSUME Base, Tally, NEW spec \in config.extra, StartChild(spec)
    PROVE  Tally'
<1>1. /\ queue' = Append(queue, StartChildOf(spec))
      /\ UNCHANGED <<life, inbox, pc, children, job, replaced>>
  BY DEF StartChild, processes
<1>2. spec \in ChildSpec
  BY Configured DEF Base, TypeOK
<1>3. PICK m : m = StartChildOf(spec)
  OBVIOUS
<1>4. m \in Post /\ queue \in Seq(Post)
  BY <1>2, <1>3, Made DEF Base, TypeOK, Post
<1>5. ToSet(queue) \subseteq ToSet(queue')
  BY <1>1, <1>3, <1>4, AppendSet
<1>6. (Goes' <=> Goes) /\ (Whole' <=> Whole)
  BY <1>1 DEF Goes, Whole, Between
<1>. QED
  BY <1>1, <1>5, <1>6, PostsTally

(* The processes of the group are none of the others. *)
LEMMA GroupApart ==
    ASSUME Base, NEW p \in Pids(job.group), p # 0
    PROVE  p \notin Pids(job.before) \cup Pids(job.after)
<1>1. PICK a, q, b : a = job.before /\ q = job.group /\ b = job.after
  OBVIOUS
<1>2. a \in Seq(Child) /\ q \in Seq(Child) /\ b \in Seq(Child)
  BY <1>1, JobParts DEF Base, TypeOK
<1>3. AllPairs(a \o q \o b, Apart)
  BY <1>1 DEF Base, JobFit, Work
<1>4. a \o q \in Seq(Child) /\ ToSet(a \o q) = ToSet(a) \cup ToSet(q)
  BY <1>2, JoinedSet
<1>5. /\ AllPairs(a \o q, Apart)
      /\ \A x \in ToSet(a \o q), y \in ToSet(b) : y \in Apart[x]
  BY <1>2, <1>3, <1>4, PairsJoin
<1>6. \A x \in ToSet(a), y \in ToSet(q) : y \in Apart[x]
  BY <1>2, <1>5, PairsJoin
<1>7. PICK d \in ToSet(q) : d.pid = p
  BY <1>1, <1>2, PidsAre
<1>8. \A c \in ToSet(a) \cup ToSet(b) : c \in Child
  BY <1>2, PidsAre
<1>9. d \in Child
  BY <1>2, <1>7, PidsAre
<1>10. \A c \in ToSet(a) : c.pid # p
  BY <1>6, <1>7, <1>8, <1>9 DEF Apart
<1>11. \A c \in ToSet(b) : c.pid # p
  BY <1>4, <1>5, <1>7, <1>8, <1>9 DEF Apart
<1>. QED
  BY <1>1, <1>2, <1>10, <1>11, PidsAre

(* A child has been terminated: what is left of its EXIT is not missed. *)
LEMMA TerminatedTally ==
    ASSUME Base, Tally, pc \in {"down", "flush"}, ~Alive(job.pid),
           job' = Terminated, pc' = "terminate",
           UNCHANGED <<config, life, children, replaced>>,
           \A m \in ToSet(queue) \cup ToSet(inbox) :
               \/ m \in ToSet(queue') \cup ToSet(inbox')
               \/ m.kind # "EXIT" \/ m.pid = job.pid
    PROVE  Tally'
<1>1. PICK p : p = job.pid
  OBVIOUS
<1>2. p \in Pid /\ p # 0
  BY <1>1, AwaitedIs
<1>3. /\ Running # 0 /\ job.group[Running].pid = p /\ job.group \in Seq(Child)
      /\ job.kind = "restart"
  BY <1>1, JobParts DEF Base, TypeOK, JobFit
<1>4. /\ \E c \in Child :
            /\ c.pid = 0 /\ Running \in 1..Len(job.group)
            /\ job'.group = With(job.group, Running, c)
      /\ job'.before = job.before /\ job'.after = job.after
      /\ job'.pid = 0 /\ job'.kind = job.kind
  BY TerminatedFits
<1>14. PICK i : i = Running
  OBVIOUS
<1>15. PICK c \in Child :
         /\ i \in 1..Len(job.group) /\ c.pid = 0 /\ job'.group = With(job.group, i, c)
  BY <1>4, <1>14
<1>5. PICK q : q = job.group
  OBVIOUS
<1>6. Pids(q) \subseteq Pids(With(q, i, c)) \cup {p} /\ p \in Pids(q)
  <2>1. q \in Seq(Child) /\ i \in 1..Len(q) /\ q[i].pid = p
    BY <1>3, <1>14, <1>15, <1>5
  <2>. QED
    BY <2>1, PidsAbout
<1>7. p \notin Pids(job.before) \cup Pids(job.after)
  BY <1>2, <1>5, <1>6, GroupApart
<1>8. Goes /\ ~Whole /\ ~Whole'
  BY <1>3, <1>4 DEF Goes, Whole, Between
<1>9. Due' = Due /\ p \notin Due
  BY <1>4, <1>7, <1>8 DEF Due
<1>10. Reached \subseteq Reached' \cup {p}
  BY <1>1, <1>4, <1>15, <1>5, <1>6, <1>8 DEF Reached
<1>11. \A x : x # p /\ Heard(x) => Heard(x)'
  BY <1>1, HeardKept
<1>12. \A x : Alive(x)' => Alive(x)
  BY DEF Alive
<1>13. ~Alive(p)
  BY <1>1
<1>. QED
  BY <1>8, <1>9, <1>10, <1>11, <1>12, <1>13, TallyKept

LEMMA OnDownTally == Base /\ Tally /\ OnDown => Tally'
<1> SUFFICES ASSUME Base, Tally, OnDown PROVE Tally'
  OBVIOUS
<1>1. PICK p : p = Head(queue).pid
  OBVIOUS
<1>2. /\ queue # <<>> /\ Head(queue).kind = "down" /\ pc = "down"
      /\ UNCHANGED <<config, life, children, replaced>>
      /\ \/ /\ queue' = Tail(queue) /\ inbox' = Flush(p)
            /\ job' = Terminated /\ pc' = "terminate"
         \/ /\ queue' = Append(Tail(queue), Sig("flush", p)) /\ pc' = "flush"
            /\ UNCHANGED <<inbox, job>>
  BY <1>1 DEF OnDown, Fires, processes
<1>3. /\ Tail(queue) \in Seq(Post) /\ Head(queue) \in Post
      /\ ToSet(queue) = {Head(queue)} \cup ToSet(Tail(queue))
  BY <1>2, Fired
<1>4. p \in Pid /\ Head(queue) \in Sent(Ending)
  BY <1>1, <1>2, <1>3, Shapes DEF Sent, Ending
<1>5. p = job.pid /\ ~Alive(p) /\ inbox \in Seq(Message)
  BY <1>1, <1>2, <1>4 DEF Base, EndingFit, TypeOK
<1>6. CASE /\ queue' = Tail(queue) /\ inbox' = Flush(p)
           /\ job' = Terminated /\ pc' = "terminate"
  <2>1. \A m \in ToSet(inbox) :
           m \in ToSet(inbox') \/ (m.kind = "EXIT" /\ m.pid = p)
    BY <1>5, <1>6, Flushed
  <2>2. \A m \in ToSet(queue) : m \in ToSet(queue') \/ m.kind # "EXIT"
    BY <1>2, <1>3, <1>6
  <2>. QED
    BY <1>2, <1>5, <1>6, <2>1, <2>2, TerminatedTally
<1>7. CASE /\ queue' = Append(Tail(queue), Sig("flush", p)) /\ pc' = "flush"
           /\ UNCHANGED <<inbox, job>>
  <2>1. PICK m \in Post : m = Sig("flush", p)
    BY <1>4, Made
  <2>2. ToSet(queue') = ToSet(Tail(queue)) \cup {m}
    <3>1. PICK q : q = Tail(queue)
      OBVIOUS
    <3>2. q \in Seq(Post) /\ queue' = Append(q, m)
      BY <1>3, <1>7, <2>1, <3>1
    <3>3. ToSet(Append(q, m)) = ToSet(q) \cup {m}
      BY <3>2, AppendSet
    <3>. QED
      BY <3>1, <3>2, <3>3
  <2>3. Goes /\ (Whole' <=> Whole)
    BY <1>2, <1>7 DEF Goes, Whole, Between
  <2>4. \A x \in ToSet(queue) : x \in ToSet(queue') \/ x.kind # "EXIT"
    BY <1>2, <1>3, <2>2
  <2>. QED
    BY <1>2, <1>7, <2>3, <2>4, PostsTally
<1>. QED
  BY <1>2, <1>6, <1>7

LEMMA OnFlushTally == Base /\ Tally /\ OnFlush => Tally'
<1> SUFFICES ASSUME Base, Tally, OnFlush PROVE Tally'
  OBVIOUS
<1>1. /\ queue # <<>> /\ Head(queue).kind = "flush"
      /\ queue' = Tail(queue) /\ job' = Terminated /\ pc' = "terminate"
      /\ UNCHANGED <<config, life, inbox, children, replaced>>
  BY DEF OnFlush, Fires, processes
<1>2. ToSet(queue) = {Head(queue)} \cup ToSet(queue') /\ Head(queue) \in ToSet(queue)
  BY <1>1, Fired
<1>3. Head(queue) \in Sent({"flush"})
  BY <1>1, <1>2 DEF Sent
<1>4. pc = "flush" /\ ~Alive(job.pid)
  BY <1>3 DEF Base, EndingFit
<1>. QED
  BY <1>1, <1>2, <1>4, TerminatedTally

LEMMA OnMessageTally == Base /\ Tally /\ OnMessage => Tally'
<1> SUFFICES ASSUME Base, Tally, OnMessage PROVE Tally'
  OBVIOUS
<1>1. PICK m : m = Head(queue)
  OBVIOUS
<1>2. /\ queue # <<>>
      /\ m.kind \in {"EXIT", "start_children", "start_child"}
      /\ UNCHANGED <<config, life, children, replaced>>
      /\ \/ /\ pc = "dead" /\ UNCHANGED <<pc, job>>
         \/ /\ pc = "flush" /\ job' = Terminated /\ pc' = "terminate"
            /\ m.kind = "EXIT" /\ m.pid = job.pid
            /\ queue' = RemoveFirstMatch(Tail(queue), IsFlush)
            /\ UNCHANGED inbox
         \/ /\ pc # "dead" /\ queue' = Tail(queue) /\ inbox' = Append(inbox, m)
            /\ pc' = (IF pc = "idle" THEN "take" ELSE pc)
            /\ UNCHANGED job
  BY <1>1 DEF OnMessage, Fires, processes
<1>3. /\ Tail(queue) \in Seq(Post) /\ Single(Tail(queue)) /\ m \in Post
      /\ ToSet(queue) = {m} \cup ToSet(Tail(queue))
  BY <1>1, <1>2, Fired
<1>4. m \in Message /\ inbox \in Seq(Message)
  BY <1>2, <1>3, Shapes DEF Base, TypeOK
<1>5. CASE pc = "dead" /\ UNCHANGED <<pc, job>>
  BY <1>5, NoTally DEF Goes
<1>6. CASE /\ pc = "flush" /\ job' = Terminated /\ pc' = "terminate"
           /\ m.kind = "EXIT" /\ m.pid = job.pid
           /\ queue' = RemoveFirstMatch(Tail(queue), IsFlush)
           /\ UNCHANGED inbox
  <2>1. \A x \in ToSet(Tail(queue)) : x.kind # "flush" => x \in ToSet(queue')
    BY <1>3, <1>6, Unflushed
  <2>2. \A x \in ToSet(queue) :
           x \in ToSet(queue') \/ x.kind # "EXIT" \/ x.pid = job.pid
    BY <1>3, <1>6, <2>1
  <2>3. ~Alive(job.pid)
    BY <1>6 DEF Base, EndingFit
  <2>. QED
    BY <1>2, <1>6, <2>2, <2>3, TerminatedTally
<1>7. CASE /\ pc # "dead" /\ queue' = Tail(queue) /\ inbox' = Append(inbox, m)
           /\ pc' = (IF pc = "idle" THEN "take" ELSE pc)
           /\ UNCHANGED job
  <2>1. ToSet(inbox') = ToSet(inbox) \cup {m}
    BY <1>4, <1>7, AppendSet
  <2>2. (Goes' => Goes) /\ (Whole' <=> Whole)
    BY <1>7 DEF Goes, Whole, Between
  <2>3. \A x \in ToSet(queue) \cup ToSet(inbox) : x \in ToSet(queue') \cup ToSet(inbox')
    BY <1>3, <1>7, <2>1
  <2>. QED
    BY <1>2, <1>7, <2>2, <2>3, PostsTally
<1>. QED
  BY <1>2, <1>5, <1>6, <1>7

LEMMA OnAckTally == Base /\ Tally /\ OnAck => Tally'
<1> SUFFICES ASSUME Base, Tally, OnAck PROVE Tally'
  OBVIOUS
<1>1. /\ pc = "ack" /\ job.pid \in Pid /\ job \in Job
      /\ UNCHANGED <<life, inbox, children, replaced>>
      /\ \A m \in ToSet(queue) : m \notin ToSet(queue') => m.kind = "ack"
      /\ Head(queue).how = "error" => life[job.pid] = "dead"
      /\ job.at \in 1..Len(job.group)
      /\ \A i \in job.at..Len(job.group) : job.group[i].pid = 0
  BY AckIs
<1>2. /\ Pids(job.before) \cup Pids(job.after) \subseteq Pids(children) \cup {0}
      /\ job.group \in Seq(Child) /\ Len(job.group) \in Nat
  BY <1>1, JobParts DEF Base, JobFit
<1>3. \A q : q # -1 /\ Heard(q) => Heard(q)'
  BY <1>1, HeardKept
<1>4. \A q : Alive(q)' => Alive(q)
  BY <1>1 DEF Alive
<1>5. -1 \notin Due /\ 0 \notin Pid
  BY DueIs
<1>6. Goes
  BY <1>1 DEF Goes
<1>7. CASE /\ pc' = "start"
           /\ job' = [job EXCEPT !.group[job.at].pid = job.pid,
                                 !.pid = 0, !.at = @ + 1, !.tries = 0]
  <2>1. /\ \E c \in Child :
              c.pid = job.pid /\ job'.group = With(job.group, job.at, c)
        /\ job'.before = job.before /\ job'.after = job.after
        /\ job'.pid = 0 /\ job'.kind = job.kind
    BY <1>7, StartedFits
  <2>2. PICK p, q, i : p = job.pid /\ q = job.group /\ i = job.at
    OBVIOUS
  <2>3. PICK c \in Child : c.pid = p /\ job'.group = With(q, i, c)
    BY <2>1, <2>2
  <2>4. q \in Seq(Child) /\ i \in 1..Len(q) /\ q[i].pid = 0
    BY <1>1, <1>2, <2>2
  <2>5. /\ Pids(With(q, i, c)) \subseteq Pids(q) \cup {p}
        /\ Pids(q) \cup {p} \subseteq Pids(With(q, i, c)) \cup {0}
    BY <2>3, <2>4, PidsAbout
  <2>6. Whole' <=> Whole
    BY <1>1, <1>7, <2>1 DEF Whole, Between
  <2>7. Due' \subseteq Due \cup {0}
    BY <1>1, <1>7, <2>1, <2>2, <2>3, <2>5, <2>6 DEF Due
  <2>8. Reached \subseteq Reached' \cup {0}
    BY <1>1, <2>1, <2>2, <2>3, <2>5, <2>6 DEF Reached
  <2>. QED
    BY <1>3, <1>4, <1>5, <1>6, <2>7, <2>8, TallyKept
<1>8. CASE pc' = "fail"
  BY <1>8, NoTally DEF Goes
<1>9. CASE /\ Head(queue).how = "error" /\ pc' = "take" /\ job' = NoJob
           /\ job.kind = "add"
  <2>1. Pids(job.group) \subseteq {0}
    <3>1. Len(job.group) <= 1
      BY <1>9 DEF Base, JobFit
    <3>2. \A i \in 1..Len(job.group) : job.group[i].pid = 0
      BY <1>1, <1>2, <3>1
    <3>. QED
      BY <1>2, <3>2, SetOf DEF Pids
  <2>2. Whole
    BY <1>9 DEF Whole
  <2>3. Due' = Pids(children) /\ Reached' = Pids(children) \cup {0} \cup replaced
    BY <1>1, <1>9, BetweenLists1
  <2>4. Due' \subseteq Due
    BY <2>2, <2>3 DEF Due
  <2>5. Reached \subseteq Reached' \cup {job.pid}
    BY <1>2, <2>1, <2>3 DEF Reached
  <2>6. ~Alive(job.pid)
    BY <1>1, <1>9 DEF Alive
  <2>. QED
    BY <1>3, <1>4, <1>5, <1>6, <2>4, <2>5, <2>6, TallyKept
<1>10. CASE /\ Head(queue).how = "error" /\ pc' = "start"
            /\ \/ job' = [job EXCEPT !.pid = 0, !.at = @ + 1]
               \/ job' = [job EXCEPT !.pid = 0, !.tries = @ + 1]
  <2>1. /\ job'.group = job.group /\ job'.kind = job.kind /\ job'.pid = 0
        /\ job'.before = job.before /\ job'.after = job.after
    BY <1>1, <1>10 DEF Job
  <2>2. Whole' <=> Whole
    BY <1>1, <1>10, <2>1 DEF Whole, Between
  <2>3. Due' \subseteq Due \cup {0}
    BY <1>1, <1>10, <2>1, <2>2 DEF Due
  <2>4. Reached \subseteq Reached' \cup {job.pid}
    BY <1>1, <2>1, <2>2 DEF Reached
  <2>5. ~Alive(job.pid)
    BY <1>1, <1>10 DEF Alive
  <2>. QED
    BY <1>3, <1>4, <1>5, <1>6, <2>3, <2>4, <2>5, TallyKept
<1>11. \/ /\ pc' = "start"
          /\ job' = [job EXCEPT !.group[job.at].pid = job.pid,
                                !.pid = 0, !.at = @ + 1, !.tries = 0]
       \/ pc' = "fail"
       \/ /\ Head(queue).how = "error" /\ pc' = "take" /\ job' = NoJob
          /\ job.kind = "add"
       \/ /\ Head(queue).how = "error" /\ pc' = "start"
          /\ \/ job' = [job EXCEPT !.pid = 0, !.at = @ + 1]
             \/ job' = [job EXCEPT !.pid = 0, !.tries = @ + 1]
  BY AckIs
<1>. QED
  BY <1>7, <1>8, <1>9, <1>10, <1>11

LEMMA TallyInit == Init => Tally
<1> SUFFICES ASSUME Init PROVE Tally
  OBVIOUS
<1>1. /\ life = [p \in Pid |-> "dead"] /\ pc = "idle" /\ children = <<>>
      /\ replaced = {}
  BY DEF Init
<1>2. Due = {}
  BY <1>1, BaseInit, BetweenLists, PidsFew DEF Between
<1>3. \A p \in Pid : ~Alive(p)
  BY <1>1 DEF Alive
<1>. QED
  BY <1>2, <1>3 DEF Tally, DeathsFit, OrphansFit

LEMMA TallyStep == Base /\ Tally /\ [Next]_vars => Tally'
<1> SUFFICES ASSUME Base, Tally, [Next]_vars PROVE Tally'
  OBVIOUS
<1>1. CASE Supervise
  BY <1>1, RestTally, StartAllTally, AddChildTally, UnknownTally, ForgetTally,
     FailingTally, OneForAllTally, RestForOneTally, TerminateNextTally,
     AllTerminatedTally, StartNextTally, IgnoredTally, AllStartedTally
     DEF Supervise
<1>2. CASE Tick
  BY <1>2, OnGoTally, OnMonitorTally, OnExitTally, OnMessageTally, OnDownTally,
     OnFlushTally, OnAckTally DEF Tick
<1>3. ASSUME NEW p \in Pid, \/ InitOk(p) \/ InitFail(p)
                            \/ \E why \in {"normal", "error"} : Crash(p, why)
      PROVE  Tally'
  BY <1>3, InitOkTally, InitFailTally, CrashTally
<1>4. ASSUME NEW spec \in config.extra, StartChild(spec) PROVE Tally'
  BY <1>4, StartChildTally
<1>5. CASE UNCHANGED vars
  BY <1>5, StutterTally
<1>. QED
  BY <1>1, <1>2, <1>3, <1>4, <1>5 DEF Next

-----------------------------------------------------------------------------
(* The order of children.                                                  *)
Orderly == KnownFit /\ OrderFit

LEMMA SameConfig ==
    ASSUME config' = config
    PROVE  /\ Known' = Known /\ InOrder' = InOrder
           /\ (Simple' <=> Simple) /\ (Steady' <=> Steady)
           /\ \A id : Declared(id)' = Declared(id)
<1>1. \A id : Declared(id)' = Declared(id)
  BY DEF Declared, SelectInSeq
<1>2. InOrder' = InOrder
  BY <1>1 DEF InOrder, Rank, Child
<1>3. Steady' <=> Steady
  BY <1>1 DEF Steady
<1>4. Known' = Known /\ (Simple' <=> Simple)
  BY DEF Known, Simple
<1>. QED
  BY <1>1, <1>2, <1>3, <1>4

LEMMA OrderMade ==
    ASSUME config' = config,
           ~Simple /\ Steady =>
              AllPairs(children', InOrder) /\ AllPairs(Work', InOrder),
           ~Simple /\ Steady /\ Goes' =>
              \A spec \in config.extra : Declared(spec.id) # 0 =>
                  /\ Whole' /\ Booted' => Has(children', spec.id)
                  /\ ~Between' => Has(Work', spec.id)
    PROVE  OrderFit'
<1>1. /\ InOrder' = InOrder /\ (Simple' <=> Simple) /\ (Steady' <=> Steady)
      /\ \A id : Declared(id)' = Declared(id)
  BY SameConfig
<1>2. (AllPairs(children, InOrder))' <=> AllPairs(children', InOrder)
  BY <1>1 DEF AllPairs
<1>3. (AllPairs(Work, InOrder))' <=> AllPairs(Work', InOrder)
  BY <1>1 DEF AllPairs
<1>4. \A id : Has(children, id)' <=> Has(children', id)
  BY DEF Has
<1>5. \A id : Has(Work, id)' <=> Has(Work', id)
  BY DEF Has
<1>. QED
  BY <1>1, <1>2, <1>3, <1>4, <1>5 DEF OrderFit

LEMMA KnownKept ==
    ASSUME KnownFit, config' = config,
           \A m \in ToSet(queue') \cup ToSet(inbox') : m.kind = "start_child" =>
              m \in ToSet(queue) \cup ToSet(inbox) \/ m.spec \in config.extra,
           \A c \in ToSet(children') \cup ToSet(Work') :
              \/ c.spec \in Known
              \/ \E d \in ToSet(children) \cup ToSet(Work) : d.spec = c.spec
    PROVE  KnownFit'
<1>1. Known' = Known
  BY SameConfig
<1>. QED
  BY <1>1 DEF KnownFit

(* A step that leaves the lists alone. *)
LEMMA ListsOrder ==
    ASSUME Orderly, UNCHANGED <<config, children>>, Work' = Work, Goes' => Goes,
           Whole' /\ Booted' => Whole /\ Booted, ~Between' => ~Between,
           \A m \in ToSet(queue') \cup ToSet(inbox') : m.kind = "start_child" =>
              m \in ToSet(queue) \cup ToSet(inbox) \/ m.spec \in config.extra
    PROVE  Orderly'
<1>1. KnownFit'
  <2>1. \A c \in ToSet(children') \cup ToSet(Work') :
           \E d \in ToSet(children) \cup ToSet(Work) : d.spec = c.spec
    OBVIOUS
  <2>. QED
    BY <2>1, KnownKept DEF Orderly
<1>2. OrderFit'
  <2>1. ~Simple /\ Steady =>
           AllPairs(children', InOrder) /\ AllPairs(Work', InOrder)
    BY DEF Orderly, OrderFit
  <2>2. ~Simple /\ Steady /\ Goes' =>
           \A spec \in config.extra : Declared(spec.id) # 0 =>
               /\ Whole' /\ Booted' => Has(children', spec.id)
               /\ ~Between' => Has(Work', spec.id)
    BY DEF Orderly, OrderFit
  <2>. QED
    BY <2>1, <2>2, OrderMade
<1>. QED
  BY <1>1, <1>2 DEF Orderly

(* Processes act, and messages move. *)
LEMMA PostsOrder ==
    ASSUME Orderly, UNCHANGED <<config, children>>, Work' = Work,
           job'.kind = job.kind, pc' = "dead" <=> pc = "dead", pc' # "fail",
           pc # "fail", Between' <=> Between,
           \A m \in ToSet(queue) \cup ToSet(inbox) : m.kind = "start_children" =>
              m \in ToSet(queue') \cup ToSet(inbox'),
           \A m \in ToSet(queue') \cup ToSet(inbox') : m.kind = "start_child" =>
              m \in ToSet(queue) \cup ToSet(inbox) \/ m.spec \in config.extra
    PROVE  Orderly'
<1>1. StartChildren.kind = "start_children"
  BY DEF StartChildren
<1>2. Booted' => Booted
  BY <1>1 DEF Booted
<1>3. (Goes' <=> Goes) /\ (Whole' <=> Whole)
  BY DEF Goes, Whole
<1>. QED
  BY <1>2, <1>3, ListsOrder

(* A place that keeps its id. *)
LEMMA Alike ==
    ASSUME NEW c \in Child, NEW d \in Child, c.spec.id = d.spec.id
    PROVE  \A e \in Child : /\ e \in InOrder[c] => e \in InOrder[d]
                            /\ c \in InOrder[e] => d \in InOrder[e]
<1>1. Rank(c) = Rank(d)
  BY DEF Rank
<1>. QED
  BY <1>1 DEF InOrder

LEMMA HasJoined ==
    ASSUME NEW a \in Seq(Child), NEW b \in Seq(Child), NEW id
    PROVE  Has(a \o b, id) <=> Has(a, id) \/ Has(b, id)
<1>1. ToSet(a \o b) = ToSet(a) \cup ToSet(b)
  BY JoinedSet
<1>. QED
  BY <1>1 DEF Has

LEMMA WithOrder ==
    ASSUME NEW a \in Seq(Child), NEW q \in Seq(Child), NEW b \in Seq(Child),
           NEW i \in 1..Len(q), NEW x \in Child, x.spec.id = q[i].spec.id
    PROVE  /\ With(q, i, x) \in Seq(Child)
           /\ AllPairs(a \o q \o b, InOrder)
                 => AllPairs(a \o With(q, i, x) \o b, InOrder)
           /\ \A id : Has(q, id) => Has(With(q, i, x), id)
<1>1. q[i] \in Child
  BY SetOf
<1>2. /\ \A e \in Child : q[i] \in InOrder[e] => x \in InOrder[e]
      /\ \A e \in Child : e \in InOrder[q[i]] => e \in InOrder[x]
  BY <1>1, Alike
<1>3. /\ \A c \in ToSet(a) \cup ToSet(q) : q[i] \in InOrder[c] => x \in InOrder[c]
      /\ \A d \in ToSet(q) \cup ToSet(b) : d \in InOrder[q[i]] => d \in InOrder[x]
  BY <1>2, PidsAre
<1>4. ASSUME AllPairs(a \o q \o b, InOrder)
      PROVE  AllPairs(a \o With(q, i, x) \o b, InOrder)
  BY <1>3, <1>4, PairsPatched
<1>5. With(q, i, x) \in Seq(Child)
  BY ReplacedAt
<1>6. \A id : Has(q, id) => Has(With(q, i, x), id)
  <2>1. /\ \A c : c \in ToSet(q) <=> \/ c \in ToSet(Ahead(q, i)) \/ c = q[i]
                                     \/ c \in ToSet(Behind(q, i))
        /\ Ahead(q, i) \in Seq(Child) /\ Behind(q, i) \in Seq(Child)
    BY About, PidsAbout
  <2>2. \A c : c \in ToSet(With(q, i, x)) <=> \/ c \in ToSet(Ahead(q, i)) \/ c = x
                                              \/ c \in ToSet(Behind(q, i))
    BY Replaced
  <2>. QED
    BY <2>1, <2>2 DEF Has
<1>. QED
  BY <1>4, <1>5, <1>6

(* Nobody has taken the first message but the one who is asked to start.   *)
LEMMA BootedIs ==
    ASSUME Base, pc \in {"terminate", "down", "flush", "start", "ack", "fail"}
                 \/ (pc = "take" /\ Head(inbox).kind # "start_children")
    PROVE  Booted
<1>1. StartChildren \notin ToSet(queue)
  BY DEF Base, BootFit
<1>2. StartChildren \notin ToSet(inbox)
  <2>1. SUFFICES ASSUME StartChildren \in ToSet(inbox) PROVE FALSE
    OBVIOUS
  <2>2. pc = "take" /\ inbox = <<StartChildren>>
    BY <2>1 DEF Base, BootFit
  <2>3. Head(inbox) = StartChildren
    BY <2>2
  <2>4. StartChildren.kind = "start_children"
    BY DEF StartChildren
  <2>. QED
    BY <2>2, <2>3, <2>4
<1>. QED
  BY <1>1, <1>2 DEF Booted

(* Between two messages nothing is in the works. *)
LEMMA NoWork ==
    /\ (job = NoJob => Work = <<>>)
    /\ (job' = NoJob => Work' = <<>>)
    /\ \A R : AllPairs(<<>>, R)
    /\ ToSet(<<>>) = {}
<1>1. <<>> \in Seq(Child) /\ <<>> \o <<>> = <<>> /\ ToSet(<<>>) = {}
  BY PidsFew, ConcatEmptySeq DEF ToSet
<1>2. (job = NoJob => Work = <<>>) /\ (job' = NoJob => Work' = <<>>)
  BY <1>1, NoJobIs DEF Work
<1>. QED
  BY <1>1, <1>2 DEF AllPairs

LEMMA RestOrder == Base /\ Orderly /\ Rest => Orderly'
<1> SUFFICES ASSUME Base, Orderly, Rest PROVE Orderly'
  OBVIOUS
<1>1. /\ pc = "take" /\ pc' = "idle"
      /\ UNCHANGED <<config, queue, inbox, children, job>>
  BY DEF Rest
<1>2. Work' = Work /\ Between /\ Between'
  BY <1>1 DEF Work, Between
<1>. QED
  BY <1>1, <1>2, PostsOrder

LEMMA StutterOrder == Base /\ Orderly /\ UNCHANGED vars => Orderly'
<1> SUFFICES ASSUME Base, Orderly, UNCHANGED vars PROVE Orderly'
  OBVIOUS
<1>1. UNCHANGED <<config, queue, inbox, pc, children, job>>
  BY DEF vars
<1>2. Work' = Work /\ (Goes' <=> Goes) /\ (Between' <=> Between)
      /\ (Whole' <=> Whole) /\ (Booted' <=> Booted)
  BY <1>1 DEF Work, Between, Goes, Whole, Booted
<1>. QED
  BY <1>1, <1>2, ListsOrder

LEMMA StartNextOrder == Base /\ Orderly /\ StartNext => Orderly'
<1> SUFFICES ASSUME Base, Orderly, StartNext PROVE Orderly'
  OBVIOUS
<1>1. PICK p : p = Min(Fresh)
  OBVIOUS
<1>2. /\ pc = "start" /\ Fresh # {} /\ job' = [job EXCEPT !.pid = p]
      /\ queue' = Append(queue, Sig("go", p)) /\ pc' = "ack"
      /\ UNCHANGED <<config, inbox, children>>
  BY <1>1 DEF StartNext, StartsNext
<1>3. p \in Pid
  BY <1>1, <1>2, FreshIs
<1>4. PICK go \in Post : go = Sig("go", p) /\ go.kind = "go"
  BY <1>3, Made
<1>5. queue \in Seq(Post)
  BY DEF Base, TypeOK, Post
<1>6. ToSet(queue') = ToSet(queue) \cup {go}
  BY <1>2, <1>4, <1>5, AppendSet
<1>7. /\ job'.kind = job.kind /\ job'.group = job.group
      /\ job'.before = job.before /\ job'.after = job.after
  BY <1>2 DEF Base, TypeOK, Job
<1>8. Work' = Work /\ ~Between /\ ~Between'
  BY <1>2, <1>7 DEF Work, Between
<1>. QED
  BY <1>2, <1>4, <1>6, <1>7, <1>8, PostsOrder

LEMMA OnGoOrder == Base /\ Orderly /\ (OnGo \/ OnMonitor) => Orderly'
<1> SUFFICES ASSUME Base, Orderly, OnGo \/ OnMonitor PROVE Orderly'
  OBVIOUS
<1>1. /\ queue # <<>> /\ Head(queue).kind \in {"go", "monitor"} /\ queue' = Tail(queue)
      /\ ~Runs /\ UNCHANGED <<config, inbox, pc, children, job>>
  BY DEF OnGo, OnMonitor, Fires
<1>2. ToSet(queue) = {Head(queue)} \cup ToSet(queue')
  BY <1>1, Fired
<1>3. Work' = Work /\ (Between' <=> Between) /\ pc # "fail"
  BY <1>1 DEF Work, Between, Runs
<1>. QED
  BY <1>1, <1>2, <1>3, PostsOrder

(* What a process sends. *)
LEMMA SentOrder ==
    ASSUME Base, Orderly, ~Runs, UNCHANGED <<config, inbox, pc, children, job>>,
           NEW q \in Seq(Post), NEW add \in Seq(Post), queue' = q \o add,
           ToSet(q) \subseteq ToSet(queue),
           \A m \in ToSet(queue) : m \in ToSet(q) \/ m.kind # "start_children",
           \A m \in ToSet(add) : m.kind = "start_child" => m.spec \in config.extra
    PROVE  Orderly'
<1>1. ToSet(queue') = ToSet(q) \cup ToSet(add)
  BY JoinedSet
<1>2. Work' = Work /\ (Between' <=> Between) /\ pc # "fail"
  BY DEF Work, Between, Runs
<1>. QED
  BY <1>1, <1>2, PostsOrder

LEMMA OnExitOrder == Base /\ Orderly /\ OnExit => Orderly'
<1> SUFFICES ASSUME Base, Orderly, OnExit PROVE Orderly'
  OBVIOUS
<1>1. PICK p : p = Head(queue).pid
  OBVIOUS
<1>2. /\ queue # <<>> /\ Head(queue).kind = "exit" /\ ~Runs
      /\ UNCHANGED <<config, inbox, pc, children, job>>
      /\ \/ queue' = Tail(queue) \o DeathOf(p, "killed")
         \/ queue' = Tail(queue)
  BY <1>1 DEF OnExit, Fires
<1>3. /\ Tail(queue) \in Seq(Post) /\ Head(queue) \in Post
      /\ ToSet(queue) = {Head(queue)} \cup ToSet(Tail(queue))
  BY <1>2, Fired
<1>4. p \in Pid
  BY <1>1, <1>2, <1>3, Shapes
<1>5. \A m \in ToSet(queue) : m \in ToSet(Tail(queue)) \/ m.kind # "start_children"
  BY <1>2, <1>3
<1>6. PICK add : add = DeathOf(p, "killed")
  OBVIOUS
<1>7. add \in Seq(Post) /\ \A m \in ToSet(add) : m.kind # "start_child"
  BY <1>4, <1>6, DeathSends, Made
<1>8. CASE queue' = Tail(queue) \o DeathOf(p, "killed")
  BY <1>2, <1>3, <1>5, <1>6, <1>7, <1>8, SentOrder
<1>9. CASE queue' = Tail(queue)
  <2>1. <<>> \in Seq(Post) /\ ToSet(<<>>) = {} /\ Tail(queue) \o <<>> = Tail(queue)
    BY <1>3, OneSingle, ConcatEmptySeq
  <2>. QED
    BY <1>2, <1>3, <1>5, <1>9, <2>1, SentOrder
<1>. QED
  BY <1>2, <1>8, <1>9

LEMMA CrashOrder ==
    ASSUME Base, Orderly, NEW p \in Pid, NEW why \in {"normal", "error"}, Crash(p, why)
    PROVE  Orderly'
<1>1. /\ queue' = queue \o DeathOf(p, why) /\ ~Runs
      /\ UNCHANGED <<config, inbox, pc, children, job>>
  BY DEF Crash
<1>2. PICK add : add = DeathOf(p, why)
  OBVIOUS
<1>3. add \in Seq(Post) /\ \A m \in ToSet(add) : m.kind # "start_child"
  BY <1>2, DeathSends, Made
<1>4. queue \in Seq(Post)
  BY DEF Base, TypeOK, Post
<1>. QED
  BY <1>1, <1>2, <1>3, <1>4, SentOrder

LEMMA InitOkOrder ==
    ASSUME Base, Orderly, NEW p \in Pid, InitOk(p)
    PROVE  Orderly'
<1>1. /\ ~Runs /\ life[p] \in {"init", "zombie"}
      /\ queue' = queue \o ToSupervisor(<<Ack(p, "ok")>>)
      /\ UNCHANGED <<config, inbox, pc, children, job>>
  BY DEF InitOk
<1>2. pc = "ack" /\ queue \in Seq(Post)
  BY <1>1, InitIs
<1>3. PICK o : o = One(Ack(p, "ok"))
  OBVIOUS
<1>4. o \in Seq(Post) /\ \A m \in ToSet(o) : m.kind # "start_child"
  BY <1>3, Made, OneIn
<1>5. queue' = queue \o o
  BY <1>1, <1>2, <1>3 DEF ToSupervisor, One
<1>. QED
  BY <1>1, <1>2, <1>4, <1>5, SentOrder

LEMMA InitFailOrder ==
    ASSUME Base, Orderly, NEW p \in Pid, InitFail(p)
    PROVE  Orderly'
<1>1. /\ ~Runs /\ life[p] \in {"init", "zombie"}
      /\ queue' = queue \o ToSupervisor(<<Ack(p, "error")>>)
                        \o IF life[p] = "init" THEN DeathOf(p, "error") ELSE <<>>
      /\ UNCHANGED <<config, inbox, pc, children, job>>
  BY DEF InitFail
<1>2. pc = "ack" /\ queue \in Seq(Post)
  BY <1>1, InitIs
<1>3. PICK o, d : o = One(Ack(p, "error")) /\ d = DeathOf(p, "error")
  OBVIOUS
<1>4. o \in Seq(Post) /\ \A m \in ToSet(o) : m.kind # "start_child"
  BY <1>3, Made, OneIn
<1>5. d \in Seq(Post) /\ \A m \in ToSet(d) : m.kind # "start_child"
  <2>1. d = DeathOf(p, "error")
    BY <1>3
  <2>2. /\ d \in Seq(Post)
        /\ \A m \in ToSet(d) : m \in {Exit(p, "error"), Sig("down", p)}
    BY <2>1, DeathSends
  <2>. QED
    BY <2>2, Made
<1>6. <<>> \in Seq(Post) /\ ToSet(<<>>) = {}
  BY Made, OneSingle
<1>7. PICK add : add = IF life[p] = "init" THEN d ELSE <<>>
  OBVIOUS
<1>8. add \in Seq(Post) /\ \A m \in ToSet(add) : m.kind # "start_child"
  BY <1>5, <1>6, <1>7
<1>9. queue' = (queue \o o) \o add
  BY <1>1, <1>2, <1>3, <1>7 DEF ToSupervisor, One
<1>10. queue \o o \o add = queue \o (o \o add)
  BY <1>2, <1>4, <1>8, ConcatAssociative
<1>11. PICK more : more = o \o add
  OBVIOUS
<1>12. more \in Seq(Post) /\ \A m \in ToSet(more) : m.kind # "start_child"
  BY <1>4, <1>8, <1>11, JoinedSet
<1>. QED
  BY <1>1, <1>2, <1>9, <1>10, <1>11, <1>12, SentOrder

LEMMA StartChildOrder ==
    ASSUME Base, Orderly, NEW spec \in config.extra, StartChild(spec)
    PROVE  Orderly'
<1>1. /\ ~Runs /\ queue' = Append(queue, StartChildOf(spec))
      /\ UNCHANGED <<config, inbox, pc, children, job>>
  BY DEF StartChild
<1>2. spec \in ChildSpec
  BY Configured DEF Base, TypeOK
<1>3. PICK m \in Post : m = StartChildOf(spec) /\ m.spec = spec
  BY <1>2, Made
<1>4. queue \in Seq(Post) /\ One(m) \in Seq(Post) /\ ToSet(One(m)) = {m}
  BY OneIn DEF Base, TypeOK, Post
<1>5. queue' = queue \o One(m)
  BY <1>1, <1>3, <1>4, AppendOne
<1>. QED
  BY <1>1, <1>3, <1>4, <1>5, SentOrder

LEMMA ListsOf ==
    ASSUME NEW a \in Seq(Child), NEW q \in Seq(Child), NEW b \in Seq(Child)
    PROVE  /\ a \o q \o b \in Seq(Child)
           /\ ToSet(a \o q \o b) = ToSet(a) \cup ToSet(q) \cup ToSet(b)
           /\ \A id : Has(a \o q \o b, id) <=> Has(a, id) \/ Has(q, id) \/ Has(b, id)
<1>1. PICK aq : aq = a \o q
  OBVIOUS
<1>2. aq \in Seq(Child) /\ ToSet(aq) = ToSet(a) \cup ToSet(q)
  BY <1>1, JoinedSet
<1>3. aq \o b \in Seq(Child) /\ ToSet(aq \o b) = ToSet(aq) \cup ToSet(b)
  BY <1>2, JoinedSet
<1>4. ToSet(a \o q \o b) = ToSet(a) \cup ToSet(q) \cup ToSet(b)
  BY <1>1, <1>2, <1>3
<1>. QED
  BY <1>1, <1>3, <1>4 DEF Has

(* A child of the group is left with, or without, its process. *)
LEMMA PatchedOrder ==
    ASSUME Base, Orderly, UNCHANGED <<config, children>>,
           pc \in {"down", "flush", "ack"}, pc' \in {"terminate", "start"},
           NEW i \in 1..Len(job.group), NEW x \in Child,
           x.spec = job.group[i].spec, job'.group = With(job.group, i, x),
           job'.before = job.before, job'.after = job.after, job'.kind = job.kind,
           \A m \in ToSet(queue') \cup ToSet(inbox') : m.kind = "start_child" =>
              m \in ToSet(queue) \cup ToSet(inbox)
    PROVE  Orderly'
<1>1. PICK a, q, b : a = job.before /\ q = job.group /\ b = job.after
  OBVIOUS
<1>2. a \in Seq(Child) /\ q \in Seq(Child) /\ b \in Seq(Child) /\ i \in 1..Len(q)
  BY <1>1, JobParts DEF Base, TypeOK
<1>3. PICK g : g = With(q, i, x)
  OBVIOUS
<1>4. Work = a \o q \o b /\ Work' = a \o g \o b /\ x.spec = q[i].spec
  BY <1>1, <1>3 DEF Work
<1>5. /\ g \in Seq(Child)
      /\ AllPairs(a \o q \o b, InOrder) => AllPairs(a \o g \o b, InOrder)
      /\ \A id : Has(q, id) => Has(g, id)
  BY <1>2, <1>3, <1>4, WithOrder
<1>6. \A id : Has(Work, id) => Has(Work', id)
  <2>1. \A id : Has(a \o q \o b, id) <=> Has(a, id) \/ Has(q, id) \/ Has(b, id)
    BY <1>2, ListsOf
  <2>2. \A id : Has(a \o g \o b, id) <=> Has(a, id) \/ Has(g, id) \/ Has(b, id)
    BY <1>2, <1>5, ListsOf
  <2>. QED
    BY <1>4, <1>5, <2>1, <2>2
<1>7. \A c \in ToSet(Work') : \E d \in ToSet(Work) : d.spec = c.spec
  <2>1. /\ \A c : c \in ToSet(g) <=> \/ c \in ToSet(Ahead(q, i)) \/ c = x
                                     \/ c \in ToSet(Behind(q, i))
    BY <1>2, <1>3, Replaced
  <2>2. /\ \A c : c \in ToSet(q) <=> \/ c \in ToSet(Ahead(q, i)) \/ c = q[i]
                                     \/ c \in ToSet(Behind(q, i))
    BY <1>2, About
  <2>3. \A c \in ToSet(g) : c \in ToSet(q) \/ (c = x /\ q[i] \in ToSet(q))
    BY <2>1, <2>2
  <2>4. \A c \in ToSet(g) : \E d \in ToSet(q) : d.spec = c.spec
    BY <1>4, <2>3
  <2>5. ToSet(a \o q \o b) = ToSet(a) \cup ToSet(q) \cup ToSet(b)
    BY <1>2, ListsOf
  <2>6. ToSet(a \o g \o b) = ToSet(a) \cup ToSet(g) \cup ToSet(b)
    BY <1>2, <1>5, ListsOf
  <2>7. ToSet(Work') = ToSet(Work)' /\ ToSet(Work') = ToSet(a \o g \o b)
    BY <1>4 DEF ToSet
  <2>. QED
    BY <1>4, <2>4, <2>5, <2>6, <2>7
<1>8. KnownFit'
  <2>1. \A c \in ToSet(children') \cup ToSet(Work') :
           \E d \in ToSet(children) \cup ToSet(Work) : d.spec = c.spec
    BY <1>7
  <2>. QED
    BY <2>1, KnownKept DEF Orderly
<1>9. /\ Goes /\ (Whole' <=> Whole) /\ Booted /\ ~Between
  BY BootedIs DEF Goes, Whole, Between
<1>10. ~Simple /\ Steady =>
          AllPairs(children', InOrder) /\ AllPairs(Work', InOrder)
  BY <1>4, <1>5 DEF Orderly, OrderFit
<1>11. ~Simple /\ Steady /\ Goes' =>
          \A spec \in config.extra : Declared(spec.id) # 0 =>
              /\ Whole' /\ Booted' => Has(children', spec.id)
              /\ ~Between' => Has(Work', spec.id)
  BY <1>6, <1>9 DEF Orderly, OrderFit
<1>. QED
  BY <1>8, <1>10, <1>11, OrderMade DEF Orderly

LEMMA TerminatedOrder ==
    ASSUME Base, Orderly, pc \in {"down", "flush"}, job' = Terminated,
           pc' = "terminate", UNCHANGED <<config, children>>,
           \A m \in ToSet(queue') \cup ToSet(inbox') : m.kind = "start_child" =>
              m \in ToSet(queue) \cup ToSet(inbox)
    PROVE  Orderly'
<1>1. /\ \E c \in Child :
            /\ c.pid = 0 /\ c.spec = job.group[Running].spec
            /\ Running \in 1..Len(job.group)
            /\ job'.group = With(job.group, Running, c)
      /\ job'.before = job.before /\ job'.after = job.after /\ job'.kind = job.kind
  BY TerminatedFits
<1>2. PICK i : i = Running
  OBVIOUS
<1>3. PICK c \in Child :
         /\ c.spec = job.group[i].spec /\ i \in 1..Len(job.group)
         /\ job'.group = With(job.group, i, c)
  BY <1>1, <1>2
<1>. QED
  BY <1>1, <1>3, PatchedOrder

LEMMA OnDownOrder == Base /\ Orderly /\ OnDown => Orderly'
<1> SUFFICES ASSUME Base, Orderly, OnDown PROVE Orderly'
  OBVIOUS
<1>1. PICK p : p = Head(queue).pid
  OBVIOUS
<1>2. /\ queue # <<>> /\ Head(queue).kind = "down" /\ pc = "down"
      /\ UNCHANGED <<config, children>>
      /\ \/ /\ queue' = Tail(queue) /\ inbox' = Flush(p)
            /\ job' = Terminated /\ pc' = "terminate"
         \/ /\ queue' = Append(Tail(queue), Sig("flush", p)) /\ pc' = "flush"
            /\ UNCHANGED <<inbox, job>>
  BY <1>1 DEF OnDown, Fires
<1>3. /\ Tail(queue) \in Seq(Post) /\ Head(queue) \in Post
      /\ ToSet(queue) = {Head(queue)} \cup ToSet(Tail(queue))
  BY <1>2, Fired
<1>4. p \in Pid /\ inbox \in Seq(Message)
  BY <1>1, <1>2, <1>3, Shapes DEF Base, TypeOK
<1>5. CASE /\ queue' = Tail(queue) /\ inbox' = Flush(p)
           /\ job' = Terminated /\ pc' = "terminate"
  <2>1. ToSet(inbox') \subseteq ToSet(inbox)
    BY <1>4, <1>5, Flushed
  <2>. QED
    BY <1>2, <1>3, <1>5, <2>1, TerminatedOrder
<1>6. CASE /\ queue' = Append(Tail(queue), Sig("flush", p)) /\ pc' = "flush"
           /\ UNCHANGED <<inbox, job>>
  <2>1. PICK m \in Post : m = Sig("flush", p) /\ m.kind = "flush"
    BY <1>4, Made
  <2>2. PICK q : q = Tail(queue)
    OBVIOUS
  <2>3. q \in Seq(Post) /\ queue' = Append(q, m)
    BY <1>3, <1>6, <2>1, <2>2
  <2>4. ToSet(Append(q, m)) = ToSet(q) \cup {m}
    BY <2>3, AppendSet
  <2>5. Work' = Work /\ ~Between /\ ~Between' /\ job'.kind = job.kind
    BY <1>2, <1>6 DEF Work, Between
  <2>. QED
    BY <1>2, <1>3, <1>6, <2>1, <2>2, <2>3, <2>4, <2>5, PostsOrder
<1>. QED
  BY <1>2, <1>5, <1>6

LEMMA OnFlushOrder == Base /\ Orderly /\ OnFlush => Orderly'
<1> SUFFICES ASSUME Base, Orderly, OnFlush PROVE Orderly'
  OBVIOUS
<1>1. /\ queue # <<>> /\ Head(queue).kind = "flush"
      /\ queue' = Tail(queue) /\ job' = Terminated /\ pc' = "terminate"
      /\ UNCHANGED <<config, inbox, children>>
  BY DEF OnFlush, Fires
<1>2. ToSet(queue) = {Head(queue)} \cup ToSet(queue') /\ Head(queue) \in ToSet(queue)
  BY <1>1, Fired
<1>3. Head(queue) \in Sent({"flush"})
  BY <1>1, <1>2 DEF Sent
<1>4. pc = "flush"
  BY <1>3 DEF Base, EndingFit
<1>. QED
  BY <1>1, <1>2, <1>4, TerminatedOrder

LEMMA OnMessageOrder == Base /\ Orderly /\ OnMessage => Orderly'
<1> SUFFICES ASSUME Base, Orderly, OnMessage PROVE Orderly'
  OBVIOUS
<1>1. PICK m : m = Head(queue)
  OBVIOUS
<1>2. /\ queue # <<>> /\ ~Runs
      /\ m.kind \in {"EXIT", "start_children", "start_child"}
      /\ UNCHANGED <<config, children>>
      /\ \/ /\ pc = "dead" /\ queue' = Tail(queue) /\ UNCHANGED <<inbox, pc, job>>
         \/ /\ pc = "flush" /\ job' = Terminated /\ pc' = "terminate"
            /\ queue' = RemoveFirstMatch(Tail(queue), IsFlush)
            /\ UNCHANGED inbox
         \/ /\ pc # "dead" /\ queue' = Tail(queue) /\ inbox' = Append(inbox, m)
            /\ pc' = (IF pc = "idle" THEN "take" ELSE pc)
            /\ UNCHANGED job
  BY <1>1 DEF OnMessage, Fires
<1>3. /\ Tail(queue) \in Seq(Post) /\ Single(Tail(queue)) /\ m \in Post
      /\ ToSet(queue) = {m} \cup ToSet(Tail(queue))
  BY <1>1, <1>2, Fired
<1>4. m \in Message /\ inbox \in Seq(Message)
  BY <1>2, <1>3, Shapes DEF Base, TypeOK
<1>5. CASE pc = "dead" /\ queue' = Tail(queue) /\ UNCHANGED <<inbox, pc, job>>
  <2>1. Work' = Work /\ ~Goes' /\ ~Between /\ ~Between'
    BY <1>5 DEF Work, Between, Goes
  <2>2. Whole' <=> Whole
    BY <1>5, <2>1 DEF Whole
  <2>3. Booted
    <3>1. StartChildren \in ToSet(queue) \cup ToSet(inbox) => pc \in {"idle", "take"}
      BY DEF Base, BootFit
    <3>. QED
      BY <1>5, <3>1 DEF Booted
  <2>. QED
    BY <1>2, <1>3, <1>5, <2>1, <2>2, <2>3, ListsOrder
<1>6. CASE /\ pc = "flush" /\ job' = Terminated /\ pc' = "terminate"
           /\ queue' = RemoveFirstMatch(Tail(queue), IsFlush)
           /\ UNCHANGED inbox
  <2>1. ToSet(queue') \subseteq ToSet(Tail(queue))
    BY <1>3, <1>6, Unflushed
  <2>. QED
    BY <1>2, <1>3, <1>6, <2>1, TerminatedOrder
<1>7. CASE /\ pc # "dead" /\ queue' = Tail(queue) /\ inbox' = Append(inbox, m)
           /\ pc' = (IF pc = "idle" THEN "take" ELSE pc)
           /\ UNCHANGED job
  <2>1. ToSet(inbox') = ToSet(inbox) \cup {m}
    BY <1>4, <1>7, AppendSet
  <2>2. Work' = Work /\ (Between' <=> Between) /\ pc # "fail"
    BY <1>2, <1>7 DEF Work, Between, Runs
  <2>. QED
    BY <1>2, <1>3, <1>7, <2>1, <2>2, PostsOrder
<1>. QED
  BY <1>2, <1>5, <1>6, <1>7

LEMMA OnAckOrder == Base /\ Orderly /\ OnAck => Orderly'
<1> SUFFICES ASSUME Base, Orderly, OnAck PROVE Orderly'
  OBVIOUS
<1>1. /\ pc = "ack" /\ job \in Job /\ UNCHANGED <<config, inbox, children>>
      /\ ToSet(queue') \subseteq ToSet(queue)
      /\ job.at \in 1..Len(job.group)
  BY AckIs
<1>2. CASE /\ pc' = "start"
           /\ job' = [job EXCEPT !.group[job.at].pid = job.pid,
                                 !.pid = 0, !.at = @ + 1, !.tries = 0]
  <2>1. /\ \E c \in Child :
              /\ c.pid = job.pid /\ c.spec = job.group[job.at].spec
              /\ job'.group = With(job.group, job.at, c)
        /\ job'.before = job.before /\ job'.after = job.after
        /\ job'.kind = job.kind
    BY <1>2, StartedFits
  <2>2. PICK i : i = job.at
    OBVIOUS
  <2>3. PICK c \in Child :
           c.spec = job.group[i].spec /\ job'.group = With(job.group, i, c)
    BY <2>1, <2>2
  <2>4. i \in 1..Len(job.group)
    BY <1>1, <2>2
  <2>. QED
    BY <1>1, <1>2, <2>1, <2>3, <2>4, PatchedOrder
<1>3. CASE /\ pc' \in {"start", "fail"}
           /\ \/ job' = job
              \/ job' = [job EXCEPT !.pid = 0, !.at = @ + 1]
              \/ job' = [job EXCEPT !.pid = 0, !.tries = @ + 1]
  <2>1. /\ job'.kind = job.kind /\ job'.group = job.group
        /\ job'.before = job.before /\ job'.after = job.after
    BY <1>1, <1>3 DEF Job
  <2>2. /\ Work' = Work /\ ~Between /\ ~Between' /\ (Whole' <=> Whole) /\ Goes
    BY <1>1, <1>3, <2>1 DEF Work, Between, Whole, Goes
  <2>3. Booted
    BY <1>1, BootedIs
  <2>. QED
    BY <1>1, <2>2, <2>3, ListsOrder
<1>4. CASE pc' = "take" /\ job' = NoJob /\ job.kind = "add"
  <2>1. /\ Work' = <<>> /\ Between' /\ Whole /\ Goes
    BY <1>1, <1>4, NoWork DEF Between, Whole, Goes
  <2>2. Booted
    BY <1>1, BootedIs
  <2>3. KnownFit'
    <3>1. ToSet(Work') = {}
      BY <2>1, NoWork
    <3>2. \A c \in ToSet(children') \cup ToSet(Work') :
             \E d \in ToSet(children) \cup ToSet(Work) : d.spec = c.spec
      BY <1>1, <3>1
    <3>. QED
      BY <1>1, <3>2, KnownKept DEF Orderly
  <2>4. ~Simple /\ Steady =>
           AllPairs(children', InOrder) /\ AllPairs(Work', InOrder)
    BY <1>1, <2>1, NoWork DEF Orderly, OrderFit
  <2>5. ~Simple /\ Steady /\ Goes' =>
           \A spec \in config.extra : Declared(spec.id) # 0 =>
               /\ Whole' /\ Booted' => Has(children', spec.id)
               /\ ~Between' => Has(Work', spec.id)
    BY <1>1, <2>1, <2>2 DEF Orderly, OrderFit
  <2>. QED
    BY <1>1, <2>3, <2>4, <2>5, OrderMade DEF Orderly
<1>5. \/ /\ pc' = "start"
         /\ job' = [job EXCEPT !.group[job.at].pid = job.pid,
                               !.pid = 0, !.at = @ + 1, !.tries = 0]
      \/ /\ pc' \in {"start", "fail"}
         /\ \/ job' = job
            \/ job' = [job EXCEPT !.pid = 0, !.at = @ + 1]
            \/ job' = [job EXCEPT !.pid = 0, !.tries = @ + 1]
      \/ pc' = "take" /\ job' = NoJob /\ job.kind = "add"
  BY AckIs
<1>. QED
  BY <1>2, <1>3, <1>4, <1>5

(* The supervisor gives up. *)
LEMMA FailsOrder == Base /\ Orderly /\ Runs /\ Fails => Orderly'
<1> SUFFICES ASSUME Base, Orderly, Runs, Fails PROVE Orderly'
  OBVIOUS
<1>1. /\ pc' = "dead" /\ inbox' = <<>> /\ children' = <<>> /\ job' = NoJob
      /\ config' = config
  BY DEF Fails
<1>2. /\ \A m \in ToSet(queue') :
            \/ m \in ToSet(queue)
            \/ \E p \in Pid : Alive(p) /\ m = Sig("exit", p)
  BY FailsSends DEF Base, TypeOK, Post
<1>3. Work' = <<>> /\ ToSet(inbox') = {} /\ ToSet(children') = {} /\ ToSet(Work') = {}
  BY <1>1, NoWork
<1>4. \A m \in ToSet(queue') \cup ToSet(inbox') : m.kind = "start_child" =>
         m \in ToSet(queue) \cup ToSet(inbox)
  BY <1>2, <1>3, Made
<1>5. KnownFit'
  BY <1>1, <1>3, <1>4, KnownKept DEF Orderly
<1>6. AllPairs(children', InOrder) /\ AllPairs(Work', InOrder)
  BY <1>1, <1>3, NoWork
<1>7. ~Goes'
  BY <1>1 DEF Goes
<1>. QED
  BY <1>1, <1>5, <1>6, <1>7, OrderMade DEF Orderly

LEMMA TerminateNextOrder == Base /\ Orderly /\ TerminateNext => Orderly'
<1> SUFFICES ASSUME Base, Orderly, TerminateNext PROVE Orderly'
  OBVIOUS
<1>1. pc = "terminate" /\ Runs
  BY DEF TerminateNext, Runs
<1>2. PICK p : p = job.group[Running].pid
  OBVIOUS
<1>3. CASE job.group[Running].spec.shutdown = "other"
  BY <1>1, <1>3, FailsOrder DEF TerminateNext
<1>4. CASE job.group[Running].spec.shutdown # "other"
  <2>1. /\ queue' = queue \o (IF Alive(p)
                              THEN <<Sig("monitor", p), Sig("exit", p)>>
                              ELSE <<Sig("down", p)>>)
        /\ job' = [job EXCEPT !.pid = p] /\ pc' = "down"
        /\ UNCHANGED <<config, inbox, children>>
    BY <1>2, <1>4 DEF TerminateNext
  <2>2. /\ Running \in 1..Len(job.group) /\ job.group \in Seq(Child) /\ job \in Job
        /\ job.group[Running].pid # 0
    BY JobParts, RunningIs DEF Base, TypeOK, TerminateNext
  <2>3. p \in Pid
    <3>1. p \in Pid \cup {0}
      BY <1>2, <2>2, PidsAre
    <3>. QED
      BY <1>2, <2>2, <3>1
  <2>4. PICK m1, m2, m3 : /\ m1 = Sig("monitor", p) /\ m2 = Sig("exit", p)
                          /\ m3 = Sig("down", p)
    OBVIOUS
  <2>5. /\ m1 \in Post /\ m1.kind = "monitor" /\ m2 \in Post /\ m2.kind = "exit"
        /\ m3 \in Post /\ m3.kind = "down"
    BY <2>3, <2>4, Made
  <2>6. PICK add : add = IF Alive(p) THEN One(m1) \o One(m2) ELSE One(m3)
    OBVIOUS
  <2>7. queue' = queue \o add
    BY <2>1, <2>4, <2>6 DEF One
  <2>8. add \in Seq(Post) /\ ToSet(add) \subseteq {m1, m2, m3}
    <3>1. /\ One(m1) \in Seq(Post) /\ ToSet(One(m1)) = {m1}
          /\ One(m2) \in Seq(Post) /\ ToSet(One(m2)) = {m2}
          /\ One(m3) \in Seq(Post) /\ ToSet(One(m3)) = {m3}
      BY <2>5, OneIn
    <3>2. /\ One(m1) \o One(m2) \in Seq(Post)
          /\ ToSet(One(m1) \o One(m2)) = ToSet(One(m1)) \cup ToSet(One(m2))
      BY <3>1, JoinedSet
    <3>. QED
      BY <2>6, <3>1, <3>2
  <2>9. queue \in Seq(Post)
    BY DEF Base, TypeOK, Post
  <2>10. ToSet(queue') = ToSet(queue) \cup ToSet(add)
    BY <2>7, <2>8, <2>9, JoinedSet
  <2>11. \A m \in ToSet(add) : m.kind # "start_child"
    BY <2>5, <2>8
  <2>12. /\ job'.kind = job.kind /\ job'.group = job.group
         /\ job'.before = job.before /\ job'.after = job.after
    BY <2>1, <2>2 DEF Job
  <2>13. Work' = Work /\ ~Between /\ ~Between'
    BY <1>1, <2>1, <2>12 DEF Work, Between
  <2>. QED
    BY <1>1, <2>1, <2>10, <2>11, <2>12, <2>13, PostsOrder
<1>. QED
  BY <1>3, <1>4

(* The supervisor takes the children into lists of their own. *)
LEMMA BeginOrder ==
    ASSUME Base, Orderly, pc = "take", inbox # <<>>,
           NEW kind \in {"start", "restart", "add"},
           NEW a \in Seq(Child), NEW b \in Seq(Child), NEW c \in Seq(Child),
           NEW where \in {"terminate", "start"},
           Begin(JobOf(kind, a, b, c), where),
           kind = "add" => Head(inbox).kind # "start_children",
           \A x \in ToSet(a) \cup ToSet(b) \cup ToSet(c) : x.spec \in Known,
           ~Simple /\ Steady =>
              /\ AllPairs(a \o b \o c, InOrder)
              /\ \A spec \in config.extra : Declared(spec.id) # 0 =>
                    Has(a \o b \o c, spec.id)
    PROVE  Orderly'
<1>1. PICK next : next = JobOf(kind, a, b, c)
  OBVIOUS
<1>2. /\ next.kind = kind /\ next.before = a /\ next.group = b /\ next.after = c
  BY <1>1, JobMade
<1>3. /\ job' = next /\ pc' = where /\ inbox' = Tail(inbox)
      /\ UNCHANGED <<config, queue, children>>
  BY <1>1 DEF Begin
<1>4. Work' = a \o b \o c
  BY <1>2, <1>3 DEF Work
<1>5. ToSet(a \o b \o c) = ToSet(a) \cup ToSet(b) \cup ToSet(c)
  BY ListsOf
<1>6. KnownFit'
  <2>1. ToSet(inbox') \subseteq ToSet(inbox)
    BY <1>3, Taken
  <2>2. ToSet(Work') = ToSet(a \o b \o c)
    BY <1>4
  <2>3. \A x \in ToSet(children') \cup ToSet(Work') :
           \/ x.spec \in Known
           \/ \E d \in ToSet(children) \cup ToSet(Work) : d.spec = x.spec
    BY <1>3, <1>5, <2>2
  <2>. QED
    BY <1>3, <2>1, <2>3, KnownKept DEF Orderly
<1>7. /\ ~Between' /\ Goes /\ Whole /\ (Whole' => kind = "add")
  BY <1>2, <1>3 DEF Between, Goes, Whole
<1>8. kind = "add" => Booted
  BY BootedIs
<1>9. ~Simple /\ Steady => AllPairs(children', InOrder) /\ AllPairs(Work', InOrder)
  BY <1>3, <1>4 DEF Orderly, OrderFit
<1>10. ~Simple /\ Steady /\ Goes' =>
          \A spec \in config.extra : Declared(spec.id) # 0 =>
              /\ Whole' /\ Booted' => Has(children', spec.id)
              /\ ~Between' => Has(Work', spec.id)
  BY <1>3, <1>4, <1>7, <1>8 DEF Orderly, OrderFit
<1>. QED
  BY <1>3, <1>6, <1>9, <1>10, OrderMade DEF Orderly

LEMMA StartAllOrder == Base /\ Orderly /\ StartAll => Orderly'
<1> SUFFICES ASSUME Base, Orderly, StartAll PROVE Orderly'
  OBVIOUS
<1>1. /\ Booting \in Seq(Child) /\ <<>> \in Seq(Child) /\ ToSet(<<>>) = {}
      /\ Simple => Booting = <<>>
      /\ ~Simple => /\ Len(Booting) = Len(config.specs)
                    /\ \A i \in 1..Len(config.specs) :
                          Booting[i] \in Child /\ Booting[i].spec = config.specs[i]
  BY BootingIs, NoWork DEF Base, TypeOK
<1>2. Begin(JobOf("start", <<>>, Booting, <<>>), "start")
  BY DEF StartAll, Booting
<1>3. pc = "take" /\ inbox # <<>>
  BY DEF StartAll, Takes
<1>4. /\ Sound(config) /\ Len(config.specs) \in Nat
      /\ \A i \in 1..Len(config.specs) : config.specs[i] \in ToSet(config.specs)
      /\ DOMAIN config.specs = 1..Len(config.specs)
  BY Configured, SetOf DEF Base, TypeOK
<1>5. \A x \in ToSet(<<>>) \cup ToSet(Booting) \cup ToSet(<<>>) : x.spec \in Known
  <2>1. CASE Simple
    BY <1>1, <2>1
  <2>2. CASE ~Simple
    <3>1. SUFFICES ASSUME NEW x \in ToSet(Booting) PROVE x.spec \in Known
      BY <1>1
    <3>2. PICK i \in 1..Len(Booting) : x = Booting[i]
      BY <1>1, SetOf
    <3>. QED
      BY <1>1, <1>4, <2>2, <3>2 DEF Known
  <2>. QED
    BY <2>1, <2>2
<1>6. <<>> \o Booting \o <<>> = Booting
  BY <1>1, ConcatEmptySeq
<1>7. ASSUME ~Simple
      PROVE  /\ AllPairs(Booting, InOrder)
             /\ \A spec \in config.extra : Declared(spec.id) # 0 => Has(Booting, spec.id)
  <2>1. \A i \in 1..Len(config.specs) : Declared(config.specs[i].id) = i
    <3> SUFFICES ASSUME NEW i \in 1..Len(config.specs)
                 PROVE  Declared(config.specs[i].id) = i
      OBVIOUS
    <3>1. PICK id : id = config.specs[i].id
      OBVIOUS
    <3>2. \/ \A k \in 1..Len(config.specs) : config.specs[k].id # id
          \/ /\ Declared(id) \in 1..Len(config.specs)
             /\ config.specs[Declared(id)].id = id
      BY DeclaredIs DEF Base, TypeOK
    <3>. QED
      BY <1>4, <3>1, <3>2 DEF Sound
  <2>2. \A i \in 1..Len(Booting) : Booting[i] \in Child /\ Rank(Booting[i]) = i
    BY <1>1, <1>7, <2>1 DEF Rank
  <2>3. AllPairs(Booting, InOrder)
    BY <2>2 DEF AllPairs, InOrder
  <2>4. ASSUME NEW spec \in config.extra, Declared(spec.id) # 0
        PROVE  Has(Booting, spec.id)
    <3>1. PICK i \in 1..Len(config.specs) : config.specs[i].id = spec.id
      BY <2>4, DeclaredIs DEF Base, TypeOK
    <3>2. Booting[i] \in ToSet(Booting) /\ Booting[i].spec.id = spec.id
      BY <1>1, <1>7, <3>1, SetOf
    <3>. QED
      BY <3>2 DEF Has
  <2>. QED
    BY <2>3, <2>4
<1>. QED
  BY <1>1, <1>2, <1>3, <1>5, <1>6, <1>7, BeginOrder

LEMMA UnknownOrder == Base /\ Orderly /\ Unknown => Orderly'
<1> SUFFICES ASSUME Base, Orderly, Unknown PROVE Orderly'
  OBVIOUS
<1>1. /\ pc = "take" /\ inbox # <<>> /\ Head(inbox).kind = "EXIT"
      /\ pc' = "take" /\ job' = NoJob /\ inbox' = Tail(inbox)
      /\ UNCHANGED <<config, queue, children>>
  BY DEF Unknown, Takes, Begin
<1>2. job = NoJob /\ ToSet(inbox') \subseteq ToSet(inbox)
  BY <1>1, Taken
<1>3. Work' = Work /\ (Whole' <=> Whole) /\ (Goes' <=> Goes) /\ Between
  BY <1>1, <1>2 DEF Work, Whole, Goes, Between
<1>4. Booted /\ Between'
  BY <1>1, BootedIs DEF Between
<1>. QED
  BY <1>1, <1>2, <1>3, <1>4, ListsOrder

LEMMA ForgetOrder == Base /\ Orderly /\ Forget => Orderly'
<1> SUFFICES ASSUME Base, Orderly, Forget PROVE Orderly'
  OBVIOUS
<1>1. /\ pc = "take" /\ inbox # <<>> /\ Head(inbox).kind = "EXIT" /\ Dead # 0
      /\ inbox' = Tail(inbox)
      /\ children' = IF Simple THEN RemoveAt(children, Dead)
                     ELSE [children EXCEPT ![Dead].pid = 0]
      /\ UNCHANGED <<config, queue, pc, job>>
  BY DEF Forget, Takes
<1>2. job = NoJob /\ ToSet(inbox') \subseteq ToSet(inbox)
  BY <1>1, Taken
<1>3. children \in Seq(Child)
  BY DEF Base, TypeOK
<1>4. PICK i \in 1..Len(children) : i = Dead
  BY <1>1, <1>3, DeadIs
<1>5. PICK x \in Child : x = Zero(children[i]) /\ x.spec = children[i].spec
  BY <1>3, PidsAre, Zeroed
<1>6. children' = IF Simple THEN RemoveAt(children, i) ELSE With(children, i, x)
  BY <1>1, <1>4, <1>5 DEF With, Zero
<1>7. Work' = <<>> /\ Booted /\ Whole /\ Goes /\ Between'
  BY <1>1, <1>2, NoWork, BootedIs DEF Whole, Goes, Between
<1>8. KnownFit'
  <2>1. \A c \in ToSet(RemoveAt(children, i)) : c \in ToSet(children)
    BY <1>3, About
  <2>2. \A c \in ToSet(With(children, i, x)) :
           c \in ToSet(children) \/ (c = x /\ children[i] \in ToSet(children))
    BY <1>3, About, Replaced
  <2>3. ToSet(children') = IF Simple THEN ToSet(RemoveAt(children, i))
                                     ELSE ToSet(With(children, i, x))
    BY <1>6
  <2>4. \A c \in ToSet(children') : \E d \in ToSet(children) : d.spec = c.spec
    BY <1>5, <2>1, <2>2, <2>3
  <2>5. ToSet(Work') = {}
    BY <1>7, NoWork
  <2>. QED
    BY <1>1, <1>2, <2>4, <2>5, KnownKept DEF Orderly
<1>9. ASSUME ~Simple, Steady
      PROVE  /\ AllPairs(children', InOrder)
             /\ \A id : Has(children, id) => Has(children', id)
  <2>1. PICK w : w = With(children, i, x)
    OBVIOUS
  <2>2. /\ <<>> \in Seq(Child) /\ w \in Seq(Child) /\ x.spec.id = children[i].spec.id
    BY <1>3, <1>5, <2>1, PidsFew, PidsAbout
  <2>3. /\ AllPairs(<<>> \o children \o <<>>, InOrder)
             => AllPairs(<<>> \o w \o <<>>, InOrder)
        /\ \A id : Has(children, id) => Has(w, id)
    BY <1>3, <2>1, <2>2, WithOrder
  <2>4. <<>> \o children \o <<>> = children /\ <<>> \o w \o <<>> = w
    BY <1>3, <2>2, ConcatEmptySeq
  <2>5. AllPairs(children, InOrder)
    BY <1>9 DEF Orderly, OrderFit
  <2>. QED
    BY <1>6, <1>9, <2>1, <2>3, <2>4, <2>5
<1>10. ~Simple /\ Steady => AllPairs(children', InOrder) /\ AllPairs(Work', InOrder)
  BY <1>7, <1>9, NoWork
<1>11. ~Simple /\ Steady /\ Goes' =>
          \A spec \in config.extra : Declared(spec.id) # 0 =>
              /\ Whole' /\ Booted' => Has(children', spec.id)
              /\ ~Between' => Has(Work', spec.id)
  BY <1>7, <1>9 DEF Orderly, OrderFit
<1>. QED
  BY <1>1, <1>8, <1>10, <1>11, OrderMade DEF Orderly

LEMMA Members ==
    ASSUME NEW q \in Seq(Child)
    PROVE  \A x \in ToSet(q) : x \in Child /\ \E i \in 1..Len(q) : x = q[i]
BY SetOf

LEMMA AddChildOrder == Base /\ Orderly /\ AddChild => Orderly'
<1> SUFFICES ASSUME Base, Orderly, AddChild PROVE Orderly'
  OBVIOUS
<1>1. /\ pc = "take" /\ inbox # <<>> /\ Head(inbox).kind = "start_child"
      /\ Added \in ChildSpec
  BY AddChildIs
<1>2. PICK x \in Child :
         /\ x.pid = 0 /\ x.spec = Added
         /\ \/ /\ Simple
               /\ Begin(JobOf("add", <<>>, One(x), children), "start")
            \/ /\ ~Simple
               /\ \A i \in 1..Len(children) : children[i].spec.id # Added.id
               /\ Begin(JobOf("add", children, One(x), <<>>), "start")
            \/ /\ ~Simple
               /\ \E i \in 1..Len(children) :
                     /\ children[i].spec.id = Added.id
                     /\ Begin(JobOf("add", Ahead(children, i), One(x),
                                    Behind(children, i)), "start")
  BY AddChildIs
<1>3. /\ children \in Seq(Child) /\ config \in Config
      /\ One(x) \in Seq(Child) /\ ToSet(One(x)) = {x}
      /\ <<>> \in Seq(Child) /\ ToSet(<<>>) = {}
  BY OneIn, NoWork DEF Base, TypeOK
<1>4. Added \in Known
  <2>1. CASE Simple
    <3>1. Len(config.specs) = 1
      BY <1>3, <2>1, Configured, SetOf DEF Sound, Simple
    <3>. QED
      BY <1>3, <2>1, <3>1, Configured DEF Added, Known
  <2>2. CASE ~Simple
    <3>1. Head(inbox) \in ToSet(inbox)
      BY <1>1, Taken
    <3>. QED
      BY <1>1, <2>2, <3>1 DEF Added, Known, Orderly, KnownFit
  <2>. QED
    BY <2>1, <2>2
<1>5. \A c \in ToSet(children) : c.spec \in Known
  BY DEF Orderly, KnownFit
<1>6. ~Simple => Added \in config.extra
  <2>1. Head(inbox) \in ToSet(inbox)
    BY <1>1, Taken
  <2>. QED
    BY <1>1, <2>1 DEF Added, Orderly, KnownFit
<1>7. Booted /\ Whole /\ Goes
  BY <1>1, BootedIs DEF Whole, Goes, Between
<1>8. ~Simple /\ Steady =>
         /\ AllPairs(children, InOrder)
         /\ \A spec \in config.extra : Declared(spec.id) # 0 => Has(children, spec.id)
  BY <1>7 DEF Orderly, OrderFit
<1>9. CASE Simple
  <2>1. Begin(JobOf("add", <<>>, One(x), children), "start")
    BY <1>2, <1>9
  <2>2. \A c \in ToSet(<<>>) \cup ToSet(One(x)) \cup ToSet(children) : c.spec \in Known
    BY <1>2, <1>3, <1>4, <1>5
  <2>. QED
    BY <1>1, <1>3, <1>9, <2>1, <2>2, BeginOrder
<1>10. ASSUME ~Simple, \A i \in 1..Len(children) : children[i].spec.id # Added.id,
              Begin(JobOf("add", children, One(x), <<>>), "start")
       PROVE  Orderly'
  <2>1. \A c \in ToSet(children) \cup ToSet(One(x)) \cup ToSet(<<>>) : c.spec \in Known
    BY <1>2, <1>3, <1>4, <1>5
  <2>2. children \o One(x) \o <<>> = children \o One(x)
    BY <1>3, Joined, ConcatEmptySeq
  <2>3. ASSUME Steady
        PROVE  /\ AllPairs(children \o One(x), InOrder)
               /\ \A spec \in config.extra : Declared(spec.id) # 0 =>
                     Has(children \o One(x), spec.id)
    <3>1. ~Has(children, Added.id)
      BY <1>3, <1>10, Members DEF Has
    <3>2. Rank(x) = 0
      BY <1>2, <1>6, <1>8, <1>10, <2>3, <3>1 DEF Rank
    <3>3. \A c \in ToSet(children) : x \in InOrder[c]
      BY <1>3, <3>2, Members DEF InOrder
    <3>4. AllPairs(One(x), InOrder)
      BY <1>3, PairsFew
    <3>5. AllPairs(children, InOrder)
      BY <1>8, <1>10, <2>3
    <3>6. \A c \in ToSet(children), d \in ToSet(One(x)) : d \in InOrder[c]
      BY <1>3, <3>3
    <3>7. AllPairs(children \o One(x), InOrder)
      BY <1>3, <3>4, <3>5, <3>6, PairsJoin
    <3>8. \A spec \in config.extra : Declared(spec.id) # 0 =>
             Has(children \o One(x), spec.id)
      BY <1>3, <1>8, <1>10, <2>3, HasJoined
    <3>. QED
      BY <3>7, <3>8
  <2>. QED
    BY <1>1, <1>3, <1>10, <2>1, <2>2, <2>3, BeginOrder
<1>11. ASSUME ~Simple, NEW i \in 1..Len(children), children[i].spec.id = Added.id,
              Begin(JobOf("add", Ahead(children, i), One(x), Behind(children, i)), "start")
       PROVE  Orderly'
  <2>1. PICK a, b : a = Ahead(children, i) /\ b = Behind(children, i)
    OBVIOUS
  <2>2. a \in Seq(Child) /\ b \in Seq(Child)
    BY <1>3, <2>1, PidsAbout
  <2>3. \A c \in ToSet(a) \cup ToSet(One(x)) \cup ToSet(b) : c.spec \in Known
    BY <1>2, <1>3, <1>4, <1>5, <2>1, About
  <2>4. PICK w : w = With(children, i, x)
    OBVIOUS
  <2>5. w = a \o One(x) \o b
    BY <1>3, <2>1, <2>4, SplitWith
  <2>6. /\ w \in Seq(Child)
        /\ AllPairs(<<>> \o children \o <<>>, InOrder)
              => AllPairs(<<>> \o w \o <<>>, InOrder)
        /\ \A id : Has(children, id) => Has(w, id)
    BY <1>2, <1>3, <1>11, <2>4, WithOrder
  <2>7. <<>> \o children \o <<>> = children /\ <<>> \o w \o <<>> = w
    BY <1>3, <2>6, ConcatEmptySeq
  <2>8. ~Simple /\ Steady =>
           /\ AllPairs(w, InOrder)
           /\ \A spec \in config.extra : Declared(spec.id) # 0 => Has(w, spec.id)
    BY <1>8, <2>6, <2>7
  <2>9. Begin(JobOf("add", a, One(x), b), "start")
    BY <1>11, <2>1
  <2>. QED
    BY <1>1, <1>3, <2>2, <2>3, <2>5, <2>8, <2>9, BeginOrder
<1>. QED
  BY <1>2, <1>9, <1>10, <1>11

(* Whatever goes by an id that nobody may drop is not dropped. *)
LEMMA Lasts ==
    ASSUME config \in Config, Steady, NEW spec \in config.extra,
           Declared(spec.id) # 0, NEW c \in Child, c.spec \in Known,
           c.spec.id = spec.id
    PROVE  Permanently(c)
<1>1. /\ Sound(config) /\ config.specs \in Seq(ChildSpec)
      /\ Declared(spec.id) \in 1..Len(config.specs)
      /\ config.specs[Declared(spec.id)].id = spec.id
      /\ config.specs[Declared(spec.id)].restart # "temporary"
  BY Configured, DeclaredIs DEF Steady
<1>2. CASE c.spec \in config.extra
  BY <1>2 DEF Steady, Permanently
<1>3. CASE c.spec \in ToSet(config.specs)
  <2>1. PICK k \in 1..Len(config.specs) : c.spec = config.specs[k]
    BY <1>1, <1>3, SetOf
  <2>2. DOMAIN config.specs = 1..Len(config.specs)
    BY <1>1, SetOf
  <2>3. k = Declared(spec.id)
    BY <1>1, <2>1, <2>2 DEF Sound
  <2>. QED
    BY <1>1, <2>1, <2>3 DEF Permanently
<1>. QED
  BY <1>2, <1>3 DEF Known

(* The supervisor drops children of the group that nobody may count on. *)
LEMMA DroppedOrder ==
    ASSUME Base, Orderly, UNCHANGED <<config, queue, inbox, children>>,
           pc \in {"terminate", "start"}, pc' \in {"start", "fail"},
           NEW r \in Seq(Child), job'.group = r,
           job'.before = job.before, job'.after = job.after, job'.kind = job.kind,
           ToSet(r) \subseteq ToSet(job.group),
           AllPairs(job.group, InOrder) => AllPairs(r, InOrder),
           ~Simple /\ pc' = "start" =>
              \A c \in ToSet(job.group) : Permanently(c) => c \in ToSet(r)
    PROVE  Orderly'
<1>1. PICK a, q, b : a = job.before /\ q = job.group /\ b = job.after
  OBVIOUS
<1>2. a \in Seq(Child) /\ q \in Seq(Child) /\ b \in Seq(Child)
  BY <1>1, JobParts DEF Base, TypeOK
<1>3. Work = a \o q \o b /\ Work' = a \o r \o b
  BY <1>1 DEF Work
<1>4. ToSet(r) \subseteq ToSet(q) /\ (AllPairs(q, InOrder) => AllPairs(r, InOrder))
  BY <1>1
<1>5. /\ ToSet(Work) = ToSet(a) \cup ToSet(q) \cup ToSet(b)
      /\ \A id : Has(Work, id) <=> Has(a, id) \/ Has(q, id) \/ Has(b, id)
  BY <1>2, <1>3, ListsOf
<1>6. /\ ToSet(Work') = ToSet(a) \cup ToSet(r) \cup ToSet(b)
      /\ \A id : Has(Work', id) <=> Has(a, id) \/ Has(r, id) \/ Has(b, id)
  <2>1. /\ ToSet(a \o r \o b) = ToSet(a) \cup ToSet(r) \cup ToSet(b)
        /\ \A id : Has(a \o r \o b, id) <=> Has(a, id) \/ Has(r, id) \/ Has(b, id)
    BY <1>2, ListsOf
  <2>. QED
    BY <1>3, <2>1
<1>7. KnownFit'
  <2>1. \A c \in ToSet(children') \cup ToSet(Work') :
           \E d \in ToSet(children) \cup ToSet(Work) : d.spec = c.spec
    BY <1>4, <1>5, <1>6
  <2>. QED
    BY <2>1, KnownKept DEF Orderly
<1>8. AllPairs(a \o q \o b, InOrder) => AllPairs(a \o r \o b, InOrder)
  BY <1>2, <1>4, PairsDropped
<1>9. ~Simple /\ Steady => AllPairs(children', InOrder) /\ AllPairs(Work', InOrder)
  BY <1>3, <1>8 DEF Orderly, OrderFit
<1>10. Goes /\ (Whole' <=> Whole) /\ Booted /\ ~Between
  BY BootedIs DEF Goes, Whole, Between
<1>11. ASSUME ~Simple, Steady, Goes', NEW spec \in config.extra, Declared(spec.id) # 0
       PROVE  /\ Whole' /\ Booted' => Has(children', spec.id)
              /\ ~Between' => Has(Work', spec.id)
  <2>1. /\ Whole /\ Booted => Has(children, spec.id)
        /\ Has(Work, spec.id)
    BY <1>10, <1>11 DEF Orderly, OrderFit
  <2>2. pc' = "start"
    BY <1>11 DEF Goes
  <2>3. Has(q, spec.id) => Has(r, spec.id)
    <3>1. SUFFICES ASSUME NEW c \in ToSet(q), c.spec.id = spec.id
                   PROVE  c \in ToSet(r)
      BY DEF Has
    <3>2. c \in Child /\ c.spec \in Known
      BY <1>2, <1>5, <3>1, Members DEF Orderly, KnownFit
    <3>3. Permanently(c)
      BY <1>11, <3>1, <3>2, Lasts DEF Base, TypeOK
    <3>. QED
      BY <1>1, <1>11, <2>2, <3>1, <3>3
  <2>. QED
    BY <1>5, <1>6, <1>10, <2>1, <2>3
<1>12. ~Simple /\ Steady /\ Goes' =>
          \A spec \in config.extra : Declared(spec.id) # 0 =>
              /\ Whole' /\ Booted' => Has(children', spec.id)
              /\ ~Between' => Has(Work', spec.id)
  BY <1>11
<1>. QED
  BY <1>7, <1>9, <1>12, OrderMade DEF Orderly

LEMMA AllTerminatedOrder == Base /\ Orderly /\ AllTerminated => Orderly'
<1> SUFFICES ASSUME Base, Orderly, AllTerminated PROVE Orderly'
  OBVIOUS
<1>1. /\ pc = "terminate" /\ pc' = "start"
      /\ job' = [job EXCEPT !.group = Remaining(job.group)]
      /\ UNCHANGED <<config, queue, inbox, children>>
  BY DEF AllTerminated
<1>2. job \in Job /\ job.group \in Seq(Child)
  BY JobParts DEF Base, TypeOK
<1>3. PICK r : r = Remaining(job.group)
  OBVIOUS
<1>4. /\ r \in Seq(Child) /\ ToSet(r) = {c \in ToSet(job.group) : Permanently(c)}
      /\ \A R : AllPairs(job.group, R) => AllPairs(r, R)
  BY <1>2, <1>3, RemainingIs
<1>5. /\ job'.group = r /\ job'.kind = job.kind
      /\ job'.before = job.before /\ job'.after = job.after
  BY <1>1, <1>2, <1>3 DEF Job
<1>6. /\ AllPairs(job.group, InOrder) => AllPairs(r, InOrder)
      /\ ToSet(r) \subseteq ToSet(job.group)
      /\ \A c \in ToSet(job.group) : Permanently(c) => c \in ToSet(r)
  BY <1>4
<1>. QED
  BY <1>1, <1>4, <1>5, <1>6, DroppedOrder

LEMMA IgnoredOrder == Base /\ Orderly /\ Ignored => Orderly'
<1> SUFFICES ASSUME Base, Orderly, Ignored PROVE Orderly'
  OBVIOUS
<1>1. /\ pc = "start" /\ job.at <= Len(job.group)
      /\ job' = IF Simple \/ Temporary
                THEN [job EXCEPT !.group = RemoveAt(job.group, job.at)]
                ELSE [job EXCEPT !.at = job.at + 1]
      /\ pc' = IF ~Simple /\ Temporary /\ (job.kind = "add" \/ RestartsOne)
               THEN "fail" ELSE "start"
      /\ UNCHANGED <<config, queue, inbox, children>>
  BY DEF Ignored, StartsNext
<1>2. job \in Job /\ job.group \in Seq(Child)
  BY JobParts DEF Base, TypeOK
<1>3. /\ job.at \in 1..Len(job.group)
      /\ ~RestartsOne => StartSpec = job.group[job.at].spec
  BY <1>1, StartSpecIs
<1>4. PICK g : g = IF Simple \/ Temporary THEN RemoveAt(job.group, job.at)
                                          ELSE job.group
  OBVIOUS
<1>5. /\ job'.group = g /\ job'.kind = job.kind
      /\ job'.before = job.before /\ job'.after = job.after
  BY <1>1, <1>2, <1>4 DEF Job
<1>6. PICK q, i : q = job.group /\ i = job.at
  OBVIOUS
<1>7. q \in Seq(Child) /\ i \in 1..Len(q)
  BY <1>2, <1>3, <1>6
<1>8. /\ RemoveAt(q, i) \in Seq(Child)
      /\ \A c : c \in ToSet(q) <=> c \in ToSet(RemoveAt(q, i)) \/ c = q[i]
      /\ AllPairs(q, InOrder) => AllPairs(RemoveAt(q, i), InOrder)
  <2>1. RemoveAt(q, i) \in Seq(Child)
    BY <1>7, Without
  <2>2. /\ \A c : c \in ToSet(q) <=> \/ c \in ToSet(Ahead(q, i)) \/ c = q[i]
                                     \/ c \in ToSet(Behind(q, i))
        /\ \A c : c \in ToSet(RemoveAt(q, i)) <=>
              c \in ToSet(Ahead(q, i)) \/ c \in ToSet(Behind(q, i))
        /\ q[i] \in Child
    BY <1>7, About
  <2>3. AllPairs(q, InOrder) => AllPairs(RemoveAt(q, i), InOrder)
    <3>1. SUFFICES ASSUME AllPairs(q, InOrder) PROVE AllPairs(RemoveAt(q, i), InOrder)
      OBVIOUS
    <3>. QED
      BY <1>7, <2>2, <3>1, PairsReplaced
  <2>. QED
    BY <2>1, <2>2, <2>3
<1>9. /\ g \in Seq(Child) /\ ToSet(g) \subseteq ToSet(job.group)
      /\ AllPairs(job.group, InOrder) => AllPairs(g, InOrder)
  BY <1>4, <1>6, <1>7, <1>8
<1>10. ASSUME ~Simple, pc' = "start"
       PROVE  \A c \in ToSet(job.group) : Permanently(c) => c \in ToSet(g)
  <2>1. Temporary => ~Permanently(q[i])
    BY <1>1, <1>3, <1>6, <1>10 DEF Temporary, Permanently
  <2>. QED
    BY <1>4, <1>6, <1>8, <1>10, <2>1
<1>11. pc' \in {"start", "fail"} /\ UNCHANGED <<config, queue, inbox, children>>
  BY <1>1
<1>. QED
  BY <1>1, <1>5, <1>9, <1>10, <1>11, DroppedOrder

LEMMA AllStartedOrder == Base /\ Orderly /\ AllStarted => Orderly'
<1> SUFFICES ASSUME Base, Orderly, AllStarted PROVE Orderly'
  OBVIOUS
<1>1. /\ pc = "start" /\ pc' = "take" /\ job' = NoJob
      /\ children' = Work /\ UNCHANGED <<config, queue, inbox>>
  BY DEF AllStarted, Work
<1>2. Work' = <<>> /\ ToSet(Work') = {}
  BY <1>1, NoWork
<1>3. KnownFit'
  <2>1. ToSet(children') = ToSet(Work)
    BY <1>1
  <2>2. \A c \in ToSet(children') \cup ToSet(Work') :
           \E d \in ToSet(children) \cup ToSet(Work) : d.spec = c.spec
    BY <1>2, <2>1
  <2>. QED
    BY <1>1, <2>2, KnownKept DEF Orderly
<1>4. ~Simple /\ Steady => AllPairs(children', InOrder) /\ AllPairs(Work', InOrder)
  BY <1>1, <1>2, NoWork DEF Orderly, OrderFit
<1>5. Goes /\ ~Between /\ Between'
  BY <1>1 DEF Goes, Between
<1>6. ~Simple /\ Steady /\ Goes' =>
         \A spec \in config.extra : Declared(spec.id) # 0 =>
             /\ Whole' /\ Booted' => Has(children', spec.id)
             /\ ~Between' => Has(Work', spec.id)
  BY <1>1, <1>5 DEF Orderly, OrderFit
<1>. QED
  BY <1>1, <1>3, <1>4, <1>6, OrderMade DEF Orderly

(* The children whom a restart takes are those that are listed. *)
LEMMA RestartOrder ==
    ASSUME Base, Orderly, NEW strategy, Restart(strategy),
           NEW a \in Seq(Child), NEW b \in Seq(Child), NEW where \in {"terminate", "start"},
           NEW g \in Seq(Child), Begin(JobOf("restart", a, g, b), where),
           \A x \in ToSet(a) \cup ToSet(g) \cup ToSet(b) :
              \E d \in ToSet(children) : d.spec = x.spec,
           AllPairs(children, InOrder) => AllPairs(a \o g \o b, InOrder),
           \A id : Has(children, id) => Has(a \o g \o b, id)
    PROVE  Orderly'
<1>1. pc = "take" /\ inbox # <<>> /\ Head(inbox).kind = "EXIT"
  BY RestartIs
<1>2. Booted /\ Whole /\ Goes
  BY <1>1, BootedIs DEF Whole, Goes, Between
<1>3. \A x \in ToSet(a) \cup ToSet(g) \cup ToSet(b) : x.spec \in Known
  <2>1. \A d \in ToSet(children) : d.spec \in Known
    BY DEF Orderly, KnownFit
  <2>. QED
    BY <2>1
<1>4. ~Simple /\ Steady =>
         /\ AllPairs(a \o g \o b, InOrder)
         /\ \A spec \in config.extra : Declared(spec.id) # 0 =>
               Has(a \o g \o b, spec.id)
  BY <1>2 DEF Orderly, OrderFit
<1>. QED
  BY <1>1, <1>3, <1>4, BeginOrder

(* A child with another pid in its place. *)
LEMMA PidGone ==
    ASSUME Base, NEW i \in 1..Len(children), NEW x \in Child, x.spec = children[i].spec
    PROVE  /\ With(children, i, x) \in Seq(Child)
           /\ With(children, i, x) = Ahead(children, i) \o One(x) \o Behind(children, i)
           /\ AllPairs(children, InOrder) => AllPairs(With(children, i, x), InOrder)
           /\ \A id : Has(children, id) => Has(With(children, i, x), id)
           /\ \A y \in ToSet(With(children, i, x)) :
                 \E d \in ToSet(children) : d.spec = y.spec
<1>1. children \in Seq(Child) /\ <<>> \in Seq(Child)
  BY PidsFew DEF Base, TypeOK
<1>2. PICK w : w = With(children, i, x)
  OBVIOUS
<1>3. /\ w \in Seq(Child)
      /\ AllPairs(<<>> \o children \o <<>>, InOrder)
            => AllPairs(<<>> \o w \o <<>>, InOrder)
      /\ \A id : Has(children, id) => Has(w, id)
  BY <1>1, <1>2, WithOrder
<1>4. <<>> \o children \o <<>> = children /\ <<>> \o w \o <<>> = w
  BY <1>1, <1>3, ConcatEmptySeq
<1>5. w = Ahead(children, i) \o One(x) \o Behind(children, i)
  BY <1>1, <1>2, SplitWith
<1>6. \A y \in ToSet(w) : \E d \in ToSet(children) : d.spec = y.spec
  BY <1>1, <1>2, About, Replaced
<1>. QED
  BY <1>2, <1>3, <1>4, <1>5, <1>6

LEMMA OneForOneOrder == Base /\ Orderly /\ doOneForOneRestart /\ ~Fails => Orderly'
<1> SUFFICES ASSUME Base, Orderly, doOneForOneRestart, ~Fails PROVE Orderly'
  OBVIOUS
<1>1. /\ Restart("one_for_one")
      /\ Begin(JobOf("restart", SubSeq(children, 1, Dead - 1),
                     <<[children[Dead] EXCEPT !.pid = 0]>>,
                     SubSeq(children, Dead + 1, Len(children))), "start")
  BY DEF doOneForOneRestart
<1>2. PICK i \in 1..Len(children) : i = Dead
  BY <1>1, RestartIs
<1>3. PICK x \in Child : x = Zero(children[i]) /\ x.spec = children[i].spec
  BY <1>1, <1>2, RestartIs
<1>4. PICK a, b, w : /\ a = Ahead(children, i) /\ b = Behind(children, i)
                     /\ w = With(children, i, x)
  OBVIOUS
<1>5. Begin(JobOf("restart", a, One(x), b), "start")
  BY <1>1, <1>2, <1>3, <1>4 DEF Ahead, Behind, One, Zero
<1>6. children \in Seq(Child)
  BY DEF Base, TypeOK
<1>7. a \in Seq(Child) /\ b \in Seq(Child) /\ One(x) \in Seq(Child)
  BY <1>4, <1>6, PidsAbout, OneIn
<1>8. /\ w = a \o One(x) \o b
      /\ AllPairs(children, InOrder) => AllPairs(w, InOrder)
      /\ \A id : Has(children, id) => Has(w, id)
      /\ \A y \in ToSet(w) : \E d \in ToSet(children) : d.spec = y.spec
  BY <1>3, <1>4, PidGone
<1>9. ToSet(w) = ToSet(a) \cup ToSet(One(x)) \cup ToSet(b)
  <2>1. ToSet(a \o One(x) \o b) = ToSet(a) \cup ToSet(One(x)) \cup ToSet(b)
    BY <1>7, ListsOf
  <2>. QED
    BY <1>8, <2>1
<1>10. /\ \A y \in ToSet(a) \cup ToSet(One(x)) \cup ToSet(b) :
             \E d \in ToSet(children) : d.spec = y.spec
       /\ AllPairs(children, InOrder) => AllPairs(a \o One(x) \o b, InOrder)
       /\ \A id : Has(children, id) => Has(a \o One(x) \o b, id)
  BY <1>8, <1>9
<1>. QED
  BY <1>1, <1>5, <1>7, <1>10, RestartOrder

LEMMA OneForAllOrder == Base /\ Orderly /\ doOneForAllRestart => Orderly'
<1> SUFFICES ASSUME Base, Orderly, doOneForAllRestart PROVE Orderly'
  OBVIOUS
<1>1. /\ Restart("one_for_all")
      /\ Begin(JobOf("restart", <<>>, [children EXCEPT ![Dead].pid = 0], <<>>),
               "terminate")
  BY DEF doOneForAllRestart
<1>2. PICK i \in 1..Len(children) : i = Dead
  BY <1>1, RestartIs
<1>3. PICK x \in Child : x = Zero(children[i]) /\ x.spec = children[i].spec
  BY <1>1, <1>2, RestartIs
<1>4. PICK w : w = With(children, i, x)
  OBVIOUS
<1>5. Begin(JobOf("restart", <<>>, w, <<>>), "terminate")
  BY <1>1, <1>2, <1>3, <1>4 DEF With, Zero
<1>6. /\ w \in Seq(Child)
      /\ AllPairs(children, InOrder) => AllPairs(w, InOrder)
      /\ \A id : Has(children, id) => Has(w, id)
      /\ \A y \in ToSet(w) : \E d \in ToSet(children) : d.spec = y.spec
  BY <1>3, <1>4, PidGone
<1>7. <<>> \in Seq(Child) /\ ToSet(<<>>) = {} /\ <<>> \o w \o <<>> = w
  BY <1>6, PidsFew, NoWork, ConcatEmptySeq
<1>8. /\ \A y \in ToSet(<<>>) \cup ToSet(w) \cup ToSet(<<>>) :
            \E d \in ToSet(children) : d.spec = y.spec
      /\ AllPairs(children, InOrder) => AllPairs(<<>> \o w \o <<>>, InOrder)
      /\ \A id : Has(children, id) => Has(<<>> \o w \o <<>>, id)
  BY <1>6, <1>7
<1>. QED
  BY <1>1, <1>5, <1>6, <1>7, <1>8, RestartOrder

LEMMA RestForOneOrder == Base /\ Orderly /\ doRestForOneRestart => Orderly'
<1> SUFFICES ASSUME Base, Orderly, doRestForOneRestart PROVE Orderly'
  OBVIOUS
<1>1. /\ Restart("rest_for_one")
      /\ Begin(JobOf("restart", SubSeq(children, 1, Dead - 1),
                     SubSeq(children, Dead, Len(children)), <<>>), "terminate")
  BY DEF doRestForOneRestart
<1>2. PICK i \in 1..Len(children) : i = Dead
  BY <1>1, RestartIs
<1>3. PICK a, g : a = Ahead(children, i) /\ g = From(children, i)
  OBVIOUS
<1>4. Begin(JobOf("restart", a, g, <<>>), "terminate")
  BY <1>1, <1>2, <1>3 DEF Ahead, From
<1>5. children \in Seq(Child)
  BY DEF Base, TypeOK
<1>6. a \in Seq(Child) /\ g \in Seq(Child) /\ a \o g = children
  BY <1>3, <1>5, PidsAbout, SplitFrom
<1>7. <<>> \in Seq(Child) /\ ToSet(<<>>) = {} /\ a \o g \o <<>> = children
  BY <1>5, <1>6, PidsFew, NoWork, ConcatEmptySeq
<1>8. ToSet(children) = ToSet(a) \cup ToSet(g)
  BY <1>6, JoinedSet
<1>9. /\ \A y \in ToSet(a) \cup ToSet(g) \cup ToSet(<<>>) :
            \E d \in ToSet(children) : d.spec = y.spec
      /\ AllPairs(children, InOrder) => AllPairs(a \o g \o <<>>, InOrder)
      /\ \A id : Has(children, id) => Has(a \o g \o <<>>, id)
  BY <1>7, <1>8
<1>. QED
  BY <1>1, <1>4, <1>6, <1>7, <1>9, RestartOrder

LEMMA FailingOrder ==
    Base /\ Orderly /\ (\/ doSimpleOneForOneRestart
                        \/ doOneForOneRestart
                        \/ GiveUp) => Orderly'
<1>1. \A strategy : Restart(strategy) => Runs
  BY DEF Restart, Takes, Runs
<1>2. GiveUp => Runs /\ Fails
  BY DEF GiveUp, Runs
<1>3. doSimpleOneForOneRestart => Runs /\ Fails
  BY <1>1 DEF doSimpleOneForOneRestart
<1>4. doOneForOneRestart => Runs
  BY <1>1 DEF doOneForOneRestart
<1>. QED
  BY <1>2, <1>3, <1>4, FailsOrder, OneForOneOrder

LEMMA OrderlyInit == Init => Orderly
<1> SUFFICES ASSUME Init PROVE Orderly
  OBVIOUS
<1>1. /\ queue = <<StartChildren>> /\ inbox = <<>> /\ children = <<>>
      /\ job = NoJob /\ pc = "idle"
  BY DEF Init
<1>2. ToSet(queue) = {StartChildren} /\ StartChildren.kind = "start_children"
  BY <1>1, Few DEF StartChildren
<1>3. Work = <<>> /\ ToSet(<<>>) = {} /\ \A R : AllPairs(<<>>, R)
  BY <1>1, NoWork
<1>4. ~Booted /\ Between
  BY <1>1, <1>2 DEF Booted, Between
<1>. QED
  BY <1>1, <1>2, <1>3, <1>4 DEF Orderly, KnownFit, OrderFit

LEMMA OrderlyStep == Base /\ Orderly /\ [Next]_vars => Orderly'
<1> SUFFICES ASSUME Base, Orderly, [Next]_vars PROVE Orderly'
  OBVIOUS
<1>1. CASE Supervise
  BY <1>1, RestOrder, StartAllOrder, AddChildOrder, UnknownOrder, ForgetOrder,
     FailingOrder, OneForAllOrder, RestForOneOrder, TerminateNextOrder,
     AllTerminatedOrder, StartNextOrder, IgnoredOrder, AllStartedOrder
     DEF Supervise
<1>2. CASE Tick
  BY <1>2, OnGoOrder, OnExitOrder, OnMessageOrder, OnDownOrder,
     OnFlushOrder, OnAckOrder DEF Tick
<1>3. ASSUME NEW p \in Pid, \/ InitOk(p) \/ InitFail(p)
                            \/ \E why \in {"normal", "error"} : Crash(p, why)
      PROVE  Orderly'
  BY <1>3, InitOkOrder, InitFailOrder, CrashOrder
<1>4. ASSUME NEW spec \in config.extra, StartChild(spec) PROVE Orderly'
  BY <1>4, StartChildOrder
<1>5. CASE UNCHANGED vars
  BY <1>5, StutterOrder
<1>. QED
  BY <1>1, <1>2, <1>3, <1>4, <1>5 DEF Next

-----------------------------------------------------------------------------
(* The end of the supervisor.                                              *)

(* What lives on has its exit signal to come, or traps exits.              *)
Doomed ==
    pc = "dead" => \A p \in Pid :
        Alive(p) => Sig("exit", p) \in ToSet(queue) \/ born[p].traps

(* The supervisor ends by an error of its own only. *)
LEMMA EndsByFailing ==
    ASSUME Base, Next, pc # "dead", pc' = "dead"
    PROVE  Fails
<1>1. CASE Supervise
  <2>1. ~Rest /\ ~AllTerminated /\ ~StartNext /\ ~AllStarted
    BY <1>1 DEF Rest, AllTerminated, StartNext, AllStarted
  <2>2. \A next, where : Begin(next, where) => pc' = where
    BY DEF Begin
  <2>3. ~StartAll /\ ~AddChild /\ ~Unknown /\ ~doOneForAllRestart
          /\ ~doRestForOneRestart
    BY <2>2 DEF StartAll, AddChild, Unknown, doOneForAllRestart, doRestForOneRestart
  <2>4. ~Forget /\ ~Ignored
    BY DEF Forget, Ignored, Takes, StartsNext
  <2>5. doOneForOneRestart => Fails
    BY <2>2 DEF doOneForOneRestart
  <2>6. TerminateNext => Fails
    BY DEF TerminateNext
  <2>. QED
    BY <1>1, <2>1, <2>3, <2>4, <2>5, <2>6
       DEF Supervise, doSimpleOneForOneRestart, GiveUp
<1>2. CASE Tick
  <2>1. ~OnGo /\ ~OnMonitor /\ ~OnExit /\ ~OnDown /\ ~OnFlush
    BY DEF OnGo, OnMonitor, OnExit, OnDown, OnFlush
  <2>2. ~OnMessage
    BY DEF OnMessage
  <2>3. ~OnAck
    <3>1. SUFFICES ASSUME OnAck PROVE FALSE
      OBVIOUS
    <3>. QED
      BY <3>1, AckIs
  <2>. QED
    BY <1>2, <2>1, <2>2, <2>3 DEF Tick
<1>3. ASSUME NEW p \in Pid, \/ InitOk(p) \/ InitFail(p)
                            \/ \E why \in {"normal", "error"} : Crash(p, why)
      PROVE  FALSE
  BY <1>3 DEF InitOk, InitFail, Crash
<1>4. ASSUME NEW spec \in config.extra, StartChild(spec) PROVE FALSE
  BY <1>4 DEF StartChild
<1>. QED
  BY <1>1, <1>2, <1>3, <1>4 DEF Next

(* An exit signal is only taken from the queue by its process. *)
LEMMA DoomedAfter ==
    ASSUME Base, Doomed, Next, pc = "dead"
    PROVE  Doomed'
<1>1. /\ \A p \in Pid : life[p] \in {"up", "dead"}
      /\ Sent(Starting) = {} /\ Sent(Ending) = {} /\ Sent({"flush"}) = {}
  BY DEF Base, StartingFit, EndingFit, TypeOK
<1>2. queue \in Seq(Post) /\ Single(queue)
  BY DEF Base, TypeOK, Post
<1>3. ~Supervise /\ \A spec : ~StartChild(spec)
  BY DEF Supervise, Rest, StartAll, AddChild, Unknown, Forget, Takes,
         doSimpleOneForOneRestart, doOneForOneRestart, doOneForAllRestart,
         doRestForOneRestart, Restart, TerminateNext, AllTerminated,
         StartNext, Ignored, StartsNext, AllStarted, GiveUp, StartChild
<1>4. \A p \in Pid : ~InitOk(p) /\ ~InitFail(p)
  BY <1>1 DEF InitOk, InitFail
<1>5. ASSUME NEW p \in Pid, Dies(p), NEW q \in Pid, Alive(q)'
      PROVE  q # p /\ Alive(q) /\ born'[q] = born[q]
  <2>1. /\ life' = [life EXCEPT ![p] = IF @ = "init" THEN "zombie" ELSE "dead"]
        /\ born' = Restrict(born, DOMAIN born \ {p})
    BY <1>5 DEF Dies
  <2>2. life \in [Pid -> {"pending", "init", "up", "zombie", "dead"}]
    BY DEF Base, TypeOK
  <2>3. q # p /\ Alive(q)
    BY <1>5, <2>1, <2>2 DEF Alive
  <2>4. q \in DOMAIN born \ {p}
    BY <2>3 DEF Base, TypeOK
  <2>. QED
    BY <2>1, <2>3, <2>4 DEF Restrict
<1>6. ASSUME NEW p \in Pid, NEW why \in {"normal", "error"}, Crash(p, why)
      PROVE  Doomed'
  <2>1. Dies(p) /\ queue' = queue
    BY <1>6 DEF Crash, DeathOf, ToSupervisor
  <2>. QED
    BY <1>5, <2>1 DEF Doomed
<1>7. CASE Tick
  <2>1. queue # <<>>
    BY <1>7 DEF Tick, OnGo, OnMonitor, OnExit, OnMessage, OnDown, OnFlush, OnAck,
                Fires
  <2>2. PICK m : m = Head(queue)
    OBVIOUS
  <2>3. m \in Post /\ ToSet(queue) = {m} \cup ToSet(Tail(queue))
    BY <2>1, <2>2, Fired
  <2>4. m.kind \notin {"go", "ack", "monitor", "down", "flush"}
    BY <1>1, <2>3 DEF Sent, Starting, Ending
  <2>5. CASE OnExit
    <3>1. PICK p : p = m.pid
      OBVIOUS
    <3>2. /\ m.kind = "exit"
          /\ \/ /\ ~born[p].traps /\ Dies(p) /\ queue' = Tail(queue) \o DeathOf(p, "killed")
             \/ /\ ~Alive(p) \/ born[p].traps
                /\ queue' = Tail(queue) /\ UNCHANGED processes
      BY <2>2, <2>5, <3>1 DEF OnExit, Fires
    <3>3. p \in Pid /\ \A q : Sig("exit", q) = m => q = p
      BY <2>3, <3>1, <3>2, Shapes DEF Sig
    <3>4. queue' = Tail(queue)
      BY <3>2 DEF DeathOf, ToSupervisor
    <3>5. CASE Dies(p)
      BY <1>5, <2>3, <3>3, <3>4, <3>5 DEF Doomed
    <3>6. CASE (~Alive(p) \/ born[p].traps) /\ UNCHANGED processes
      BY <2>3, <3>3, <3>4, <3>6 DEF Doomed, processes, Alive
    <3>. QED
      BY <3>2, <3>5, <3>6
  <2>6. CASE OnMessage
    <3>1. queue' = Tail(queue) /\ UNCHANGED processes /\ m.kind # "exit"
      BY <2>2, <2>6 DEF OnMessage, Fires
    <3>. QED
      BY <2>3, <3>1 DEF Doomed, processes, Alive, Sig
  <2>. QED
    BY <1>7, <2>2, <2>4, <2>5, <2>6
       DEF Tick, OnGo, OnMonitor, OnDown, OnFlush, OnAck, Fires
<1>. QED
  BY <1>3, <1>4, <1>6, <1>7 DEF Next

LEMMA DoomedStep == Base /\ Doomed /\ [Next]_vars => Doomed'
<1> SUFFICES ASSUME Base, Doomed, [Next]_vars PROVE Doomed'
  OBVIOUS
<1>1. CASE UNCHANGED vars
  BY <1>1 DEF vars, processes, Doomed, Alive
<1>2. CASE Next /\ pc = "dead"
  BY <1>2, DoomedAfter
<1>3. CASE Next /\ pc # "dead" /\ pc' = "dead"
  <2>1. Fails
    BY <1>3, EndsByFailing
  <2>2. queue \in Seq(Post) /\ Single(queue)
    BY DEF Base, TypeOK, Post
  <2>3. \A p \in Pid : Alive(p) => Sig("exit", p) \in ToSet(queue')
    BY <2>1, <2>2, FailsReaches
  <2>4. UNCHANGED life
    BY <2>1 DEF Fails, processes
  <2>. QED
    BY <2>3, <2>4 DEF Doomed, Alive
<1>. QED
  BY <1>1, <1>2, <1>3 DEF Doomed

-----------------------------------------------------------------------------
(* The theorems.                                                           *)
Inv == Base /\ Tally /\ Orderly /\ Doomed

LEMMA Inductive == Spec => []Inv
<1>1. Init => Inv
  <2>1. Init => Doomed
    BY DEF Init, Doomed
  <2>. QED
    BY <2>1, BaseInit, TallyInit, OrderlyInit DEF Inv
<1>2. Inv /\ [Next]_vars => Inv'
  BY BaseStep, TallyStep, OrderlyStep, DoomedStep DEF Inv
<1>. QED
  BY <1>1, <1>2, PTL DEF Spec

(* The supervisor's lists, its job and the messages to it are well formed  *)
(* (TypeOK): the retries of _doStartChild stay below MAX_RETRIES, children *)
(* have pids of processes, and a specification is kept for the processes   *)
(* that are alive and for no other.                                        *)
THEOREM SupervisorTypeOK == Spec => []TypeOK
<1>1. Inv => TypeOK
  BY DEF Inv, Base
<1>. QED
  BY <1>1, Inductive, PTL

(* No death of a child is missed (NoDeathMissed), for any children, any    *)
(* strategy, any number of processes and of retries: unlinkFlush takes the *)
(* EXIT of nobody but the process that doTerminate ended, and no start,    *)
(* restart or late init_ack loses one.                                     *)
THEOREM SupervisorNoDeathMissed == Spec => []NoDeathMissed
<1>1. Inv => NoDeathMissed
  <2> SUFFICES ASSUME Inv, Between, NEW p \in Pids(children) \ {0}
               PROVE  \/ Alive(p)
                      \/ \E m \in ToSet(queue \o inbox) : m.kind = "EXIT" /\ m.pid = p
    BY DEF NoDeathMissed
  <2>1. Goes /\ p \in Due
    BY BetweenLists DEF Inv, Goes, Between
  <2>2. Alive(p) \/ ExitOf(p) # {}
    BY <2>1 DEF Inv, Tally, DeathsFit, Heard
  <2>3. queue \in Seq(Post) /\ inbox \in Seq(Post)
    BY DEF Inv, Base, TypeOK, Post, Message
  <2>4. ToSet(queue \o inbox) = ToSet(queue) \cup ToSet(inbox)
    BY <2>3, JoinedSet
  <2>. QED
    BY <2>2, <2>4 DEF ExitOf
<1>. QED
  BY <1>1, Inductive, PTL

(* No process runs unlisted (NoOrphans), except one that startChild put    *)
(* another of its id before: terminateChildren, the retries of             *)
(* _doStartChild and the lists that a restart puts together leave none.    *)
(* And a supervisor that ends, wherever that is, leaves none behind.       *)
THEOREM SupervisorNoOrphans == Spec => []NoOrphans
<1>1. ASSUME Inv, Between, NEW p \in Pid, Alive(p)
      PROVE  p \in Pids(children) \cup replaced
  <2>1. Goes /\ Reached = Pids(children) \cup {0} \cup replaced /\ p # 0
    BY <1>1, BetweenLists, DueIs DEF Inv, Goes, Between
  <2>. QED
    BY <1>1, <2>1 DEF Inv, Tally, OrphansFit
<1>2. Inv => NoOrphans
  BY <1>1 DEF NoOrphans, Inv, Doomed
<1>. QED
  BY <1>2, Inductive, PTL

(* Children stay in the order they were declared in, and none is doubled   *)
(* (OrderKept), through every restart and startChild.                      *)
THEOREM SupervisorOrderKept == Spec => []OrderKept
<1>1. Inv => OrderKept
  <2> SUFFICES ASSUME Inv, ~Simple, Steady,
                      NEW i \in DOMAIN children, NEW j \in DOMAIN children,
                      i < j, Rank(children[i]) # 0, Rank(children[j]) # 0
               PROVE  Rank(children[i]) < Rank(children[j])
    BY DEF OrderKept
  <2>1. children \in Seq(Child) /\ DOMAIN children = 1..Len(children)
    BY SetOf DEF Inv, Base, TypeOK
  <2>2. AllPairs(children, InOrder)
    BY DEF Inv, Orderly, OrderFit
  <2>3. children[i] \in Child /\ children[j] \in InOrder[children[i]]
    BY <2>1, <2>2 DEF AllPairs
  <2>. QED
    BY <2>3 DEF InOrder
<1>. QED
  BY <1>1, Inductive, PTL
=============================================================================
