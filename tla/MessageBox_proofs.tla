------------------------- MODULE MessageBox_proofs --------------------------
(* Proofs about the mailbox of one process, for any messages and timers.   *)
EXTENDS MessageBox, SequenceTheorems, TLAPS

(* Facts about splice(i, 1) and push on sequences.                         *)

(* Splicing position i out keeps the rest in order.                        *)
LEMMA RemoveAtProperties ==
    ASSUME NEW S, NEW s \in Seq(S), NEW i \in 1..Len(s)
    PROVE  /\ RemoveAt(s, i) \in Seq(S)
           /\ Len(RemoveAt(s, i)) = Len(s) - 1
           /\ \A j \in 1..Len(s) - 1 :
                 RemoveAt(s, i)[j] = IF j < i THEN s[j] ELSE s[j + 1]
<1> DEFINE left == SubSeq(s, 1, i - 1)
           right == SubSeq(s, i + 1, Len(s))
<1>0. Len(s) \in Nat /\ i \in Nat
  BY LenProperties
<1>1. \A j \in 1..Len(s) : s[j] \in S
  BY ElementOfSeq
<1>2. /\ left \in Seq(S) /\ Len(left) = i - 1
      /\ \A j \in 1..(i - 1) : left[j] = s[j]
  <2>1. \A j \in 1..(i - 1) : s[j] \in S
    BY <1>0, <1>1
  <2>2. /\ left \in Seq(S)
        /\ Len(left) = IF 1 <= i - 1 THEN (i - 1) - 1 + 1 ELSE 0
        /\ \A j \in 1..((i - 1) - 1 + 1) : left[j] = s[1 + j - 1]
    BY <2>1, <1>0, SubSeqProperties
  <2> HIDE DEF left
  <2>. QED
    BY <2>2, <1>0
<1>3. /\ right \in Seq(S) /\ Len(right) = Len(s) - i
      /\ \A j \in 1..(Len(s) - i) : right[j] = s[i + j]
  <2>1. \A j \in (i + 1)..Len(s) : s[j] \in S
    BY <1>0, <1>1
  <2>2. /\ right \in Seq(S)
        /\ Len(right) =
              IF i + 1 <= Len(s) THEN Len(s) - (i + 1) + 1 ELSE 0
        /\ \A j \in 1..(Len(s) - (i + 1) + 1) : right[j] = s[(i + 1) + j - 1]
    BY <2>1, <1>0, SubSeqProperties
  <2> HIDE DEF right
  <2>. QED
    BY <2>2, <1>0
<1>4. RemoveAt(s, i) = left \o right
  BY DEF RemoveAt
<1> HIDE DEF left, right
<1>5. /\ left \o right \in Seq(S)
      /\ Len(left \o right) = Len(left) + Len(right)
      /\ \A j \in 1..(Len(left) + Len(right)) :
            (left \o right)[j] =
               IF j <= Len(left) THEN left[j] ELSE right[j - Len(left)]
  BY <1>2, <1>3, ConcatProperties
<1>. QED
  BY <1>0, <1>2, <1>3, <1>4, <1>5

(* What splice leaves was there before.                                    *)
LEMMA RemoveAtSubset ==
    ASSUME NEW S, NEW s \in Seq(S), NEW i \in 1..Len(s),
           NEW j \in 1..Len(RemoveAt(s, i))
    PROVE  \E k \in 1..Len(s) : k # i /\ RemoveAt(s, i)[j] = s[k]
<1>0. Len(s) \in Nat
  BY LenProperties
<1>1. j \in 1..Len(s) - 1
  BY RemoveAtProperties
<1>2. RemoveAt(s, i)[j] = IF j < i THEN s[j] ELSE s[j + 1]
  BY <1>1, RemoveAtProperties
<1>. QED
  BY <1>0, <1>1, <1>2

(* Splicing a box without duplicates removes exactly one message.          *)
LEMMA RemoveAtInjective ==
    ASSUME NEW S, NEW s \in Seq(S), NEW i \in 1..Len(s), IsInjective(s)
    PROVE  /\ IsInjective(RemoveAt(s, i))
           /\ ToSet(RemoveAt(s, i)) = ToSet(s) \ {s[i]}
<1> DEFINE r == RemoveAt(s, i)
<1>0. /\ Len(s) \in Nat /\ DOMAIN s = 1..Len(s)
      /\ r \in Seq(S) /\ Len(r) = Len(s) - 1 /\ DOMAIN r = 1..Len(s) - 1
      /\ \A j \in 1..Len(s) - 1 : r[j] = IF j < i THEN s[j] ELSE s[j + 1]
  BY RemoveAtProperties, LenProperties
<1> HIDE DEF r
<1>1. IsInjective(r)
  <2>1. ASSUME NEW j \in 1..Len(s) - 1, NEW k \in 1..Len(s) - 1, r[j] = r[k]
        PROVE  j = k
    <3>1. \A m, n \in 1..Len(s) : s[m] = s[n] => m = n
      BY <1>0 DEF IsInjective
    <3>2. /\ r[j] = IF j < i THEN s[j] ELSE s[j + 1]
          /\ r[k] = IF k < i THEN s[k] ELSE s[k + 1]
      BY <1>0
    <3>3. j \in Int /\ k \in Int /\ j + 1 \in 1..Len(s) /\ k + 1 \in 1..Len(s)
          /\ j \in 1..Len(s) /\ k \in 1..Len(s)
      BY <1>0
    <3>. QED
      BY <3>1, <3>2, <3>3, <2>1
  <2>. QED
    BY <2>1, <1>0 DEF IsInjective
<1>2. ASSUME NEW x \in ToSet(s), x # s[i]
      PROVE  x \in ToSet(r)
  <2>1. PICK k \in 1..Len(s) : x = s[k]
    BY <1>0 DEF ToSet
  <2>2. k # i
    BY <2>1, <1>2
  <2>3. CASE k < i
    <3>1. k \in 1..Len(s) - 1 /\ r[k] = x
      BY <1>0, <2>1, <2>3
    <3>. QED
      BY <3>1, <1>0 DEF ToSet
  <2>4. CASE k > i
    <3>1. k - 1 \in 1..Len(s) - 1 /\ r[k - 1] = x
      BY <1>0, <2>1, <2>4
    <3>. QED
      BY <3>1, <1>0 DEF ToSet
  <2>. QED
    BY <2>2, <2>3, <2>4, <1>0
<1>3. ASSUME NEW x \in ToSet(r)
      PROVE  x \in ToSet(s) /\ x # s[i]
  <2>1. PICK j \in 1..Len(s) - 1 : x = r[j]
    BY <1>0, <1>3 DEF ToSet
  <2>2. PICK k \in 1..Len(s) : k # i /\ x = s[k]
    BY <2>1, <1>0
  <2>. QED
    BY <2>2, <1>0 DEF ToSet, IsInjective
<1>4. ToSet(r) = ToSet(s) \ {s[i]}
  BY <1>2, <1>3
<1>. QED
  BY <1>1, <1>4 DEF r

(* A new message at the end of a box without duplicates.                   *)
LEMMA AppendInjectiveBox ==
    ASSUME NEW S, NEW s \in Seq(S), NEW x \in S
    PROVE  /\ ToSet(Append(s, x)) = ToSet(s) \cup {x}
           /\ IsInjective(s) /\ x \notin ToSet(s)
                => IsInjective(Append(s, x))
<1> DEFINE a == Append(s, x)
<1>0. /\ Len(s) \in Nat /\ DOMAIN s = 1..Len(s)
      /\ a \in Seq(S) /\ Len(a) = Len(s) + 1 /\ DOMAIN a = 1..Len(s) + 1
      /\ \A j \in 1..Len(s) : a[j] = s[j]
      /\ a[Len(s) + 1] = x
  BY AppendProperties, LenProperties
<1> HIDE DEF a
<1>1. ToSet(a) = ToSet(s) \cup {x}
  <2>1. ToSet(a) = {a[j] : j \in 1..Len(s) + 1}
    BY <1>0 DEF ToSet
  <2>2. ToSet(s) = {s[j] : j \in 1..Len(s)}
    BY <1>0 DEF ToSet
  <2>. QED
    BY <2>1, <2>2, <1>0
<1>2. ASSUME IsInjective(s), x \notin ToSet(s)
      PROVE  IsInjective(a)
  BY <1>0, <1>2 DEF IsInjective, ToSet
<1>. QED
  BY <1>1, <1>2 DEF a
-----------------------------------------------------------------------------
(* Every step keeps the types.                                             *)
LEMMA TypeStep == TypeOK /\ [Next]_vars => TypeOK'
<1> SUFFICES ASSUME TypeOK, [Next]_vars PROVE TypeOK'
  OBVIOUS
<1> USE DEF TypeOK
<1>1. ASSUME pending # NoReceive, Settle
      PROVE  pending' = NoReceive /\ armed' \in SUBSET Timer
  BY <1>1 DEF Settle
<1>2. ASSUME NEW pattern \in Pattern, NEW timer \in Timer \cup {NoTimer},
             Defer(pattern, timer)
      PROVE  pending' \in Record /\ armed' \in SUBSET Timer
  BY <1>2 DEF Defer, Record
<1>3. ASSUME NEW m \in Message, PushToReceiver(m) PROVE TypeOK'
  BY <1>3, <1>1 DEF PushToReceiver, Wanted
<1>4. ASSUME NEW m \in Message, PushStored(m) PROVE TypeOK'
  <2>1. mb' \in Seq(Message)
    BY <1>4, AppendProperties DEF PushStored
  <2>. QED
    BY <1>4, <2>1 DEF PushStored
<1>5. ASSUME NEW pattern \in Pattern, PopTake(pattern) PROVE TypeOK'
  <2>1. PICK i \in Matches(mb, pattern) :
            /\ mb' = RemoveAt(mb, i)
            /\ taken' = [taken EXCEPT ![mb[i]] = @ + 1]
    BY <1>5 DEF PopTake
  <2>2. i \in 1..Len(mb) /\ mb[i] \in Message
    BY ElementOfSeq DEF Matches
  <2>3. mb' \in Seq(Message)
    BY <2>1, <2>2, RemoveAtProperties
  <2>4. taken' \in [Message -> Nat]
    BY <2>1, <2>2
  <2>. QED
    BY <1>5, <2>3, <2>4 DEF PopTake
<1>6. ASSUME NEW pattern \in Pattern, NEW timer \in Timer \cup {NoTimer},
             PopDefer(pattern, timer)
      PROVE  TypeOK'
  BY <1>6, <1>2 DEF PopDefer
<1>7. ASSUME NEW pattern \in Pattern, NEW inner \in Pattern,
             PopNestedTake(pattern, inner)
      PROVE  TypeOK'
  <2>1. PICK i \in Matches(mb, pattern), j \in Matches(mb, inner) :
            /\ mb' = OuterConsume(RemoveAt(mb, j), i)
            /\ taken' = [m \in Message |->
                   taken[m] + (IF m = mb[i] THEN 1 ELSE 0)
                            + (IF m = mb[j] THEN 1 ELSE 0)]
    BY <1>7 DEF PopNestedTake
  <2>2. i \in 1..Len(mb) /\ j \in 1..Len(mb)
    BY DEF Matches
  <2>3. RemoveAt(mb, j) \in Seq(Message)
    BY <2>2, RemoveAtProperties
  <2>4. mb' \in Seq(Message)
    <3>1. CASE i <= Len(RemoveAt(mb, j))
      <4>1. i \in 1..Len(RemoveAt(mb, j))
        BY <2>2, <2>3, <3>1, LenProperties
      <4>2. RemoveAt(RemoveAt(mb, j), i) \in Seq(Message)
        BY <2>3, <4>1, RemoveAtProperties
      <4>. QED
        BY <2>1, <3>1, <4>2 DEF OuterConsume
    <3>. QED
      BY <2>1, <2>3, <3>1 DEF OuterConsume
  <2>5. taken' \in [Message -> Nat]
    BY <2>1
  <2>. QED
    BY <1>7, <2>4, <2>5 DEF PopNestedTake
<1>8. ASSUME NEW pattern \in Pattern, NEW inner \in Pattern,
             NEW timer \in Timer \cup {NoTimer},
             PopNestedDefer(pattern, inner, timer)
      PROVE  TypeOK'
  <2>1. PICK i \in Matches(mb, pattern) :
            /\ mb' = RemoveAt(mb, i)
            /\ taken' = [taken EXCEPT ![mb[i]] = @ + 1]
    BY <1>8 DEF PopNestedDefer
  <2>2. i \in 1..Len(mb) /\ mb[i] \in Message
    BY ElementOfSeq DEF Matches
  <2>3. mb' \in Seq(Message)
    BY <2>1, <2>2, RemoveAtProperties
  <2>4. taken' \in [Message -> Nat]
    BY <2>1, <2>2
  <2>5. pending' \in Record /\ armed' \in SUBSET Timer
    BY <1>8, <1>2 DEF PopNestedDefer
  <2>. QED
    BY <1>8, <2>3, <2>4, <2>5 DEF PopNestedDefer
<1>9. ASSUME NEW timer \in Timer, TimerFires(timer) PROVE TypeOK'
  BY <1>9 DEF TimerFires
<1>10. CASE Clear
  <2>1. ToSet(mb) \subseteq Message
    BY LenProperties, ElementOfSeq DEF ToSet
  <2>2. mb' \in Seq(Message)
    BY <1>10, EmptySeq DEF Clear
  <2>. QED
    BY <1>10, <1>1, <2>1, <2>2 DEF Clear
<1>11. CASE UNCHANGED vars
  BY <1>11 DEF vars
<1>. QED
  BY <1>3, <1>4, <1>5, <1>6, <1>7, <1>8, <1>9, <1>10, <1>11
     DEF Next, Push, Pop

LEMMA TypeInit == Init => TypeOK
<1>1. <<>> \in Seq(Message)
  BY EmptySeq
<1>2. [m \in Message |-> 0] \in [Message -> Nat]
  OBVIOUS
<1>. QED
  BY <1>1, <1>2 DEF Init, TypeOK

(* The state of the mailbox keeps its types.                               *)
THEOREM TypeCorrect == Spec => []TypeOK
BY TypeInit, TypeStep, PTL DEF Spec
-----------------------------------------------------------------------------
(* The receive that waits and the timers that are set belong together, at  *)
(* every step: both invariants are inductive given the types.              *)
LEMMA WaitingRecord ==
    ASSUME NEW r \in Record PROVE r # NoReceive
BY MessageBoxAssumption DEF Record, Pattern

LEMMA TimerStep ==
    TypeOK /\ TimerOwnsReceive /\ [Next]_vars => TimerOwnsReceive'
<1> SUFFICES ASSUME TypeOK, TimerOwnsReceive, [Next]_vars
             PROVE  TimerOwnsReceive'
  OBVIOUS
<1> USE DEF TimerOwnsReceive
<1>1. ASSUME pending # NoReceive, Settle PROVE TimerOwnsReceive'
  BY <1>1 DEF Settle
<1>2. ASSUME pending = NoReceive, NEW pattern \in Pattern,
             NEW timer \in Timer \cup {NoTimer}, Defer(pattern, timer)
      PROVE  TimerOwnsReceive'
  <2>1. pending' \in Record /\ pending'.timer = timer
    BY <1>2 DEF Defer, Record
  <2>2. armed' = {timer} \ {NoTimer}
    BY <1>2 DEF Defer
  <2>. QED
    BY <2>1, <2>2, WaitingRecord
<1>3. ASSUME NEW m \in Message, Push(m) PROVE TimerOwnsReceive'
  BY <1>1, <1>3 DEF Push, PushToReceiver, PushStored, Wanted
<1>4. ASSUME NEW pattern \in Pattern, Pop(pattern) PROVE TimerOwnsReceive'
  <2>1. CASE PopTake(pattern)
    BY <2>1 DEF PopTake
  <2>2. ASSUME NEW timer \in Timer \cup {NoTimer}, PopDefer(pattern, timer)
        PROVE  TimerOwnsReceive'
    BY <2>2, <1>2 DEF PopDefer
  <2>3. ASSUME NEW inner \in Pattern, PopNestedTake(pattern, inner)
        PROVE  TimerOwnsReceive'
    BY <2>3 DEF PopNestedTake
  <2>4. ASSUME NEW inner \in Pattern, NEW timer \in Timer \cup {NoTimer},
               PopNestedDefer(pattern, inner, timer)
        PROVE  TimerOwnsReceive'
    BY <2>4, <1>2 DEF PopNestedDefer
  <2>. QED
    BY <1>4, <2>1, <2>2, <2>3, <2>4 DEF Pop
<1>5. ASSUME NEW timer \in Timer, TimerFires(timer) PROVE TimerOwnsReceive'
  BY <1>5 DEF TimerFires
<1>6. CASE Clear
  BY <1>6, <1>1 DEF Clear
<1>7. CASE UNCHANGED vars
  BY <1>7 DEF vars
<1>. QED
  BY <1>3, <1>4, <1>5, <1>6, <1>7 DEF Next

(* No receive waits for a message that lies in the box.                    *)
LEMMA WakeupStep ==
    TypeOK /\ NoLostWakeup /\ [Next]_vars => NoLostWakeup'
<1> SUFFICES ASSUME TypeOK, NoLostWakeup, [Next]_vars
             PROVE  NoLostWakeup'
  OBVIOUS
<1> USE DEF NoLostWakeup
<1>0. mb \in Seq(Message) /\ Len(mb) \in Nat
  BY LenProperties DEF TypeOK
<1>1. ASSUME NEW m \in Message, PushToReceiver(m) PROVE NoLostWakeup'
  BY <1>1 DEF PushToReceiver, Settle
<1>2. ASSUME NEW m \in Message, PushStored(m) PROVE NoLostWakeup'
  <2> SUFFICES ASSUME pending # NoReceive
               PROVE  Matches(Append(mb, m), pending.pattern) = {}
    BY <1>2 DEF PushStored
  <2>1. m \notin pending.pattern
    BY <1>2 DEF PushStored, Wanted
  <2>2. Matches(mb, pending.pattern) = {}
    OBVIOUS
  <2>3. ASSUME NEW i \in 1..Len(Append(mb, m))
        PROVE  Append(mb, m)[i] \notin pending.pattern
    <3>1. /\ Len(Append(mb, m)) = Len(mb) + 1
          /\ \A j \in 1..Len(mb) : Append(mb, m)[j] = mb[j]
          /\ Append(mb, m)[Len(mb) + 1] = m
      BY <1>0, AppendProperties
    <3>2. i \in 1..Len(mb) \/ i = Len(mb) + 1
      BY <1>0, <3>1
    <3>3. CASE i \in 1..Len(mb)
      BY <2>2, <3>1, <3>3 DEF Matches
    <3>. QED
      BY <2>1, <3>1, <3>2, <3>3
  <2>. QED
    BY <2>3 DEF Matches
<1>3. ASSUME NEW pattern \in Pattern, Pop(pattern) PROVE NoLostWakeup'
  <2>1. CASE PopTake(pattern)
    BY <2>1 DEF PopTake
  <2>2. ASSUME NEW timer \in Timer \cup {NoTimer}, PopDefer(pattern, timer)
        PROVE  NoLostWakeup'
    BY <2>2 DEF PopDefer, Defer
  <2>3. ASSUME NEW inner \in Pattern, PopNestedTake(pattern, inner)
        PROVE  NoLostWakeup'
    BY <2>3 DEF PopNestedTake
  <2>4. ASSUME NEW inner \in Pattern, NEW timer \in Timer \cup {NoTimer},
               PopNestedDefer(pattern, inner, timer)
        PROVE  NoLostWakeup'
    <3>1. PICK i \in 1..Len(mb) : mb' = RemoveAt(mb, i)
      BY <2>4 DEF PopNestedDefer, Matches
    <3>2. pending'.pattern = inner /\ Matches(mb, inner) = {}
      BY <2>4 DEF PopNestedDefer, Defer
    <3>3. ASSUME NEW j \in 1..Len(mb') PROVE mb'[j] \notin inner
      <4>1. PICK k \in 1..Len(mb) : mb'[j] = mb[k]
        BY <1>0, <3>1, RemoveAtSubset
      <4>. QED
        BY <3>2, <4>1 DEF Matches
    <3>. QED
      BY <3>2, <3>3 DEF Matches
  <2>. QED
    BY <1>3, <2>1, <2>2, <2>3, <2>4 DEF Pop
<1>4. ASSUME NEW timer \in Timer, TimerFires(timer) PROVE NoLostWakeup'
  BY <1>4 DEF TimerFires
<1>5. CASE Clear
  BY <1>5 DEF Clear, Settle
<1>6. CASE UNCHANGED vars
  BY <1>6 DEF vars
<1>. QED
  BY <1>1, <1>2, <1>3, <1>4, <1>5, <1>6 DEF Next, Push
-----------------------------------------------------------------------------
(* What the conservation of messages says of three sets and a counter.     *)
LEMMA ConservedStep == TypeOK /\ Conserved /\ [Next]_vars => Conserved'
<1> SUFFICES ASSUME TypeOK, Conserved, [Next]_vars, ~nested'
             PROVE  Placed'
  BY DEF Conserved
<1>0. /\ mb \in Seq(Message) /\ taken \in [Message -> Nat]
      /\ Len(mb) \in Nat /\ DOMAIN mb = 1..Len(mb)
  BY LenProperties DEF TypeOK
<1>1. ~nested => Placed
  BY DEF Conserved
<1>2. ASSUME NEW m \in Message, PushToReceiver(m) PROVE Placed'
  <2>1. Placed /\ m \notin sent
    BY <1>1, <1>2 DEF PushToReceiver
  <2>2. mb' = mb /\ sent' = sent \cup {m} /\ dropped' = dropped
    BY <1>2 DEF PushToReceiver
  <2>3. taken' = [taken EXCEPT ![m] = @ + 1] /\ taken[m] = 0
    BY <1>0, <1>2, <2>1 DEF PushToReceiver, Placed, Received
  <2>4. \A n \in Message : taken'[n] = IF n = m THEN 1 ELSE taken[n]
    BY <1>0, <2>3
  <2>5. Received' = Received \cup {m}
    BY <1>0, <2>4 DEF Received
  <2>6. \A n \in Message : taken'[n] <= 1
    BY <2>1, <2>4 DEF Placed
  <2>. QED
    BY <2>1, <2>2, <2>5, <2>6 DEF Placed
<1>3. ASSUME NEW m \in Message, PushStored(m) PROVE Placed'
  <2>1. Placed /\ m \notin sent
    BY <1>1, <1>3 DEF PushStored
  <2>2. /\ mb' = Append(mb, m) /\ sent' = sent \cup {m}
        /\ dropped' = dropped /\ taken' = taken
    BY <1>3 DEF PushStored
  <2>3. m \notin ToSet(mb) /\ m \notin Received /\ m \notin dropped
    BY <2>1 DEF Placed
  <2>4. IsInjective(mb') /\ ToSet(mb') = ToSet(mb) \cup {m}
    BY <1>0, <2>1, <2>2, <2>3, AppendInjectiveBox DEF Placed
  <2>5. Received' = Received
    BY <2>2 DEF Received
  <2>. QED
    BY <2>1, <2>2, <2>3, <2>4, <2>5 DEF Placed
<1>4. ASSUME NEW pattern \in Pattern, PopTake(pattern) PROVE Placed'
  <2>1. Placed
    BY <1>1, <1>4 DEF PopTake
  <2>2. PICK i \in 1..Len(mb) :
            /\ mb' = RemoveAt(mb, i)
            /\ taken' = [taken EXCEPT ![mb[i]] = @ + 1]
    BY <1>4 DEF PopTake, Matches
  <2>3. sent' = sent /\ dropped' = dropped
    BY <1>4 DEF PopTake
  <2>4. mb[i] \in Message /\ mb[i] \in ToSet(mb)
    BY <1>0, ElementOfSeq DEF ToSet
  <2>5. mb[i] \notin Received /\ taken[mb[i]] = 0
    BY <1>0, <2>1, <2>4 DEF Placed, Received
  <2>6. \A n \in Message : taken'[n] = IF n = mb[i] THEN 1 ELSE taken[n]
    BY <1>0, <2>2, <2>4, <2>5
  <2>7. Received' = Received \cup {mb[i]}
    BY <1>0, <2>4, <2>6 DEF Received
  <2>8. IsInjective(mb') /\ ToSet(mb') = ToSet(mb) \ {mb[i]}
    BY <1>0, <2>1, <2>2, RemoveAtInjective DEF Placed
  <2>9. \A n \in Message : taken'[n] <= 1
    BY <2>1, <2>6 DEF Placed
  <2>. QED
    BY <2>1, <2>3, <2>4, <2>7, <2>8, <2>9 DEF Placed
<1>5. ASSUME NEW pattern \in Pattern, NEW timer \in Timer \cup {NoTimer},
             PopDefer(pattern, timer)
      PROVE  Placed'
  BY <1>1, <1>5 DEF PopDefer, Placed, Received
<1>6. ASSUME NEW pattern \in Pattern, NEW inner \in Pattern
      PROVE  /\ ~PopNestedTake(pattern, inner)
             /\ \A timer \in Timer \cup {NoTimer} :
                   ~PopNestedDefer(pattern, inner, timer)
  BY DEF PopNestedTake, PopNestedDefer
<1>7. ASSUME NEW timer \in Timer, TimerFires(timer) PROVE Placed'
  BY <1>1, <1>7 DEF TimerFires, Placed, Received
<1>8. ASSUME Clear PROVE Placed'
  <2>1. Placed
    BY <1>1, <1>8 DEF Clear
  <2>2. /\ mb' = <<>> /\ dropped' = dropped \cup ToSet(mb)
        /\ sent' = sent /\ taken' = taken
    BY <1>8 DEF Clear
  <2>3. IsInjective(<<>>) /\ ToSet(<<>>) = {}
    BY DEF IsInjective, ToSet
  <2>4. Received' = Received
    BY <2>2 DEF Received
  <2>. QED
    BY <2>1, <2>2, <2>3, <2>4 DEF Placed
<1>9. CASE UNCHANGED vars
  BY <1>1, <1>9 DEF vars, Placed, Received
<1>. QED
  BY <1>2, <1>3, <1>4, <1>5, <1>6, <1>7, <1>8, <1>9 DEF Next, Push, Pop

-----------------------------------------------------------------------------
Inv == TypeOK /\ NoLostWakeup /\ TimerOwnsReceive /\ Conserved

LEMMA InvInit == Init => Inv
<1> SUFFICES ASSUME Init PROVE NoLostWakeup /\ TimerOwnsReceive /\ Conserved
  BY TypeInit DEF Inv
<1>1. mb = <<>> /\ pending = NoReceive /\ armed = {}
  BY DEF Init
<1>2. Received = {} /\ \A m \in Message : taken[m] <= 1
  BY DEF Init, Received
<1>3. IsInjective(mb) /\ ToSet(mb) = {}
  BY <1>1 DEF IsInjective, ToSet
<1>. QED
  BY <1>1, <1>2, <1>3
     DEF Init, NoLostWakeup, TimerOwnsReceive, Conserved, Placed

LEMMA InvStep == Inv /\ [Next]_vars => Inv'
BY TypeStep, WakeupStep, TimerStep, ConservedStep DEF Inv

LEMMA InvAlways == Spec => []Inv
BY InvInit, InvStep, PTL DEF Spec

(* No receive waits while a message that it accepts lies in the box,       *)
(* whatever the patterns, messages and timers are.                         *)
THEOREM NeverLostWakeup == Spec => []NoLostWakeup
<1>1. Inv => NoLostWakeup
  BY DEF Inv
<1>. QED
  BY <1>1, InvAlways, PTL

(* A timer that can fire is the timer of the receive that waits.           *)
THEOREM TimersOwnReceives == Spec => []TimerOwnsReceive
<1>1. Inv => TimerOwnsReceive
  BY DEF Inv
<1>. QED
  BY <1>1, InvAlways, PTL

(* Every message pushed is in the box, received once or dropped by a clear *)
(* until the first receive inside a handler.                               *)
THEOREM MessagesConserved == Spec => []Conserved
<1>1. Inv => Conserved
  BY DEF Inv
<1>. QED
  BY <1>1, InvAlways, PTL
=============================================================================
