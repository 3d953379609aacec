--------------------------- MODULE Network_proofs ---------------------------
(* Pids keep their meaning between nodes, for any nodes, connections and   *)
(* scenarios; unregisterRouter returns.                                    *)
(*                                                                         *)
(* The invariant Inv says what every pid in the system means: an id in the *)
(* tables of a node stands for the name in routersById, the pid of a       *)
(* router is a context of a connection to the node of that name, and a     *)
(* signal on its way is a notice that a name lies across the connection of *)
(* its pid, or a message whose sender and addressee its pids stand for     *)
(* (Fits).  Every operation of a node keeps that (the lemmas ...Fits) and  *)
(* goes on from the tables before it (Onward): ids keep their names, and a *)
(* watched router stays or its loss is reported.  Every action of Network  *)
(* performs operations of one node at most (the lemmas ...Keeps).          *)
EXTENDS Network, SequenceTheorems, FiniteSetTheorems, NaturalsInduction,
        WellFoundedInduction, TLAPS

-----------------------------------------------------------------------------
(* Sequences.                                                              *)

(* The least of a set of numbers. *)
LEMMA Least ==
    ASSUME NEW T \in SUBSET Nat, T # {}
    PROVE  \E x \in T : \A y \in T : x <= y
<1>1. IsWellFoundedOn(OpToRel(<, Nat), Nat)
  BY NatLessThanWellFounded
<1>2. PICK x \in T : \A y \in T : ~(<<y, x>> \in OpToRel(<, Nat))
  BY <1>1, WFMin
<1>3. \A y \in T : ~(y < x)
  BY <1>2 DEF OpToRel
<1>. QED
  BY <1>3

(* The empty sequence.                                                     *)
LEMMA Empty ==
    ASSUME NEW S
    PROVE  <<>> \in Seq(S) /\ Len(<<>>) = 0 /\ ToSet(<<>>) = {}
BY DEF ToSet

(* A sequence of one.                                                      *)
LEMMA One ==
    ASSUME NEW S, NEW x \in S
    PROVE  /\ <<x>> \in Seq(S) /\ Len(<<x>>) = 1 /\ <<x>>[1] = x
           /\ DOMAIN <<x>> = 1..1 /\ ToSet(<<x>>) = {x}
BY DEF ToSet

(* What a sequence over a set is made of.                                  *)
LEMMA Elements ==
    ASSUME NEW S, NEW q \in Seq(S)
    PROVE  /\ Len(q) \in Nat /\ DOMAIN q = 1..Len(q)
           /\ ToSet(q) \subseteq S
           /\ \A i \in 1..Len(q) : q[i] \in S /\ q[i] \in ToSet(q)
           /\ \A x \in ToSet(q) : \E i \in 1..Len(q) : x = q[i]
<1>1. Len(q) \in Nat /\ DOMAIN q = 1..Len(q) /\ \A i \in 1..Len(q) : q[i] \in S
  BY LenProperties, ElementOfSeq
<1>. QED
  BY <1>1 DEF ToSet

(* A sequence over a set is one over a larger set.                         *)
LEMMA Wider ==
    ASSUME NEW S, NEW T, S \subseteq T, NEW q \in Seq(S)
    PROVE  q \in Seq(T)
BY Elements, SeqDef

(* A sequence is one over any set that its elements are in.                *)
LEMMA Narrower ==
    ASSUME NEW S, NEW T, NEW q \in Seq(S), ToSet(q) \subseteq T
    PROVE  q \in Seq(T)
<1>1. /\ Len(q) \in Nat /\ \A i \in 1..Len(q) : q[i] \in T
      /\ q = [i \in 1..Len(q) |-> q[i]]
  BY Elements, LenProperties
<1>. QED
  BY <1>1, IsASeq

(* What two sequences in a row are made of.                                *)
LEMMA Joined ==
    ASSUME NEW S, NEW p \in Seq(S), NEW q \in Seq(S)
    PROVE  /\ p \o q \in Seq(S)
           /\ Len(p) \in Nat /\ Len(q) \in Nat
           /\ Len(p \o q) = Len(p) + Len(q)
           /\ \A i \in 1..Len(p) + Len(q) :
                 (p \o q)[i] = IF i <= Len(p) THEN p[i] ELSE q[i - Len(p)]
           /\ ToSet(p \o q) = ToSet(p) \cup ToSet(q)
<1>1. Len(p) \in Nat /\ Len(q) \in Nat
  BY LenProperties
<1>2. /\ p \o q \in Seq(S) /\ Len(p \o q) = Len(p) + Len(q)
      /\ \A i \in 1..Len(p) + Len(q) :
            (p \o q)[i] = IF i <= Len(p) THEN p[i] ELSE q[i - Len(p)]
  BY ConcatProperties
<1>4. \A x \in ToSet(p \o q) : x \in ToSet(p) \cup ToSet(q)
  <2>1. TAKE x \in ToSet(p \o q)
  <2>2. PICK i \in 1..Len(p) + Len(q) : x = (p \o q)[i]
    BY <1>2, Elements
  <2>3. CASE i <= Len(p)
    <3>1. i \in 1..Len(p) /\ x = p[i]
      BY <1>1, <1>2, <2>2, <2>3
    <3>. QED
      BY <3>1, Elements
  <2>4. CASE i > Len(p)
    <3>1. i - Len(p) \in 1..Len(q) /\ x = q[i - Len(p)]
      BY <1>1, <1>2, <2>2, <2>4
    <3>. QED
      BY <3>1, Elements
  <2>. QED
    BY <1>1, <2>3, <2>4
<1>5. \A x \in ToSet(p) : x \in ToSet(p \o q)
  <2>1. TAKE x \in ToSet(p)
  <2>2. PICK i \in 1..Len(p) : x = p[i]
    BY Elements
  <2>3. i \in 1..Len(p) + Len(q) /\ (p \o q)[i] = x
    BY <1>1, <1>2, <2>2
  <2>. QED
    BY <1>2, <2>3, Elements
<1>6. \A x \in ToSet(q) : x \in ToSet(p \o q)
  <2>1. TAKE x \in ToSet(q)
  <2>2. PICK i \in 1..Len(q) : x = q[i]
    BY Elements
  <2>3. i + Len(p) \in 1..Len(p) + Len(q) /\ (p \o q)[i + Len(p)] = x
    BY <1>1, <1>2, <2>2
  <2>. QED
    BY <1>2, <2>3, Elements
<1>. QED
  BY <1>1, <1>2, <1>4, <1>5, <1>6

(* What a sequence and one more are made of.                               *)
LEMMA Appended ==
    ASSUME NEW S, NEW q \in Seq(S), NEW x \in S
    PROVE  /\ Append(q, x) \in Seq(S)
           /\ Len(q) \in Nat /\ Len(Append(q, x)) = Len(q) + 1
           /\ \A i \in 1..Len(q) : Append(q, x)[i] = q[i]
           /\ Append(q, x)[Len(q) + 1] = x
           /\ ToSet(Append(q, x)) = ToSet(q) \cup {x}
<1>1. /\ Append(q, x) \in Seq(S)
      /\ Len(q) \in Nat /\ Len(Append(q, x)) = Len(q) + 1
      /\ \A i \in 1..Len(q) : Append(q, x)[i] = q[i]
      /\ Append(q, x)[Len(q) + 1] = x
  BY AppendProperties, LenProperties
<1>2. PICK a : a = Append(q, x)
  OBVIOUS
<1>3. /\ a \in Seq(S) /\ Len(a) = Len(q) + 1
      /\ \A i \in 1..Len(q) : a[i] = q[i]
      /\ a[Len(q) + 1] = x
  BY <1>1, <1>2
<1>4. \A y \in ToSet(a) : y \in ToSet(q) \cup {x}
  <2>1. TAKE y \in ToSet(a)
  <2>2. PICK i \in 1..Len(q) + 1 : y = a[i]
    BY <1>3, Elements
  <2>3. CASE i = Len(q) + 1
    BY <1>3, <2>2, <2>3
  <2>4. CASE i # Len(q) + 1
    <3>1. i \in 1..Len(q)
      BY <1>1, <2>2, <2>4
    <3>. QED
      BY <1>3, <2>2, <3>1, Elements
  <2>. QED
    BY <2>3, <2>4
<1>5. \A y \in ToSet(q) : y \in ToSet(a)
  <2>1. TAKE y \in ToSet(q)
  <2>2. PICK i \in 1..Len(q) : y = q[i]
    BY Elements
  <2>3. i \in 1..Len(a) /\ a[i] = y
    BY <1>1, <1>3, <2>2
  <2>. QED
    BY <1>3, <2>3, Elements
<1>6. x \in ToSet(a)
  <2>1. Len(q) + 1 \in 1..Len(a)
    BY <1>1, <1>3
  <2>. QED
    BY <1>3, <2>1, Elements
<1>. QED
  BY <1>1, <1>2, <1>4, <1>5, <1>6

(* The first of a sequence, and the rest.                                  *)
LEMMA Rested ==
    ASSUME NEW S, NEW q \in Seq(S), q # <<>>
    PROVE  /\ Len(q) \in Nat /\ Len(q) >= 1 /\ 1 \in 1..Len(q)
           /\ Head(q) \in S /\ Head(q) = q[1]
           /\ Tail(q) \in Seq(S) /\ Len(Tail(q)) = Len(q) - 1
           /\ \A i \in 1..Len(q) - 1 : Tail(q)[i] = q[i + 1]
           /\ Head(q) \in ToSet(q)
<1>1. Len(q) \in Nat /\ Len(q) # 0
  BY EmptySeq, LenProperties
<1>2. /\ Head(q) \in S /\ Tail(q) \in Seq(S) /\ Len(Tail(q)) = Len(q) - 1
      /\ \A i \in 1..Len(Tail(q)) : Tail(q)[i] = q[i + 1]
  BY HeadTailProperties
<1>3. Head(q) = q[1] /\ 1 \in 1..Len(q)
  BY <1>1
<1>. QED
  BY <1>1, <1>2, <1>3, Elements

(* A function on 1..n is a sequence.                                       *)
LEMMA Filled ==
    ASSUME NEW S, NEW n \in Nat, NEW f, f = [i \in 1..n |-> f[i]],
           \A i \in 1..n : f[i] \in S
    PROVE  f \in Seq(S) /\ Len(f) = n
BY IsASeq

(* A sequence with one element replaced.                                   *)
LEMMA Overwritten ==
    ASSUME NEW S, NEW q \in Seq(S), NEW i \in 1..Len(q), NEW x \in S
    PROVE  /\ [q EXCEPT ![i] = x] \in Seq(S)
           /\ Len([q EXCEPT ![i] = x]) = Len(q)
           /\ \A k \in 1..Len(q) :
                 [q EXCEPT ![i] = x][k] = IF k = i THEN x ELSE q[k]
BY ExceptSeq, Elements

-----------------------------------------------------------------------------
(* The recursive functions of the model exist.                             *)

(* The function that Picked runs through.                                  *)
LEMMA PickedRuns ==
    ASSUME NEW S, NEW s \in Seq(S), NEW I
    PROVE  \E p : /\ p = [i \in 0..Len(s) |->
                             IF i = 0 THEN <<>>
                             ELSE IF i \in I THEN Append(p[i - 1], s[i])
                                  ELSE p[i - 1]]
                  /\ Picked(s, I) = p[Len(s)]
<1> DEFINE Upto(p, m) == p = [i \in 0..m |->
                             IF i = 0 THEN <<>>
                             ELSE IF i \in I THEN Append(p[i - 1], s[i])
                                  ELSE p[i - 1]]
           T == {m \in Nat : ~\E p : Upto(p, m)}
<1>0. Len(s) \in Nat
  BY LenProperties
<1>1. T = {}
  <2>1. SUFFICES ASSUME T # {} PROVE FALSE
    OBVIOUS
  <2>2. PICK m \in T : \A y \in T : m <= y
    <3>1. T \subseteq Nat
      OBVIOUS
    <3>. QED
      BY <2>1, <3>1, Least
  <2>3. m # 0
    <3>1. SUFFICES ASSUME m = 0 PROVE FALSE
      OBVIOUS
    <3>2. PICK p : p = [i \in 0..0 |-> <<>>]
      OBVIOUS
    <3>3. Upto(p, 0)
      BY <3>2
    <3> HIDE DEF Upto
    <3>. QED
      BY <2>2, <3>1, <3>3
  <2>4. m \in Nat /\ m - 1 \in Nat /\ m - 1 \notin T
    <3> HIDE DEF Upto
    <3>1. m \in Nat
      OBVIOUS
    <3>2. m - 1 \in Nat
      BY <2>3, <3>1
    <3> HIDE DEF T
    <3>. QED
      BY <2>2, <3>1, <3>2
  <2>5. PICK p : Upto(p, m - 1)
    BY <2>4
  <2> DEFINE q == [i \in 0..m |->
                      IF i < m THEN p[i]
                      ELSE IF m \in I THEN Append(p[m - 1], s[m]) ELSE p[m - 1]]
  <2>6. \A i \in 0..m : q[i] = IF i = 0 THEN <<>>
                               ELSE IF i \in I THEN Append(q[i - 1], s[i])
                                    ELSE q[i - 1]
    <3>1. TAKE i \in 0..m
    <3>2. CASE i = m
      BY <2>3, <2>4, <3>2
    <3>3. CASE i < m
      <4>1. i \in 0..m - 1 /\ q[i] = p[i]
        BY <2>4, <3>3
      <4>2. i # 0 => q[i - 1] = p[i - 1]
        BY <2>4, <3>3
      <4>3. p[i] = IF i = 0 THEN <<>>
                   ELSE IF i \in I THEN Append(p[i - 1], s[i]) ELSE p[i - 1]
        BY <2>5, <4>1
      <4>. QED
        BY <4>1, <4>2, <4>3
    <3>. QED
      BY <2>4, <3>2, <3>3
  <2>7. Upto(q, m)
    BY <2>6
  <2>. QED
    BY <2>2, <2>7
<1>2. \E p : Upto(p, Len(s))
  BY <1>0, <1>1
<1>3. Upto(CHOOSE p : Upto(p, Len(s)), Len(s))
  BY <1>2
<1>4. Picked(s, I) = (CHOOSE p : Upto(p, Len(s)))[Len(s)]
  BY DEF Picked
<1>. QED
  BY <1>3, <1>4

(* What Picked keeps: the elements at the indices. *)
LEMMA PickedSet ==
    ASSUME NEW S, NEW s \in Seq(S), NEW I
    PROVE  /\ Picked(s, I) \in Seq(S)
           /\ ToSet(Picked(s, I)) = {s[i] : i \in I \cap (1..Len(s))}
<1>0. Len(s) \in Nat /\ \A i \in 1..Len(s) : s[i] \in S
  BY Elements
<1>1. PICK p : /\ p = [i \in 0..Len(s) |->
                             IF i = 0 THEN <<>>
                             ELSE IF i \in I THEN Append(p[i - 1], s[i])
                                  ELSE p[i - 1]]
               /\ Picked(s, I) = p[Len(s)]
  BY PickedRuns
<1>2. p[0] = <<>>
  <2>1. 0 \in 0..Len(s)
    BY <1>0
  <2>. QED
    BY <1>1, <2>1
<1>3. ASSUME NEW i \in 1..Len(s)
      PROVE  p[i] = IF i \in I THEN Append(p[i - 1], s[i]) ELSE p[i - 1]
  <2>1. i \in 0..Len(s) /\ i # 0
    BY <1>0
  <2>. QED
    BY <1>1, <2>1
<1> DEFINE Kept(n) == {s[i] : i \in I \cap (1..n)}
           Right(q, n) == q \in Seq(S) /\ ToSet(q) = Kept(n)
           T == {n \in 0..Len(s) : ~Right(p[n], n)}
<1>4. T = {}
  <2>1. SUFFICES ASSUME T # {} PROVE FALSE
    OBVIOUS
  <2>2. PICK n \in T : \A y \in T : n <= y
    <3>1. T \subseteq Nat
      BY <1>0
    <3>. QED
      BY <2>1, <3>1, Least
  <2>3. n # 0
    <3>1. Kept(0) = {}
      OBVIOUS
    <3>2. Right(p[0], 0)
      BY <1>2, <3>1, Empty
    <3> HIDE DEF Right
    <3>. QED
      BY <2>2, <3>2
  <2>4. n \in 1..Len(s) /\ n - 1 \in 0..Len(s) /\ n - 1 \notin T
    <3> HIDE DEF Right
    <3>1. n \in 1..Len(s)
      BY <1>0, <2>3
    <3>2. n - 1 \in 0..Len(s)
      BY <1>0, <3>1
    <3> HIDE DEF T
    <3>. QED
      BY <1>0, <2>2, <3>1, <3>2
  <2>5. PICK q : q = p[n - 1]
    OBVIOUS
  <2>6. Right(q, n - 1)
    <3> HIDE DEF Right
    <3>. QED
      BY <2>4, <2>5
  <2>7. CASE n \notin I
    <3>1. p[n] = q
      BY <1>3, <2>4, <2>5, <2>7
    <3>2. I \cap (1..n) = I \cap (1..n - 1)
      BY <1>0, <2>4, <2>7
    <3>3. Right(p[n], n)
      BY <2>6, <3>1, <3>2
    <3> HIDE DEF Right
    <3>. QED
      BY <2>2, <3>3
  <2>8. CASE n \in I
    <3>1. p[n] = Append(q, s[n]) /\ s[n] \in S
      BY <1>0, <1>3, <2>4, <2>5, <2>8
    <3>2. I \cap (1..n) = (I \cap (1..n - 1)) \cup {n}
      BY <1>0, <2>4, <2>8
    <3>3. Kept(n) = Kept(n - 1) \cup {s[n]}
      BY <3>2
    <3>4. p[n] \in Seq(S) /\ ToSet(p[n]) = ToSet(q) \cup {s[n]}
      BY <2>6, <3>1, Appended
    <3>5. Right(p[n], n)
      <4> HIDE DEF Kept
      <4>. QED
        BY <2>6, <3>3, <3>4
    <3> HIDE DEF Right
    <3>. QED
      BY <2>2, <3>5
  <2>. QED
    BY <2>7, <2>8
<1>5. Right(p[Len(s)], Len(s))
  <2> HIDE DEF Right
  <2>. QED
    BY <1>0, <1>4
<1>. QED
  BY <1>1, <1>5

(* The hops on the way of a delivery.                                      *)
LEMMA Ways ==
    ASSUME NEW t, NEW from, NEW pid, NEW item, Len(t.routersById) \in Nat
    PROVE  \E f : /\ f[0] = [to |-> pid, item |-> item]
                  /\ \A k \in 1..Len(t.routersById) : f[k] = Hop(t, from, f[k - 1])
                  /\ Delivery(t, from, pid, item) =
                        IF f[Len(t.routersById)].to # NoPid
                           /\ f[Len(t.routersById)].to.node = 0
                        THEN f[Len(t.routersById)]
                        ELSE [to |-> NoPid, item |-> item]
<1> DEFINE Upto(p, m) ==
              p = [k \in 0..m |-> IF k = 0 THEN [to |-> pid, item |-> item]
                               ELSE Hop(t, from, p[k - 1])]
           T == {m \in Nat : ~\E p : Upto(p, m)}
<1>1. T = {}
  <2>1. SUFFICES ASSUME T # {} PROVE FALSE
    OBVIOUS
  <2>2. PICK m \in T : \A y \in T : m <= y
    <3>1. T \subseteq Nat
      OBVIOUS
    <3>. QED
      BY <2>1, <3>1, Least
  <2>3. m # 0
    <3>1. SUFFICES ASSUME m = 0 PROVE FALSE
      OBVIOUS
    <3>2. PICK p : p = [k \in 0..0 |-> [to |-> pid, item |-> item]]
      OBVIOUS
    <3>3. Upto(p, 0)
      BY <3>2
    <3> HIDE DEF Upto
    <3>. QED
      BY <2>2, <3>1, <3>3
  <2>4. m \in Nat /\ m - 1 \in Nat /\ m - 1 \notin T
    <3> HIDE DEF Upto
    <3>1. m \in Nat
      OBVIOUS
    <3>2. m - 1 \in Nat
      BY <2>3, <3>1
    <3> HIDE DEF T
    <3>. QED
      BY <2>2, <3>1, <3>2
  <2>5. PICK p : Upto(p, m - 1)
    BY <2>4
  <2> DEFINE q == [k \in 0..m |-> IF k < m THEN p[k] ELSE Hop(t, from, p[m - 1])]
  <2>6. \A k \in 0..m :
           q[k] = IF k = 0 THEN [to |-> pid, item |-> item]
                           ELSE Hop(t, from, q[k - 1])
    <3>1. TAKE k \in 0..m
    <3>2. CASE k = m
      BY <2>3, <2>4, <3>2
    <3>3. CASE k < m
      <4>1. k \in 0..m - 1 /\ q[k] = p[k]
        BY <2>4, <3>3
      <4>2. k # 0 => q[k - 1] = p[k - 1]
        BY <2>4, <3>3
      <4>3. p[k] = IF k = 0 THEN [to |-> pid, item |-> item] ELSE Hop(t, from, p[k - 1])
        BY <2>5, <4>1
      <4>. QED
        BY <4>1, <4>2, <4>3
    <3>. QED
      BY <2>4, <3>2, <3>3
  <2>7. Upto(q, m)
    BY <2>6
  <2>. QED
    BY <2>2, <2>7
<1>2. \E p : Upto(p, Len(t.routersById))
  BY <1>1
<1>3. PICK f : f = CHOOSE p : Upto(p, Len(t.routersById))
  OBVIOUS
<1>4. Upto(f, Len(t.routersById))
  <2> HIDE DEF Upto
  <2>. QED
    BY <1>2, <1>3
<1>5. Delivery(t, from, pid, item) =
                        IF f[Len(t.routersById)].to # NoPid
                           /\ f[Len(t.routersById)].to.node = 0
                        THEN f[Len(t.routersById)]
                        ELSE [to |-> NoPid, item |-> item]
  BY <1>3 DEF Delivery
<1>6. f[0] = [to |-> pid, item |-> item]
  <2>1. 0 \in 0..Len(t.routersById)
    OBVIOUS
  <2>. QED
    BY <1>4, <2>1
<1>7. ASSUME NEW k \in 1..Len(t.routersById)
      PROVE  f[k] = Hop(t, from, f[k - 1])
  <2>1. k \in 0..Len(t.routersById) /\ k # 0
    OBVIOUS
  <2>. QED
    BY <1>4, <2>1
<1>. QED
  BY <1>5, <1>6, <1>7

(* The names of an item, heard one after the other.                        *)
LEMMA Hears ==
    ASSUME NEW t, NEW item, Len(NamesIn(item)) \in Nat
    PROVE  \E f : /\ f[0] = t
                  /\ \A k \in 1..Len(NamesIn(item)) :
                        f[k] = Acquainted(f[k - 1], NamesIn(item)[k])
                  /\ Heard(t, item) = f[Len(NamesIn(item))]
<1> DEFINE Upto(p, m) ==
              p = [k \in 0..m |-> IF k = 0 THEN t
                               ELSE Acquainted(p[k - 1], NamesIn(item)[k])]
           T == {m \in Nat : ~\E p : Upto(p, m)}
<1>1. T = {}
  <2>1. SUFFICES ASSUME T # {} PROVE FALSE
    OBVIOUS
  <2>2. PICK m \in T : \A y \in T : m <= y
    <3>1. T \subseteq Nat
      OBVIOUS
    <3>. QED
      BY <2>1, <3>1, Least
  <2>3. m # 0
    <3>1. SUFFICES ASSUME m = 0 PROVE FALSE
      OBVIOUS
    <3>2. PICK p : p = [k \in 0..0 |-> t]
      OBVIOUS
    <3>3. Upto(p, 0)
      BY <3>2
    <3> HIDE DEF Upto
    <3>. QED
      BY <2>2, <3>1, <3>3
  <2>4. m \in Nat /\ m - 1 \in Nat /\ m - 1 \notin T
    <3> HIDE DEF Upto
    <3>1. m \in Nat
      OBVIOUS
    <3>2. m - 1 \in Nat
      BY <2>3, <3>1
    <3> HIDE DEF T
    <3>. QED
      BY <2>2, <3>1, <3>2
  <2>5. PICK p : Upto(p, m - 1)
    BY <2>4
  <2> DEFINE q == [k \in 0..m |->
                     IF k < m THEN p[k]
                              ELSE Acquainted(p[m - 1], NamesIn(item)[m])]
  <2>6. \A k \in 0..m :
           q[k] = IF k = 0 THEN t ELSE Acquainted(q[k - 1], NamesIn(item)[k])
    <3>1. TAKE k \in 0..m
    <3>2. CASE k = m
      BY <2>3, <2>4, <3>2
    <3>3. CASE k < m
      <4>1. k \in 0..m - 1 /\ q[k] = p[k]
        BY <2>4, <3>3
      <4>2. k # 0 => q[k - 1] = p[k - 1]
        BY <2>4, <3>3
      <4>3. p[k] = IF k = 0 THEN t ELSE Acquainted(p[k - 1], NamesIn(item)[k])
        BY <2>5, <4>1
      <4>. QED
        BY <4>1, <4>2, <4>3
    <3>. QED
      BY <2>4, <3>2, <3>3
  <2>7. Upto(q, m)
    BY <2>6
  <2>. QED
    BY <2>2, <2>7
<1>2. \E p : Upto(p, Len(NamesIn(item)))
  BY <1>1
<1>3. PICK f : f = CHOOSE p : Upto(p, Len(NamesIn(item)))
  OBVIOUS
<1>4. Upto(f, Len(NamesIn(item)))
  <2> HIDE DEF Upto
  <2>. QED
    BY <1>2, <1>3
<1>5. Heard(t, item) = f[Len(NamesIn(item))]
  BY <1>3 DEF Heard
<1>6. f[0] = t
  <2>1. 0 \in 0..Len(NamesIn(item))
    OBVIOUS
  <2>. QED
    BY <1>4, <2>1
<1>7. ASSUME NEW k \in 1..Len(NamesIn(item))
      PROVE  f[k] = Acquainted(f[k - 1], NamesIn(item)[k])
  <2>1. k \in 0..Len(NamesIn(item)) /\ k # 0
    OBVIOUS
  <2>. QED
    BY <1>4, <2>1
<1>. QED
  BY <1>5, <1>6, <1>7

(* The steps of unregisterRouter.                                          *)
LEMMA Unregisters ==
    ASSUME NEW t, NEW pid, StepsToUnregister(t) \in Nat
    PROVE  \E f : /\ f[0] = [tables |-> t, todo |-> <<Call(pid)>>]
                  /\ \A k \in 1..StepsToUnregister(t) : f[k] = Unregistering(f[k - 1])
                  /\ Unregistered(t, pid) = f[StepsToUnregister(t)]
<1> DEFINE Upto(p, m) ==
              p = [k \in 0..m |-> IF k = 0 THEN [tables |-> t, todo |-> <<Call(pid)>>]
                               ELSE Unregistering(p[k - 1])]
           T == {m \in Nat : ~\E p : Upto(p, m)}
<1>1. T = {}
  <2>1. SUFFICES ASSUME T # {} PROVE FALSE
    OBVIOUS
  <2>2. PICK m \in T : \A y \in T : m <= y
    <3>1. T \subseteq Nat
      OBVIOUS
    <3>. QED
      BY <2>1, <3>1, Least
  <2>3. m # 0
    <3>1. SUFFICES ASSUME m = 0 PROVE FALSE
      OBVIOUS
    <3>2. PICK p : p = [k \in 0..0 |-> [tables |-> t, todo |-> <<Call(pid)>>]]
      OBVIOUS
    <3>3. Upto(p, 0)
      BY <3>2
    <3> HIDE DEF Upto
    <3>. QED
      BY <2>2, <3>1, <3>3
  <2>4. m \in Nat /\ m - 1 \in Nat /\ m - 1 \notin T
    <3> HIDE DEF Upto
    <3>1. m \in Nat
      OBVIOUS
    <3>2. m - 1 \in Nat
      BY <2>3, <3>1
    <3> HIDE DEF T
    <3>. QED
      BY <2>2, <3>1, <3>2
  <2>5. PICK p : Upto(p, m - 1)
    BY <2>4
  <2> DEFINE q == [k \in 0..m |-> IF k < m THEN p[k] ELSE Unregistering(p[m - 1])]
  <2>6. \A k \in 0..m :
           q[k] = IF k = 0 THEN [tables |-> t, todo |-> <<Call(pid)>>]
                           ELSE Unregistering(q[k - 1])
    <3>1. TAKE k \in 0..m
    <3>2. CASE k = m
      BY <2>3, <2>4, <3>2
    <3>3. CASE k < m
      <4>1. k \in 0..m - 1 /\ q[k] = p[k]
        BY <2>4, <3>3
      <4>2. k # 0 => q[k - 1] = p[k - 1]
        BY <2>4, <3>3
      <4>3. p[k] = IF k = 0 THEN [tables |-> t, todo |-> <<Call(pid)>>]
                            ELSE Unregistering(p[k - 1])
        BY <2>5, <4>1
      <4>. QED
        BY <4>1, <4>2, <4>3
    <3>. QED
      BY <2>4, <3>2, <3>3
  <2>7. Upto(q, m)
    BY <2>6
  <2>. QED
    BY <2>2, <2>7
<1>2. \E p : Upto(p, StepsToUnregister(t))
  BY <1>1
<1>3. PICK f : f = CHOOSE p : Upto(p, StepsToUnregister(t))
  OBVIOUS
<1>4. Upto(f, StepsToUnregister(t))
  <2> HIDE DEF Upto
  <2>. QED
    BY <1>2, <1>3
<1>5. Unregistered(t, pid) = f[StepsToUnregister(t)]
  BY <1>3 DEF Unregistered
<1>6. f[0] = [tables |-> t, todo |-> <<Call(pid)>>]
  <2>1. 0 \in 0..StepsToUnregister(t)
    OBVIOUS
  <2>. QED
    BY <1>4, <2>1
<1>7. ASSUME NEW k \in 1..StepsToUnregister(t)
      PROVE  f[k] = Unregistering(f[k - 1])
  <2>1. k \in 0..StepsToUnregister(t) /\ k # 0
    OBVIOUS
  <2>. QED
    BY <1>4, <2>1
<1>. QED
  BY <1>5, <1>6, <1>7

(* The function that FlattenSeq runs through.                              *)
LEMMA Flattens ==
    ASSUME NEW D, NEW ss \in Seq(Seq(D)), Len(ss) # 0
    PROVE  \E f : /\ f[1] = ss[1]
                  /\ \A k \in 2..Len(ss) : f[k] = f[k - 1] \o ss[k]
                  /\ FlattenSeq(ss) = f[Len(ss)]
<1> DEFINE Upto(p, m) ==
              p = [i \in 1..m |-> IF i = 1 THEN ss[i] ELSE p[i - 1] \o ss[i]]
           T == {m \in Nat : ~\E p : Upto(p, m)}
<1>0. Len(ss) \in Nat
  BY Elements
<1>1. T = {}
  <2>1. SUFFICES ASSUME T # {} PROVE FALSE
    OBVIOUS
  <2>2. PICK m \in T : \A y \in T : m <= y
    <3>1. T \subseteq Nat
      OBVIOUS
    <3>. QED
      BY <2>1, <3>1, Least
  <2>3. m # 0
    <3>1. SUFFICES ASSUME m = 0 PROVE FALSE
      OBVIOUS
    <3>2. PICK p : p = [i \in 1..0 |-> ss[i]]
      OBVIOUS
    <3>3. Upto(p, 0)
      BY <3>2
    <3> HIDE DEF Upto
    <3>. QED
      BY <2>2, <3>1, <3>3
  <2>4. m \in Nat /\ m - 1 \in Nat /\ m - 1 \notin T
    <3> HIDE DEF Upto
    <3>1. m \in Nat
      OBVIOUS
    <3>2. m - 1 \in Nat
      BY <2>3, <3>1
    <3> HIDE DEF T
    <3>. QED
      BY <2>2, <3>1, <3>2
  <2>5. PICK p : Upto(p, m - 1)
    BY <2>4
  <2> DEFINE q == [i \in 1..m |-> IF i < m THEN p[i]
                                  ELSE IF m = 1 THEN ss[m] ELSE p[m - 1] \o ss[m]]
  <2>6. \A i \in 1..m : q[i] = IF i = 1 THEN ss[i] ELSE q[i - 1] \o ss[i]
    <3>1. TAKE i \in 1..m
    <3>2. CASE i = m
      BY <2>3, <2>4, <3>2
    <3>3. CASE i < m
      <4>1. i \in 1..m - 1 /\ q[i] = p[i]
        BY <2>4, <3>3
      <4>2. i # 1 => q[i - 1] = p[i - 1]
        BY <2>4, <3>3
      <4>3. p[i] = IF i = 1 THEN ss[i] ELSE p[i - 1] \o ss[i]
        BY <2>5, <4>1
      <4>. QED
        BY <4>1, <4>2, <4>3
    <3>. QED
      BY <2>4, <3>2, <3>3
  <2>7. Upto(q, m)
    BY <2>6
  <2>. QED
    BY <2>2, <2>7
<1>2. \E p : Upto(p, Len(ss))
  BY <1>0, <1>1
<1>3. PICK f : f = CHOOSE p : Upto(p, Len(ss))
  OBVIOUS
<1>4. Upto(f, Len(ss))
  <2> HIDE DEF Upto
  <2>. QED
    BY <1>2, <1>3
<1>5. FlattenSeq(ss) = f[Len(ss)]
  BY <1>3 DEF FlattenSeq
<1>6. f[1] = ss[1]
  <2>1. 1 \in 1..Len(ss)
    BY <1>0
  <2>. QED
    BY <1>4, <2>1
<1>7. ASSUME NEW k \in 2..Len(ss)
      PROVE  f[k] = f[k - 1] \o ss[k]
  <2>1. k \in 1..Len(ss) /\ k # 1
    BY <1>0
  <2>. QED
    BY <1>4, <2>1
<1>. QED
  BY <1>5, <1>6, <1>7

(* The sequences in a row, over the same set.                              *)
LEMMA Flattened ==
    ASSUME NEW D, NEW ss \in Seq(Seq(D))
    PROVE  FlattenSeq(ss) \in Seq(D)
<1>0. Len(ss) \in Nat /\ \A i \in 1..Len(ss) : ss[i] \in Seq(D)
  BY Elements
<1>1. CASE Len(ss) = 0
  <2>1. ss = <<>> /\ FlattenSeq(ss) = ss
    BY <1>1, EmptySeq DEF FlattenSeq
  <2>. QED
    BY <2>1, Empty
<1>2. CASE Len(ss) # 0
  <2>1. PICK f : /\ f[1] = ss[1]
                 /\ \A k \in 2..Len(ss) : f[k] = f[k - 1] \o ss[k]
                 /\ FlattenSeq(ss) = f[Len(ss)]
    BY <1>2, Flattens
  <2> DEFINE T == {k \in 1..Len(ss) : f[k] \notin Seq(D)}
  <2>2. T = {}
    <3>1. SUFFICES ASSUME T # {} PROVE FALSE
      OBVIOUS
    <3>2. PICK k \in T : \A y \in T : k <= y
      <4>1. T \subseteq Nat
        BY <1>0
      <4>. QED
        BY <3>1, <4>1, Least
    <3>3. k \in 1..Len(ss) /\ k # 1
      BY <1>0, <2>1
    <3>4. k - 1 \in 1..Len(ss) /\ k - 1 < k /\ k \in 2..Len(ss)
      BY <1>0, <3>3
    <3>5. k - 1 \notin T
      <4> HIDE DEF T
      <4>. QED
        BY <1>0, <3>2, <3>3, <3>4
    <3>6. f[k - 1] \in Seq(D) /\ ss[k] \in Seq(D)
      BY <1>0, <3>4, <3>5, <3>3
    <3>7. f[k - 1] \o ss[k] \in Seq(D)
      BY <3>6, Joined
    <3>. QED
      BY <2>1, <3>4, <3>7
  <2>3. Len(ss) \in 1..Len(ss)
    BY <1>0, <1>2
  <2>4. f[Len(ss)] \in Seq(D)
    BY <2>2, <2>3
  <2>. QED
    BY <2>1, <2>4
<1>. QED
  BY <1>1, <1>2

-----------------------------------------------------------------------------
(* The inductive invariant.                                                *)

(* What the ids of a node stand for, and the names on the wire. *)
Ids(t) == 0..Len(t.routersById) - 1
NameOf(t) == [id \in Ids(t) |-> t.routersById[id + 1].name]
OnWire == [n \in Node |-> n]

(* The pid of a router is the context of a connection to its node. *)
Towards(e) == At(Other(e))
ContextPid(ids) == [node : ids, proc : End]
UserPid(ids) == [node : ids, proc : {User}]
SenderPid(ids) == [node : ids, proc : {System, User}]

Types == {"temporary", "permanent", "none"}
Notices(N) ==
    {d \in [kind : {"discover"}, source : Node, score : Nat, name : Node,
            type : Types, pid : ContextPid(DOMAIN N)] :
        d.name = Towards(d.pid.proc)}
    \cup [kind : {"lost"}, pid : ContextPid(DOMAIN N)]

(* A message for a user says who sent it, and to whom. *)
Hellos(N) ==
    {h \in [kind : {"hello"}, src : Node, dest : Node,
            from : UserPid(DOMAIN N)] : N[h.from.node] = h.src}

Final(N, pid, body) ==
    \/ pid \in ContextPid(DOMAIN N) /\ body \in Notices(N)
    \/ pid \in UserPid(DOMAIN N) /\ body \in Hellos(N) /\ body.dest = N[pid.node]

Relays(N) ==
    {r \in [kind : {"relay"}, from : SenderPid(DOMAIN N),
            to : Seq(ContextPid(DOMAIN N) \cup UserPid(DOMAIN N)),
            body : Notices(N) \cup Hellos(N)] :
        /\ r.to # <<>>
        /\ \A i \in 1..Len(r.to) - 1 : r.to[i] \in ContextPid(DOMAIN N)
        /\ Final(N, r.to[Len(r.to)], r.body)}

Signals(N) == Notices(N) \cup Relays(N)
Meant(N, pid, item) ==
    Final(N, pid, item) \/ (pid \in ContextPid(DOMAIN N) /\ item \in Relays(N))

Greetings(n) == {Discover("none", 0, n, type, NoPid) : type \in Types}

(* What the operations of a node deliver. *)
Delivered(t) ==
    [to : {NoPid}, item : Signals(NameOf(t)) \cup Hellos(NameOf(t))]
    \cup [to : {Local(e) : e \in End}, item : Signals(NameOf(t))]
    \cup [to : {Local(User)}, item : {h \in Hellos(NameOf(t)) : h.dest = t.name}]
    \cup [to : {Local(User)}, item : {Nodedown(m) : m \in Node}]

(* The node itself, and the router of another node. *)
Self(n) == RouterRecord(0, "none", 0, n, Local(System), "none")

RouterFits(t, r) ==
    /\ r \in RouterRecords /\ r.source \in Node /\ r.name # t.name
    /\ r.pid # NoPid => /\ r.pid \in ContextPid(Ids(t))
                        /\ r.name = Towards(r.pid.proc)

ByIdFits(t) ==
    /\ t.routersById \in Seq(RouterRecords) /\ t.routersById # <<>>
    /\ t.routersById[1] = Self(t.name)
    /\ \A i \in 1..Len(t.routersById) :
          /\ t.routersById[i].id = i - 1
          /\ i > 1 => RouterFits(t, t.routersById[i])

(* A router in the list is the router with its id. *)
ListFits(t) ==
    /\ t.routers \in Seq(RouterRecords)
    /\ \A r \in ToSet(t.routers) :
          r.id \in Ids(t) /\ t.routersById[r.id + 1] = r
    /\ \A r, q \in ToSet(t.routers) : r.name = q.name => r = q
    /\ Self(t.name) \in ToSet(t.routers)

(* The router of a pid may be out of date, but its name is not. *)
ByPidFits(t) ==
    /\ IsFiniteSet(t.routersByPid)
    /\ \A e \in t.routersByPid :
          /\ e.router.pid = e.pid /\ e.pid # NoPid
          /\ e.router.id \in Ids(t)
          /\ e.router.name = NameOf(t)[e.router.id]
          /\ e.router = Self(t.name) \/ RouterFits(t, e.router)

(* The pid of a bridge is the pid of a router, the names are its name. *)
BridgesFit(t) ==
    /\ t.bridges \in Seq([pid : ContextPid(Ids(t)), names : Seq(Node)])
    /\ \A b \in ToSet(t.bridges) :
          /\ \A name \in ToSet(b.names) :
                name # t.name /\ name = Towards(b.pid.proc)
          /\ \E e \in t.routersByPid : e.pid = b.pid

IsTables(t) ==
    t = [name |-> t.name, routers |-> t.routers, routersById |-> t.routersById,
         routersByPid |-> t.routersByPid, bridges |-> t.bridges,
         monitors |-> t.monitors, out |-> t.out]

TablesFit(t) ==
    /\ IsTables(t) /\ t.name \in Node /\ t.monitors \subseteq Node
    /\ ByIdFits(t) /\ ListFits(t) /\ ByPidFits(t) /\ BridgesFit(t)
    /\ t.out \in Seq(Delivered(t))

Fits ==
    /\ tables = [n \in Node |-> tables[n]]
    /\ \A n \in Node :
          TablesFit(tables[n]) /\ tables[n].name = n /\ tables[n].out = <<>>
    /\ box = [e \in End |-> box[e]] /\ wire = [e \in End |-> wire[e]]
    /\ \A e \in End :
          /\ box[e] \in Seq(Signals(NameOf(tables[At(e)])))
          /\ wire[e] \in Seq(Signals(OnWire) \cup Greetings(At(e)))

-----------------------------------------------------------------------------
(* Ids are only added. *)
Extends(N, M) == DOMAIN N \subseteq DOMAIN M /\ \A id \in DOMAIN N : M[id] = N[id]

(* A live router that the user watches stays, or the user is told. *)
Lives(t, m) == \E r \in ToSet(t.routers) : r.name = m /\ r.pid # NoPid
Reported(t, m) == \E d \in ToSet(t.out) : d.item = Nodedown(m)
Watches(t, m) == m \in t.monitors /\ Lives(t, m)

Onward(t, u) ==
    /\ u.name = t.name
    /\ Extends(NameOf(t), NameOf(u))
    /\ ToSet(t.out) \subseteq ToSet(u.out)
    /\ \A m : Watches(t, m) => Watches(u, m) \/ Reported(u, m)

(* The two ends of a connection are at nodes.                              *)
LEMMA Ends ==
    ASSUME NEW e \in End
    PROVE  At(e) \in Node /\ Other(e) \in End /\ Other(Other(e)) = e
           /\ Towards(e) \in Node /\ e # User /\ e # System
BY NetworkAssumption DEF End, At, Other, Towards, User, System

(* null is no pid.                                                         *)
LEMMA NoPids ==
    ASSUME NEW pid
    PROVE  /\ pid \in ContextPid(Nat) \cup UserPid(Nat) => pid # NoPid
           /\ pid \in ContextPid(Node) \cup UserPid(Node) => pid # NoPid
           /\ \A e \in End \cup {User, System} : Local(e) # NoPid
BY ScenariosAssumption DEF ContextPid, UserPid, Local, Pid

(* Ids go on being added.                                                  *)
LEMMA ExtendsSame ==
    ASSUME NEW N, NEW M, NEW L, Extends(N, M), Extends(M, L)
    PROVE  Extends(N, L) /\ Extends(N, N)
BY DEF Extends

(* What fits some ids fits more ids.                                       *)
LEMMA FinalWider ==
    ASSUME NEW N, NEW M, Extends(N, M), NEW pid, NEW body, Final(N, pid, body)
    PROVE  Final(M, pid, body)
BY DEF Extends, Final, Notices, Hellos, ContextPid, UserPid

(* What means something with some ids means it with more.                  *)
LEMMA NoticesWider ==
    ASSUME NEW N, NEW M, Extends(N, M)
    PROVE  /\ Notices(N) \subseteq Notices(M)
           /\ Hellos(N) \subseteq Hellos(M)
           /\ ContextPid(DOMAIN N) \subseteq ContextPid(DOMAIN M)
           /\ UserPid(DOMAIN N) \subseteq UserPid(DOMAIN M)
           /\ SenderPid(DOMAIN N) \subseteq SenderPid(DOMAIN M)
BY DEF Extends, Notices, Hellos, ContextPid, UserPid, SenderPid

(* The same of signals.                                                    *)
LEMMA SignalsWider ==
    ASSUME NEW N, NEW M, Extends(N, M)
    PROVE  Signals(N) \subseteq Signals(M)
<1>1. ASSUME NEW r \in Relays(N)
      PROVE  r \in Relays(M)
  <2>1. r \in [kind : {"relay"}, from : SenderPid(DOMAIN N),
               to : Seq(ContextPid(DOMAIN N) \cup UserPid(DOMAIN N)),
               body : Notices(N) \cup Hellos(N)]
    BY DEF Relays
  <2>2. /\ r.to # <<>>
        /\ \A i \in 1..Len(r.to) - 1 : r.to[i] \in ContextPid(DOMAIN N)
        /\ Final(N, r.to[Len(r.to)], r.body)
    BY DEF Relays
  <2>3. r.to \in Seq(ContextPid(DOMAIN M) \cup UserPid(DOMAIN M))
    <3>1. ContextPid(DOMAIN N) \cup UserPid(DOMAIN N)
             \subseteq ContextPid(DOMAIN M) \cup UserPid(DOMAIN M)
      BY NoticesWider
    <3>2. r.to \in Seq(ContextPid(DOMAIN N) \cup UserPid(DOMAIN N))
      BY <2>1
    <3>. QED
      BY <3>1, <3>2, Wider
  <2>4. r.body \in Notices(M) \cup Hellos(M)
    BY <2>1, NoticesWider
  <2>5. r \in [kind : {"relay"}, from : SenderPid(DOMAIN M),
               to : Seq(ContextPid(DOMAIN M) \cup UserPid(DOMAIN M)),
               body : Notices(M) \cup Hellos(M)]
    BY <2>1, <2>3, <2>4, NoticesWider
  <2>6. /\ \A i \in 1..Len(r.to) - 1 : r.to[i] \in ContextPid(DOMAIN M)
        /\ Final(M, r.to[Len(r.to)], r.body)
    BY <2>2, NoticesWider, FinalWider
  <2>. QED
    BY <2>2, <2>5, <2>6 DEF Relays
<1>. QED
  BY <1>1, NoticesWider DEF Signals

-----------------------------------------------------------------------------
(* Pids and names.                                                         *)

(* Ids are in use without a gap; 0 is the node itself.                     *)
LEMMA IdsOf ==
    ASSUME NEW t, ByIdFits(t), t.name \in Node
    PROVE  /\ Len(t.routersById) \in Nat /\ Len(t.routersById) >= 1
           /\ Ids(t) \subseteq Nat /\ 0 \in Ids(t)
           /\ DOMAIN NameOf(t) = Ids(t) /\ NameOf(t)[0] = t.name
           /\ \A id \in Ids(t) :
                 /\ id + 1 \in 1..Len(t.routersById)
                 /\ NameOf(t)[id] = t.routersById[id + 1].name
                 /\ NameOf(t)[id] \in Node
           /\ \A i \in 1..Len(t.routersById) : i - 1 \in Ids(t)
<1>1. /\ Len(t.routersById) \in Nat
      /\ \A i \in 1..Len(t.routersById) : t.routersById[i] \in RouterRecords
  BY Elements DEF ByIdFits
<1>2. Len(t.routersById) >= 1
  BY <1>1, EmptySeq DEF ByIdFits
<1>3. DOMAIN NameOf(t) = Ids(t) /\ Ids(t) \subseteq Nat /\ 0 \in Ids(t)
  BY <1>1, <1>2 DEF NameOf, Ids
<1>4. \A id \in Ids(t) :
         /\ id + 1 \in 1..Len(t.routersById)
         /\ NameOf(t)[id] = t.routersById[id + 1].name
  BY <1>1, <1>2 DEF NameOf, Ids
<1>5. NameOf(t)[0] = t.name
  BY <1>3, <1>4 DEF ByIdFits, Self, RouterRecord
<1>6. \A id \in Ids(t) : NameOf(t)[id] \in Node
  BY <1>1, <1>4 DEF RouterRecords
<1>7. \A i \in 1..Len(t.routersById) : i - 1 \in Ids(t)
  BY <1>1 DEF Ids
<1>. QED
  BY <1>1, <1>2, <1>3, <1>4, <1>5, <1>6, <1>7

(* On the wire a node stands for itself.                                   *)
LEMMA WireOf ==
    DOMAIN OnWire = Node /\ \A n \in Node : OnWire[n] = n
BY DEF OnWire

(* Two ways to name the nodes that say the same of two pids. *)
Renamed(N, pid, M, new) ==
    /\ pid.node \in DOMAIN N /\ new.node \in DOMAIN M
    /\ new = [node |-> new.node, proc |-> pid.proc]
    /\ pid = [node |-> pid.node, proc |-> pid.proc]
    /\ M[new.node] = N[pid.node]

(* A pid with another name for its node is the same process.               *)
LEMMA RenamedPid ==
    ASSUME NEW N, NEW M, NEW pid, NEW new, Renamed(N, pid, M, new)
    PROVE  /\ pid \in ContextPid(DOMAIN N) => /\ new \in ContextPid(DOMAIN M)
                                              /\ new.proc = pid.proc
           /\ pid \in UserPid(DOMAIN N) => /\ new \in UserPid(DOMAIN M)
                                           /\ M[new.node] = N[pid.node]
           /\ pid \in SenderPid(DOMAIN N) => new \in SenderPid(DOMAIN M)
BY DEF Renamed, ContextPid, UserPid, SenderPid

(* A notice with a renamed pid.                                            *)
LEMMA RenamedNotice ==
    ASSUME NEW N, NEW M, NEW x \in Notices(N), NEW new,
           Renamed(N, x.pid, M, new)
    PROVE  [x EXCEPT !.pid = new] \in Notices(M)
<1>1. x.pid \in ContextPid(DOMAIN N)
  BY DEF Notices
<1>2. new \in ContextPid(DOMAIN M) /\ new.proc = x.pid.proc
  BY <1>1, RenamedPid
<1>. QED
  BY <1>2 DEF Notices

(* A message with a renamed sender.                                        *)
LEMMA RenamedHello ==
    ASSUME NEW N, NEW M, NEW x \in Hellos(N), NEW new,
           Renamed(N, x.from, M, new), NEW y, y = [x EXCEPT !.from = new]
    PROVE  y \in Hellos(M) /\ y.dest = x.dest
<1>1. x.from \in UserPid(DOMAIN N) /\ N[x.from.node] = x.src
  BY DEF Hellos
<1>2. new \in UserPid(DOMAIN M) /\ M[new.node] = x.src
  BY <1>1, RenamedPid
<1>3. x \in [kind : {"hello"}, src : Node, dest : Node, from : UserPid(DOMAIN N)]
  BY DEF Hellos
<1>. QED
  BY <1>2, <1>3 DEF Hellos

(* Messages are told apart by their kind.                                  *)
LEMMA Kinds ==
    ASSUME NEW N
    PROVE  /\ \A x \in Notices(N) :
                 /\ x.kind \in {"discover", "lost"}
                 /\ x.pid \in ContextPid(DOMAIN N)
           /\ \A x \in Hellos(N) :
                 x.kind = "hello" /\ x.from \in UserPid(DOMAIN N)
           /\ \A x \in Relays(N) :
                 x.kind = "relay" /\ x.from \in SenderPid(DOMAIN N)
BY DEF Notices, Hellos, Relays

(* A relay whose pids and message are renamed. *)
LEMMA RenamedRelay ==
    ASSUME NEW N, NEW M, NEW x \in Relays(N), NEW from, NEW to, NEW body,
           Renamed(N, x.from, M, from),
           to = [i \in DOMAIN x.to |-> to[i]],
           \A i \in DOMAIN x.to : Renamed(N, x.to[i], M, to[i]),
           x.body \in Notices(N) => body \in Notices(M),
           x.body \in Hellos(N) => body \in Hellos(M) /\ body.dest = x.body.dest
    PROVE  Relay(from, to, body) \in Relays(M)
<1> DEFINE P == ContextPid(DOMAIN N) \cup UserPid(DOMAIN N)
           Q == ContextPid(DOMAIN M) \cup UserPid(DOMAIN M)
<1>1. /\ x.to \in Seq(P) /\ x.body \in Notices(N) \cup Hellos(N)
      /\ x.to # <<>>
      /\ \A i \in 1..Len(x.to) - 1 : x.to[i] \in ContextPid(DOMAIN N)
      /\ Final(N, x.to[Len(x.to)], x.body)
  BY DEF Relays
<1>2. /\ Len(x.to) \in Nat /\ DOMAIN x.to = 1..Len(x.to) /\ Len(x.to) >= 1
      /\ \A i \in 1..Len(x.to) : x.to[i] \in P
  BY <1>1, Elements, Rested
<1>3. ASSUME NEW i \in 1..Len(x.to)
      PROVE  /\ x.to[i] \in ContextPid(DOMAIN N) => to[i] \in ContextPid(DOMAIN M)
             /\ x.to[i] \in UserPid(DOMAIN N) =>
                   /\ to[i] \in UserPid(DOMAIN M)
                   /\ M[to[i].node] = N[x.to[i].node]
  <2>1. Renamed(N, x.to[i], M, to[i])
    BY <1>2
  <2>. QED
    BY <2>1, RenamedPid
<1>4. \A i \in 1..Len(x.to) : to[i] \in Q
  BY <1>2, <1>3
<1>5. to \in Seq(Q) /\ Len(to) = Len(x.to)
  <2>1. to = [i \in 1..Len(x.to) |-> to[i]]
    BY <1>2
  <2> HIDE DEF Q
  <2>. QED
    BY <1>2, <1>4, <2>1, Filled
<1>6. to # <<>>
  BY <1>2, <1>5, Empty
<1>7. \A i \in 1..Len(to) - 1 : to[i] \in ContextPid(DOMAIN M)
  <2>1. TAKE i \in 1..Len(to) - 1
  <2>2. i \in 1..Len(x.to) - 1 /\ i \in 1..Len(x.to)
    BY <1>2, <1>5
  <2>3. x.to[i] \in ContextPid(DOMAIN N)
    BY <1>1, <2>2
  <2>. QED
    BY <1>3, <2>2, <2>3
<1>8. Final(M, to[Len(to)], body)
  <2>1. PICK last : last = to[Len(to)]
    OBVIOUS
  <2>2. PICK old : old = x.to[Len(x.to)]
    OBVIOUS
  <2>3. Len(x.to) \in 1..Len(x.to)
    BY <1>2
  <2>4. /\ old \in ContextPid(DOMAIN N) => last \in ContextPid(DOMAIN M)
        /\ old \in UserPid(DOMAIN N) =>
              last \in UserPid(DOMAIN M) /\ M[last.node] = N[old.node]
    BY <1>3, <1>5, <2>1, <2>2, <2>3
  <2>5. Final(N, old, x.body)
    BY <1>1, <2>2
  <2>6. CASE old \in ContextPid(DOMAIN N) /\ x.body \in Notices(N)
    BY <2>1, <2>4, <2>6 DEF Final
  <2>7. CASE /\ old \in UserPid(DOMAIN N) /\ x.body \in Hellos(N)
             /\ x.body.dest = N[old.node]
    BY <2>1, <2>4, <2>7 DEF Final
  <2>. QED
    BY <2>5, <2>6, <2>7 DEF Final
<1>9. body \in Notices(M) \cup Hellos(M)
  BY <1>1
<1>10. from \in SenderPid(DOMAIN M)
  BY Kinds, RenamedPid
<1>. QED
  BY <1>5, <1>6, <1>7, <1>8, <1>9, <1>10 DEF Relay, Relays

-----------------------------------------------------------------------------
(* Deliveries.                                                             *)

(* A relay around what is meant for a pid.                                 *)
LEMMA RelayedFits ==
    ASSUME NEW N, NEW from \in SenderPid(DOMAIN N), NEW pid, NEW item,
           Meant(N, pid, item)
    PROVE  Relayed(from, pid, item) \in Relays(N)
<1> DEFINE C == ContextPid(DOMAIN N)
           P == C \cup UserPid(DOMAIN N)
<1>1. CASE item \in Relays(N) /\ pid \in C
  <2>1. /\ item.kind = "relay" /\ item.to \in Seq(P) /\ item.to # <<>>
        /\ item.body \in Notices(N) \cup Hellos(N)
        /\ \A i \in 1..Len(item.to) - 1 : item.to[i] \in C
        /\ Final(N, item.to[Len(item.to)], item.body)
    BY <1>1 DEF Relays
  <2>2. PICK q : q = item.to
    OBVIOUS
  <2>3. PICK one : one = <<pid>>
    OBVIOUS
  <2> HIDE DEF C, P
  <2>4. /\ one \in Seq(P) /\ Len(one) = 1 /\ one[1] = pid
        /\ q \in Seq(P) /\ Len(q) \in Nat /\ Len(q) >= 1
    <3>1. pid \in P
      BY <1>1 DEF P
    <3>2. one \in Seq(P) /\ Len(one) = 1 /\ one[1] = pid
      BY <2>3, <3>1, One
    <3>3. q \in Seq(P) /\ q # <<>>
      BY <2>1, <2>2
    <3>. QED
      BY <3>2, <3>3, Rested
  <2>5. PICK r : r = one \o q
    OBVIOUS
  <2>6. /\ r \in Seq(P) /\ Len(r) = Len(q) + 1
        /\ \A i \in 1..Len(q) + 1 : r[i] = IF i = 1 THEN pid ELSE q[i - 1]
    <3>1. /\ r \in Seq(P) /\ Len(r) = 1 + Len(q)
          /\ \A i \in 1..1 + Len(q) : r[i] = IF i <= 1 THEN one[i] ELSE q[i - 1]
      BY <2>4, <2>5, Joined
    <3>2. ASSUME NEW i \in 1..Len(q) + 1
          PROVE  r[i] = IF i = 1 THEN pid ELSE q[i - 1]
      <4>1. i \in 1..1 + Len(q) /\ (i <= 1 <=> i = 1)
        BY <2>4
      <4>2. CASE i = 1
        BY <2>4, <3>1, <4>1, <4>2
      <4>3. CASE i # 1
        BY <3>1, <4>1, <4>3
      <4>. QED
        BY <4>2, <4>3
    <3>. QED
      BY <2>4, <3>1, <3>2
  <2>7. r # <<>>
    BY <2>4, <2>6, Empty
  <2>8. ASSUME NEW i \in 1..Len(r) - 1
        PROVE  r[i] \in C
    <3>1. i \in 1..Len(q) /\ i \in 1..Len(q) + 1
      BY <2>4, <2>6
    <3>2. CASE i = 1
      BY <1>1, <2>6, <3>1, <3>2
    <3>3. CASE i # 1
      <4>1. i - 1 \in 1..Len(q) - 1
        BY <2>4, <3>1, <3>3
      <4>2. q[i - 1] \in C
        BY <2>1, <2>2, <4>1
      <4>. QED
        BY <2>6, <3>1, <3>3, <4>2
    <3>. QED
      BY <3>2, <3>3
  <2>9. r[Len(r)] = q[Len(q)]
    <3>1. Len(q) + 1 \in 1..Len(q) + 1 /\ Len(q) + 1 # 1 /\ Len(q) + 1 - 1 = Len(q)
      BY <2>4
    <3>. QED
      BY <2>6, <3>1
  <2>10. Relay(from, r, item.body) \in Relays(N)
    <3>1. Final(N, r[Len(r)], item.body)
      BY <2>1, <2>2, <2>9
    <3>. QED
      BY <2>1, <2>6, <2>7, <2>8, <3>1 DEF Relays, Relay, P, C
  <2>. QED
    BY <2>1, <2>2, <2>3, <2>5, <2>10 DEF Relayed
<1>2. CASE Final(N, pid, item)
  <2>1. item \in Notices(N) \cup Hellos(N) /\ pid \in P
    BY <1>2 DEF Final
  <2>2. item.kind # "relay"
    BY <2>1, Kinds
  <2>3. PICK one : one = <<pid>>
    OBVIOUS
  <2>4. one \in Seq(P) /\ Len(one) = 1 /\ one[1] = pid /\ one # <<>>
    <3> HIDE DEF P
    <3>. QED
      BY <2>1, <2>3, One, Empty
  <2>5. Relay(from, one, item) \in Relays(N)
    <3>1. 1..Len(one) - 1 = {} /\ Final(N, one[Len(one)], item)
      BY <1>2, <2>4
    <3>. QED
      BY <2>1, <2>4, <3>1 DEF Relays, Relay
  <2>. QED
    BY <2>2, <2>3, <2>5 DEF Relayed
<1>. QED
  BY <1>1, <1>2 DEF Meant

(* The router of a pid of another node has a context, or no pid. *)
LEMMA HopFits ==
    ASSUME NEW t, ByIdFits(t), t.name \in Node,
           NEW from \in SenderPid(Ids(t)), NEW d,
           d.to = NoPid \/ Meant(NameOf(t), d.to, d.item)
    PROVE  \/ Hop(t, from, d).to = NoPid
           \/ Meant(NameOf(t), Hop(t, from, d).to, Hop(t, from, d).item)
<1>1. CASE d.to = NoPid \/ d.to.node = 0
  BY <1>1 DEF Hop
<1>2. CASE ~(d.to = NoPid \/ d.to.node = 0)
  <2>1. /\ d.to \in ContextPid(Ids(t)) \cup UserPid(Ids(t))
        /\ d.to.node \in Ids(t) /\ d.to.node # 0
    <3>1. d.to \in ContextPid(Ids(t)) \cup UserPid(Ids(t))
      BY <1>2, IdsOf DEF Meant, Final
    <3>. QED
      BY <1>2, <3>1 DEF ContextPid, UserPid
  <2>2. PICK router : router = t.routersById[d.to.node + 1]
    OBVIOUS
  <2>3. router.pid # NoPid => router.pid \in ContextPid(Ids(t))
    <3>1. d.to.node + 1 \in 1..Len(t.routersById) /\ d.to.node + 1 > 1
      BY <2>1, IdsOf
    <3>. QED
      BY <2>2, <3>1 DEF ByIdFits, RouterFits
  <2>4. Relayed(from, d.to, d.item) \in Relays(NameOf(t))
    BY <1>2, RelayedFits, IdsOf
  <2>5. /\ Hop(t, from, d).to = router.pid
        /\ Hop(t, from, d).item = Relayed(from, d.to, d.item)
    BY <1>2, <2>2 DEF Hop, RouterById
  <2>. QED
    BY <2>3, <2>4, <2>5, IdsOf DEF Meant
<1>. QED
  BY <1>1, <1>2

(* However many hops the way has, what arrives is for who gets it.         *)
LEMMA DeliveryFits ==
    ASSUME NEW t, ByIdFits(t), t.name \in Node,
           NEW from \in SenderPid(Ids(t)), NEW pid, NEW item,
           Meant(NameOf(t), pid, item)
    PROVE  /\ Delivery(t, from, pid, item) \in Delivered(t)
           /\ Delivery(t, from, pid, item).to = Local(User) =>
                 /\ Delivery(t, from, pid, item).item \in Hellos(NameOf(t))
                 /\ Delivery(t, from, pid, item).item.dest = t.name
<1> DEFINE N == NameOf(t)
           hops == Len(t.routersById)
           Right(d) == d.to = NoPid \/ Meant(N, d.to, d.item)
<1>1. hops \in Nat /\ DOMAIN N = Ids(t) /\ N[0] = t.name
  BY IdsOf
<1>2. PICK way : /\ way[0] = [to |-> pid, item |-> item]
                 /\ \A k \in 1..hops : way[k] = Hop(t, from, way[k - 1])
                 /\ Delivery(t, from, pid, item) =
                       IF way[hops].to # NoPid /\ way[hops].to.node = 0
                       THEN way[hops] ELSE [to |-> NoPid, item |-> item]
  BY <1>1, Ways
<1> DEFINE Pair(d) == d = [to |-> d.to, item |-> d.item]
           T == {k \in 0..hops : ~(Right(way[k]) /\ Pair(way[k]))}
<1>3. T = {}
  <2>1. SUFFICES ASSUME T # {} PROVE FALSE
    OBVIOUS
  <2>2. PICK k \in T : \A y \in T : k <= y
    <3>1. T \subseteq Nat
      BY <1>1
    <3>. QED
      BY <2>1, <3>1, Least
  <2>3. k # 0
    BY <1>2
  <2>4. k \in 1..hops /\ k - 1 \in 0..hops /\ k - 1 \notin T
    <3> HIDE DEF Right, Pair
    <3>1. k \in 1..hops
      BY <1>1, <2>3
    <3>2. k - 1 \in 0..hops
      BY <1>1, <3>1
    <3> HIDE DEF T
    <3>. QED
      BY <1>1, <2>2, <3>1, <3>2
  <2>5. PICK d : d = way[k - 1]
    OBVIOUS
  <2>6. Right(d) /\ Pair(d)
    BY <2>4, <2>5
  <2>7. Right(Hop(t, from, d))
    BY <2>6, HopFits
  <2>8. Pair(Hop(t, from, d))
    BY <2>6 DEF Hop
  <2>9. way[k] = Hop(t, from, d)
    BY <1>2, <2>4, <2>5
  <2> HIDE DEF Right, Pair
  <2>. QED
    BY <2>2, <2>7, <2>8, <2>9
<1>4. PICK last : last = way[hops]
  OBVIOUS
<1>5. Right(last) /\ last = [to |-> last.to, item |-> last.item]
  <2>1. hops \in 0..hops /\ hops \notin T
    <3> HIDE DEF T
    <3>. QED
      BY <1>1, <1>3
  <2>2. Right(last) /\ Pair(last)
    <3> HIDE DEF Right, Pair
    <3>. QED
      BY <1>4, <2>1
  <2>. QED
    BY <2>2
<1>6. CASE last.to # NoPid /\ last.to.node = 0
  <2>1. Delivery(t, from, pid, item) = last
    BY <1>2, <1>4, <1>6
  <2>2. Meant(N, last.to, last.item)
    BY <1>5, <1>6
  <2>3. CASE last.to \in ContextPid(DOMAIN N) /\ last.item \in Signals(N)
    <3>1. last.to \in {Local(e) : e \in End} /\ last.to # Local(User)
      BY <1>6, <2>3, Ends DEF ContextPid, Local, Pid
    <3>. QED
      BY <1>5, <2>1, <2>3, <3>1 DEF Delivered
  <2>4. CASE /\ last.to \in UserPid(DOMAIN N) /\ last.item \in Hellos(N)
             /\ last.item.dest = N[last.to.node]
    <3>1. last.to = Local(User)
      BY <1>6, <2>4 DEF UserPid, Local, Pid
    <3>2. last.item.dest = t.name
      BY <1>1, <1>6, <2>4
    <3>. QED
      BY <1>5, <2>1, <2>4, <3>1, <3>2 DEF Delivered
  <2>. QED
    BY <2>2, <2>3, <2>4 DEF Meant, Final, Signals
<1>7. CASE ~(last.to # NoPid /\ last.to.node = 0)
  <2>1. Delivery(t, from, pid, item) = [to |-> NoPid, item |-> item]
    BY <1>2, <1>4, <1>7
  <2>2. item \in Signals(N) \cup Hellos(N)
    BY DEF Meant, Final, Signals
  <2>. QED
    BY <2>1, <2>2, NoPids DEF Delivered
<1>. QED
  BY <1>6, <1>7

(* The first pid of a relay is what its message is meant for. *)
LEMMA UnwrappedFits ==
    ASSUME NEW N, NEW r \in Relays(N)
    PROVE  Meant(N, Head(r.to), Unwrapped(r))
<1> DEFINE C == ContextPid(DOMAIN N)
           P == C \cup UserPid(DOMAIN N)
<1>1. /\ r.to \in Seq(P) /\ r.to # <<>> /\ r.body \in Notices(N) \cup Hellos(N)
      /\ \A i \in 1..Len(r.to) - 1 : r.to[i] \in C
      /\ Final(N, r.to[Len(r.to)], r.body)
      /\ r.from \in SenderPid(DOMAIN N)
  BY DEF Relays
<1>2. PICK q : q = r.to
  OBVIOUS
<1> HIDE DEF C, P
<1>3. /\ q \in Seq(P) /\ Len(q) \in Nat /\ Len(q) >= 1 /\ Head(q) = q[1]
      /\ Tail(q) \in Seq(P) /\ Len(Tail(q)) = Len(q) - 1
      /\ \A i \in 1..Len(q) - 1 : Tail(q)[i] = q[i + 1]
  BY <1>1, <1>2, Rested
<1>4. CASE Len(q) = 1
  BY <1>1, <1>2, <1>3, <1>4 DEF Unwrapped, Meant
<1>5. CASE Len(q) # 1
  <2>0. PICK n \in Nat : n = Len(q)
    BY <1>3
  <2>9. n - 1 \in Nat /\ 1 \in 1..n - 1 /\ n - 1 >= 1
    BY <1>3, <1>5, <2>0
  <2>1. Head(q) \in C
    BY <1>1, <1>2, <1>3, <2>0, <2>9
  <2>2. PICK s : s = Tail(q)
    OBVIOUS
  <2>3. s # <<>> /\ Len(s) - 1 \in Nat /\ Len(s) \in 1..Len(q) - 1
    <3>1. Len(s) = n - 1
      BY <1>3, <2>0, <2>2
    <3>2. s # <<>>
      BY <2>9, <3>1, Empty
    <3>. QED
      BY <2>0, <2>9, <3>1, <3>2
  <2>4. ASSUME NEW i \in 1..Len(s) - 1
        PROVE  s[i] \in C
    <3>1. i \in 1..Len(q) - 1 /\ i + 1 \in 1..Len(q) - 1
      BY <1>3, <2>2, <2>3
    <3>. QED
      BY <1>1, <1>2, <1>3, <2>2, <3>1
  <2>5. s[Len(s)] = q[Len(q)]
    <3>1. s[Len(s)] = q[Len(s) + 1] /\ Len(s) + 1 = Len(q)
      BY <1>3, <2>2, <2>3
    <3>. QED
      BY <3>1
  <2>6. Relay(r.from, s, r.body) \in Relays(N)
    <3>1. Final(N, s[Len(s)], r.body) /\ s \in Seq(P)
      BY <1>1, <1>2, <1>3, <2>2, <2>5
    <3>. QED
      BY <1>1, <2>3, <2>4, <3>1 DEF Relays, Relay, P, C
  <2>7. Unwrapped(r) = Relay(r.from, s, r.body)
    BY <1>2, <1>5, <2>2 DEF Unwrapped
  <2>. QED
    BY <1>2, <2>1, <2>6, <2>7 DEF Meant, C
<1>. QED
  BY <1>4, <1>5

-----------------------------------------------------------------------------
(* The wire.                                                               *)

(* The router of a name, and of its id.                                    *)
LEMMA KnownRouter ==
    ASSUME NEW t, ListFits(t), NEW name, Knows(t, name)
    PROVE  /\ RouterOf(t, name) \in ToSet(t.routers)
           /\ RouterOf(t, name) \in RouterRecords
           /\ RouterOf(t, name).name = name
           /\ RouterOf(t, name).id \in Ids(t)
           /\ RouterOf(t, name) = t.routersById[RouterOf(t, name).id + 1]
<1>1. DOMAIN t.routers = 1..Len(t.routers)
  BY Elements DEF ListFits
<1>2. \E i \in DOMAIN t.routers : t.routers[i].name = name
  BY DEF Knows
<1>3. PICK i : i = CHOOSE j \in DOMAIN t.routers : t.routers[j].name = name
  OBVIOUS
<1>4. i \in 1..Len(t.routers) /\ t.routers[i].name = name
  BY <1>1, <1>2, <1>3
<1>5. RouterOf(t, name) = t.routers[i]
  BY <1>3 DEF RouterOf
<1>6. t.routers[i] \in ToSet(t.routers) /\ t.routers[i] \in RouterRecords
  BY <1>4, Elements DEF ListFits
<1>7. /\ t.routers[i].id \in Ids(t)
      /\ t.routersById[t.routers[i].id + 1] = t.routers[i]
  BY <1>6 DEF ListFits
<1>. QED
  BY <1>4, <1>5, <1>6, <1>7

(* A name is known if it is in the list.                                   *)
LEMMA KnowsName ==
    ASSUME NEW t, ListFits(t), NEW name
    PROVE  Knows(t, name) <=> \E r \in ToSet(t.routers) : r.name = name
<1>1. /\ DOMAIN t.routers = 1..Len(t.routers)
      /\ \A i \in 1..Len(t.routers) : t.routers[i] \in ToSet(t.routers)
      /\ \A r \in ToSet(t.routers) : \E i \in 1..Len(t.routers) : r = t.routers[i]
  BY Elements DEF ListFits
<1>. QED
  BY <1>1 DEF Knows

(* getRouterName and getRouterId say the same of a pid.                    *)
LEMMA NamedPid ==
    ASSUME NEW t, ByIdFits(t), t.name \in Node,
           NEW pid \in ContextPid(Ids(t)) \cup UserPid(Ids(t))
                          \cup SenderPid(Ids(t))
    PROVE  Renamed(NameOf(t), pid, OnWire, PidToWire(t, pid))
<1>1. /\ pid.node \in Ids(t) /\ pid = [node |-> pid.node, proc |-> pid.proc]
  BY DEF ContextPid, UserPid, SenderPid
<1>2. PidToWire(t, pid) = [node |-> NameOf(t)[pid.node], proc |-> pid.proc]
  BY <1>1, IdsOf DEF PidToWire, RouterById
<1>3. NameOf(t)[pid.node] \in Node
  BY <1>1, IdsOf
<1>. QED
  BY <1>1, <1>2, <1>3, IdsOf, WireOf DEF Renamed

(* getRouterId of a name in the list.                                      *)
LEMMA NumberedPid ==
    ASSUME NEW t, ByIdFits(t), ListFits(t), t.name \in Node,
           NEW pid \in ContextPid(Node) \cup UserPid(Node) \cup SenderPid(Node),
           Knows(t, pid.node)
    PROVE  Renamed(OnWire, pid, NameOf(t), PidFromWire(t, pid))
<1>1. pid.node \in Node /\ pid = [node |-> pid.node, proc |-> pid.proc]
  BY DEF ContextPid, UserPid, SenderPid
<1>2. PICK router : router = RouterOf(t, pid.node)
  OBVIOUS
<1>3. /\ router.id \in Ids(t) /\ router.name = pid.node
      /\ router = t.routersById[router.id + 1]
  BY <1>2, KnownRouter
<1>4. PidFromWire(t, pid) = [node |-> router.id, proc |-> pid.proc]
  BY <1>1, <1>2 DEF PidFromWire
<1>5. NameOf(t)[router.id] = pid.node
  BY <1>3, IdsOf
<1>. QED
  BY <1>1, <1>3, <1>4, <1>5, IdsOf, WireOf DEF Renamed

(* A context's signal is an event on the wire. *)
LEMMA ToWireFits ==
    ASSUME NEW t, ByIdFits(t), t.name \in Node, NEW x \in Signals(NameOf(t))
    PROVE  ToWire(t, x) \in Signals(OnWire)
<1> DEFINE N == NameOf(t)
<1>1. DOMAIN N = Ids(t)
  BY IdsOf
<1>2. CASE x \in Notices(N)
  <2>1. x.kind # "relay" /\ x.kind # "hello" /\ x.pid \in ContextPid(Ids(t))
    BY <1>1, <1>2, Kinds
  <2>2. Renamed(N, x.pid, OnWire, PidToWire(t, x.pid))
    BY <2>1, NamedPid
  <2>3. [x EXCEPT !.pid = PidToWire(t, x.pid)] \in Notices(OnWire)
    BY <1>2, <2>2, RenamedNotice
  <2>. QED
    BY <2>1, <2>3 DEF ToWire, Signals
<1>3. CASE x \in Relays(N)
  <2>1. /\ x.kind = "relay" /\ x.body \in Notices(N) \cup Hellos(N)
        /\ x.to \in Seq(ContextPid(Ids(t)) \cup UserPid(Ids(t)))
    BY <1>1, <1>3 DEF Relays
  <2>2. PICK to : to = [i \in DOMAIN x.to |-> PidToWire(t, x.to[i])]
    OBVIOUS
  <2>3. ASSUME NEW i \in DOMAIN x.to
        PROVE  Renamed(N, x.to[i], OnWire, to[i])
    <3>1. x.to[i] \in ContextPid(Ids(t)) \cup UserPid(Ids(t))
      BY <2>1, Elements
    <3>2. Renamed(N, x.to[i], OnWire, PidToWire(t, x.to[i]))
      BY <3>1, NamedPid
    <3>. QED
      BY <2>2, <3>2
  <2>4. PICK body : body = IF x.body.kind = "hello"
                           THEN [x.body EXCEPT !.from = PidToWire(t, @)]
                           ELSE [x.body EXCEPT !.pid = PidToWire(t, @)]
    OBVIOUS
  <2>5. ASSUME x.body \in Notices(N)
        PROVE  body \in Notices(OnWire)
    <3>1. x.body.kind # "hello" /\ x.body.pid \in ContextPid(Ids(t))
      BY <1>1, <2>5, Kinds
    <3>2. Renamed(N, x.body.pid, OnWire, PidToWire(t, x.body.pid))
      BY <3>1, NamedPid
    <3>3. [x.body EXCEPT !.pid = PidToWire(t, x.body.pid)] \in Notices(OnWire)
      BY <2>5, <3>2, RenamedNotice
    <3>. QED
      BY <2>4, <3>1, <3>3
  <2>6. ASSUME x.body \in Hellos(N)
        PROVE  body \in Hellos(OnWire) /\ body.dest = x.body.dest
    <3>1. x.body.kind = "hello" /\ x.body.from \in UserPid(Ids(t))
      BY <1>1, <2>6, Kinds
    <3>2. Renamed(N, x.body.from, OnWire, PidToWire(t, x.body.from))
      BY <3>1, NamedPid
    <3>3. body = [x.body EXCEPT !.from = PidToWire(t, x.body.from)]
      BY <2>4, <3>1
    <3>. QED
      BY <2>6, <3>2, <3>3, RenamedHello
  <2>7. to = [i \in DOMAIN x.to |-> to[i]]
    BY <2>2
  <2>8. Renamed(N, x.from, OnWire, PidToWire(t, x.from))
    <3>1. x.from \in SenderPid(Ids(t))
      BY <1>1, <1>3, Kinds
    <3>. QED
      BY <3>1, NamedPid
  <2>9. Relay(PidToWire(t, x.from), to, body) \in Relays(OnWire)
    BY <1>3, <2>3, <2>5, <2>6, <2>7, <2>8, RenamedRelay
  <2>10. ToWire(t, x) = Relay(PidToWire(t, x.from), to, body)
    BY <2>1, <2>2, <2>4 DEF ToWire
  <2>. QED
    BY <2>9, <2>10 DEF Signals
<1>. QED
  BY <1>2, <1>3 DEF Signals

(* All names in an event are known once it is read. *)
KnowsAll(t, x) == \A i \in 1..Len(NamesIn(x)) : Knows(t, NamesIn(x)[i])

(* The names in an event are names of nodes.                               *)
LEMMA NamesFit ==
    ASSUME NEW x \in Signals(OnWire)
    PROVE  NamesIn(x) \in Seq(Node)
<1>1. \A y \in Notices(OnWire) : y.pid \in ContextPid(Node)
  BY Kinds, WireOf
<1>2. \A y \in Notices(OnWire) :
         y.kind # "hello" /\ y.kind # "relay" /\ y.pid # NoPid /\ y.pid.node \in Node
  BY <1>1, Kinds, NoPids DEF ContextPid
<1>3. \A y \in Hellos(OnWire) : y.kind = "hello" /\ y.from.node \in Node
  BY Kinds, WireOf DEF UserPid
<1>4. \A n \in Node : <<n>> \in Seq(Node)
  BY One
<1>5. \A y \in Notices(OnWire) \cup Hellos(OnWire) : NamesInBody(y) \in Seq(Node)
  BY <1>2, <1>3, <1>4 DEF NamesInBody
<1>6. CASE x \in Notices(OnWire)
  BY <1>2, <1>5, <1>6 DEF NamesIn
<1>7. CASE x \in Relays(OnWire)
  <2>1. /\ x.kind = "relay" /\ x.body \in Notices(OnWire) \cup Hellos(OnWire)
        /\ x.to \in Seq(ContextPid(Node) \cup UserPid(Node))
    BY <1>7, WireOf DEF Relays
  <2>2. PICK names : names = [i \in DOMAIN x.to |-> x.to[i].node]
    OBVIOUS
  <2>3. names \in Seq(Node)
    <3>1. /\ DOMAIN x.to = 1..Len(x.to) /\ Len(x.to) \in Nat
          /\ \A i \in 1..Len(x.to) : x.to[i] \in ContextPid(Node) \cup UserPid(Node)
      BY <2>1, Elements
    <3>2. \A i \in 1..Len(x.to) : names[i] \in Node
      BY <2>2, <3>1 DEF ContextPid, UserPid
    <3>3. names = [i \in 1..Len(x.to) |-> names[i]]
      BY <2>2, <3>1
    <3>. QED
      BY <3>1, <3>2, <3>3, Filled
  <2>4. NamesIn(x) = <<x.from.node>> \o names \o NamesInBody(x.body)
    BY <2>1, <2>2 DEF NamesIn
  <2>5. <<x.from.node>> \in Seq(Node)
    <3>1. x.from.node \in Node
      BY <1>7, Kinds, WireOf DEF SenderPid
    <3>. QED
      BY <1>4, <3>1
  <2>6. <<x.from.node>> \o names \in Seq(Node)
    BY <2>3, <2>5, Joined
  <2>. QED
    BY <1>5, <2>1, <2>4, <2>6, Joined
<1>. QED
  BY <1>6, <1>7 DEF Signals

(* ... the names of its pids. *)
LEMMA NamesMean ==
    ASSUME NEW t, NEW x \in Signals(OnWire), KnowsAll(t, x)
    PROVE  /\ x \in Notices(OnWire) => Knows(t, x.pid.node)
           /\ x \in Relays(OnWire) =>
                 /\ Knows(t, x.from.node)
                 /\ \A i \in DOMAIN x.to : Knows(t, x.to[i].node)
                 /\ x.body \in Notices(OnWire) => Knows(t, x.body.pid.node)
                 /\ x.body \in Hellos(OnWire) => Knows(t, x.body.from.node)
<1>1. \A y \in Notices(OnWire) :
         /\ y.kind # "hello" /\ y.kind # "relay" /\ y.pid # NoPid
         /\ NamesInBody(y) = <<y.pid.node>> /\ y.pid.node \in Node
  <2>1. \A y \in Notices(OnWire) :
           y.kind # "hello" /\ y.kind # "relay" /\ y.pid \in ContextPid(Node)
    BY Kinds, WireOf
  <2>. QED
    BY <2>1, NoPids DEF NamesInBody, ContextPid
<1>2. \A y \in Hellos(OnWire) :
         NamesInBody(y) = <<y.from.node>> /\ y.from.node \in Node
  BY Kinds, WireOf DEF NamesInBody, UserPid
<1>3. \A n : Len(<<n>>) = 1 /\ <<n>>[1] = n
  OBVIOUS
<1>4. ASSUME x \in Notices(OnWire)
      PROVE  Knows(t, x.pid.node)
  <2>1. NamesIn(x) = <<x.pid.node>>
    BY <1>1, <1>4 DEF NamesIn
  <2>. QED
    BY <1>3, <2>1 DEF KnowsAll
<1>5. ASSUME x \in Relays(OnWire)
      PROVE  /\ Knows(t, x.from.node)
             /\ \A i \in DOMAIN x.to : Knows(t, x.to[i].node)
             /\ x.body \in Notices(OnWire) => Knows(t, x.body.pid.node)
             /\ x.body \in Hellos(OnWire) => Knows(t, x.body.from.node)
  <2>1. /\ x.kind = "relay" /\ x.body \in Notices(OnWire) \cup Hellos(OnWire)
        /\ x.to \in Seq(ContextPid(Node) \cup UserPid(Node))
    BY <1>5, WireOf DEF Relays
  <2>2. PICK names : names = [i \in DOMAIN x.to |-> x.to[i].node]
    OBVIOUS
  <2>3. /\ DOMAIN x.to = 1..Len(x.to) /\ Len(x.to) \in Nat
        /\ \A i \in 1..Len(x.to) : x.to[i] \in ContextPid(Node) \cup UserPid(Node)
    BY <2>1, Elements
  <2>4. names \in Seq(Node) /\ Len(names) = Len(x.to)
    <3>1. \A i \in 1..Len(x.to) : names[i] \in Node
      BY <2>2, <2>3 DEF ContextPid, UserPid
    <3>2. names = [i \in 1..Len(x.to) |-> names[i]]
      BY <2>2, <2>3
    <3>. QED
      BY <2>3, <3>1, <3>2, Filled
  <2>5. PICK rest : rest = NamesInBody(x.body)
    OBVIOUS
  <2>6. /\ rest \in Seq(Node) /\ Len(rest) = 1
        /\ x.body \in Notices(OnWire) => rest[1] = x.body.pid.node
        /\ x.body \in Hellos(OnWire) => rest[1] = x.body.from.node
    <3>1. PICK n \in Node : /\ rest = <<n>>
                            /\ x.body \in Notices(OnWire) => n = x.body.pid.node
                            /\ x.body \in Hellos(OnWire) => n = x.body.from.node
      <4>1. CASE x.body \in Notices(OnWire)
        <5>1. x.body \notin Hellos(OnWire)
          BY <1>1, <4>1, Kinds
        <5>. QED
          BY <1>1, <2>5, <4>1, <5>1
      <4>2. CASE x.body \in Hellos(OnWire)
        <5>1. x.body \notin Notices(OnWire)
          BY <1>1, <4>2, Kinds
        <5>. QED
          BY <1>2, <2>5, <4>2, <5>1
      <4>. QED
        BY <2>1, <4>1, <4>2
    <3>. QED
      BY <1>3, <3>1, One
  <2>7. PICK one : one = <<x.from.node>>
    OBVIOUS
  <2>8. one \in Seq(Node) /\ Len(one) = 1 /\ one[1] = x.from.node
    <3>1. x.from.node \in Node
      BY <1>5, Kinds, WireOf DEF SenderPid
    <3>. QED
      BY <1>3, <2>7, <3>1, One
  <2>9. PICK front : front = one \o names
    OBVIOUS
  <2>10. /\ front \in Seq(Node) /\ Len(front) = Len(x.to) + 1
         /\ \A i \in 1..Len(x.to) + 1 :
               front[i] = IF i <= 1 THEN one[i] ELSE names[i - 1]
    <3>1. one \in Seq(Node) /\ names \in Seq(Node)
      BY <2>4, <2>8
    <3>2. /\ front \in Seq(Node) /\ Len(front) = Len(one) + Len(names)
          /\ \A i \in 1..Len(one) + Len(names) :
                front[i] = IF i <= Len(one) THEN one[i] ELSE names[i - Len(one)]
      BY <2>9, <3>1, Joined
    <3>3. /\ Len(one) = 1 /\ Len(names) = Len(x.to)
          /\ 1 + Len(x.to) = Len(x.to) + 1
      BY <2>3, <2>4, <2>8
    <3>4. Len(front) = Len(x.to) + 1
      BY <3>2, <3>3
    <3>5. ASSUME NEW i \in 1..Len(x.to) + 1
          PROVE  front[i] = IF i <= 1 THEN one[i] ELSE names[i - 1]
      <4>1. i \in 1..Len(one) + Len(names)
        BY <3>3
      <4>2. front[i] = IF i <= Len(one) THEN one[i] ELSE names[i - Len(one)]
        BY <3>2, <4>1
      <4>. QED
        BY <3>3, <4>2
    <3>. QED
      BY <3>2, <3>4, <3>5
  <2>11. PICK all : all = front \o rest
    OBVIOUS
  <2>12. NamesIn(x) = all
    BY <2>1, <2>2, <2>5, <2>7, <2>9, <2>11 DEF NamesIn
  <2>13. /\ Len(all) = Len(x.to) + 2
         /\ \A i \in 1..Len(x.to) + 2 :
               all[i] = IF i <= Len(x.to) + 1 THEN front[i]
                                              ELSE rest[i - (Len(x.to) + 1)]
    <3>1. /\ Len(all) = Len(front) + Len(rest)
          /\ \A i \in 1..Len(front) + Len(rest) :
                all[i] = IF i <= Len(front) THEN front[i] ELSE rest[i - Len(front)]
      BY <2>6, <2>10, <2>11, Joined
    <3>. QED
      BY <2>3, <2>6, <2>10, <3>1
  <2>14. \A i \in 1..Len(x.to) + 2 : Knows(t, all[i])
    BY <2>12, <2>13 DEF KnowsAll
  <2>15. \A i \in 1..Len(x.to) + 1 : Knows(t, front[i])
    BY <2>3, <2>13, <2>14
  <2>16. Knows(t, x.from.node)
    <3>1. 1 \in 1..Len(x.to) + 1
      BY <2>3
    <3>. QED
      BY <2>8, <2>10, <2>15, <3>1
  <2>17. ASSUME NEW i \in DOMAIN x.to
         PROVE  Knows(t, x.to[i].node)
    <3>1. i + 1 \in 1..Len(x.to) + 1 /\ ~(i + 1 <= 1) /\ i + 1 - 1 = i
      BY <2>3
    <3>2. front[i + 1] = names[i]
      BY <2>10, <3>1
    <3>. QED
      BY <2>2, <2>15, <3>1, <3>2
  <2>18. Knows(t, rest[1])
    <3>1. /\ Len(x.to) + 2 \in 1..Len(x.to) + 2
          /\ ~(Len(x.to) + 2 <= Len(x.to) + 1)
          /\ Len(x.to) + 2 - (Len(x.to) + 1) = 1
      BY <2>3
    <3>2. all[Len(x.to) + 2] = rest[1]
      BY <2>13, <3>1
    <3>. QED
      BY <2>14, <3>1, <3>2
  <2>. QED
    BY <2>6, <2>16, <2>17, <2>18
<1>. QED
  BY <1>4, <1>5

(* An event is a signal again, with the ids of the node that reads it. *)
LEMMA FromWireFits ==
    ASSUME NEW t, ByIdFits(t), ListFits(t), t.name \in Node,
           NEW x \in Signals(OnWire), KnowsAll(t, x)
    PROVE  /\ FromWire(t, x) \in Signals(NameOf(t))
           /\ x \in Notices(OnWire) => /\ FromWire(t, x) \in Notices(NameOf(t))
                                       /\ FromWire(t, x).kind = x.kind
           /\ x \in Relays(OnWire) => FromWire(t, x) \in Relays(NameOf(t))
<1> DEFINE N == NameOf(t)
<1>1. \A y \in Notices(OnWire) :
         /\ y.kind # "hello" /\ y.kind # "relay"
         /\ y.pid \in ContextPid(Node) /\ y.pid # NoPid
  BY Kinds, WireOf, NoPids
<1>2. ASSUME NEW y \in Notices(OnWire), Knows(t, y.pid.node)
      PROVE  [y EXCEPT !.pid = PidFromWire(t, y.pid)] \in Notices(N)
  <2>1. Renamed(OnWire, y.pid, N, PidFromWire(t, y.pid))
    BY <1>1, <1>2, NumberedPid
  <2>. QED
    BY <2>1, RenamedNotice
<1>3. CASE x \in Notices(OnWire)
  <2>1. FromWire(t, x) = [x EXCEPT !.pid = PidFromWire(t, x.pid)]
    BY <1>1, <1>3 DEF FromWire
  <2>2. [x EXCEPT !.pid = PidFromWire(t, x.pid)] \in Notices(N)
    BY <1>2, <1>3, NamesMean
  <2>3. [x EXCEPT !.pid = PidFromWire(t, x.pid)].kind = x.kind
    BY <1>3 DEF Notices
  <2>4. x \notin Relays(OnWire)
    BY <1>1, <1>3, Kinds
  <2>. QED
    BY <2>1, <2>2, <2>3, <2>4 DEF Signals
<1>4. CASE x \in Relays(OnWire)
  <2>1. /\ x.kind = "relay" /\ x.body \in Notices(OnWire) \cup Hellos(OnWire)
        /\ x.to \in Seq(ContextPid(Node) \cup UserPid(Node))
    BY <1>4, WireOf DEF Relays
  <2>2. PICK to : to = [i \in DOMAIN x.to |-> PidFromWire(t, x.to[i])]
    OBVIOUS
  <2>3. ASSUME NEW i \in DOMAIN x.to
        PROVE  Renamed(OnWire, x.to[i], N, to[i])
    <3>1. x.to[i] \in ContextPid(Node) \cup UserPid(Node)
      BY <2>1, Elements
    <3>2. Knows(t, x.to[i].node)
      BY <1>4, NamesMean
    <3>3. Renamed(OnWire, x.to[i], N, PidFromWire(t, x.to[i]))
      BY <3>1, <3>2, NumberedPid
    <3>. QED
      BY <2>2, <3>3
  <2>4. PICK body : body = IF x.body.kind = "hello"
                           THEN [x.body EXCEPT !.from = PidFromWire(t, @)]
                           ELSE IF x.body.pid = NoPid THEN x.body
                           ELSE [x.body EXCEPT !.pid = PidFromWire(t, @)]
    OBVIOUS
  <2>5. ASSUME x.body \in Notices(OnWire)
        PROVE  body \in Notices(N)
    <3>1. x.body.kind # "hello" /\ x.body.pid # NoPid
      BY <1>1, <2>5
    <3>2. [x.body EXCEPT !.pid = PidFromWire(t, x.body.pid)] \in Notices(N)
      BY <1>2, <1>4, <2>5, NamesMean
    <3>. QED
      BY <2>4, <3>1, <3>2
  <2>6. ASSUME x.body \in Hellos(OnWire)
        PROVE  body \in Hellos(N) /\ body.dest = x.body.dest
    <3>1. x.body.kind = "hello" /\ x.body.from \in UserPid(Node)
      BY <2>6, Kinds, WireOf
    <3>2. Knows(t, x.body.from.node)
      BY <1>4, <2>6, NamesMean
    <3>3. Renamed(OnWire, x.body.from, N, PidFromWire(t, x.body.from))
      BY <3>1, <3>2, NumberedPid
    <3>4. body = [x.body EXCEPT !.from = PidFromWire(t, x.body.from)]
      BY <2>4, <3>1
    <3>5. PICK y, new : y = x.body /\ new = PidFromWire(t, x.body.from)
      OBVIOUS
    <3>6. /\ y \in Hellos(OnWire) /\ Renamed(OnWire, y.from, N, new)
          /\ body = [y EXCEPT !.from = new]
      BY <2>6, <3>3, <3>4, <3>5
    <3>7. body \in Hellos(N) /\ body.dest = y.dest
      <4> HIDE DEF N
      <4>. QED
        BY <3>6, RenamedHello
    <3>. QED
      BY <3>5, <3>7
  <2>7. to = [i \in DOMAIN x.to |-> to[i]]
    BY <2>2
  <2>8. Renamed(OnWire, x.from, N, PidFromWire(t, x.from))
    <3>1. x.from \in SenderPid(Node)
      BY <1>4, Kinds, WireOf
    <3>2. Knows(t, x.from.node)
      BY <1>4, NamesMean
    <3>. QED
      BY <3>1, <3>2, NumberedPid
  <2>9. Relay(PidFromWire(t, x.from), to, body) \in Relays(N)
    BY <1>4, <2>3, <2>5, <2>6, <2>7, <2>8, RenamedRelay
  <2>10. FromWire(t, x) = Relay(PidFromWire(t, x.from), to, body)
    BY <2>1, <2>2, <2>4 DEF FromWire
  <2>11. x \notin Notices(OnWire)
    BY <1>1, <2>1
  <2>. QED
    BY <2>9, <2>10, <2>11 DEF Signals
<1>. QED
  BY <1>3, <1>4 DEF Signals

-----------------------------------------------------------------------------
(* What the operations do to the Maps.                                     *)

(* What is left of the routers, and what set leaves of them.               *)
LEMMA WithoutSet ==
    ASSUME NEW S, NEW routers \in Seq(S), NEW names
    PROVE  /\ Without(routers, names) \in Seq(S)
           /\ ToSet(Without(routers, names)) =
                 {r \in ToSet(routers) : r.name \notin names}
<1> DEFINE I == {i \in DOMAIN routers : routers[i].name \notin names}
<1>1. /\ DOMAIN routers = 1..Len(routers)
      /\ \A i \in 1..Len(routers) : routers[i] \in ToSet(routers)
      /\ \A r \in ToSet(routers) : \E i \in 1..Len(routers) : r = routers[i]
  BY Elements
<1>2. /\ Picked(routers, I) \in Seq(S)
      /\ ToSet(Picked(routers, I)) = {routers[i] : i \in I \cap (1..Len(routers))}
  <2> HIDE DEF I
  <2>. QED
    BY PickedSet
<1>3. {routers[i] : i \in I \cap (1..Len(routers))} =
         {r \in ToSet(routers) : r.name \notin names}
  BY <1>1
<1>. QED
  BY <1>2, <1>3 DEF Without

(* set puts the router in the place of its name.                           *)
LEMMA PutRouterSet ==
    ASSUME NEW S, NEW routers \in Seq(S), NEW router \in S
    PROVE  /\ PutRouter(routers, router) \in Seq(S)
           /\ ToSet(PutRouter(routers, router)) =
                 {r \in ToSet(routers) : r.name # router.name} \cup {router}
<1>1. /\ DOMAIN routers = 1..Len(routers) /\ Len(routers) \in Nat
      /\ \A i \in 1..Len(routers) :
            routers[i] \in ToSet(routers) /\ routers[i] \in S
      /\ \A r \in ToSet(routers) : \E i \in 1..Len(routers) : r = routers[i]
  BY Elements
<1>2. CASE \E i \in DOMAIN routers : routers[i].name = router.name
  <2>1. PICK q : q = [i \in 1..Len(routers) |->
                         IF routers[i].name = router.name THEN router ELSE routers[i]]
    OBVIOUS
  <2>2. q = [i \in 1..Len(routers) |-> q[i]] /\ \A i \in 1..Len(routers) : q[i] \in S
    BY <1>1, <2>1
  <2>3. q \in Seq(S) /\ Len(q) = Len(routers)
    BY <1>1, <2>2, Filled
  <2>4. /\ \A i \in 1..Len(routers) : q[i] \in ToSet(q)
        /\ \A r \in ToSet(q) : \E i \in 1..Len(routers) : r = q[i]
    BY <2>3, Elements
  <2>5. PutRouter(routers, router) = q
    BY <1>1, <1>2, <2>1 DEF PutRouter
  <2>6. PICK k \in 1..Len(routers) : routers[k].name = router.name
    BY <1>1, <1>2
  <2>7. router \in ToSet(q)
    BY <2>1, <2>4, <2>6
  <2>8. ASSUME NEW r \in ToSet(q)
        PROVE  r = router \/ (r \in ToSet(routers) /\ r.name # router.name)
    BY <1>1, <2>1, <2>4
  <2>9. ASSUME NEW r \in ToSet(routers), r.name # router.name
        PROVE  r \in ToSet(q)
    BY <1>1, <2>1, <2>4, <2>9
  <2>10. ToSet(q) = {r \in ToSet(routers) : r.name # router.name} \cup {router}
    BY <2>7, <2>8, <2>9
  <2>. QED
    BY <2>3, <2>5, <2>10
<1>3. CASE ~\E i \in DOMAIN routers : routers[i].name = router.name
  <2>1. {r \in ToSet(routers) : r.name # router.name} = ToSet(routers)
    BY <1>1, <1>3
  <2>. QED
    BY <1>3, <2>1, Appended DEF PutRouter
<1>. QED
  BY <1>2, <1>3

(* Tables with the same ids say the same. *)
LEMMA SameIds ==
    ASSUME NEW t, NEW u, u.name = t.name, u.routersById = t.routersById
    PROVE  /\ Ids(u) = Ids(t) /\ NameOf(u) = NameOf(t)
           /\ Delivered(u) = Delivered(t)
           /\ ByIdFits(t) => ByIdFits(u)
           /\ \A r : RouterFits(t, r) <=> RouterFits(u, r)
           /\ Extends(NameOf(t), NameOf(u))
<1>1. Ids(u) = Ids(t)
  BY DEF Ids
<1>2. NameOf(u) = NameOf(t)
  BY <1>1 DEF NameOf
<1>3. Delivered(u) = Delivered(t)
  BY <1>2 DEF Delivered
<1>4. \A r : RouterFits(t, r) <=> RouterFits(u, r)
  BY <1>1 DEF RouterFits
<1>5. ByIdFits(t) => ByIdFits(u)
  BY <1>4 DEF ByIdFits
<1>6. Extends(NameOf(t), NameOf(u))
  BY <1>2 DEF Extends
<1>. QED
  BY <1>1, <1>2, <1>3, <1>4, <1>5, <1>6

(* Steps onward add up.                                                    *)
LEMMA OnwardOn ==
    ASSUME NEW t, NEW u, NEW v, Onward(t, u), Onward(u, v)
    PROVE  Onward(t, v)
<1>1. Extends(NameOf(t), NameOf(v))
  BY ExtendsSame DEF Onward
<1>2. \A m : Reported(u, m) => Reported(v, m)
  BY DEF Onward, Reported
<1>3. ASSUME NEW m, Watches(t, m)
      PROVE  Watches(v, m) \/ Reported(v, m)
  BY <1>2, <1>3 DEF Onward
<1>. QED
  BY <1>1, <1>3 DEF Onward

(* Tables go on from themselves.                                           *)
LEMMA OnwardSame ==
    ASSUME NEW t
    PROVE  Onward(t, t)
BY DEF Onward, Extends

(* Deliveries change nothing but the deliveries. *)
Sending(t, q) == [t EXCEPT !.out = @ \o q]

(* Tables with more deliveries.                                            *)
LEMMA SendingFits ==
    ASSUME NEW t, TablesFit(t), NEW q \in Seq(Delivered(t))
    PROVE  TablesFit(Sending(t, q)) /\ Onward(t, Sending(t, q))
<1>1. PICK u : u = Sending(t, q)
  OBVIOUS
<1>2. /\ u.name = t.name /\ u.routers = t.routers
      /\ u.routersById = t.routersById /\ u.routersByPid = t.routersByPid
      /\ u.bridges = t.bridges /\ u.monitors = t.monitors
      /\ u.out = t.out \o q /\ IsTables(u)
  BY <1>1 DEF Sending, TablesFit, IsTables
<1>3. /\ Ids(u) = Ids(t) /\ NameOf(u) = NameOf(t)
      /\ Delivered(u) = Delivered(t)
      /\ ByIdFits(t) => ByIdFits(u)
      /\ \A r : RouterFits(t, r) <=> RouterFits(u, r)
      /\ Extends(NameOf(t), NameOf(u))
  BY <1>2, SameIds
<1>4. u.out \in Seq(Delivered(u)) /\ ToSet(t.out) \subseteq ToSet(u.out)
  <2>1. t.out \in Seq(Delivered(t))
    BY DEF TablesFit
  <2>. QED
    BY <1>2, <1>3, <2>1, Joined
<1>5. ListFits(u)
  BY <1>2, <1>3 DEF TablesFit, ListFits
<1>6. ByPidFits(u)
  BY <1>2, <1>3 DEF TablesFit, ByPidFits
<1>7. BridgesFit(u)
  BY <1>2, <1>3 DEF TablesFit, BridgesFit
<1>8. \A m : Watches(t, m) => Watches(u, m)
  BY <1>2 DEF Watches, Lives
<1>. QED
  BY <1>1, <1>2, <1>3, <1>4, <1>5, <1>6, <1>7, <1>8 DEF TablesFit, Onward

(* updatePeers delivers notices of bridges to bridges.                     *)
LEMMA DeliveriesFit ==
    ASSUME NEW t, TablesFit(t), NEW notice \in Notices(NameOf(t))
    PROVE  Deliveries(t, notice) \in Seq(Delivered(t))
<1> DEFINE N == NameOf(t)
           D == Delivered(t)
<1>1. /\ t.name \in Node /\ ByIdFits(t) /\ DOMAIN N = Ids(t)
      /\ t.bridges \in Seq([pid : ContextPid(Ids(t)), names : Seq(Node)])
      /\ \A b \in ToSet(t.bridges) :
            \A name \in ToSet(b.names) : name = Towards(b.pid.proc)
  BY IdsOf DEF TablesFit, BridgesFit
<1>9. ASSUME NEW b \in ToSet(t.bridges)
      PROVE  b.pid \in ContextPid(Ids(t)) /\ b.names \in Seq(Node)
  <2>1. PICK R : R = [pid : ContextPid(Ids(t)), names : Seq(Node)]
    OBVIOUS
  <2>2. t.bridges \in Seq(R)
    BY <1>1, <2>1
  <2>3. b \in R
    BY <2>2, Elements
  <2>. QED
    BY <2>1, <2>3
<1>2. ASSUME NEW pid \in ContextPid(Ids(t)), NEW x \in Notices(N)
      PROVE  Delivery(t, Local(System), pid, x) \in D
  <2>1. Meant(N, pid, x)
    BY <1>1 DEF Meant, Final
  <2>2. Local(System) \in SenderPid(Ids(t))
    BY <1>1, IdsOf DEF Local, Pid, SenderPid
  <2>. QED
    BY <1>1, <2>1, <2>2, DeliveryFits
<1>3. notice.pid \in ContextPid(Ids(t))
  BY <1>1, Kinds
<1>4. ASSUME NEW b \in ToSet(t.bridges), NEW name \in ToSet(b.names)
      PROVE  Said(notice, name, b.pid) \in Notices(N)
  <2>1. b.pid \in ContextPid(DOMAIN N) /\ b.names \in Seq(Node)
    BY <1>1, <1>9
  <2>2. name \in Node /\ name = Towards(b.pid.proc)
    BY <1>1, <2>1, Elements
  <2>. QED
    BY <2>1, <2>2 DEF Said, Lost, Notices
<1> DEFINE Part(b) == <<Delivery(t, Local(System), b.pid, notice)>> \o
                         [j \in DOMAIN b.names |->
                             Delivery(t, Local(System), notice.pid,
                                      Said(notice, b.names[j], b.pid))]
<1>5. ASSUME NEW b \in ToSet(t.bridges)
      PROVE  Part(b) \in Seq(D)
  <2>1. b.pid \in ContextPid(Ids(t)) /\ b.names \in Seq(Node)
    BY <1>9
  <2>2. PICK one : one = <<Delivery(t, Local(System), b.pid, notice)>>
    OBVIOUS
  <2>3. PICK rest : rest = [j \in DOMAIN b.names |->
                     Delivery(t, Local(System), notice.pid,
                              Said(notice, b.names[j], b.pid))]
    OBVIOUS
  <2>4. one \in Seq(D)
    <3>1. Delivery(t, Local(System), b.pid, notice) \in D
      BY <1>2, <2>1
    <3> HIDE DEF D
    <3>. QED
      BY <2>2, <3>1, One
  <2>5. rest \in Seq(D)
    <3>1. /\ DOMAIN b.names = 1..Len(b.names) /\ Len(b.names) \in Nat
          /\ \A j \in 1..Len(b.names) : b.names[j] \in ToSet(b.names)
      BY <2>1, Elements
    <3>2. \A j \in 1..Len(b.names) :
             Delivery(t, Local(System), notice.pid,
                      Said(notice, b.names[j], b.pid)) \in D
      BY <1>2, <1>3, <1>4, <3>1
    <3>3. rest = [j \in 1..Len(b.names) |-> rest[j]]
      BY <2>3, <3>1
    <3>4. \A j \in 1..Len(b.names) : rest[j] \in D
      BY <2>3, <3>1, <3>2
    <3> HIDE DEF D
    <3>. QED
      BY <3>1, <3>3, <3>4, Filled
  <2> HIDE DEF D
  <2>. QED
    BY <2>2, <2>3, <2>4, <2>5, Joined
<1>6. PICK parts : parts = [i \in DOMAIN t.bridges |-> Part(t.bridges[i])]
  OBVIOUS
<1>7. Deliveries(t, notice) = FlattenSeq(parts)
  BY <1>6 DEF Deliveries
<1>8. parts \in Seq(Seq(D))
  <2>1. /\ DOMAIN t.bridges = 1..Len(t.bridges) /\ Len(t.bridges) \in Nat
        /\ \A i \in 1..Len(t.bridges) : t.bridges[i] \in ToSet(t.bridges)
    BY <1>1, Elements
  <2> HIDE DEF Part
  <2>2. parts = [i \in 1..Len(t.bridges) |-> parts[i]]
    BY <1>6, <2>1
  <2>3. \A i \in 1..Len(t.bridges) : parts[i] \in Seq(D)
    BY <1>5, <1>6, <2>1
  <2> HIDE DEF D
  <2>. QED
    BY <2>1, <2>2, <2>3, Filled
<1> HIDE DEF D
<1>. QED
  BY <1>7, <1>8, Flattened DEF D

-----------------------------------------------------------------------------
(* Registering a router.                                                   *)

(* What fitted the old ids fits the new ones.                              *)
LEMMA DeliveredWider ==
    ASSUME NEW t, NEW u, u.name = t.name, Extends(NameOf(t), NameOf(u))
    PROVE  Delivered(t) \subseteq Delivered(u)
<1> DEFINE N == NameOf(t)
           M == NameOf(u)
<1>1. Signals(N) \subseteq Signals(M) /\ Hellos(N) \subseteq Hellos(M)
  BY SignalsWider, NoticesWider
<1> HIDE DEF N, M
<1>2. PICK S, H, S2, H2 : S = Signals(N) /\ H = Hellos(N) /\ S2 = Signals(M)
                          /\ H2 = Hellos(M)
  OBVIOUS
<1>3. /\ [to : {NoPid}, item : S \cup H] \subseteq [to : {NoPid}, item : S2 \cup H2]
      /\ [to : {Local(e) : e \in End}, item : S] \subseteq
            [to : {Local(e) : e \in End}, item : S2]
      /\ [to : {Local(User)}, item : {h \in H : h.dest = t.name}] \subseteq
            [to : {Local(User)}, item : {h \in H2 : h.dest = u.name}]
  BY <1>1, <1>2
<1>. QED
  BY <1>2, <1>3 DEF Delivered, N, M

(* What fits tables fits tables with more ids.                             *)
LEMMA FitsWider ==
    ASSUME NEW t, NEW u, u.name = t.name, Extends(NameOf(t), NameOf(u)),
           ByIdFits(t), ByIdFits(u), t.name \in Node
    PROVE  /\ Ids(t) \subseteq Ids(u)
           /\ ContextPid(Ids(t)) \subseteq ContextPid(Ids(u))
           /\ \A r : RouterFits(t, r) => RouterFits(u, r)
           /\ \A id \in Ids(t) : NameOf(u)[id] = NameOf(t)[id]
<1>1. Ids(t) \subseteq Ids(u) /\ \A id \in Ids(t) : NameOf(u)[id] = NameOf(t)[id]
  BY IdsOf DEF Extends
<1>2. ContextPid(Ids(t)) \subseteq ContextPid(Ids(u))
  BY <1>1 DEF ContextPid
<1>. QED
  BY <1>1, <1>2 DEF RouterFits

(* A router that may be installed: of a known name with the known id, or   *)
(* of a new name with the next id.                                         *)
Installable(t, r) ==
    /\ r \in RouterRecords /\ r.source \in Node /\ r.name # t.name
    /\ r.pid # NoPid => r.pid \in ContextPid(Ids(t)) /\ r.name = Towards(r.pid.proc)
    /\ \/ \E old \in ToSet(t.routers) :
             old.id = r.id /\ old.name = r.name /\ r.pid # NoPid
       \/ r.id = Len(t.routersById) /\ \A q \in ToSet(t.routers) : q.name # r.name

(* The router has its id, and the others keep theirs.                      *)
LEMMA InstalledById ==
    ASSUME NEW t, TablesFit(t), NEW r, Installable(t, r)
    PROVE  LET byId == Installed(t, r).routersById
           IN  /\ byId \in Seq(RouterRecords) /\ r.id # 0 /\ r.id \in Nat
               /\ Len(byId) \in Nat /\ Len(byId) >= Len(t.routersById)
               /\ r.id + 1 \in 1..Len(byId)
               /\ \A i \in 1..Len(byId) :
                     IF i = r.id + 1 THEN byId[i] = r
                     ELSE i \in 1..Len(t.routersById) /\ byId[i] = t.routersById[i]
               /\ r.id \in Ids(t) => NameOf(t)[r.id] = r.name
<1>1. PICK byId : byId = t.routersById
  OBVIOUS
<1>2. /\ byId \in Seq(RouterRecords) /\ Len(byId) \in Nat /\ Len(byId) >= 1
      /\ byId[1] = Self(t.name) /\ Ids(t) = 0..Len(byId) - 1
      /\ \A id \in Ids(t) : NameOf(t)[id] = byId[id + 1].name
      /\ r \in RouterRecords /\ r.name # t.name
  BY <1>1, IdsOf DEF TablesFit, ByIdFits, Ids, Installable
<1>3. PICK new : new = IF r.id < Len(byId) THEN [byId EXCEPT ![r.id + 1] = r]
                                           ELSE Append(byId, r)
  OBVIOUS
<1>4. Installed(t, r).routersById = new
  BY <1>1, <1>3 DEF Installed, TablesFit, IsTables
<1>5. CASE r.id = Len(byId)
  <2>1. new = Append(byId, r)
    BY <1>2, <1>3, <1>5
  <2>2. /\ new \in Seq(RouterRecords) /\ Len(new) = Len(byId) + 1
        /\ \A i \in 1..Len(byId) : new[i] = byId[i]
        /\ new[Len(byId) + 1] = r
    BY <1>2, <2>1, Appended
  <2>3. PICK n \in Nat : n = Len(byId)
    BY <1>2
  <2>4. \A i \in 1..n + 1 : IF i = n + 1 THEN new[i] = r
                            ELSE i \in 1..n /\ new[i] = byId[i]
    BY <2>2, <2>3
  <2>5. r.id \notin Ids(t) /\ r.id # 0
    BY <1>2, <1>5
  <2>. QED
    BY <1>1, <1>4, <1>5, <2>2, <2>3, <2>4, <2>5
<1>6. CASE \E old \in ToSet(t.routers) : old.id = r.id /\ old.name = r.name
  <2>1. PICK old \in ToSet(t.routers) : old.id = r.id /\ old.name = r.name
    BY <1>6
  <2>2. r.id \in Ids(t) /\ byId[r.id + 1] = old
    BY <1>1, <2>1 DEF TablesFit, ListFits
  <2>3. r.id # 0
    BY <1>2, <2>1, <2>2 DEF Self, RouterRecord
  <2>4. r.id \in Nat /\ r.id < Len(byId) /\ r.id + 1 \in 1..Len(byId)
    BY <1>2, <2>2
  <2>5. new = [byId EXCEPT ![r.id + 1] = r]
    BY <1>3, <2>4
  <2>6. PICK k : k = r.id + 1
    OBVIOUS
  <2>7. /\ new \in Seq(RouterRecords) /\ Len(new) = Len(byId)
        /\ \A i \in 1..Len(byId) : new[i] = IF i = k THEN r ELSE byId[i]
    BY <1>2, <2>4, <2>5, <2>6, Overwritten
  <2>8. NameOf(t)[r.id] = r.name
    BY <1>2, <2>1, <2>2
  <2>. QED
    BY <1>1, <1>2, <1>4, <2>3, <2>4, <2>6, <2>7, <2>8
<1>. QED
  BY <1>1, <1>5, <1>6 DEF Installable

(* The router takes the place of its name in all of the Maps.              *)
LEMMA InstalledFits ==
    ASSUME NEW t, TablesFit(t), NEW r, Installable(t, r)
    PROVE  /\ TablesFit(Installed(t, r)) /\ Onward(t, Installed(t, r))
           /\ ToSet(Installed(t, r).routers) =
                 {q \in ToSet(t.routers) : q.name # r.name} \cup {r}
           /\ r.pid # NoPid =>
                 \E e \in Installed(t, r).routersByPid : e.pid = r.pid
<1>1. PICK u : u = Installed(t, r)
  OBVIOUS
<1>2. /\ u.name = t.name /\ u.routers = PutRouter(t.routers, r)
      /\ u.routersByPid = IF r.pid = NoPid THEN t.routersByPid
                          ELSE PutPid(t.routersByPid, r.pid, r)
      /\ u.bridges = t.bridges /\ u.monitors = t.monitors
      /\ u.out = t.out /\ IsTables(u)
  BY <1>1 DEF Installed, TablesFit, IsTables
<1>3. /\ r \in RouterRecords /\ r.source \in Node /\ r.name # t.name
      /\ r.pid # NoPid => /\ r.pid \in ContextPid(Ids(t))
                          /\ r.name = Towards(r.pid.proc)
  BY DEF Installable
<1>4. /\ u.routersById \in Seq(RouterRecords) /\ r.id # 0 /\ r.id \in Nat
      /\ Len(u.routersById) \in Nat /\ Len(u.routersById) >= Len(t.routersById)
      /\ r.id + 1 \in 1..Len(u.routersById)
      /\ \A i \in 1..Len(u.routersById) :
            IF i = r.id + 1 THEN u.routersById[i] = r
            ELSE i \in 1..Len(t.routersById) /\ u.routersById[i] = t.routersById[i]
      /\ r.id \in Ids(t) => NameOf(t)[r.id] = r.name
  BY <1>1, InstalledById
<1>5. /\ Len(t.routersById) \in Nat /\ Len(t.routersById) >= 1
      /\ t.name \in Node /\ ByIdFits(t)
      /\ \A id \in Ids(t) : /\ id + 1 \in 1..Len(t.routersById)
                            /\ NameOf(t)[id] = t.routersById[id + 1].name
      /\ DOMAIN NameOf(t) = Ids(t) /\ Ids(t) \subseteq Nat
  BY IdsOf DEF TablesFit
<1>6. /\ Ids(t) \subseteq Ids(u) /\ r.id \in Ids(u)
      /\ \A id \in Ids(u) : id + 1 \in 1..Len(u.routersById)
  BY <1>4, <1>5 DEF Ids
<1>7. /\ DOMAIN NameOf(u) = Ids(u)
      /\ \A id \in Ids(u) : NameOf(u)[id] = u.routersById[id + 1].name
  BY DEF NameOf
<1>8. \A id \in Ids(t) : NameOf(u)[id] = NameOf(t)[id]
  <2>1. TAKE id \in Ids(t)
  <2>2. id \in Ids(u) /\ id + 1 \in 1..Len(u.routersById) /\ id \in Nat
    BY <1>5, <1>6
  <2>3. CASE id = r.id
    BY <1>4, <1>7, <2>2, <2>3
  <2>4. CASE id # r.id
    <3>1. id + 1 # r.id + 1
      BY <1>4, <2>2, <2>4
    <3>2. u.routersById[id + 1] = t.routersById[id + 1]
      BY <1>4, <2>2, <3>1
    <3>. QED
      BY <1>5, <1>7, <2>2, <3>2
  <2>. QED
    BY <2>3, <2>4
<1>9. Extends(NameOf(t), NameOf(u))
  BY <1>5, <1>6, <1>7, <1>8 DEF Extends
<1>10. ContextPid(Ids(t)) \subseteq ContextPid(Ids(u))
  BY <1>6 DEF ContextPid
<1>11. RouterFits(u, r) /\ \A q : RouterFits(t, q) => RouterFits(u, q)
  BY <1>2, <1>3, <1>10 DEF RouterFits
<1>12. ByIdFits(u)
  <2>1. u.routersById[1] = Self(u.name) /\ u.routersById # <<>>
    <3>1. 1 \in 1..Len(u.routersById) /\ 1 # r.id + 1
      BY <1>4, <1>5
    <3>2. u.routersById[1] = t.routersById[1]
      BY <1>4, <3>1
    <3>3. u.routersById # <<>>
      BY <1>4, <1>5, Empty
    <3>. QED
      BY <1>2, <1>5, <3>2, <3>3 DEF ByIdFits
  <2>2. ASSUME NEW i \in 1..Len(u.routersById)
        PROVE  /\ u.routersById[i].id = i - 1
               /\ i > 1 => RouterFits(u, u.routersById[i])
    <3>1. CASE i = r.id + 1
      <4>1. u.routersById[i] = r /\ r.id = i - 1
        BY <1>4, <3>1
      <4>. QED
        BY <1>11, <4>1
    <3>2. CASE i # r.id + 1
      <4>1. i \in 1..Len(t.routersById) /\ u.routersById[i] = t.routersById[i]
        BY <1>4, <3>2
      <4>. QED
        BY <1>5, <1>11, <4>1 DEF ByIdFits
    <3>. QED
      BY <3>1, <3>2
  <2>. QED
    BY <1>4, <2>1, <2>2 DEF ByIdFits
<1>13. /\ u.routers \in Seq(RouterRecords)
       /\ ToSet(u.routers) = {q \in ToSet(t.routers) : q.name # r.name} \cup {r}
  BY <1>2, <1>3, PutRouterSet DEF TablesFit, ListFits
<1>14. /\ \A q \in ToSet(t.routers) :
             q.id \in Ids(t) /\ t.routersById[q.id + 1] = q
       /\ \A p, q \in ToSet(t.routers) : p.name = q.name => p = q
       /\ Self(t.name) \in ToSet(t.routers)
  BY DEF TablesFit, ListFits
<1>15. ListFits(u)
  <2>1. ASSUME NEW q \in ToSet(t.routers), q.name # r.name
        PROVE  q.id \in Ids(u) /\ u.routersById[q.id + 1] = q
    <3>1. q.id \in Ids(t) /\ t.routersById[q.id + 1] = q /\ q.id \in Nat
      BY <1>14 DEF Ids
    <3>2. NameOf(t)[q.id] = q.name
      BY <1>5, <3>1
    <3>3. q.id # r.id
      BY <1>4, <2>1, <3>1, <3>2
    <3>4. q.id \in Ids(u) /\ q.id + 1 \in 1..Len(u.routersById)
      BY <1>6, <3>1
    <3>5. q.id + 1 # r.id + 1
      BY <1>4, <3>1, <3>3
    <3>. QED
      BY <1>4, <3>1, <3>4, <3>5
  <2>2. r.id \in Ids(u) /\ u.routersById[r.id + 1] = r
    BY <1>4, <1>6
  <2>3. Self(u.name) \in ToSet(u.routers)
    BY <1>2, <1>3, <1>13, <1>14 DEF Self, RouterRecord
  <2>4. \A p, q \in ToSet(u.routers) : p.name = q.name => p = q
    BY <1>13, <1>14
  <2>. QED
    BY <1>13, <2>1, <2>2, <2>3, <2>4 DEF ListFits
<1>16. /\ ByPidFits(u)
       /\ \A e \in t.routersByPid : \E f \in u.routersByPid : f.pid = e.pid
       /\ r.pid # NoPid => \E e \in u.routersByPid : e.pid = r.pid
  <2>1. PICK new : new = [pid |-> r.pid, router |-> r]
    OBVIOUS
  <2>2. u.routersByPid = IF r.pid = NoPid THEN t.routersByPid
                         ELSE {e \in t.routersByPid : e.pid # r.pid} \cup {new}
    BY <1>2, <2>1 DEF PutPid
  <2>3. IsFiniteSet(u.routersByPid)
    <3>1. IsFiniteSet(t.routersByPid)
      BY DEF TablesFit, ByPidFits
    <3>2. IsFiniteSet({e \in t.routersByPid : e.pid # r.pid})
      BY <3>1, FS_Subset
    <3>3. IsFiniteSet({e \in t.routersByPid : e.pid # r.pid} \cup {new})
      BY <3>2, FS_AddElement
    <3>. QED
      BY <2>2, <3>1, <3>3
  <2>4. ASSUME NEW e \in t.routersByPid
        PROVE  /\ e.router.pid = e.pid /\ e.pid # NoPid
               /\ e.router.id \in Ids(u)
               /\ e.router.name = NameOf(u)[e.router.id]
               /\ e.router = Self(u.name) \/ RouterFits(u, e.router)
    <3>1. /\ e.router.pid = e.pid /\ e.pid # NoPid
          /\ e.router.id \in Ids(t)
          /\ e.router.name = NameOf(t)[e.router.id]
          /\ e.router = Self(t.name) \/ RouterFits(t, e.router)
      BY DEF TablesFit, ByPidFits
    <3>. QED
      BY <1>2, <1>6, <1>8, <1>11, <3>1
  <2>5. r.pid # NoPid =>
           /\ new.router.pid = new.pid /\ new.pid # NoPid
           /\ new.router.id \in Ids(u)
           /\ new.router.name = NameOf(u)[new.router.id]
           /\ RouterFits(u, new.router)
    BY <1>4, <1>6, <1>7, <1>11, <2>1
  <2>6. ByPidFits(u)
    BY <2>2, <2>3, <2>4, <2>5 DEF ByPidFits
  <2>. QED
    BY <2>1, <2>2, <2>6
<1>17. BridgesFit(u)
  <2>1. t.bridges \in Seq([pid : ContextPid(Ids(t)), names : Seq(Node)])
    BY DEF TablesFit, BridgesFit
  <2>2. [pid : ContextPid(Ids(t)), names : Seq(Node)] \subseteq
           [pid : ContextPid(Ids(u)), names : Seq(Node)]
    BY <1>10
  <2>3. t.bridges \in Seq([pid : ContextPid(Ids(u)), names : Seq(Node)])
    BY <2>1, <2>2, Wider
  <2>4. ASSUME NEW b \in ToSet(t.bridges)
        PROVE  /\ \A name \in ToSet(b.names) :
                     name # t.name /\ name = Towards(b.pid.proc)
               /\ \E e \in u.routersByPid : e.pid = b.pid
    <3>1. /\ \A name \in ToSet(b.names) :
                name # t.name /\ name = Towards(b.pid.proc)
          /\ \E e \in t.routersByPid : e.pid = b.pid
      BY DEF TablesFit, BridgesFit
    <3>. QED
      BY <1>16, <3>1
  <2>. QED
    BY <1>2, <2>3, <2>4 DEF BridgesFit
<1>18. u.out \in Seq(Delivered(u))
  BY <1>2, <1>9, DeliveredWider, Wider DEF TablesFit
<1>19. ASSUME NEW m, Watches(t, m)
       PROVE  Watches(u, m)
  <2>1. PICK q \in ToSet(t.routers) : q.name = m /\ q.pid # NoPid
    BY <1>19 DEF Watches, Lives
  <2>2. CASE m = r.name
    <3>1. r.pid # NoPid
      BY <2>1, <2>2 DEF Installable
    <3>. QED
      BY <1>2, <1>13, <1>19, <2>2, <3>1 DEF Watches, Lives
  <2>3. CASE m # r.name
    BY <1>2, <1>13, <1>19, <2>1, <2>3 DEF Watches, Lives
  <2>. QED
    BY <2>2, <2>3
<1>. QED
  BY <1>1, <1>2, <1>5, <1>9, <1>12, <1>13, <1>15, <1>16, <1>17, <1>18, <1>19
     DEF TablesFit, Onward

(* Bridges with pids of a set. *)
BridgesOver(S) == Seq([pid : S, names : Seq(Node)])

(* saveBridge adds the name to the bridge of the pid.                      *)
LEMMA SaveBridgeSet ==
    ASSUME NEW S, NEW bridges \in BridgesOver(S),
           NEW name \in Node, NEW pid \in S
    PROVE  /\ SaveBridge(bridges, name, pid) \in BridgesOver(S)
           /\ \A b \in ToSet(SaveBridge(bridges, name, pid)) :
                 \/ b \in ToSet(bridges)
                 \/ /\ b.pid = pid
                    /\ \A m \in ToSet(b.names) :
                          \/ m = name
                          \/ \E a \in ToSet(bridges) :
                                a.pid = pid /\ m \in ToSet(a.names)
<1> DEFINE R == [pid : S, names : Seq(Node)]
<1>1. /\ DOMAIN bridges = 1..Len(bridges) /\ Len(bridges) \in Nat
      /\ \A i \in 1..Len(bridges) :
            bridges[i] \in ToSet(bridges) /\ bridges[i] \in R
  <2> HIDE DEF R
  <2>1. bridges \in Seq(R)
    BY DEF R, BridgesOver
  <2>. QED
    BY <2>1, Elements
<1>2. CASE \E i \in DOMAIN bridges : bridges[i].pid = pid
  <2>1. PICK q : q = [i \in 1..Len(bridges) |->
                  IF bridges[i].pid = pid /\ name \notin ToSet(bridges[i].names)
                  THEN [bridges[i] EXCEPT !.names = Append(@, name)]
                  ELSE bridges[i]]
    OBVIOUS
  <2>2. ASSUME NEW i \in 1..Len(bridges)
        PROVE  /\ q[i] \in R
               /\ \/ q[i] \in ToSet(bridges)
                  \/ /\ q[i].pid = pid
                     /\ \A m \in ToSet(q[i].names) :
                           \/ m = name
                           \/ \E a \in ToSet(bridges) :
                                 a.pid = pid /\ m \in ToSet(a.names)
    <3>1. PICK b : b = bridges[i]
      OBVIOUS
    <3>2. b \in R /\ b \in ToSet(bridges) /\ b.names \in Seq(Node)
      BY <1>1, <3>1
    <3>3. CASE b.pid = pid /\ name \notin ToSet(b.names)
      <4>1. q[i] = [b EXCEPT !.names = Append(b.names, name)]
        BY <2>1, <3>1, <3>3
      <4>2. PICK names : names = Append(b.names, name)
        OBVIOUS
      <4>3. names \in Seq(Node) /\ ToSet(names) = ToSet(b.names) \cup {name}
        BY <3>2, <4>2, Appended
      <4>4. q[i] \in R /\ q[i].pid = pid /\ q[i].names = names
        BY <3>2, <3>3, <4>1, <4>2, <4>3
      <4>. QED
        BY <3>2, <3>3, <4>3, <4>4
    <3>4. CASE ~(b.pid = pid /\ name \notin ToSet(b.names))
      BY <2>1, <3>1, <3>2, <3>4
    <3>. QED
      BY <3>3, <3>4
  <2>3. q \in Seq(R) /\ Len(q) = Len(bridges)
    <3>1. q = [i \in 1..Len(bridges) |-> q[i]]
      BY <2>1
    <3> HIDE DEF R
    <3>. QED
      BY <1>1, <2>2, <3>1, Filled
  <2>4. \A b \in ToSet(q) : \E i \in 1..Len(bridges) : b = q[i]
    <3> HIDE DEF R
    <3>. QED
      BY <2>3, Elements
  <2>5. SaveBridge(bridges, name, pid) = q
    BY <1>1, <1>2, <2>1 DEF SaveBridge
  <2>6. ASSUME NEW b \in ToSet(q)
        PROVE  \/ b \in ToSet(bridges)
               \/ /\ b.pid = pid
                  /\ \A m \in ToSet(b.names) :
                        \/ m = name
                        \/ \E a \in ToSet(bridges) :
                              a.pid = pid /\ m \in ToSet(a.names)
    <3>1. PICK i \in 1..Len(bridges) : b = q[i]
      BY <2>4
    <3> HIDE DEF R
    <3>. QED
      BY <2>2, <3>1
  <2>. QED
    BY <2>3, <2>5, <2>6 DEF BridgesOver
<1>3. CASE ~\E i \in DOMAIN bridges : bridges[i].pid = pid
  <2>1. PICK new : new = [pid |-> pid, names |-> <<name>>]
    OBVIOUS
  <2>2. <<name>> \in Seq(Node) /\ ToSet(<<name>>) = {name}
    BY One
  <2>3. new \in R /\ new.pid = pid /\ ToSet(new.names) = {name}
    BY <2>1, <2>2
  <2>4. SaveBridge(bridges, name, pid) = Append(bridges, new)
    BY <1>3, <2>1 DEF SaveBridge
  <2>5. /\ Append(bridges, new) \in Seq(R)
        /\ ToSet(Append(bridges, new)) = ToSet(bridges) \cup {new}
    <3>1. bridges \in Seq(R)
      BY DEF BridgesOver
    <3> HIDE DEF R
    <3>. QED
      BY <2>3, <3>1, Appended
  <2>. QED
    BY <2>3, <2>4, <2>5 DEF BridgesOver
<1>. QED
  BY <1>2, <1>3

(* Tables with the bridge saved. *)
Saving(t, name, pid) == [t EXCEPT !.bridges = SaveBridge(@, name, pid)]

(* A bridge for a router that has just been installed.                     *)
LEMMA SavingFits ==
    ASSUME NEW t, TablesFit(t), NEW pid \in ContextPid(Ids(t)), NEW name \in Node,
           name # t.name, name = Towards(pid.proc),
           \E e \in t.routersByPid : e.pid = pid
    PROVE  TablesFit(Saving(t, name, pid)) /\ Onward(t, Saving(t, name, pid))
<1>1. PICK u : u = Saving(t, name, pid)
  OBVIOUS
<1>2. /\ u.name = t.name /\ u.routers = t.routers
      /\ u.routersById = t.routersById /\ u.routersByPid = t.routersByPid
      /\ u.bridges = SaveBridge(t.bridges, name, pid) /\ u.monitors = t.monitors
      /\ u.out = t.out /\ IsTables(u)
  BY <1>1 DEF Saving, TablesFit, IsTables
<1>3. /\ Ids(u) = Ids(t) /\ NameOf(u) = NameOf(t)
      /\ Delivered(u) = Delivered(t)
      /\ ByIdFits(t) => ByIdFits(u)
      /\ \A r : RouterFits(t, r) <=> RouterFits(u, r)
      /\ Extends(NameOf(t), NameOf(u))
  BY <1>2, SameIds
<1>4. ListFits(u)
  BY <1>2, <1>3 DEF TablesFit, ListFits
<1>5. ByPidFits(u)
  BY <1>2, <1>3 DEF TablesFit, ByPidFits
<1>6. BridgesFit(u)
  <2>1. PICK S : S = ContextPid(Ids(t))
    OBVIOUS
  <2>2. /\ t.bridges \in Seq([pid : S, names : Seq(Node)])
        /\ \A b \in ToSet(t.bridges) :
              /\ \A m \in ToSet(b.names) :
                    m # t.name /\ m = Towards(b.pid.proc)
              /\ \E e \in t.routersByPid : e.pid = b.pid
    BY <2>1 DEF TablesFit, BridgesFit
  <2>3. /\ u.bridges \in Seq([pid : S, names : Seq(Node)])
        /\ \A b \in ToSet(u.bridges) :
              \/ b \in ToSet(t.bridges)
              \/ /\ b.pid = pid
                 /\ \A m \in ToSet(b.names) :
                       \/ m = name
                       \/ \E a \in ToSet(t.bridges) :
                             a.pid = pid /\ m \in ToSet(a.names)
    <3>1. pid \in S
      BY <2>1
    <3>2. PICK q : q = SaveBridge(t.bridges, name, pid)
      OBVIOUS
    <3>3. PICK bridges : bridges = t.bridges
      OBVIOUS
    <3>4. bridges \in BridgesOver(S)
      BY <2>2, <3>3 DEF BridgesOver
    <3>5. u.bridges = SaveBridge(bridges, name, pid)
      BY <1>2, <3>3
    <3>6. /\ SaveBridge(bridges, name, pid) \in BridgesOver(S)
          /\ \A b \in ToSet(SaveBridge(bridges, name, pid)) :
                \/ b \in ToSet(bridges)
                \/ /\ b.pid = pid
                   /\ \A m \in ToSet(b.names) :
                         \/ m = name
                         \/ \E a \in ToSet(bridges) :
                               a.pid = pid /\ m \in ToSet(a.names)
      BY <3>1, <3>4, SaveBridgeSet
    <3>. QED
      BY <3>3, <3>5, <3>6 DEF BridgesOver
  <2>4. ASSUME NEW b \in ToSet(u.bridges)
        PROVE  /\ \A m \in ToSet(b.names) :
                     m # u.name /\ m = Towards(b.pid.proc)
               /\ \E e \in u.routersByPid : e.pid = b.pid
    <3>1. CASE b \in ToSet(t.bridges)
      <4>1. \A m \in ToSet(b.names) : m # t.name /\ m = Towards(b.pid.proc)
        BY <2>2, <3>1
      <4>2. \E e \in t.routersByPid : e.pid = b.pid
        BY <2>2, <3>1
      <4>. QED
        BY <1>2, <4>1, <4>2
    <3>2. CASE /\ b.pid = pid
               /\ \A m \in ToSet(b.names) :
                     \/ m = name
                     \/ \E a \in ToSet(t.bridges) :
                           a.pid = pid /\ m \in ToSet(a.names)
      <4>1. ASSUME NEW m \in ToSet(b.names)
            PROVE  m # t.name /\ m = Towards(b.pid.proc)
        <5>1. CASE m = name
          BY <3>2, <5>1
        <5>2. CASE \E a \in ToSet(t.bridges) : a.pid = pid /\ m \in ToSet(a.names)
          <6>1. PICK a \in ToSet(t.bridges) : a.pid = pid /\ m \in ToSet(a.names)
            BY <5>2
          <6>2. m # t.name /\ m = Towards(a.pid.proc)
            BY <2>2, <6>1
          <6>. QED
            BY <3>2, <6>1, <6>2
        <5>. QED
          BY <3>2, <5>1, <5>2
      <4>. QED
        BY <1>2, <3>2, <4>1
    <3>. QED
      BY <2>3, <3>1, <3>2
  <2>. QED
    BY <1>3, <2>1, <2>3, <2>4 DEF BridgesFit
<1>7. \A m : Watches(t, m) => Watches(u, m)
  BY <1>2 DEF Watches, Lives
<1>. QED
  BY <1>1, <1>2, <1>3, <1>4, <1>5, <1>6, <1>7 DEF TablesFit, Onward

(* The peers are told of the router, and the bridge is saved.              *)
LEMMA BridgedFits ==
    ASSUME NEW t, TablesFit(t), NEW r, r.name # t.name, r \in RouterRecords,
           r.source \in Node, NEW bridge,
           bridge => /\ r.pid \in ContextPid(Ids(t)) /\ r.name = Towards(r.pid.proc)
                     /\ \E e \in t.routersByPid : e.pid = r.pid
    PROVE  /\ TablesFit(Bridged(t, r, bridge)) /\ Onward(t, Bridged(t, r, bridge))
           /\ Bridged(t, r, bridge).routers = t.routers
<1>1. CASE ~bridge
  BY <1>1, OnwardSame DEF Bridged
<1>2. CASE bridge
  <2>1. PICK notice : notice = Discover(r.source, r.score, r.name, r.type, r.pid)
    OBVIOUS
  <2>2. notice \in Notices(NameOf(t))
    <3>1. /\ r.source \in Node /\ r.score \in Nat /\ r.name \in Node
          /\ r.type \in Types
      BY DEF RouterRecords, Types
    <3>2. r.pid \in ContextPid(DOMAIN NameOf(t)) /\ r.name = Towards(r.pid.proc)
      BY <1>2, IdsOf DEF TablesFit
    <3>. QED
      BY <2>1, <3>1, <3>2 DEF Discover, Notices
  <2>3. Deliveries(t, notice) \in Seq(Delivered(t))
    BY <2>2, DeliveriesFit
  <2>4. PICK s : s = Sending(t, Deliveries(t, notice))
    OBVIOUS
  <2>5. TablesFit(s) /\ Onward(t, s)
    BY <2>3, <2>4, SendingFits
  <2>6. /\ s.name = t.name /\ s.routersById = t.routersById
        /\ s.routersByPid = t.routersByPid /\ s.routers = t.routers
    BY <2>4 DEF Sending, TablesFit, IsTables
  <2>7. r.pid \in ContextPid(Ids(s)) /\ r.name \in Node
    BY <1>2, <2>6, SameIds DEF RouterRecords
  <2>8. /\ TablesFit(Saving(s, r.name, r.pid))
        /\ Onward(s, Saving(s, r.name, r.pid))
    <3>1. PICK name, pid : name = r.name /\ pid = r.pid
      OBVIOUS
    <3>2. /\ pid \in ContextPid(Ids(s)) /\ name \in Node /\ name # s.name
          /\ name = Towards(pid.proc) /\ \E e \in s.routersByPid : e.pid = pid
      BY <1>2, <2>6, <2>7, <3>1
    <3>. QED
      BY <2>5, <3>1, <3>2, SavingFits
  <2>9. Bridged(t, r, bridge) = Saving(s, r.name, r.pid)
    BY <1>2, <2>1, <2>4 DEF Bridged, Sending, Saving, TablesFit, IsTables
  <2>10. Saving(s, r.name, r.pid).routers = t.routers
    BY <2>5, <2>6 DEF Saving, TablesFit, IsTables
  <2>. QED
    BY <2>5, <2>8, <2>9, <2>10, OnwardOn
<1>. QED
  BY <1>1, <1>2

(* Registering a router, of a neighbour or of a node behind a bridge, or a *)
(* name that was never heard of.                                           *)
LEMMA RegisterFits ==
    ASSUME NEW t, TablesFit(t), NEW source \in Node, NEW score \in Nat,
           NEW name \in Node, NEW pid, NEW bridge, NEW type \in Types,
           \/ pid = NoPid /\ ~Knows(t, name)
           \/ pid \in ContextPid(Ids(t)) /\ name = Towards(pid.proc)
    PROVE  LET u == RegisterRouter(t, source, score, name, pid, bridge, type)
           IN  /\ TablesFit(u) /\ Onward(t, u) /\ Knows(u, name)
               /\ \A m : Knows(t, m) => Knows(u, m)
<1>1. PICK u : u = RegisterRouter(t, source, score, name, pid, bridge, type)
  OBVIOUS
<1>2. PICK id : id = IF Knows(t, name) THEN RouterOf(t, name).id ELSE NextId(t)
  OBVIOUS
<1>3. PICK r : r = RouterRecord(id, source, score, name, pid, type)
  OBVIOUS
<1>4. u = IF Knows(t, name) /\ ~Better(RouterOf(t, name), score, pid) THEN t
          ELSE Bridged(Installed(t, r), r, bridge /\ pid # NoPid)
  BY <1>1, <1>2, <1>3 DEF RegisterRouter
<1>5. /\ ListFits(t) /\ ByIdFits(t) /\ t.name \in Node
      /\ Len(t.routersById) \in Nat /\ Ids(t) \subseteq Nat
  BY IdsOf DEF TablesFit
<1>6. CASE Knows(t, name) /\ ~Better(RouterOf(t, name), score, pid)
  BY <1>4, <1>6, <1>1, OnwardSame
<1>7. CASE ~(Knows(t, name) /\ ~Better(RouterOf(t, name), score, pid))
  <2>1. id \in Nat
    BY <1>2, <1>5, KnownRouter DEF NextId
  <2>2. ContextPid(Ids(t)) \subseteq [node : Nat, proc : End \cup {System}]
    BY <1>5 DEF ContextPid
  <2>3. /\ r.id = id /\ r.source = source /\ r.score = score /\ r.name = name
        /\ r.pid = pid /\ r.type = type /\ r \in RouterRecords
    BY <1>3, <2>1, <2>2 DEF RouterRecord, RouterRecords, Types
  <2>4. name # t.name
    <3>1. Self(t.name) \in ToSet(t.routers)
      BY <1>5 DEF ListFits
    <3>2. ASSUME name = t.name
          PROVE  FALSE
      <4>1. Knows(t, name)
        BY <1>5, <3>1, <3>2, KnowsName DEF Self, RouterRecord
      <4>2. RouterOf(t, name) = Self(t.name)
        BY <1>5, <3>1, <3>2, <4>1, KnownRouter DEF ListFits, Self, RouterRecord
      <4>3. /\ RouterOf(t, name).pid = Local(System)
            /\ RouterOf(t, name).score = 0
        BY <4>2 DEF Self, RouterRecord
      <4>4. ~Better(RouterOf(t, name), score, pid)
        BY <4>3, NoPids DEF Better
      <4>. QED
        BY <1>7, <4>1, <4>4
    <3>. QED
      BY <3>2
  <2>5. Installable(t, r)
    <3>1. r.pid # NoPid => r.pid \in ContextPid(Ids(t)) /\ r.name = Towards(r.pid.proc)
      BY <2>3
    <3>2. CASE Knows(t, name)
      <4>1. pid # NoPid
        <5>1. Ids(t) \subseteq Nat /\ pid \in ContextPid(Ids(t))
          BY <1>5, <3>2
        <5>2. pid \in ContextPid(Nat)
          BY <5>1 DEF ContextPid
        <5>. QED
          BY <5>2, NoPids
      <4>2. /\ RouterOf(t, name) \in ToSet(t.routers)
            /\ RouterOf(t, name).name = name /\ RouterOf(t, name).id = id
        BY <1>2, <1>5, <3>2, KnownRouter
      <4>. QED
        BY <2>3, <2>4, <3>1, <4>1, <4>2 DEF Installable
    <3>3. CASE ~Knows(t, name)
      <4>1. id = Len(t.routersById)
        BY <1>2, <3>3 DEF NextId
      <4>2. \A q \in ToSet(t.routers) : q.name # name
        BY <1>5, <3>3, KnowsName
      <4>. QED
        BY <2>3, <2>4, <3>1, <4>1, <4>2 DEF Installable
    <3>. QED
      BY <3>2, <3>3
  <2>6. PICK v : v = Installed(t, r)
    OBVIOUS
  <2>7. /\ TablesFit(v) /\ Onward(t, v)
        /\ ToSet(v.routers) = {q \in ToSet(t.routers) : q.name # r.name} \cup {r}
        /\ r.pid # NoPid => \E e \in v.routersByPid : e.pid = r.pid
    BY <2>5, <2>6, InstalledFits
  <2>8. v.name = t.name /\ (pid # NoPid => pid \in ContextPid(Ids(v)))
    <3>1. v.name = t.name /\ Extends(NameOf(t), NameOf(v))
      BY <2>7 DEF Onward
    <3>2. ByIdFits(v)
      BY <2>7 DEF TablesFit
    <3>. QED
      BY <1>5, <3>1, <3>2, FitsWider
  <2>9. u = Bridged(v, r, bridge /\ pid # NoPid)
    BY <1>4, <1>7, <2>6
  <2>10. TablesFit(u) /\ Onward(v, u) /\ u.routers = v.routers
    <3>1. PICK b : b = (bridge /\ pid # NoPid)
      OBVIOUS
    <3>2. b => /\ r.pid \in ContextPid(Ids(v)) /\ r.name = Towards(r.pid.proc)
               /\ \E e \in v.routersByPid : e.pid = r.pid
      BY <2>3, <2>7, <2>8, <3>1
    <3>. QED
      BY <2>3, <2>4, <2>7, <2>8, <2>9, <3>1, <3>2, BridgedFits
  <2>11. ListFits(u)
    BY <2>10 DEF TablesFit
  <2>12. \A m : Knows(t, m) => Knows(u, m)
    BY <1>5, <2>3, <2>7, <2>10, <2>11, KnowsName
  <2>13. Knows(u, name)
    BY <2>3, <2>7, <2>10, <2>11, KnowsName
  <2>14. Onward(t, u)
    BY <2>7, <2>10, OnwardOn
  <2>. QED
    BY <1>1, <2>10, <2>12, <2>13, <2>14
<1>. QED
  BY <1>6, <1>7

(* A name that was never heard of gets an id.                              *)
LEMMA AcquaintedFits ==
    ASSUME NEW t, TablesFit(t), NEW name \in Node
    PROVE  /\ TablesFit(Acquainted(t, name)) /\ Onward(t, Acquainted(t, name))
           /\ Acquainted(t, name).out = t.out /\ Knows(Acquainted(t, name), name)
           /\ \A m : Knows(t, m) => Knows(Acquainted(t, name), m)
<1>1. CASE Knows(t, name)
  BY <1>1, OnwardSame DEF Acquainted
<1>2. CASE ~Knows(t, name)
  <2>1. /\ t.name \in Node /\ Infinity \in Nat /\ "temporary" \in Types
    BY NetworkAssumption DEF TablesFit, Types
  <2>2. PICK u : u = RegisterRouter(t, t.name, Infinity, name, NoPid, FALSE,
                                    "temporary")
    OBVIOUS
  <2>3. /\ TablesFit(u) /\ Onward(t, u) /\ Knows(u, name)
        /\ \A m : Knows(t, m) => Knows(u, m)
    BY <1>2, <2>1, <2>2, RegisterFits
  <2>4. u.out = t.out
    <3>1. \A r : Bridged(Installed(t, r), r, FALSE).out = t.out
      BY DEF Bridged, Installed, TablesFit, IsTables
    <3>. QED
      BY <1>2, <2>2, <3>1 DEF RegisterRouter
  <2>. QED
    BY <1>2, <2>2, <2>3, <2>4 DEF Acquainted
<1>. QED
  BY <1>1, <1>2

(* Reading an event adds the names it holds. *)
LEMMA HeardFits ==
    ASSUME NEW t, TablesFit(t), NEW x, NamesIn(x) \in Seq(Node)
    PROVE  /\ TablesFit(Heard(t, x)) /\ Onward(t, Heard(t, x))
           /\ Heard(t, x).out = t.out /\ KnowsAll(Heard(t, x), x)
<1> DEFINE n == Len(NamesIn(x))
<1>1. n \in Nat /\ \A i \in 1..n : NamesIn(x)[i] \in Node
  BY Elements
<1>2. PICK f : /\ f[0] = t
               /\ \A k \in 1..n : f[k] = Acquainted(f[k - 1], NamesIn(x)[k])
               /\ Heard(t, x) = f[n]
  BY <1>1, Hears
<1> DEFINE Right(u, k) == /\ TablesFit(u) /\ Onward(t, u) /\ u.out = t.out
                          /\ \A i \in 1..k : Knows(u, NamesIn(x)[i])
           T == {k \in 0..n : ~Right(f[k], k)}
<1>3. T = {}
  <2>1. SUFFICES ASSUME T # {} PROVE FALSE
    OBVIOUS
  <2>2. PICK k \in T : \A y \in T : k <= y
    <3>1. T \subseteq Nat
      BY <1>1
    <3>. QED
      BY <2>1, <3>1, Least
  <2>3. k # 0
    <3>1. Right(f[0], 0)
      BY <1>2, OnwardSame
    <3> HIDE DEF Right
    <3>. QED
      BY <2>2, <3>1
  <2>4. k \in 1..n /\ k - 1 \in 0..n /\ k - 1 \notin T
    <3> HIDE DEF Right
    <3>1. k \in 1..n
      BY <1>1, <2>3
    <3>2. k - 1 \in 0..n
      BY <1>1, <3>1
    <3> HIDE DEF T
    <3>. QED
      BY <1>1, <2>2, <3>1, <3>2
  <2>5. PICK u : u = f[k - 1]
    OBVIOUS
  <2>6. Right(u, k - 1)
    <3> HIDE DEF Right
    <3>. QED
      BY <2>4, <2>5
  <2>7. PICK v, name : name = NamesIn(x)[k] /\ v = Acquainted(u, name)
    OBVIOUS
  <2>8. name \in Node /\ f[k] = v
    BY <1>1, <1>2, <2>4, <2>5, <2>7
  <2>9. /\ TablesFit(v) /\ Onward(u, v) /\ v.out = u.out /\ Knows(v, name)
        /\ \A m : Knows(u, m) => Knows(v, m)
    BY <2>6, <2>7, <2>8, AcquaintedFits
  <2>10. ASSUME NEW i \in 1..k
         PROVE  Knows(v, NamesIn(x)[i])
    <3>1. CASE i = k
      BY <2>7, <2>9, <3>1
    <3>2. CASE i # k
      <4>1. i \in 1..k - 1
        BY <1>1, <2>4, <3>2
      <4>. QED
        BY <2>6, <2>9, <4>1
    <3>. QED
      BY <3>1, <3>2
  <2>11. Right(v, k)
    BY <2>6, <2>9, <2>10, OnwardOn
  <2> HIDE DEF Right
  <2>. QED
    BY <2>2, <2>8, <2>11
<1>4. Right(f[n], n)
  <2>1. n \in 0..n
    BY <1>1
  <2> HIDE DEF Right
  <2>. QED
    BY <1>3, <2>1
<1>. QED
  BY <1>2, <1>4 DEF KnowsAll

-----------------------------------------------------------------------------
(* unregisterRouter.                                                       *)

(* u is t without the bridge pid, and without the names behind it. *)
Debridged(t, pid, u) ==
    /\ TablesFit(u) /\ u.name = t.name
    /\ u.routersById = t.routersById /\ u.routersByPid = t.routersByPid
    /\ u.monitors = t.monitors /\ u.out = t.out
    /\ ToSet(u.routers) \subseteq ToSet(t.routers)
    /\ \A r \in ToSet(t.routers) :
          \/ r \in ToSet(u.routers)
          \/ /\ r.name = Towards(pid.proc)
             /\ \E e \in t.routersByPid : e.pid = pid
    /\ \A b \in ToSet(u.bridges) : b.pid # pid

(* The names behind a bridge all lie across the same connection.           *)
LEMMA BridgeDroppedFits ==
    ASSUME NEW t, TablesFit(t), NEW pid
    PROVE  Debridged(t, pid, BridgeDropped(t, pid))
<1>1. PICK u : u = BridgeDropped(t, pid)
  OBVIOUS
<1>2. PICK gone : gone = {i \in DOMAIN t.bridges : t.bridges[i].pid = pid}
  OBVIOUS
<1>3. PICK names : names = UNION {ToSet(t.bridges[i].names) : i \in gone}
  OBVIOUS
<1>4. /\ u.name = t.name /\ u.routers = Without(t.routers, names)
      /\ u.routersById = t.routersById /\ u.routersByPid = t.routersByPid
      /\ u.bridges = Picked(t.bridges, DOMAIN t.bridges \ gone)
      /\ u.monitors = t.monitors /\ u.out = t.out /\ IsTables(u)
  BY <1>1, <1>2, <1>3 DEF BridgeDropped, TablesFit, IsTables
<1>5. /\ Ids(u) = Ids(t) /\ NameOf(u) = NameOf(t)
      /\ Delivered(u) = Delivered(t)
      /\ ByIdFits(t) => ByIdFits(u)
      /\ \A r : RouterFits(t, r) <=> RouterFits(u, r)
  BY <1>4, SameIds
<1>6. PICK S : S = [pid : ContextPid(Ids(t)), names : Seq(Node)]
  OBVIOUS
<1>7. /\ t.bridges \in Seq(S)
      /\ \A b \in ToSet(t.bridges) :
            /\ \A name \in ToSet(b.names) :
                  name # t.name /\ name = Towards(b.pid.proc)
            /\ \E e \in t.routersByPid : e.pid = b.pid
  BY <1>6 DEF TablesFit, BridgesFit
<1>8. /\ DOMAIN t.bridges = 1..Len(t.bridges)
      /\ \A i \in 1..Len(t.bridges) : t.bridges[i] \in ToSet(t.bridges)
  BY <1>7, Elements
<1>9. /\ u.bridges \in Seq(S) /\ ToSet(u.bridges) \subseteq ToSet(t.bridges)
      /\ \A b \in ToSet(u.bridges) : b.pid # pid
  <2>1. PICK I : I = DOMAIN t.bridges \ gone
    OBVIOUS
  <2>2. /\ Picked(t.bridges, I) \in Seq(S)
        /\ ToSet(Picked(t.bridges, I)) =
              {t.bridges[i] : i \in I \cap (1..Len(t.bridges))}
    BY <1>7, PickedSet
  <2>3. \A i \in I \cap (1..Len(t.bridges)) : t.bridges[i].pid # pid
    BY <1>2, <1>8, <2>1
  <2>4. u.bridges = Picked(t.bridges, I)
    BY <1>4, <2>1
  <2>5. ASSUME NEW b \in ToSet(u.bridges)
        PROVE  b \in ToSet(t.bridges) /\ b.pid # pid
    <3>1. PICK i \in I \cap (1..Len(t.bridges)) : b = t.bridges[i]
      BY <2>2, <2>4
    <3>. QED
      BY <1>8, <2>3, <3>1
  <2>. QED
    BY <2>2, <2>4, <2>5
<1>10. \A name \in names : /\ name # t.name /\ name = Towards(pid.proc)
                           /\ \E e \in t.routersByPid : e.pid = pid
  <2>1. TAKE name \in names
  <2>2. PICK i \in gone : name \in ToSet(t.bridges[i].names)
    BY <1>3
  <2>3. i \in 1..Len(t.bridges) /\ t.bridges[i].pid = pid
    BY <1>2, <1>8, <2>2
  <2>. QED
    BY <1>7, <1>8, <2>2, <2>3
<1>11. /\ t.routers \in Seq(RouterRecords)
       /\ \A r \in ToSet(t.routers) :
             r.id \in Ids(t) /\ t.routersById[r.id + 1] = r
       /\ \A r, q \in ToSet(t.routers) : r.name = q.name => r = q
       /\ Self(t.name) \in ToSet(t.routers)
  BY DEF TablesFit, ListFits
<1>12. /\ u.routers \in Seq(RouterRecords)
       /\ ToSet(u.routers) = {r \in ToSet(t.routers) : r.name \notin names}
  BY <1>4, <1>11, WithoutSet
<1>13. ListFits(u)
  <2>1. Self(t.name).name = t.name
    BY DEF Self, RouterRecord
  <2>2. Self(t.name) \in ToSet(u.routers)
    BY <1>10, <1>11, <1>12, <2>1
  <2>. QED
    BY <1>4, <1>5, <1>11, <1>12, <2>2 DEF ListFits
<1>14. ByPidFits(u)
  BY <1>4, <1>5 DEF TablesFit, ByPidFits
<1>15. BridgesFit(u)
  BY <1>4, <1>5, <1>6, <1>7, <1>9 DEF BridgesFit
<1>16. TablesFit(u)
  BY <1>4, <1>5, <1>13, <1>14, <1>15 DEF TablesFit
<1>17. \A r \in ToSet(t.routers) :
          \/ r \in ToSet(u.routers)
          \/ /\ r.name = Towards(pid.proc)
             /\ \E e \in t.routersByPid : e.pid = pid
  BY <1>10, <1>12
<1>. QED
  BY <1>1, <1>4, <1>9, <1>12, <1>16, <1>17 DEF Debridged

(* Only the watchers of the name are told and forgotten.                   *)
LEMMA WatchersToldFit ==
    ASSUME NEW t, TablesFit(t), NEW name \in Node
    PROVE  LET u == WatchersTold(t, name)
           IN  /\ TablesFit(u) /\ u.name = t.name /\ u.routers = t.routers
               /\ u.routersById = t.routersById
               /\ u.routersByPid = t.routersByPid /\ u.bridges = t.bridges
               /\ ToSet(t.out) \subseteq ToSet(u.out)
               /\ \A m \in t.monitors :
                     IF m = name THEN Reported(u, m) ELSE m \in u.monitors
<1>1. CASE name \notin t.monitors
  BY <1>1 DEF WatchersTold
<1>2. CASE name \in t.monitors
  <2>1. PICK u : u = WatchersTold(t, name)
    OBVIOUS
  <2>2. PICK d : d = [to |-> Local(User), item |-> Nodedown(name)]
    OBVIOUS
  <2>3. /\ u.name = t.name /\ u.routers = t.routers
        /\ u.routersById = t.routersById /\ u.routersByPid = t.routersByPid
        /\ u.bridges = t.bridges /\ u.monitors = t.monitors \ {name}
        /\ u.out = Append(t.out, d) /\ IsTables(u)
    BY <1>2, <2>1, <2>2 DEF WatchersTold, TablesFit, IsTables
  <2>4. /\ Ids(u) = Ids(t) /\ NameOf(u) = NameOf(t)
        /\ Delivered(u) = Delivered(t)
        /\ ByIdFits(t) => ByIdFits(u)
        /\ \A r : RouterFits(t, r) <=> RouterFits(u, r)
    BY <2>3, SameIds
  <2>5. d \in Delivered(t)
    BY <2>2 DEF Delivered
  <2>6. /\ u.out \in Seq(Delivered(u)) /\ ToSet(t.out) \subseteq ToSet(u.out)
        /\ d \in ToSet(u.out)
    <3>1. t.out \in Seq(Delivered(t))
      BY DEF TablesFit
    <3>. QED
      BY <2>3, <2>4, <2>5, <3>1, Appended
  <2>7. ListFits(u)
    BY <2>3, <2>4 DEF TablesFit, ListFits
  <2>8. ByPidFits(u)
    BY <2>3, <2>4 DEF TablesFit, ByPidFits
  <2>9. BridgesFit(u)
    BY <2>3, <2>4 DEF TablesFit, BridgesFit
  <2>10. TablesFit(u)
    BY <2>3, <2>4, <2>6, <2>7, <2>8, <2>9 DEF TablesFit
  <2>11. Reported(u, name)
    BY <2>2, <2>6 DEF Reported
  <2>. QED
    BY <2>1, <2>3, <2>6, <2>10, <2>11
<1>. QED
  BY <1>1, <1>2

(* The router goes without a pid, and nothing leads to it any more. *)
LEMMA UninstalledFits ==
    ASSUME NEW t, TablesFit(t), NEW pid, NEW r, RouterFits(t, r), r.pid = pid,
           r.id \in Ids(t), r.name = NameOf(t)[r.id],
           \A b \in ToSet(t.bridges) : b.pid # pid
    PROVE  LET u == Uninstalled(t, r, pid)
           IN  /\ TablesFit(u) /\ u.name = t.name /\ NameOf(u) = NameOf(t)
               /\ u.monitors = t.monitors /\ u.out = t.out
               /\ \A q \in ToSet(t.routers) :
                     q.name # r.name => q \in ToSet(u.routers)
<1>1. PICK u : u = Uninstalled(t, r, pid)
  OBVIOUS
<1>2. PICK gone : gone = [r EXCEPT !.pid = NoPid]
  OBVIOUS
<1>3. PICK k : k = r.id + 1
  OBVIOUS
<1>4. /\ u.name = t.name
      /\ u.routers = IF r.type = "permanent" THEN PutRouter(t.routers, gone)
                                             ELSE Without(t.routers, {r.name})
      /\ u.routersById = [t.routersById EXCEPT ![k] = gone]
      /\ u.routersByPid = {e \in t.routersByPid : e.pid # pid}
      /\ u.bridges = t.bridges /\ u.monitors = t.monitors /\ u.out = t.out
      /\ IsTables(u)
  BY <1>1, <1>2, <1>3 DEF Uninstalled, TablesFit, IsTables
<1>5. /\ gone \in RouterRecords /\ gone.source \in Node /\ gone.name = r.name
      /\ gone.pid = NoPid /\ gone.id = r.id /\ r.name # t.name /\ r.name \in Node
  BY <1>2 DEF RouterFits, RouterRecords
<1>6. /\ Len(t.routersById) \in Nat /\ Ids(t) \subseteq Nat /\ t.name \in Node
      /\ \A id \in Ids(t) : /\ id + 1 \in 1..Len(t.routersById)
                            /\ NameOf(t)[id] = t.routersById[id + 1].name
      /\ DOMAIN NameOf(t) = Ids(t) /\ NameOf(t)[0] = t.name /\ 0 \in Ids(t)
  BY IdsOf DEF TablesFit
<1>7. r.id # 0 /\ k \in 1..Len(t.routersById) /\ k \in Nat /\ k # 1 /\ r.id \in Nat
  BY <1>3, <1>5, <1>6
<1>8. /\ t.routersById \in Seq(RouterRecords)
      /\ t.routersById[1] = Self(t.name)
      /\ \A i \in 1..Len(t.routersById) :
            /\ t.routersById[i].id = i - 1
            /\ i > 1 => RouterFits(t, t.routersById[i])
  BY DEF TablesFit, ByIdFits
<1>9. /\ u.routersById \in Seq(RouterRecords)
      /\ Len(u.routersById) = Len(t.routersById)
      /\ \A i \in 1..Len(t.routersById) :
            u.routersById[i] = IF i = k THEN gone ELSE t.routersById[i]
  BY <1>4, <1>5, <1>7, <1>8, Overwritten
<1>10. Ids(u) = Ids(t)
  BY <1>9 DEF Ids
<1>11. NameOf(u) = NameOf(t)
  <2>1. \A id \in Ids(t) : u.routersById[id + 1].name = t.routersById[id + 1].name
    BY <1>3, <1>5, <1>6, <1>9
  <2>. QED
    BY <1>10, <2>1 DEF NameOf
<1>12. /\ \A q : RouterFits(t, q) <=> RouterFits(u, q)
       /\ Delivered(u) = Delivered(t)
  BY <1>4, <1>10, <1>11 DEF RouterFits, Delivered
<1>13. RouterFits(t, gone)
  BY <1>5 DEF RouterFits
<1>14. ByIdFits(u)
  <2>1. 1 \in 1..Len(t.routersById)
    BY <1>6
  <2>2. u.routersById # <<>> /\ u.routersById[1] = Self(u.name)
    BY <1>4, <1>7, <1>8, <1>9, <2>1, Empty
  <2>3. ASSUME NEW i \in 1..Len(t.routersById)
        PROVE  /\ u.routersById[i].id = i - 1
               /\ i > 1 => RouterFits(u, u.routersById[i])
    <3>1. CASE i = k
      BY <1>3, <1>5, <1>7, <1>9, <1>12, <1>13, <3>1
    <3>2. CASE i # k
      BY <1>8, <1>9, <1>12, <3>2
    <3>. QED
      BY <3>1, <3>2
  <2>. QED
    BY <1>9, <2>2, <2>3 DEF ByIdFits
<1>15. /\ t.routers \in Seq(RouterRecords)
       /\ \A q \in ToSet(t.routers) :
             q.id \in Ids(t) /\ t.routersById[q.id + 1] = q
       /\ \A p, q \in ToSet(t.routers) : p.name = q.name => p = q
       /\ Self(t.name) \in ToSet(t.routers)
  BY DEF TablesFit, ListFits
<1>16. /\ u.routers \in Seq(RouterRecords)
       /\ ToSet(u.routers) \subseteq
             {q \in ToSet(t.routers) : q.name # r.name} \cup {gone}
       /\ {q \in ToSet(t.routers) : q.name # r.name} \subseteq ToSet(u.routers)
  <2>1. CASE r.type = "permanent"
    <3>1. u.routers = PutRouter(t.routers, gone)
      BY <1>4, <2>1
    <3>2. /\ PutRouter(t.routers, gone) \in Seq(RouterRecords)
          /\ ToSet(PutRouter(t.routers, gone)) =
                {q \in ToSet(t.routers) : q.name # gone.name} \cup {gone}
      BY <1>5, <1>15, PutRouterSet
    <3>. QED
      BY <1>5, <3>1, <3>2
  <2>2. CASE r.type # "permanent"
    <3>1. u.routers = Without(t.routers, {r.name})
      BY <1>4, <2>2
    <3>2. PICK names : names = {r.name}
      OBVIOUS
    <3>3. /\ Without(t.routers, names) \in Seq(RouterRecords)
          /\ ToSet(Without(t.routers, names)) =
                {q \in ToSet(t.routers) : q.name \notin names}
      BY <1>15, WithoutSet
    <3>. QED
      BY <3>1, <3>2, <3>3
  <2>. QED
    BY <2>1, <2>2
<1>17. ListFits(u)
  <2>1. ASSUME NEW q \in ToSet(t.routers), q.name # r.name
        PROVE  q.id \in Ids(u) /\ u.routersById[q.id + 1] = q
    <3>1. q.id \in Ids(t) /\ t.routersById[q.id + 1] = q /\ q.id \in Nat
      BY <1>6, <1>15
    <3>2. q.id # r.id
      BY <1>6, <2>1, <3>1
    <3>3. q.id + 1 # k /\ q.id + 1 \in 1..Len(t.routersById)
      BY <1>3, <1>6, <1>7, <3>1, <3>2
    <3>. QED
      BY <1>9, <1>10, <3>1, <3>3
  <2>2. gone.id \in Ids(u) /\ u.routersById[gone.id + 1] = gone
    BY <1>3, <1>5, <1>7, <1>9, <1>10
  <2>3. Self(u.name) \in ToSet(u.routers)
    BY <1>4, <1>5, <1>15, <1>16 DEF Self, RouterRecord
  <2>4. \A p, q \in ToSet(u.routers) : p.name = q.name => p = q
    BY <1>5, <1>15, <1>16
  <2>5. \A q \in ToSet(u.routers) :
           q.id \in Ids(u) /\ u.routersById[q.id + 1] = q
    BY <1>16, <2>1, <2>2
  <2>. QED
    BY <1>16, <2>3, <2>4, <2>5 DEF ListFits
<1>18. ByPidFits(u)
  <2>1. /\ IsFiniteSet(t.routersByPid)
        /\ \A e \in t.routersByPid :
              /\ e.router.pid = e.pid /\ e.pid # NoPid
              /\ e.router.id \in Ids(t)
              /\ e.router.name = NameOf(t)[e.router.id]
              /\ e.router = Self(t.name) \/ RouterFits(t, e.router)
    BY DEF TablesFit, ByPidFits
  <2>2. u.routersByPid \subseteq t.routersByPid
    BY <1>4
  <2>3. IsFiniteSet(u.routersByPid)
    BY <2>1, <2>2, FS_Subset
  <2>. QED
    BY <1>4, <1>10, <1>11, <1>12, <2>1, <2>2, <2>3 DEF ByPidFits
<1>19. BridgesFit(u)
  <2>1. /\ t.bridges \in Seq([pid : ContextPid(Ids(t)), names : Seq(Node)])
        /\ \A b \in ToSet(t.bridges) :
              /\ \A name \in ToSet(b.names) :
                    name # t.name /\ name = Towards(b.pid.proc)
              /\ \E e \in t.routersByPid : e.pid = b.pid
    BY DEF TablesFit, BridgesFit
  <2>2. \A b \in ToSet(t.bridges) : \E e \in u.routersByPid : e.pid = b.pid
    BY <1>4, <2>1
  <2>3. u.bridges \in Seq([pid : ContextPid(Ids(u)), names : Seq(Node)])
    BY <1>4, <1>10, <2>1
  <2>4. \A b \in ToSet(u.bridges) :
           /\ \A name \in ToSet(b.names) :
                 name # u.name /\ name = Towards(b.pid.proc)
           /\ \E e \in u.routersByPid : e.pid = b.pid
    <3>1. u.bridges = t.bridges /\ u.name = t.name
      BY <1>4
    <3>. QED
      BY <2>1, <2>2, <3>1
  <2>. QED
    BY <2>3, <2>4 DEF BridgesFit
<1>20. TablesFit(u)
  <2>1. u.out \in Seq(Delivered(u))
    BY <1>4, <1>12 DEF TablesFit
  <2>2. u.name \in Node /\ u.monitors \subseteq Node /\ IsTables(u)
    BY <1>4 DEF TablesFit
  <2>. QED
    BY <1>14, <1>17, <1>18, <1>19, <2>1, <2>2 DEF TablesFit
<1>. QED
  BY <1>1, <1>4, <1>11, <1>16, <1>20

(* What is left to do in unregisterRouter, on a node with these ids. *)
Tasks(ids) ==
    [does : {"call"}, pid : ContextPid(ids)]
    \cup [does : {"visit"}, name : Node, source : Node]
    \cup [does : {"tell"}, pid : ContextPid(ids)]

(* A run of unregisterRouter that began with the tables t. *)
Unregisterable(t, u) ==
    /\ TablesFit(u.tables) /\ Onward(t, u.tables) /\ Ids(u.tables) = Ids(t)
    /\ u.todo \in Seq(Tasks(Ids(t)))

(* A call takes the router out of the Maps, and its watchers know.         *)
LEMMA CalledFits ==
    ASSUME NEW t, TablesFit(t), NEW pid \in ContextPid(Ids(t)),
           NEW rest \in Seq(Tasks(Ids(t)))
    PROVE  Unregisterable(t, Called(t, pid, rest))
<1>1. PICK u : u = BridgeDropped(t, pid)
  OBVIOUS
<1>2. /\ TablesFit(u) /\ u.name = t.name
      /\ u.routersById = t.routersById
      /\ u.routersByPid = t.routersByPid
      /\ u.monitors = t.monitors /\ u.out = t.out
      /\ ToSet(u.routers) \subseteq ToSet(t.routers)
      /\ \A r \in ToSet(t.routers) :
            \/ r \in ToSet(u.routers)
            \/ /\ r.name = Towards(pid.proc)
               /\ \E e \in t.routersByPid : e.pid = pid
      /\ \A b \in ToSet(u.bridges) : b.pid # pid
  <2>1. Debridged(t, pid, u)
    BY <1>1, BridgeDroppedFits
  <2>. QED
    BY <2>1 DEF Debridged
<1>3. /\ Ids(u) = Ids(t) /\ NameOf(u) = NameOf(t)
      /\ \A r : RouterFits(t, r) <=> RouterFits(u, r)
      /\ Extends(NameOf(t), NameOf(u))
  BY <1>2, SameIds
<1>4. CASE \A e \in u.routersByPid : e.pid # pid
  <2>1. Called(t, pid, rest) = [tables |-> u, todo |-> rest]
    BY <1>1, <1>4 DEF Called
  <2>2. \A m : Watches(t, m) => Watches(u, m)
    BY <1>2, <1>4 DEF Watches, Lives
  <2>3. Onward(t, u)
    BY <1>2, <1>3, <2>2 DEF Onward
  <2>. QED
    BY <1>2, <1>3, <2>1, <2>3 DEF Unregisterable
<1>5. CASE ~\A e \in u.routersByPid : e.pid # pid
  <2>1. PICK r : r = (CHOOSE e \in u.routersByPid : e.pid = pid).router
    OBVIOUS
  <2>2. \E e \in u.routersByPid : e.pid = pid /\ e.router = r
    BY <1>5, <2>1
  <2>3. /\ r.pid = pid /\ r.id \in Ids(u) /\ r.name = NameOf(u)[r.id]
        /\ r = Self(u.name) \/ RouterFits(u, r)
    BY <1>2, <2>2 DEF TablesFit, ByPidFits
  <2>4. r # Self(u.name)
    BY <2>3, Ends DEF Self, RouterRecord, Local, Pid, ContextPid
  <2>5. r.name \in Node /\ r.name = Towards(pid.proc)
    <3>1. pid # NoPid
      BY IdsOf, NoPids DEF ContextPid, TablesFit
    <3>. QED
      BY <2>3, <2>4, <3>1 DEF RouterFits, RouterRecords
  <2>6. PICK v : v = WatchersTold(u, r.name)
    OBVIOUS
  <2>7. /\ TablesFit(v) /\ v.name = u.name /\ v.routers = u.routers
        /\ v.routersById = u.routersById
        /\ v.routersByPid = u.routersByPid /\ v.bridges = u.bridges
        /\ ToSet(u.out) \subseteq ToSet(v.out)
        /\ \A m \in u.monitors :
              IF m = r.name THEN Reported(v, m) ELSE m \in v.monitors
    BY <1>2, <2>5, <2>6, WatchersToldFit
  <2>8. /\ Ids(v) = Ids(u) /\ NameOf(v) = NameOf(u)
        /\ \A q : RouterFits(u, q) <=> RouterFits(v, q)
    BY <2>7, SameIds
  <2>9. PICK w : w = Uninstalled(v, r, pid)
    OBVIOUS
  <2>10. /\ TablesFit(w) /\ w.name = v.name /\ NameOf(w) = NameOf(v)
         /\ w.monitors = v.monitors /\ w.out = v.out
         /\ \A q \in ToSet(v.routers) : q.name # r.name => q \in ToSet(w.routers)
    <3>1. /\ RouterFits(v, r) /\ r.id \in Ids(v) /\ r.name = NameOf(v)[r.id]
          /\ \A b \in ToSet(v.bridges) : b.pid # pid
      BY <1>2, <2>3, <2>4, <2>7, <2>8
    <3>. QED
      BY <2>3, <2>7, <2>9, <3>1, UninstalledFits
  <2>11. PICK todo : todo = DependentsLost(w, r.name) \o <<Tell(pid)>> \o rest
    OBVIOUS
  <2>12. Called(t, pid, rest) = [tables |-> w, todo |-> todo]
    BY <1>1, <1>5, <2>1, <2>6, <2>9, <2>11 DEF Called
  <2>13. NameOf(w) = NameOf(t) /\ Ids(w) = Ids(t)
    <3>1. NameOf(w) = NameOf(t)
      BY <1>3, <2>8, <2>10
    <3>2. DOMAIN NameOf(w) = Ids(w) /\ DOMAIN NameOf(t) = Ids(t)
      BY DEF NameOf
    <3>. QED
      BY <3>1, <3>2
  <2>14. todo \in Seq(Tasks(Ids(t)))
    <3>1. PICK T : T = Tasks(Ids(t))
      OBVIOUS
    <3>2. PICK visits : visits = DependentsLost(w, r.name)
      OBVIOUS
    <3>3. visits \in Seq(T)
      <4>1. w.routers \in Seq(RouterRecords)
        BY <2>10 DEF TablesFit, ListFits
      <4>2. /\ Len(w.routers) \in Nat /\ DOMAIN w.routers = 1..Len(w.routers)
            /\ \A i \in 1..Len(w.routers) : w.routers[i] \in RouterRecords
        BY <4>1, Elements
      <4>3. visits = [i \in 1..Len(w.routers) |-> Visit(w.routers[i].name, r.name)]
        BY <3>2, <4>2 DEF DependentsLost
      <4>4. \A i \in 1..Len(w.routers) : visits[i] \in T
        BY <2>5, <3>1, <4>2, <4>3 DEF RouterRecords, Visit, Tasks
      <4>5. visits = [i \in 1..Len(w.routers) |-> visits[i]]
        BY <4>3
      <4>. QED
        BY <4>2, <4>4, <4>5, Filled
    <3>4. Tell(pid) \in T
      BY <3>1 DEF Tell, Tasks
    <3>5. <<Tell(pid)>> \in Seq(T)
      BY <3>4, One
    <3>6. rest \in Seq(T)
      BY <3>1
    <3>7. visits \o <<Tell(pid)>> \in Seq(T)
      BY <3>3, <3>5, Joined
    <3>8. (visits \o <<Tell(pid)>>) \o rest \in Seq(T)
      BY <3>6, <3>7, Joined
    <3>. QED
      BY <2>11, <3>1, <3>2, <3>8
  <2>15. ASSUME NEW m, Watches(t, m)
         PROVE  Watches(w, m) \/ Reported(w, m)
    <3>1. m \in u.monitors
      BY <1>2, <2>15 DEF Watches
    <3>2. CASE m = r.name
      BY <2>7, <2>10, <3>1, <3>2 DEF Reported
    <3>3. CASE m # r.name
      <4>1. PICK q \in ToSet(t.routers) : q.name = m /\ q.pid # NoPid
        BY <2>15 DEF Watches, Lives
      <4>2. q \in ToSet(w.routers)
        BY <1>2, <2>5, <2>7, <2>10, <3>3, <4>1
      <4>. QED
        BY <2>7, <2>10, <3>1, <3>3, <4>1, <4>2 DEF Watches, Lives
    <3>. QED
      BY <3>2, <3>3
  <2>16. Onward(t, w)
    BY <1>2, <2>7, <2>10, <2>13, <2>15, ExtendsSame DEF Onward, Extends
  <2>. QED
    BY <2>10, <2>12, <2>13, <2>14, <2>16 DEF Unregisterable
<1>. QED
  BY <1>4, <1>5

(* Only routers of other nodes are unregistered in the loop.               *)
LEMMA VisitedFits ==
    ASSUME NEW t, TablesFit(t), NEW name, NEW source \in Node,
           NEW rest \in Seq(Tasks(Ids(t)))
    PROVE  Unregisterable(t, Visited(t, name, source, rest))
<1>1. CASE ~(/\ Knows(t, name) /\ RouterOf(t, name).source = source
             /\ RouterOf(t, name).pid # NoPid)
  BY <1>1, OnwardSame DEF Visited, Unregisterable
<1>2. CASE /\ Knows(t, name) /\ RouterOf(t, name).source = source
           /\ RouterOf(t, name).pid # NoPid
  <2>1. PICK r : r = RouterOf(t, name)
    OBVIOUS
  <2>2. r \in RouterRecords /\ r.id \in Ids(t) /\ r = t.routersById[r.id + 1]
    BY <1>2, <2>1, KnownRouter DEF TablesFit
  <2>3. r.id # 0
    <3>1. t.routersById[1].source = "none"
      BY DEF TablesFit, ByIdFits, Self, RouterRecord
    <3>. QED
      BY <1>2, <2>1, <2>2, <3>1, NetworkAssumption
  <2>4. RouterFits(t, r)
    <3>1. r.id + 1 \in 1..Len(t.routersById) /\ r.id \in Nat
      BY <2>2, IdsOf DEF TablesFit
    <3>2. r.id + 1 > 1
      BY <2>3, <3>1
    <3>. QED
      BY <2>2, <3>1, <3>2 DEF TablesFit, ByIdFits
  <2>5. r.pid \in ContextPid(Ids(t))
    BY <1>2, <2>1, <2>4 DEF RouterFits
  <2>6. PICK T : T = Tasks(Ids(t))
    OBVIOUS
  <2>7. Call(r.pid) \in T
    BY <2>5, <2>6 DEF Call, Tasks
  <2>8. <<Call(r.pid)>> \o rest \in Seq(T)
    <3>1. <<Call(r.pid)>> \in Seq(T)
      BY <2>7, One
    <3>2. rest \in Seq(T)
      BY <2>6
    <3>. QED
      BY <3>1, <3>2, Joined
  <2>. QED
    BY <1>2, <2>1, <2>6, <2>8, OnwardSame DEF Visited, Unregisterable
<1>. QED
  BY <1>1, <1>2

(* The peers are told of a lost pid that they may have.                    *)
LEMMA ToldFits ==
    ASSUME NEW t, TablesFit(t), NEW pid \in ContextPid(Ids(t)),
           NEW rest \in Seq(Tasks(Ids(t)))
    PROVE  Unregisterable(t, [tables |-> PeersToldLost(t, pid), todo |-> rest])
<1>1. Lost(pid) \in Notices(NameOf(t))
  BY DEF Lost, Notices, NameOf
<1>2. PICK q : q = Deliveries(t, Lost(pid))
  OBVIOUS
<1>3. q \in Seq(Delivered(t))
  BY <1>1, <1>2, DeliveriesFit
<1>4. PeersToldLost(t, pid) = Sending(t, q)
  BY <1>2 DEF PeersToldLost, Sending
<1>5. TablesFit(Sending(t, q)) /\ Onward(t, Sending(t, q))
  BY <1>3, SendingFits
<1>6. Ids(Sending(t, q)) = Ids(t)
  BY DEF Sending, Ids, TablesFit, IsTables
<1>. QED
  BY <1>4, <1>5, <1>6 DEF Unregisterable

(* Every step of unregisterRouter.                                         *)
LEMMA UnregisteringFits ==
    ASSUME NEW t, NEW u, Unregisterable(t, u)
    PROVE  Unregisterable(t, Unregistering(u))
<1>1. CASE u.todo = <<>>
  BY <1>1 DEF Unregistering
<1>2. CASE u.todo # <<>>
  <2>1. PICK T : T = Tasks(Ids(t))
    OBVIOUS
  <2>2. PICK s : s = u.tables
    OBVIOUS
  <2>3. PICK now : now = Head(u.todo)
    OBVIOUS
  <2>4. PICK rest : rest = Tail(u.todo)
    OBVIOUS
  <2>5. now \in T /\ rest \in Seq(T)
    <3>1. u.todo \in Seq(T)
      BY <2>1 DEF Unregisterable
    <3>. QED
      BY <1>2, <2>3, <2>4, <3>1, Rested
  <2>6. TablesFit(s) /\ Onward(t, s) /\ Ids(s) = Ids(t)
    BY <2>2 DEF Unregisterable
  <2>7. rest \in Seq(Tasks(Ids(s)))
    BY <2>1, <2>5, <2>6
  <2>8. ASSUME NEW v, Unregisterable(s, v)
        PROVE  Unregisterable(t, v)
    BY <2>6, <2>8, OnwardOn DEF Unregisterable
  <2>9. CASE now.does = "call"
    <3>1. now.pid \in ContextPid(Ids(s))
      BY <2>1, <2>5, <2>6, <2>9 DEF Tasks
    <3>2. Unregistering(u) = Called(s, now.pid, rest)
      BY <1>2, <2>2, <2>3, <2>4, <2>9 DEF Unregistering
    <3>. QED
      BY <2>6, <2>7, <2>8, <3>1, <3>2, CalledFits
  <2>10. CASE now.does = "visit"
    <3>1. now.source \in Node
      BY <2>1, <2>5, <2>10 DEF Tasks
    <3>2. Unregistering(u) = Visited(s, now.name, now.source, rest)
      BY <1>2, <2>2, <2>3, <2>4, <2>10 DEF Unregistering
    <3>. QED
      BY <2>6, <2>7, <2>8, <3>1, <3>2, VisitedFits
  <2>11. CASE now.does \notin {"call", "visit"}
    <3>1. now.pid \in ContextPid(Ids(s))
      BY <2>1, <2>5, <2>6, <2>11 DEF Tasks
    <3>2. Unregistering(u) = [tables |-> PeersToldLost(s, now.pid), todo |-> rest]
      BY <1>2, <2>2, <2>3, <2>4, <2>11 DEF Unregistering
    <3>. QED
      BY <2>6, <2>7, <2>8, <3>1, <3>2, ToldFits
  <2>. QED
    BY <2>9, <2>10, <2>11
<1>. QED
  BY <1>1, <1>2

(* unregisterRouter as a whole.                                            *)
LEMMA UnregisterFits ==
    ASSUME NEW t, TablesFit(t), NEW pid \in ContextPid(Ids(t))
    PROVE  TablesFit(UnregisterRouter(t, pid)) /\ Onward(t, UnregisterRouter(t, pid))
<1>1. PICK n : n = StepsToUnregister(t)
  OBVIOUS
<1>2. n \in Nat
  <2>1. Cardinality(t.routersByPid) \in Nat
    BY FS_CardinalityType DEF TablesFit, ByPidFits
  <2>2. Len(t.routers) \in Nat
    BY Elements DEF TablesFit, ListFits
  <2>3. PICK a \in Nat : a = Cardinality(t.routersByPid)
    BY <2>1
  <2>4. PICK b \in Nat : b = 2 * (Len(t.routers) + a) + 1
    BY <2>2
  <2>5. n = 1 + a * b
    BY <1>1, <2>3, <2>4 DEF StepsToUnregister
  <2>6. a * b \in Nat
    OBVIOUS
  <2>. QED
    BY <2>5, <2>6
<1>3. PICK f : /\ f[0] = [tables |-> t, todo |-> <<Call(pid)>>]
               /\ \A k \in 1..n : f[k] = Unregistering(f[k - 1])
               /\ Unregistered(t, pid) = f[n]
  BY <1>1, <1>2, Unregisters
<1>4. Unregisterable(t, f[0])
  <2>1. PICK T : T = Tasks(Ids(t))
    OBVIOUS
  <2>2. Call(pid) \in T
    BY <2>1 DEF Call, Tasks
  <2>3. <<Call(pid)>> \in Seq(T)
    BY <2>2, One
  <2>. QED
    BY <1>3, <2>1, <2>3, OnwardSame DEF Unregisterable
<1> DEFINE Wrong == {k \in 0..n : ~Unregisterable(t, f[k])}
<1>5. ASSUME Wrong # {}
      PROVE  FALSE
  <2>1. Wrong \in SUBSET Nat
    BY <1>2
  <2>2. PICK k \in Wrong : \A j \in Wrong : k <= j
    <3> HIDE DEF Wrong
    <3>. QED
      BY <1>5, <2>1, Least
  <2>3. k \in 1..n /\ k - 1 \in 0..n /\ ~Unregisterable(t, f[k])
    BY <1>2, <1>4, <2>2
  <2>4. Unregisterable(t, f[k - 1])
    BY <1>2, <2>2, <2>3
  <2>5. Unregisterable(t, Unregistering(f[k - 1]))
    BY <2>4, UnregisteringFits
  <2>. QED
    BY <1>3, <2>3, <2>5
<1>6. Unregisterable(t, f[n])
  BY <1>2, <1>5
<1>. QED
  BY <1>3, <1>6 DEF Unregisterable, UnregisterRouter

(* monitorNode.                                                            *)
LEMMA MonitorFits ==
    ASSUME NEW t, TablesFit(t), NEW name \in Node
    PROVE  TablesFit(MonitorNode(t, name)) /\ Onward(t, MonitorNode(t, name))
<1>1. CASE ~Knows(t, name)
  <2>1. PICK d : d = [to |-> Local(User), item |-> Nodedown(name)]
    OBVIOUS
  <2>2. d \in Delivered(t)
    BY <2>1 DEF Delivered
  <2>3. <<d>> \in Seq(Delivered(t))
    BY <2>2, One
  <2>4. Append(t.out, d) = t.out \o <<d>>
    <3>1. t.out \in Seq(Delivered(t))
      BY DEF TablesFit
    <3>. QED
      BY <2>2, <3>1
  <2>5. MonitorNode(t, name) = Sending(t, <<d>>)
    BY <1>1, <2>1, <2>4 DEF MonitorNode, Sending
  <2>. QED
    BY <2>3, <2>5, SendingFits
<1>2. CASE Knows(t, name)
  <2>1. PICK u : u = MonitorNode(t, name)
    OBVIOUS
  <2>2. /\ u.name = t.name /\ u.routers = t.routers
        /\ u.routersById = t.routersById /\ u.routersByPid = t.routersByPid
        /\ u.bridges = t.bridges /\ u.monitors = t.monitors \cup {name}
        /\ u.out = t.out /\ IsTables(u)
    BY <1>2, <2>1 DEF MonitorNode, TablesFit, IsTables
  <2>3. /\ Ids(u) = Ids(t) /\ NameOf(u) = NameOf(t)
        /\ Delivered(u) = Delivered(t)
        /\ ByIdFits(t) => ByIdFits(u)
        /\ \A r : RouterFits(t, r) <=> RouterFits(u, r)
        /\ Extends(NameOf(t), NameOf(u))
    BY <2>2, SameIds
  <2>4. ListFits(u)
    BY <2>2, <2>3 DEF TablesFit, ListFits
  <2>5. ByPidFits(u)
    BY <2>2, <2>3 DEF TablesFit, ByPidFits
  <2>6. BridgesFit(u)
    BY <2>2, <2>3 DEF TablesFit, BridgesFit
  <2>7. \A m : Watches(t, m) => Watches(u, m)
    BY <2>2 DEF Watches, Lives
  <2>8. u.out \in Seq(Delivered(u))
    BY <2>2, <2>3 DEF TablesFit
  <2>. QED
    BY <2>1, <2>2, <2>3, <2>4, <2>5, <2>6, <2>7, <2>8 DEF TablesFit, Onward
<1>. QED
  BY <1>1, <1>2

-----------------------------------------------------------------------------
(* unregisterRouter returns.                                               *)

(* Picked makes no sequence longer.                                        *)
LEMMA PickedLen ==
    ASSUME NEW S, NEW s \in Seq(S), NEW I
    PROVE  Len(Picked(s, I)) \in Nat /\ Len(Picked(s, I)) <= Len(s)
<1>0. Len(s) \in Nat /\ \A i \in 1..Len(s) : s[i] \in S
  BY Elements
<1>1. PICK p : /\ p = [i \in 0..Len(s) |->
                             IF i = 0 THEN <<>>
                             ELSE IF i \in I THEN Append(p[i - 1], s[i])
                                  ELSE p[i - 1]]
               /\ Picked(s, I) = p[Len(s)]
  BY PickedRuns
<1>2. p[0] = <<>>
  <2>1. 0 \in 0..Len(s)
    BY <1>0
  <2>. QED
    BY <1>1, <2>1
<1>3. ASSUME NEW i \in 1..Len(s)
      PROVE  p[i] = IF i \in I THEN Append(p[i - 1], s[i]) ELSE p[i - 1]
  <2>1. i \in 0..Len(s) /\ i # 0
    BY <1>0
  <2>. QED
    BY <1>1, <2>1
<1> DEFINE Right(q, n) == q \in Seq(S) /\ Len(q) \in Nat /\ Len(q) <= n
           T == {n \in 0..Len(s) : ~Right(p[n], n)}
<1>4. T = {}
  <2>1. SUFFICES ASSUME T # {} PROVE FALSE
    OBVIOUS
  <2>2. PICK n \in T : \A y \in T : n <= y
    <3>1. T \subseteq Nat
      BY <1>0
    <3> HIDE DEF T
    <3>. QED
      BY <2>1, <3>1, Least
  <2>3. n # 0
    <3>1. Right(p[0], 0)
      BY <1>2, Empty
    <3> HIDE DEF Right
    <3>. QED
      BY <2>2, <3>1
  <2>4. n \in 1..Len(s) /\ n - 1 \in 0..Len(s) /\ n - 1 \notin T
    <3> HIDE DEF Right
    <3>1. n \in 1..Len(s)
      BY <1>0, <2>3
    <3>2. n - 1 \in 0..Len(s)
      BY <1>0, <3>1
    <3> HIDE DEF T
    <3>. QED
      BY <1>0, <2>2, <3>1, <3>2
  <2>5. PICK q : q = p[n - 1]
    OBVIOUS
  <2>6. Right(q, n - 1)
    <3> HIDE DEF Right
    <3>. QED
      BY <2>4, <2>5
  <2>7. Right(p[n], n)
    <3>1. CASE n \notin I
      BY <1>0, <1>3, <2>4, <2>5, <2>6, <3>1
    <3>2. CASE n \in I
      <4>1. p[n] = Append(q, s[n]) /\ s[n] \in S
        BY <1>0, <1>3, <2>4, <2>5, <3>2
      <4>2. Append(q, s[n]) \in Seq(S) /\ Len(Append(q, s[n])) = Len(q) + 1
        BY <2>6, <4>1, Appended
      <4>. QED
        BY <1>0, <2>4, <2>6, <4>1, <4>2
    <3>. QED
      BY <3>1, <3>2
  <2> HIDE DEF Right
  <2>. QED
    BY <2>2, <2>7
<1>5. Right(p[Len(s)], Len(s))
  <2> HIDE DEF Right
  <2>. QED
    BY <1>0, <1>4
<1>. QED
  BY <1>1, <1>5

(* set adds one router at most.                                            *)
LEMMA PutRouterLen ==
    ASSUME NEW S, NEW routers \in Seq(S), NEW router \in S
    PROVE  /\ Len(PutRouter(routers, router)) \in Nat
           /\ Len(PutRouter(routers, router)) <= Len(routers) + 1
<1>1. Len(routers) \in Nat /\ DOMAIN routers = 1..Len(routers)
      /\ \A i \in 1..Len(routers) : routers[i] \in S
  BY Elements
<1>2. CASE \E i \in DOMAIN routers : routers[i].name = router.name
  <2>1. PICK q : q = PutRouter(routers, router)
    OBVIOUS
  <2>2. q = [i \in 1..Len(routers) |->
                IF routers[i].name = router.name THEN router ELSE routers[i]]
    BY <1>1, <1>2, <2>1 DEF PutRouter
  <2>3. q = [i \in 1..Len(routers) |-> q[i]] /\ \A i \in 1..Len(routers) : q[i] \in S
    BY <1>1, <2>2
  <2>4. Len(q) = Len(routers)
    BY <1>1, <2>3, Filled
  <2>. QED
    BY <1>1, <2>1, <2>4
<1>3. CASE ~\E i \in DOMAIN routers : routers[i].name = router.name
  <2>1. PutRouter(routers, router) = Append(routers, router)
    BY <1>3 DEF PutRouter
  <2>2. Len(Append(routers, router)) = Len(routers) + 1
    BY Appended
  <2>. QED
    BY <1>1, <2>1, <2>2
<1>. QED
  BY <1>2, <1>3

(* A bound for the steps that the tasks take without the calls that find   *)
(* their pid.                                                              *)
Steps(task) == IF task.does = "visit" THEN 2 ELSE 1
Load(q, w) ==
    \E g \in [1..Len(q) + 1 -> Nat] :
        g[1] <= w /\ \A i \in 1..Len(q) : g[i] >= g[i + 1] + Steps(q[i])

(* Three sequences in a row, from either side. *)
InRow(p, q, r) == (p \o q) \o r = p \o (q \o r)

(* The concatenation of three sequences is associative.                    *)
LEMMA Associated ==
    ASSUME NEW S, NEW p \in Seq(S), NEW q \in Seq(S), NEW r \in Seq(S)
    PROVE  InRow(p, q, r)
BY ConcatAssociative DEF InRow

(* The first task done.                                                    *)
LEMMA LoadTail ==
    ASSUME NEW S, NEW q \in Seq(S), q # <<>>, NEW w \in Nat, Load(q, w)
    PROVE  w >= Steps(Head(q)) /\ Load(Tail(q), w - Steps(Head(q)))
<1>1. PICK n \in Nat : n = Len(q) /\ n >= 1
  BY Rested
<1>2. /\ Head(q) = q[1] /\ Len(Tail(q)) = n - 1
      /\ \A i \in 1..n - 1 : Tail(q)[i] = q[i + 1]
  BY <1>1, Rested
<1>3. PICK g \in [1..n + 1 -> Nat] :
         g[1] <= w /\ \A i \in 1..n : g[i] >= g[i + 1] + Steps(q[i])
  BY <1>1 DEF Load
<1>4. PICK h : h = [i \in 1..n |-> g[i + 1]]
  OBVIOUS
<1>5. \A i \in 1..n : h[i] = g[i + 1] /\ h[i] \in Nat
  BY <1>4
<1>6. h \in [1..n -> Nat]
  BY <1>4, <1>5
<1>7. Steps(q[1]) \in 1..2
  BY DEF Steps
<1>8. 1 \in 1..n /\ g[1] \in Nat
  BY <1>1
<1>9. g[1] >= h[1] + Steps(q[1])
  BY <1>3, <1>5, <1>8
<1>10. h[1] <= w - Steps(q[1]) /\ w >= Steps(q[1])
  BY <1>3, <1>5, <1>7, <1>8, <1>9
<1>11. \A i \in 1..n - 1 : h[i] >= h[i + 1] + Steps(Tail(q)[i])
  <2>1. TAKE i \in 1..n - 1
  <2>2. i \in 1..n /\ i + 1 \in 1..n
    OBVIOUS
  <2>3. g[i + 1] >= g[(i + 1) + 1] + Steps(q[i + 1])
    BY <1>3, <2>2
  <2>. QED
    BY <1>2, <1>5, <2>2, <2>3
<1>12. n = Len(Tail(q)) + 1 /\ 1..Len(Tail(q)) = 1..n - 1
  BY <1>2
<1>13. Load(Tail(q), w - Steps(q[1]))
  BY <1>6, <1>10, <1>11, <1>12 DEF Load
<1>. QED
  BY <1>2, <1>10, <1>13

(* Some tasks in front of the others. *)
LEMMA LoadFront ==
    ASSUME NEW S, NEW p \in Seq(S), NEW q \in Seq(S), NEW w \in Nat, Load(q, w)
    PROVE  Load(p \o q, w + 2 * Len(p))
<1>1. PICK n \in Nat, k \in Nat : n = Len(p) /\ k = Len(q)
  BY Elements
<1>2. /\ Len(p \o q) = n + k
      /\ \A i \in 1..n + k : (p \o q)[i] = IF i <= n THEN p[i] ELSE q[i - n]
  BY <1>1, Joined
<1>3. PICK g \in [1..k + 1 -> Nat] :
         g[1] <= w /\ \A i \in 1..k : g[i] >= g[i + 1] + Steps(q[i])
  BY <1>1 DEF Load
<1>4. PICK h : h = [i \in 1..n + k + 1 |->
                      IF i <= n THEN w + 2 * (n + 1 - i) ELSE g[i - n]]
  OBVIOUS
<1>5. h \in [1..n + k + 1 -> Nat]
  <2>1. ASSUME NEW i \in 1..n + k + 1
        PROVE  h[i] \in Nat
    <3>1. CASE i <= n
      BY <1>4, <3>1
    <3>2. CASE ~(i <= n)
      <4>1. i - n \in 1..k + 1
        BY <3>2
      <4>. QED
        BY <1>4, <3>2, <4>1
    <3>. QED
      BY <3>1, <3>2
  <2>. QED
    BY <1>4, <2>1
<1>6. ASSUME NEW i \in 1..n + k
      PROVE  h[i] >= h[i + 1] + Steps((p \o q)[i])
  <2>1. i \in 1..n + k + 1 /\ i + 1 \in 1..n + k + 1
    OBVIOUS
  <2>2. PICK z \in 1..2 : z = Steps((p \o q)[i])
    <3>1. \A task : Steps(task) \in 1..2
      BY DEF Steps
    <3>. QED
      BY <3>1
  <2>3. i \in Int /\ n \in Int /\ w \in Int
    OBVIOUS
  <2>4. h[i] >= h[i + 1] + z
    <3>1. CASE i < n
      <4>1. PICK a, b : a = h[i] /\ b = h[i + 1]
        OBVIOUS
      <4>2. a = w + 2 * (n + 1 - i) /\ b = w + 2 * (n + 1 - (i + 1))
        BY <1>4, <2>1, <3>1, <4>1
      <4>. QED
        BY <2>3, <4>1, <4>2
    <3>2. CASE i = n
      <4>1. PICK a, b : a = h[i] /\ b = h[i + 1]
        OBVIOUS
      <4>2. a = w + 2 /\ b = g[1]
        BY <1>4, <2>1, <3>2, <4>1
      <4>3. b \in Nat /\ b <= w
        BY <1>3, <4>2
      <4>. QED
        BY <2>3, <4>1, <4>2, <4>3
    <3>3. CASE i > n
      <4>1. i - n \in 1..k /\ (i + 1) - n = (i - n) + 1
        BY <3>3
      <4>2. h[i] = g[i - n] /\ h[i + 1] = g[(i - n) + 1]
        BY <1>4, <2>1, <3>3, <4>1
      <4>3. (p \o q)[i] = q[i - n]
        BY <1>2, <3>3
      <4>. QED
        BY <1>3, <2>2, <4>1, <4>2, <4>3
    <3>. QED
      BY <2>3, <3>1, <3>2, <3>3
  <2>. QED
    BY <2>2, <2>4
<1>7. h[1] <= w + 2 * n
  <2>1. 1 \in 1..n + k + 1
    OBVIOUS
  <2>2. CASE n = 0
    <3>1. h[1] = g[1]
      BY <1>4, <2>1, <2>2
    <3>. QED
      BY <1>3, <2>2, <3>1
  <2>3. CASE n # 0
    <3>1. h[1] = w + 2 * (n + 1 - 1)
      BY <1>4, <2>1, <2>3
    <3>. QED
      BY <3>1
  <2>. QED
    BY <2>2, <2>3
<1>. QED
  BY <1>1, <1>2, <1>5, <1>6, <1>7 DEF Load

(* One task that takes one step, in front of the others. *)
LEMMA LoadOne ==
    ASSUME NEW S, NEW x \in S, x.does # "visit", NEW q \in Seq(S),
           NEW w \in Nat, Load(q, w)
    PROVE  Load(<<x>> \o q, w + 1)
<1>1. PICK k \in Nat : k = Len(q)
  BY Elements
<1>2. /\ Len(<<x>> \o q) = k + 1
      /\ \A i \in 1..k + 1 : (<<x>> \o q)[i] = IF i <= 1 THEN x ELSE q[i - 1]
  <2>1. <<x>> \in Seq(S) /\ Len(<<x>>) = 1 /\ <<x>>[1] = x
    BY One
  <2>. QED
    BY <1>1, <2>1, Joined
<1>3. PICK g \in [1..k + 1 -> Nat] :
         g[1] <= w /\ \A i \in 1..k : g[i] >= g[i + 1] + Steps(q[i])
  BY <1>1 DEF Load
<1>4. PICK h : h = [i \in 1..k + 2 |-> IF i = 1 THEN w + 1 ELSE g[i - 1]]
  OBVIOUS
<1>5. h \in [1..(k + 1) + 1 -> Nat]
  BY <1>4
<1>6. ASSUME NEW i \in 1..k + 1
      PROVE  h[i] >= h[i + 1] + Steps((<<x>> \o q)[i])
  <2>1. h[i + 1] = g[i]
    BY <1>4
  <2>2. CASE i = 1
    <3>1. h[i] = w + 1 /\ (<<x>> \o q)[i] = x
      BY <1>2, <1>4, <2>2
    <3>2. g[1] \in Nat
      OBVIOUS
    <3>. QED
      BY <1>3, <2>1, <2>2, <3>1, <3>2 DEF Steps
  <2>3. CASE i # 1
    <3>1. i - 1 \in 1..k /\ (i - 1) + 1 = i
      BY <2>3
    <3>2. h[i] = g[i - 1] /\ (<<x>> \o q)[i] = q[i - 1]
      BY <1>2, <1>4, <2>3
    <3>3. g[i - 1] >= g[(i - 1) + 1] + Steps(q[i - 1])
      BY <1>3, <3>1
    <3>. QED
      BY <2>1, <3>1, <3>2, <3>3
  <2>. QED
    BY <2>2, <2>3
<1>7. h[1] <= w + 1
  BY <1>4
<1>. QED
  BY <1>2, <1>5, <1>6, <1>7 DEF Load

(* How many steps there are at most to the end of unregisterRouter. *)
Within(M, u, m) ==
    /\ Len(u.tables.routers) + Cardinality(u.tables.routersByPid) <= M
    /\ \E w \in Nat :
          /\ Load(u.todo, w)
          /\ Cardinality(u.tables.routersByPid) * (2 * M + 1) + w <= m

(* A call that finds its pid. *)
LEMMA CalledShrinks ==
    ASSUME NEW t, TablesFit(t), NEW pid \in ContextPid(Ids(t)),
           NEW rest \in Seq(Tasks(Ids(t))), NEW w \in Nat, Load(rest, w),
           NEW c \in Nat, c = Cardinality(t.routersByPid),
           NEW M \in Nat, Len(t.routers) + c <= M,
           NEW u, u = Called(t, pid, rest)
    PROVE  Within(M, u, c * (2 * M + 1) + w)
<1>1. PICK dropped : dropped = BridgeDropped(t, pid)
  OBVIOUS
<1>2. /\ TablesFit(dropped) /\ dropped.routersByPid = t.routersByPid
      /\ Len(dropped.routers) \in Nat /\ Len(dropped.routers) <= Len(t.routers)
      /\ Len(t.routers) \in Nat
  <2>1. Debridged(t, pid, dropped)
    BY <1>1, BridgeDroppedFits
  <2>2. PICK names : dropped.routers = Without(t.routers, names)
    BY <1>1 DEF BridgeDropped, TablesFit, IsTables
  <2>3. PICK S : S = RouterRecords
    OBVIOUS
  <2>4. t.routers \in Seq(S)
    BY <2>3 DEF TablesFit, ListFits
  <2>5. PICK I : dropped.routers = Picked(t.routers, I)
    BY <2>2 DEF Without
  <2>. QED
    BY <2>1, <2>4, <2>5, PickedLen, Elements DEF Debridged
<1>3. CASE \A e \in dropped.routersByPid : e.pid # pid
  <2>1. u = [tables |-> dropped, todo |-> rest]
    BY <1>1, <1>3 DEF Called
  <2>. QED
    BY <1>2, <2>1 DEF Within
<1>4. CASE ~\A e \in dropped.routersByPid : e.pid # pid
  <2>1. PICK r : r = (CHOOSE e \in dropped.routersByPid : e.pid = pid).router
    OBVIOUS
  <2>2. PICK e \in dropped.routersByPid : e.pid = pid /\ e.router = r
    BY <1>4, <2>1
  <2>3. r \in RouterRecords
    <3>1. r = Self(dropped.name) \/ RouterFits(dropped, r)
      BY <1>2, <2>2 DEF TablesFit, ByPidFits
    <3>2. Self(dropped.name) \in RouterRecords
      BY <1>2 DEF Self, RouterRecord, RouterRecords, Local, Pid, TablesFit
    <3>. QED
      BY <3>1, <3>2 DEF RouterFits
  <2>4. PICK v : v = WatchersTold(dropped, r.name)
    OBVIOUS
  <2>5. /\ TablesFit(v) /\ v.routers = dropped.routers
        /\ v.routersByPid = dropped.routersByPid
    BY <1>2, <2>3, <2>4, WatchersToldFit DEF RouterRecords
  <2>6. PICK x : x = Uninstalled(v, r, pid)
    OBVIOUS
  <2>7. PICK gone : gone = [r EXCEPT !.pid = NoPid]
    OBVIOUS
  <2>8. /\ x.routers = IF r.type = "permanent" THEN PutRouter(v.routers, gone)
                       ELSE Without(v.routers, {r.name})
        /\ x.routersByPid = {a \in v.routersByPid : a.pid # pid}
    BY <2>5, <2>6, <2>7 DEF Uninstalled, TablesFit, IsTables
  <2>9. gone \in RouterRecords
    BY <2>3, <2>7 DEF RouterRecords
  <2>10. PICK n \in Nat : n = Len(x.routers) /\ n <= Len(t.routers) + 1
    <3>1. PICK S : S = RouterRecords
      OBVIOUS
    <3>2. v.routers \in Seq(S) /\ gone \in S
      BY <2>5, <2>9, <3>1 DEF TablesFit, ListFits
    <3>3. CASE r.type = "permanent"
      BY <1>2, <2>5, <2>8, <3>2, <3>3, PutRouterLen
    <3>4. CASE r.type # "permanent"
      <4>1. PICK I : x.routers = Picked(v.routers, I)
        BY <2>8, <3>4 DEF Without
      <4>. QED
        BY <1>2, <2>5, <3>2, <4>1, PickedLen
    <3>. QED
      BY <3>3, <3>4
  <2>11. PICK d \in Nat : d = Cardinality(x.routersByPid) /\ d <= c - 1
    <3>1. PICK P : P = t.routersByPid
      OBVIOUS
    <3>2. IsFiniteSet(P) /\ Cardinality(P) = c /\ e \in P
      BY <1>2, <2>2, <3>1 DEF TablesFit, ByPidFits
    <3>3. /\ IsFiniteSet(P \ {e}) /\ Cardinality(P \ {e}) = c - 1
      BY <3>2, FS_RemoveElement
    <3>4. x.routersByPid \subseteq P \ {e}
      BY <1>2, <2>2, <2>5, <2>8, <3>1
    <3>5. /\ IsFiniteSet(x.routersByPid)
          /\ Cardinality(x.routersByPid) <= Cardinality(P \ {e})
      BY <3>3, <3>4, FS_Subset
    <3>6. Cardinality(x.routersByPid) \in Nat
      BY <3>5, FS_CardinalityType
    <3>. QED
      BY <3>3, <3>5, <3>6
  <2>12. PICK todo : todo = DependentsLost(x, r.name) \o <<Tell(pid)>> \o rest
    OBVIOUS
  <2>13. u = [tables |-> x, todo |-> todo]
    BY <1>1, <1>4, <2>1, <2>4, <2>6, <2>12 DEF Called
  <2>14. Load(todo, w + 1 + 2 * n)
    <3>1. PICK visits : visits = DependentsLost(x, r.name)
      OBVIOUS
    <3>2. PICK S : S = Tasks(Ids(t)) \cup {Tell(pid)} \cup ToSet(visits)
      OBVIOUS
    <3>3. rest \in Seq(S) /\ Tell(pid) \in S /\ Tell(pid).does # "visit"
      <4>1. Tasks(Ids(t)) \subseteq S
        BY <3>2
      <4>. QED
        BY <3>2, <4>1, Wider DEF Tell
    <3>4. visits \in Seq(S) /\ Len(visits) = n
      <4>1. visits = [i \in DOMAIN x.routers |-> Visit(x.routers[i].name, r.name)]
        BY <3>1 DEF DependentsLost
      <4>2. DOMAIN x.routers = 1..n
        <5>1. x.routers \in Seq(RouterRecords)
          <6>1. v.routers \in Seq(RouterRecords)
            BY <2>5 DEF TablesFit, ListFits
          <6>2. PICK names : names = {r.name}
            OBVIOUS
          <6>3. /\ PutRouter(v.routers, gone) \in Seq(RouterRecords)
                /\ Without(v.routers, names) \in Seq(RouterRecords)
            BY <2>9, <6>1, PutRouterSet, WithoutSet
          <6>. QED
            BY <2>8, <6>2, <6>3
        <5>. QED
          BY <2>10, <5>1, Elements
      <4>3. visits = [i \in 1..n |-> visits[i]]
        BY <4>1, <4>2
      <4>4. \A i \in 1..n : visits[i] \in S
        BY <3>2, <4>3 DEF ToSet
      <4>. QED
        BY <4>3, <4>4, Filled
    <3>5. PICK tell : tell = <<Tell(pid)>>
      OBVIOUS
    <3>6. tell \o rest \in Seq(S) /\ Load(tell \o rest, w + 1)
      <4>1. tell \in Seq(S)
        BY <3>3, <3>5, One
      <4>2. tell \o rest \in Seq(S)
        BY <3>3, <4>1, Joined
      <4>. QED
        BY <3>3, <3>5, <4>2, LoadOne
    <3>7. Load(visits \o (tell \o rest), (w + 1) + 2 * n)
      <4>1. PICK q : q = tell \o rest
        OBVIOUS
      <4>2. PICK k \in Nat : k = w + 1
        OBVIOUS
      <4>3. Load(visits \o q, k + 2 * Len(visits))
        BY <3>4, <3>6, <4>1, <4>2, LoadFront
      <4>. QED
        BY <3>4, <4>1, <4>2, <4>3
    <3>8. (visits \o tell) \o rest = visits \o (tell \o rest)
      <4>1. PICK z : z = rest
        OBVIOUS
      <4>2. visits \in Seq(S) /\ tell \in Seq(S) /\ z \in Seq(S)
        BY <3>3, <3>4, <3>5, <4>1, One
      <4>3. InRow(visits, tell, z)
        BY <4>2, Associated
      <4>. QED
        BY <4>1, <4>3 DEF InRow
    <3>. QED
      BY <2>12, <3>1, <3>5, <3>7, <3>8
  <2>15. d * (2 * M + 1) + (w + 1 + 2 * n) <= c * (2 * M + 1) + w
    <3>1. PICK b \in Nat : b = 2 * M + 1
      OBVIOUS
    <3>2. PICK f \in Nat : c = d + 1 + f
      <4>1. c - 1 - d \in Nat /\ c = d + 1 + (c - 1 - d)
        BY <2>11
      <4>. QED
        BY <4>1
    <3>3. c * b = d * b + b + f * b
      BY <3>2
    <3>4. f * b \in Nat /\ d * b \in Nat /\ c * b \in Nat
      OBVIOUS
    <3>5. PICK db \in Nat, fb \in Nat, cb \in Nat :
             db = d * b /\ fb = f * b /\ cb = c * b
      BY <3>4
    <3>6. cb = db + b + fb
      BY <3>3, <3>5
    <3>7. n <= M
      <4>1. PICK len \in Nat : len = Len(t.routers)
        BY <1>2
      <4>2. len + c <= M /\ n <= len + 1 /\ c >= 1
        BY <2>10, <2>11, <4>1
      <4>. QED
        BY <4>2
    <3>8. db + (w + 1 + 2 * n) <= cb + w
      BY <3>1, <3>6, <3>7
    <3>. QED
      BY <3>1, <3>5, <3>8
  <2>16. Len(x.routers) + Cardinality(x.routersByPid) <= M
    <3>1. PICK len \in Nat : len = Len(t.routers)
      BY <1>2
    <3>2. len + c <= M /\ n <= len + 1 /\ d <= c - 1
      BY <2>10, <2>11, <3>1
    <3>3. n + d <= M
      BY <3>2
    <3>. QED
      BY <2>10, <2>11, <3>3
  <2>17. w + 1 + 2 * n \in Nat
    OBVIOUS
  <2>. QED
    BY <2>11, <2>13, <2>14, <2>15, <2>16, <2>17 DEF Within
<1>. QED
  BY <1>3, <1>4

(* Every step is one step less to go. *)
LEMMA UnregisteringShrinks ==
    ASSUME NEW t, NEW u, Unregisterable(t, u), u.todo # <<>>,
           NEW M \in Nat, NEW m \in Nat, Within(M, u, m)
    PROVE  m # 0 /\ Within(M, Unregistering(u), m - 1)
<1>1. PICK T : T = Tasks(Ids(t))
  OBVIOUS
<1>2. PICK s : s = u.tables
  OBVIOUS
<1>3. PICK now : now = Head(u.todo)
  OBVIOUS
<1>4. PICK rest : rest = Tail(u.todo)
  OBVIOUS
<1>5. u.todo \in Seq(T) /\ now \in T /\ rest \in Seq(T)
  <2>1. u.todo \in Seq(T)
    BY <1>1 DEF Unregisterable
  <2>. QED
    BY <1>3, <1>4, <2>1, Rested
<1>6. TablesFit(s) /\ Ids(s) = Ids(t)
  BY <1>2 DEF Unregisterable
<1>7. PICK w \in Nat : /\ Load(u.todo, w)
                       /\ Cardinality(s.routersByPid) * (2 * M + 1) + w <= m
  BY <1>2 DEF Within
<1>8. PICK c \in Nat : c = Cardinality(s.routersByPid)
  BY <1>6, FS_CardinalityType DEF TablesFit, ByPidFits
<1>9. PICK cb \in Nat : cb = c * (2 * M + 1)
  OBVIOUS
<1>10. Len(s.routers) + c <= M /\ cb + w <= m
  BY <1>2, <1>7, <1>8, <1>9 DEF Within
<1>11. PICK k \in 1..2 : k = Steps(now)
  <2>1. \A task : Steps(task) \in 1..2
    BY DEF Steps
  <2>. QED
    BY <2>1
<1>12. w >= k /\ Load(rest, w - k)
  BY <1>3, <1>4, <1>5, <1>7, <1>11, LoadTail
<1>13. PICK v \in Nat : v = w - k
  BY <1>12
<1>14. m # 0 /\ cb + v + k <= m
  BY <1>10, <1>12, <1>13
<1>15. rest \in Seq(Tasks(Ids(s)))
  BY <1>1, <1>5, <1>6
<1>16. PICK x : x = Unregistering(u)
  OBVIOUS
<1>17. CASE now.does = "call"
  <2>1. now.pid \in ContextPid(Ids(s))
    BY <1>1, <1>5, <1>6, <1>17 DEF Tasks
  <2>2. x = Called(s, now.pid, rest)
    BY <1>2, <1>3, <1>4, <1>16, <1>17 DEF Unregistering
  <2>3. Within(M, x, c * (2 * M + 1) + v)
    BY <1>6, <1>8, <1>10, <1>12, <1>13, <1>15, <2>1, <2>2, CalledShrinks
  <2>4. Within(M, x, cb + v)
    BY <1>9, <2>3
  <2>5. k >= 1 /\ cb + v <= m - 1
    BY <1>14
  <2>6. PICK z : z = Cardinality(x.tables.routersByPid) * (2 * M + 1)
    OBVIOUS
  <2>7. PICK y \in Nat : Load(x.todo, y) /\ z + y <= cb + v
    BY <2>4, <2>6 DEF Within
  <2>8. z \in Nat
    <3>1. Unregisterable(t, x)
      BY <1>16, UnregisteringFits
    <3>2. Cardinality(x.tables.routersByPid) \in Nat
      BY <3>1, FS_CardinalityType DEF Unregisterable, TablesFit, ByPidFits
    <3>. QED
      BY <2>6, <3>2
  <2>9. z + y <= m - 1
    BY <2>5, <2>7, <2>8
  <2>. QED
    BY <1>14, <1>16, <2>4, <2>6, <2>7, <2>9 DEF Within
<1>18. CASE now.does = "visit"
  <2>1. now.source \in Node
    BY <1>1, <1>5, <1>18 DEF Tasks
  <2>2. x = Visited(s, now.name, now.source, rest)
    BY <1>2, <1>3, <1>4, <1>16, <1>18 DEF Unregistering
  <2>3. k = 2
    BY <1>11, <1>18 DEF Steps
  <2>4. x.tables = s
    BY <2>2 DEF Visited
  <2>5. Load(x.todo, v + 1)
    <3>1. CASE x.todo = rest
      <4>1. Load(rest, v)
        BY <1>12, <1>13
      <4>2. PICK n \in Nat : n = Len(rest)
        BY <1>5, Elements
      <4>3. PICK g \in [1..n + 1 -> Nat] :
               g[1] <= v /\ \A i \in 1..n : g[i] >= g[i + 1] + Steps(rest[i])
        BY <4>1, <4>2 DEF Load
      <4>4. g[1] \in Nat /\ g[1] <= v + 1
        BY <4>3
      <4>. QED
        BY <3>1, <4>2, <4>3, <4>4 DEF Load
    <3>2. CASE x.todo # rest
      <4>1. PICK pid : x.todo = <<Call(pid)>> \o rest
        BY <2>2, <3>2 DEF Visited
      <4>2. PICK S : S = T \cup {Call(pid)}
        OBVIOUS
      <4>3. rest \in Seq(S) /\ Call(pid) \in S /\ Call(pid).does # "visit"
        <5>1. T \subseteq S
          BY <4>2
        <5>. QED
          BY <1>5, <4>2, <5>1, Wider DEF Call
      <4>4. Load(rest, v)
        BY <1>12, <1>13
      <4>5. Load(<<Call(pid)>> \o rest, v + 1)
        BY <4>3, <4>4, LoadOne
      <4>. QED
        BY <4>1, <4>5
    <3>. QED
      BY <3>1, <3>2
  <2>6. cb + (v + 1) <= m - 1 /\ v + 1 \in Nat
    BY <1>14, <2>3
  <2>7. c * (2 * M + 1) + (v + 1) <= m - 1
    BY <1>9, <2>6
  <2>. QED
    BY <1>8, <1>10, <1>14, <1>16, <2>4, <2>5, <2>6, <2>7 DEF Within
<1>19. CASE now.does \notin {"call", "visit"}
  <2>1. x = [tables |-> PeersToldLost(s, now.pid), todo |-> rest]
    BY <1>2, <1>3, <1>4, <1>16, <1>19 DEF Unregistering
  <2>2. /\ x.tables.routers = s.routers
        /\ x.tables.routersByPid = s.routersByPid /\ x.todo = rest
    BY <1>6, <2>1 DEF PeersToldLost, TablesFit, IsTables
  <2>3. cb + v <= m - 1
    BY <1>14
  <2>4. c * (2 * M + 1) + v <= m - 1
    BY <1>9, <2>3
  <2>. QED
    BY <1>8, <1>10, <1>12, <1>13, <1>14, <1>16, <2>2, <2>4 DEF Within
<1>. QED
  BY <1>17, <1>18, <1>19

(* unregisterRouter returns, on all tables of the invariant: it calls      *)
(* itself for the routers that lead through the lost one, also where two   *)
(* routers lead through each other, and every call that goes on takes a    *)
(* pid away.  Nothing of it is left over in the steps of Unregistered.     *)
THEOREM UnregisterReturns ==
    ASSUME NEW t, TablesFit(t), NEW pid \in ContextPid(Ids(t))
    PROVE  Unregistered(t, pid).todo = <<>>
<1>1. PICK n : n = StepsToUnregister(t)
  OBVIOUS
<1>2. PICK c \in Nat : c = Cardinality(t.routersByPid)
  BY FS_CardinalityType DEF TablesFit, ByPidFits
<1>3. PICK M \in Nat : M = Len(t.routers) + c
  <2>1. Len(t.routers) \in Nat
    BY Elements DEF TablesFit, ListFits
  <2>. QED
    BY <2>1
<1>4. PICK cb \in Nat : cb = c * (2 * M + 1)
  OBVIOUS
<1>5. n = 1 + cb /\ n \in Nat
  BY <1>1, <1>2, <1>3, <1>4 DEF StepsToUnregister
<1>6. PICK f : /\ f[0] = [tables |-> t, todo |-> <<Call(pid)>>]
               /\ \A k \in 1..n : f[k] = Unregistering(f[k - 1])
               /\ Unregistered(t, pid) = f[n]
  BY <1>1, <1>5, Unregisters
<1> DEFINE Right(u, k) == /\ Unregisterable(t, u)
                          /\ u.todo = <<>> \/ Within(M, u, n - k)
           Wrong == {k \in 0..n : ~Right(f[k], k)}
<1>7. Right(f[0], 0)
  <2>1. PICK T : T = Tasks(Ids(t))
    OBVIOUS
  <2>2. Call(pid) \in T /\ Call(pid).does # "visit"
    BY <2>1 DEF Call, Tasks
  <2>3. <<Call(pid)>> \in Seq(T)
    BY <2>2, One
  <2>4. Unregisterable(t, f[0])
    BY <1>6, <2>1, <2>3, OnwardSame DEF Unregisterable
  <2>5. Load(<<Call(pid)>>, 1)
    <3>1. Len(<<Call(pid)>>) = 1 /\ <<Call(pid)>>[1] = Call(pid)
      BY <2>2, One
    <3>2. PICK g : g = [i \in 1..2 |-> 2 - i]
      OBVIOUS
    <3>3. g \in [1..1 + 1 -> Nat] /\ g[1] = 1 /\ g[2] = 0
      BY <3>2
    <3>4. \A i \in 1..1 : g[i] >= g[i + 1] + Steps(<<Call(pid)>>[i])
      BY <2>2, <3>1, <3>3 DEF Steps
    <3>. QED
      BY <3>1, <3>3, <3>4 DEF Load
  <2>6. f[0].tables = t /\ f[0].todo = <<Call(pid)>>
    BY <1>6
  <2>7. c * (2 * M + 1) + 1 <= n
    BY <1>4, <1>5
  <2>8. Within(M, f[0], n)
    <3>1. PICK u : u = f[0]
      OBVIOUS
    <3>2. u.tables = t /\ u.todo = <<Call(pid)>>
      BY <2>6, <3>1
    <3>3. Len(u.tables.routers) + Cardinality(u.tables.routersByPid) <= M
      BY <1>2, <1>3, <3>2
    <3>4. Cardinality(u.tables.routersByPid) * (2 * M + 1) + 1 <= n
      BY <1>2, <2>7, <3>2
    <3>5. Load(u.todo, 1)
      BY <2>5, <3>2
    <3>. QED
      BY <3>1, <3>3, <3>4, <3>5 DEF Within
  <2>. QED
    BY <1>5, <2>4, <2>8
<1>8. ASSUME Wrong # {}
      PROVE  FALSE
  <2>1. Wrong \in SUBSET Nat
    BY <1>5
  <2>2. PICK k \in Wrong : \A j \in Wrong : k <= j
    <3> HIDE DEF Wrong
    <3>. QED
      BY <1>8, <2>1, Least
  <2>3. k \in 1..n /\ k - 1 \in 0..n /\ ~Right(f[k], k)
    <3> HIDE DEF Right
    <3>. QED
      BY <1>5, <1>7, <2>2
  <2>4. PICK u : u = f[k - 1]
    OBVIOUS
  <2>5. Right(u, k - 1)
    <3> HIDE DEF Right
    <3>. QED
      BY <1>5, <2>2, <2>3, <2>4
  <2>6. f[k] = Unregistering(u) /\ Unregisterable(t, f[k])
    BY <1>6, <2>3, <2>4, <2>5, UnregisteringFits
  <2>7. CASE u.todo = <<>>
    <3>1. f[k] = u
      BY <2>6, <2>7 DEF Unregistering
    <3>. QED
      BY <2>3, <2>6, <2>7, <3>1
  <2>8. CASE u.todo # <<>>
    <3>1. PICK m \in Nat : m = n - (k - 1)
      BY <1>5, <2>3
    <3>2. Within(M, u, m)
      BY <2>5, <2>8, <3>1
    <3>3. m # 0 /\ Within(M, Unregistering(u), m - 1)
      BY <2>5, <2>8, <3>2, UnregisteringShrinks
    <3>4. m - 1 = n - k
      BY <1>5, <2>3, <3>1
    <3>. QED
      BY <2>3, <2>6, <3>3, <3>4
  <2>. QED
    BY <2>7, <2>8
<1>9. Right(f[n], n)
  <2> HIDE DEF Right
  <2>. QED
    BY <1>5, <1>8
<1>10. ASSUME f[n].todo # <<>>
       PROVE  FALSE
  <2>1. Within(M, f[n], 0)
    BY <1>5, <1>9, <1>10
  <2>. QED
    BY <1>9, <1>10, <2>1, UnregisteringShrinks
<1>. QED
  BY <1>6, <1>10

-----------------------------------------------------------------------------
(* A step of a node.                                                       *)

(* Tables whose deliveries are on their way.                               *)
LEMMA ClearedFits ==
    ASSUME NEW t, TablesFit(t), NEW u, u = [t EXCEPT !.out = <<>>]
    PROVE  /\ TablesFit(u) /\ u.name = t.name /\ u.out = <<>>
           /\ u.routers = t.routers /\ u.monitors = t.monitors
           /\ NameOf(u) = NameOf(t)
<1>2. /\ u.name = t.name /\ u.routers = t.routers
      /\ u.routersById = t.routersById /\ u.routersByPid = t.routersByPid
      /\ u.bridges = t.bridges /\ u.monitors = t.monitors
      /\ u.out = <<>> /\ IsTables(u)
  BY DEF TablesFit, IsTables
<1>3. /\ Ids(u) = Ids(t) /\ NameOf(u) = NameOf(t)
      /\ Delivered(u) = Delivered(t)
      /\ ByIdFits(t) => ByIdFits(u)
      /\ \A r : RouterFits(t, r) <=> RouterFits(u, r)
  BY <1>2, SameIds
<1>4. u.out \in Seq(Delivered(u))
  BY <1>2, Empty
<1>5. ListFits(u)
  BY <1>2, <1>3 DEF TablesFit, ListFits
<1>6. ByPidFits(u)
  BY <1>2, <1>3 DEF TablesFit, ByPidFits
<1>7. BridgesFit(u)
  BY <1>2, <1>3 DEF TablesFit, BridgesFit
<1>. QED
  BY <1>2, <1>3, <1>4, <1>5, <1>6, <1>7 DEF TablesFit

(* Tables with one delivery.                                               *)
LEMMA DeliveringFits ==
    ASSUME NEW t, TablesFit(t), t.out = <<>>, NEW d \in Delivered(t),
           NEW u, u = [t EXCEPT !.out = <<d>>]
    PROVE  TablesFit(u) /\ Onward(t, u)
<1>1. PICK q : q = <<d>>
  OBVIOUS
<1>2. q \in Seq(Delivered(t))
  BY <1>1, One
<1>3. t.out \o q = q
  BY <1>2
<1>4. Sending(t, q) = u
  BY <1>1, <1>3 DEF Sending
<1>. QED
  BY <1>2, <1>4, SendingFits

(* Whoever is live is known, and the other way round. *)
LEMMA LiveLives ==
    ASSUME NEW t, ListFits(t), NEW m
    PROVE  (Knows(t, m) /\ RouterOf(t, m).pid # NoPid) <=> Lives(t, m)
<1>1. ASSUME Knows(t, m)
      PROVE  /\ RouterOf(t, m) \in ToSet(t.routers) /\ RouterOf(t, m).name = m
             /\ \A r \in ToSet(t.routers) : r.name = m => r = RouterOf(t, m)
  BY <1>1, KnownRouter DEF ListFits
<1>. QED
  BY <1>1, KnowsName DEF Lives

(* n has done an operation, and its tables are t with what it delivers. *)
Advanced(n, t) ==
    /\ TablesFit(t) /\ Onward(tables[n], t)
    /\ tables' = [tables EXCEPT ![n] = [t EXCEPT !.out = <<>>]]
    /\ told' = told \cup Notified(t)

(* What is delivered to the contexts fits the ids of their node.           *)
LEMMA PostedFits ==
    ASSUME Fits, NEW t, TablesFit(t), Onward(tables[t.name], t), NEW e \in End
    PROVE  /\ At(e) = t.name => Posted(t)[e] \in Seq(Signals(NameOf(t)))
           /\ At(e) # t.name => Posted(t)[e] = box[e]
<1>1. box[e] \in Seq(Signals(NameOf(tables[At(e)])))
  BY DEF Fits
<1>2. CASE At(e) # t.name \/ status[e] # "on"
  <2>1. Posted(t)[e] = box[e]
    BY <1>2 DEF Posted
  <2>2. ASSUME At(e) = t.name
        PROVE  box[e] \in Seq(Signals(NameOf(t)))
    <3>1. Signals(NameOf(tables[t.name])) \subseteq Signals(NameOf(t))
      BY SignalsWider DEF Onward
    <3>. QED
      BY <1>1, <2>2, <3>1, Wider
  <2>. QED
    BY <2>1, <2>2
<1>3. CASE At(e) = t.name /\ status[e] = "on"
  <2>1. PICK mine : mine = Picked(t.out, {i \in DOMAIN t.out : t.out[i].to = Local(e)})
    OBVIOUS
  <2>2. PICK items : items = [i \in DOMAIN mine |-> mine[i].item]
    OBVIOUS
  <2>3. Posted(t)[e] = box[e] \o items
    BY <1>3, <2>1, <2>2 DEF Posted
  <2>4. PICK D : D = Delivered(t)
    OBVIOUS
  <2>5. t.out \in Seq(D)
    BY <2>4 DEF TablesFit
  <2>6. PICK I : I = {i \in DOMAIN t.out : t.out[i].to = Local(e)}
    OBVIOUS
  <2>7. mine \in Seq(D) /\ ToSet(mine) = {t.out[i] : i \in I \cap (1..Len(t.out))}
    BY <2>1, <2>5, <2>6, PickedSet
  <2>8. \A i \in 1..Len(t.out) : t.out[i] \in D
    BY <2>5, Elements
  <2>9. \A d \in ToSet(mine) : d \in D /\ d.to = Local(e)
    BY <2>6, <2>7, <2>8
  <2>10. \A d \in ToSet(mine) : d.item \in Signals(NameOf(t))
    <3>1. Local(e) # NoPid /\ Local(e) # Local(User)
      BY NoPids, Ends DEF Local, Pid
    <3>. QED
      BY <2>4, <2>9, <3>1 DEF Delivered
  <2>11. /\ Len(mine) \in Nat /\ DOMAIN mine = 1..Len(mine)
         /\ \A i \in 1..Len(mine) : mine[i] \in ToSet(mine)
    BY <2>7, Elements
  <2>12. items \in Seq(Signals(NameOf(t)))
    <3>1. items = [i \in 1..Len(mine) |-> items[i]]
      BY <2>2, <2>11
    <3>2. \A i \in 1..Len(mine) : items[i] \in Signals(NameOf(t))
      BY <2>2, <2>10, <2>11
    <3>. QED
      BY <2>11, <3>1, <3>2, Filled
  <2>13. box[e] \in Seq(Signals(NameOf(t)))
    <3>1. Signals(NameOf(tables[t.name])) \subseteq Signals(NameOf(t))
      BY SignalsWider DEF Onward
    <3>. QED
      BY <1>1, <1>3, <3>1, Wider
  <2>. QED
    BY <1>3, <2>3, <2>12, <2>13, Joined
<1>. QED
  BY <1>2, <1>3

(* Who is told of a nodedown.                                              *)
LEMMA NotifiedFits ==
    ASSUME NEW t, TablesFit(t)
    PROVE  /\ Notified(t) \subseteq Node \X Node
           /\ \A m : Reported(t, m) => <<t.name, m>> \in Notified(t)
<1>1. t.name \in Node /\ t.out \in Seq(Delivered(t))
  BY DEF TablesFit
<1>2. ASSUME NEW d \in ToSet(t.out), d.item.kind = "nodedown"
      PROVE  d.item.name \in Node
  <2>1. PICK D : D = Delivered(t)
    OBVIOUS
  <2>2. d \in D
    BY <1>1, <2>1, Elements
  <2>3. d.item \notin Signals(NameOf(t)) \cup Hellos(NameOf(t))
    BY <1>2, Kinds DEF Signals
  <2>. QED
    BY <2>1, <2>2, <2>3 DEF Delivered, Nodedown
<1>3. Notified(t) \subseteq Node \X Node
  BY <1>1, <1>2 DEF Notified
<1>4. ASSUME NEW m, Reported(t, m)
      PROVE  <<t.name, m>> \in Notified(t)
  BY <1>4 DEF Reported, Notified, Nodedown
<1>. QED
  BY <1>3, <1>4

(* The boxes hold what they held, what the operation delivered, or nothing. *)
LEMMA AdvancedFits ==
    ASSUME Fits, NEW n \in Node, NEW t, Advanced(n, t),
           box' = [e \in End |-> box'[e]], wire' = [e \in End |-> wire'[e]],
           \A e \in End : box'[e] \in {Posted(t)[e], <<>>},
           \A e \in End : wire'[e] \in Seq(Signals(OnWire) \cup Greetings(At(e)))
    PROVE  Fits'
<1>1. /\ tables = [k \in Node |-> tables[k]]
      /\ \A k \in Node :
            TablesFit(tables[k]) /\ tables[k].name = k /\ tables[k].out = <<>>
      /\ \A e \in End : box[e] \in Seq(Signals(NameOf(tables[At(e)])))
  BY DEF Fits
<1>2. PICK u : u = [t EXCEPT !.out = <<>>]
  OBVIOUS
<1>3. TablesFit(t) /\ Onward(tables[n], t)
  BY DEF Advanced
<1>4. t.name = n
  BY <1>1, <1>3 DEF Onward
<1>5. /\ TablesFit(u) /\ u.name = t.name /\ u.out = <<>> /\ NameOf(u) = NameOf(t)
  BY <1>2, <1>3, ClearedFits
<1>6. /\ tables' = [k \in Node |-> tables'[k]]
      /\ \A k \in Node : tables'[k] = IF k = n THEN u ELSE tables[k]
  BY <1>1, <1>2 DEF Advanced
<1>7. \A k \in Node :
         TablesFit(tables'[k]) /\ tables'[k].name = k /\ tables'[k].out = <<>>
  BY <1>1, <1>4, <1>5, <1>6
<1>8. ASSUME NEW e \in End
      PROVE  box'[e] \in Seq(Signals(NameOf(tables'[At(e)])))
  <2>1. At(e) \in Node
    BY Ends
  <2>2. CASE box'[e] = <<>>
    BY <2>2, Empty
  <2>3. CASE box'[e] = Posted(t)[e]
    <3>1. CASE At(e) = n
      BY <1>3, <1>4, <1>5, <1>6, <2>1, <2>3, <3>1, PostedFits
    <3>2. CASE At(e) # n
      <4>1. Posted(t)[e] = box[e]
        BY <1>3, <1>4, <3>2, PostedFits
      <4>2. tables'[At(e)] = tables[At(e)]
        BY <1>6, <2>1, <3>2
      <4>. QED
        BY <1>1, <2>3, <4>1, <4>2
    <3>. QED
      BY <3>1, <3>2
  <2>. QED
    BY <2>2, <2>3
<1>. QED
  BY <1>6, <1>7, <1>8 DEF Fits

(* What holds in every reachable state. *)
Inv ==
    /\ scenario \in Scenario
    /\ Fits
    /\ status \in [End -> {"off", "on", "gone"}]
    /\ hellos \in 0..MaxHello
    /\ Addressed
    /\ told \subseteq Node \X Node

(* What every step does to the tables. *)
Advances ==
    UNCHANGED <<tables, told>> \/ \E n \in Node : \E t : Advanced(n, t)

(* An operation of a node, as an action.                                   *)
LEMMA PerformedFits ==
    ASSUME Fits, NEW n \in Node, NEW t, TablesFit(t), Onward(tables[n], t),
           Performed(t),
           \/ UNCHANGED wire
           \/ \E e \in End : wire[e] # <<>> /\ wire' = [wire EXCEPT ![e] = Tail(@)]
    PROVE  Fits' /\ Advanced(n, t)
<1>1. t.name = n
  BY DEF Onward, Fits
<1>2. Advanced(n, t)
  BY <1>1 DEF Performed, Advanced
<1>3. box' = [e \in End |-> box'[e]] /\ \A e \in End : box'[e] = Posted(t)[e]
  <2>1. box' = Posted(t)
    BY DEF Performed
  <2>2. Posted(t) = [e \in End |-> Posted(t)[e]]
    BY DEF Posted
  <2>. QED
    BY <2>1, <2>2
<1>4. /\ wire = [e \in End |-> wire[e]]
      /\ \A e \in End : wire[e] \in Seq(Signals(OnWire) \cup Greetings(At(e)))
  BY DEF Fits
<1>5. /\ wire' = [e \in End |-> wire'[e]]
      /\ \A e \in End : wire'[e] \in Seq(Signals(OnWire) \cup Greetings(At(e)))
  <2>1. CASE UNCHANGED wire
    BY <1>4, <2>1
  <2>2. ASSUME NEW e \in End, wire[e] # <<>>, wire' = [wire EXCEPT ![e] = Tail(@)]
        PROVE  /\ wire' = [x \in End |-> wire'[x]]
               /\ \A x \in End : wire'[x] \in Seq(Signals(OnWire) \cup Greetings(At(x)))
    <3>1. wire' = [x \in End |-> IF x = e THEN Tail(wire[e]) ELSE wire[x]]
      BY <1>4, <2>2
    <3>2. PICK S : S = Signals(OnWire) \cup Greetings(At(e))
      OBVIOUS
    <3>3. Tail(wire[e]) \in Seq(S)
      <4>1. wire[e] \in Seq(S)
        BY <1>4, <3>2
      <4>. QED
        BY <2>2, <4>1, Rested
    <3>. QED
      BY <1>4, <3>1, <3>2, <3>3
  <2>. QED
    BY <2>1, <2>2
<1>. QED
  BY <1>2, <1>3, <1>5, AdvancedFits

(* The first event from the other end, read. *)
LEMMA HearingFits ==
    ASSUME Fits, NEW e \in End, wire[Other(e)] # <<>>, NEW x, x = Received(e),
           NEW h, h = Hearing(e)
    PROVE  /\ x \in Signals(OnWire) \cup Greetings(Towards(e))
           /\ TablesFit(h) /\ Onward(tables[At(e)], h) /\ h.out = <<>>
           /\ x \in Signals(OnWire) => KnowsAll(h, x)
<1>1. x \in Signals(OnWire) \cup Greetings(Towards(e))
  <2>1. PICK S : S = Signals(OnWire) \cup Greetings(Towards(e))
    OBVIOUS
  <2>2. wire[Other(e)] \in Seq(S)
    BY <2>1, Ends DEF Fits, Towards
  <2>. QED
    BY <2>1, <2>2, Rested DEF Received
<1>2. NamesIn(x) \in Seq(Node)
  <2>1. CASE x \in Signals(OnWire)
    BY <2>1, NamesFit
  <2>2. CASE x \in Greetings(Towards(e))
    <3>1. x.kind = "discover" /\ x.pid = NoPid
      BY <2>2 DEF Greetings, Discover
    <3>2. NamesIn(x) = <<>>
      BY <3>1 DEF NamesIn, NamesInBody
    <3>. QED
      BY <3>2, Empty
  <2>. QED
    BY <1>1, <2>1, <2>2
<1>3. TablesFit(tables[At(e)]) /\ tables[At(e)].out = <<>>
  BY Ends DEF Fits
<1>4. h = Heard(tables[At(e)], x)
  BY DEF Hearing
<1>. QED
  BY <1>1, <1>2, <1>3, <1>4, HeardFits

(* The handler of discover: a greeting, or a notice of another node.       *)
LEMMA DiscoverKeeps ==
    ASSUME Inv, NEW e \in End, HandleDiscover(e)
    PROVE  Fits' /\ Advances
<1>1. PICK n \in Node : n = At(e)
  BY Ends
<1>2. PICK x : x = Received(e)
  OBVIOUS
<1>3. PICK h : h = Hearing(e)
  OBVIOUS
<1>4. PICK d : d = FromWire(h, x)
  OBVIOUS
<1>5. PICK source : source = SourceNode(n, d.source)
  OBVIOUS
<1>6. PICK pid : pid = IF d.pid = NoPid THEN Local(e) ELSE d.pid
  OBVIOUS
<1>7. PICK score : score = Farther(d.score)
  OBVIOUS
<1>8. PICK u : u = RegisterRouter(h, source, score, d.name, pid,
                                 scenario.bridge[n], d.type)
  OBVIOUS
<1>9. /\ wire[Other(e)] # <<>> /\ x.kind = "discover"
      /\ wire' = [wire EXCEPT ![Other(e)] = Tail(@)]
  BY <1>2 DEF HandleDiscover, Event, Received
<1>10. Performed(u)
  BY <1>1, <1>2, <1>3, <1>4, <1>5, <1>6, <1>7, <1>8 DEF HandleDiscover
<1>11. /\ x \in Signals(OnWire) \cup Greetings(Towards(e))
       /\ TablesFit(h) /\ Onward(tables[n], h)
       /\ x \in Signals(OnWire) => KnowsAll(h, x)
  BY <1>1, <1>2, <1>3, <1>9, HearingFits DEF Inv
<1>12. /\ ByIdFits(h) /\ ListFits(h) /\ h.name \in Node
       /\ Ids(h) \subseteq Nat /\ 0 \in Ids(h) /\ DOMAIN NameOf(h) = Ids(h)
  BY <1>11, IdsOf DEF TablesFit
<1>13. /\ source \in Node /\ score \in Nat /\ d.name \in Node /\ d.type \in Types
       /\ pid \in ContextPid(Ids(h)) /\ d.name = Towards(pid.proc)
  <2>1. CASE x \in Greetings(Towards(e))
    <3>1. PICK type \in Types : x = Discover("none", 0, Towards(e), type, NoPid)
      BY <2>1 DEF Greetings
    <3>2. x.kind = "discover" /\ x.pid = NoPid
      BY <3>1 DEF Discover
    <3>3. d = x
      BY <1>4, <3>2 DEF FromWire
    <3>4. /\ d.source = "none" /\ d.score = 0 /\ d.name = Towards(e)
          /\ d.type = type /\ d.pid = NoPid
      BY <3>1, <3>3 DEF Discover
    <3>5. pid = Local(e)
      BY <1>6, <3>4
    <3>6. pid \in ContextPid(Ids(h)) /\ pid.proc = e
      BY <1>12, <3>5 DEF Local, Pid, ContextPid
    <3>7. score \in Nat
      BY <1>7, <3>4, NetworkAssumption DEF Farther
    <3>. QED
      BY <1>5, <3>4, <3>6, <3>7, Ends DEF SourceNode
  <2>2. CASE x \in Signals(OnWire)
    <3>1. x \in Notices(OnWire)
      BY <1>9, <2>2, Kinds DEF Signals
    <3>2. d \in Notices(NameOf(h)) /\ d.kind = "discover"
      BY <1>4, <1>9, <1>11, <1>12, <2>2, <3>1, FromWireFits
    <3>3. /\ d.source \in Node /\ d.score \in Nat /\ d.name \in Node
          /\ d.type \in Types /\ d.pid \in ContextPid(Ids(h))
          /\ d.name = Towards(d.pid.proc)
      BY <1>12, <3>2 DEF Notices
    <3>4. d.pid # NoPid
      BY <1>12, <3>3, NoPids DEF ContextPid
    <3>5. pid = d.pid
      BY <1>6, <3>4
    <3>6. source = d.source
      BY <1>5, <3>3, NetworkAssumption DEF SourceNode
    <3>7. score \in Nat
      BY <1>7, <3>3, NetworkAssumption DEF Farther
    <3>. QED
      BY <3>3, <3>5, <3>6, <3>7
  <2>. QED
    BY <1>11, <2>1, <2>2
<1>14. TablesFit(u) /\ Onward(h, u)
  BY <1>8, <1>11, <1>13, RegisterFits
<1>15. Onward(tables[n], u)
  BY <1>11, <1>14, OnwardOn
<1>16. Other(e) \in End
  BY Ends
<1>17. Fits' /\ Advanced(n, u)
  BY <1>9, <1>10, <1>14, <1>15, <1>16, PerformedFits DEF Inv
<1>. QED
  BY <1>17 DEF Advances

(* The handler of lost.                                                    *)
LEMMA LostKeeps ==
    ASSUME Inv, NEW e \in End, HandleLost(e)
    PROVE  Fits' /\ Advances
<1>1. PICK n \in Node : n = At(e)
  BY Ends
<1>2. PICK x : x = Received(e)
  OBVIOUS
<1>3. PICK h : h = Hearing(e)
  OBVIOUS
<1>4. PICK d : d = FromWire(h, x)
  OBVIOUS
<1>5. PICK u : u = UnregisterRouter(h, d.pid)
  OBVIOUS
<1>6. /\ wire[Other(e)] # <<>> /\ x.kind = "lost"
      /\ wire' = [wire EXCEPT ![Other(e)] = Tail(@)]
  BY <1>2 DEF HandleLost, Event, Received
<1>7. Performed(u)
  BY <1>2, <1>3, <1>4, <1>5 DEF HandleLost
<1>8. /\ x \in Signals(OnWire) \cup Greetings(Towards(e))
      /\ TablesFit(h) /\ Onward(tables[n], h)
      /\ x \in Signals(OnWire) => KnowsAll(h, x)
  BY <1>1, <1>2, <1>3, <1>6, HearingFits DEF Inv
<1>9. /\ ByIdFits(h) /\ ListFits(h) /\ h.name \in Node
      /\ DOMAIN NameOf(h) = Ids(h)
  BY <1>8, IdsOf DEF TablesFit
<1>10. x \in Notices(OnWire) /\ x \in Signals(OnWire)
  BY <1>6, <1>8, Kinds DEF Signals, Greetings, Discover
<1>11. d \in Notices(NameOf(h))
  BY <1>4, <1>8, <1>9, <1>10, FromWireFits
<1>12. d.pid \in ContextPid(Ids(h))
  BY <1>9, <1>11, Kinds
<1>13. TablesFit(u) /\ Onward(h, u)
  BY <1>5, <1>8, <1>12, UnregisterFits
<1>14. Onward(tables[n], u)
  BY <1>8, <1>13, OnwardOn
<1>15. Other(e) \in End
  BY Ends
<1>16. Fits' /\ Advanced(n, u)
  BY <1>6, <1>7, <1>13, <1>14, <1>15, PerformedFits DEF Inv
<1>. QED
  BY <1>16 DEF Advances

(* The handler of relay.                                                   *)
LEMMA MessageKeeps ==
    ASSUME Inv, NEW e \in End, HandleMessage(e)
    PROVE  Fits' /\ Advances /\ Addressed'
<1>1. PICK n \in Node : n = At(e)
  BY Ends
<1>2. PICK x : x = Received(e)
  OBVIOUS
<1>3. PICK h : h = Hearing(e)
  OBVIOUS
<1>4. PICK r : r = FromWire(h, x)
  OBVIOUS
<1>5. PICK d : d = Delivery(h, r.from, Head(r.to), Unwrapped(r))
  OBVIOUS
<1>6. PICK u : u = [h EXCEPT !.out = <<d>>]
  OBVIOUS
<1>7. /\ wire[Other(e)] # <<>> /\ x.kind = "relay"
      /\ wire' = [wire EXCEPT ![Other(e)] = Tail(@)]
  BY <1>2 DEF HandleMessage, Event, Received
<1>8. /\ Performed(u)
      /\ arrived' = IF d.to = Local(User)
            THEN arrived \cup {[src |-> d.item.src, dest |-> d.item.dest,
                   at |-> n, from |-> PidToWire(h, d.item.from).node]}
            ELSE arrived
  BY <1>1, <1>2, <1>3, <1>4, <1>5, <1>6 DEF HandleMessage
<1>9. /\ x \in Signals(OnWire) \cup Greetings(Towards(e))
      /\ TablesFit(h) /\ Onward(tables[n], h) /\ h.out = <<>>
      /\ x \in Signals(OnWire) => KnowsAll(h, x)
  BY <1>1, <1>2, <1>3, <1>7, HearingFits DEF Inv
<1>10. /\ ByIdFits(h) /\ ListFits(h) /\ h.name \in Node /\ h.name = n
       /\ DOMAIN NameOf(h) = Ids(h)
       /\ \A id \in Ids(h) : NameOf(h)[id] = h.routersById[id + 1].name
  BY <1>9, IdsOf DEF TablesFit, Onward, Inv, Fits
<1>11. x \in Relays(OnWire) /\ x \in Signals(OnWire)
  BY <1>7, <1>9, Kinds DEF Signals, Greetings, Discover
<1>12. r \in Relays(NameOf(h))
  BY <1>4, <1>9, <1>10, <1>11, FromWireFits
<1>13. Meant(NameOf(h), Head(r.to), Unwrapped(r))
  BY <1>12, UnwrappedFits
<1>14. /\ d \in Delivered(h)
       /\ d.to = Local(User) => /\ d.item \in Hellos(NameOf(h))
                                /\ d.item.dest = h.name
  <2>1. r.from \in SenderPid(Ids(h))
    BY <1>10, <1>12, Kinds
  <2>. QED
    BY <1>5, <1>10, <1>13, <2>1, DeliveryFits
<1>15. TablesFit(u) /\ Onward(h, u)
  BY <1>6, <1>9, <1>14, DeliveringFits
<1>16. Onward(tables[n], u)
  BY <1>9, <1>15, OnwardOn
<1>17. Other(e) \in End
  BY Ends
<1>18. Fits' /\ Advanced(n, u)
  BY <1>7, <1>8, <1>15, <1>16, <1>17, PerformedFits DEF Inv
<1>19. Addressed'
  <2>1. CASE d.to # Local(User)
    BY <1>8, <2>1 DEF Addressed, Inv
  <2>2. CASE d.to = Local(User)
    <3>1. PICK item : item = d.item
      OBVIOUS
    <3>2. item \in Hellos(NameOf(h)) /\ item.dest = n
      BY <1>10, <1>14, <2>2, <3>1
    <3>3. item.from \in UserPid(Ids(h)) /\ NameOf(h)[item.from.node] = item.src
      BY <1>10, <3>2 DEF Hellos
    <3>4. PidToWire(h, item.from).node = h.routersById[item.from.node + 1].name
      BY <3>3 DEF PidToWire, RouterById, UserPid
    <3>5. item.from.node \in Ids(h)
      BY <3>3 DEF UserPid
    <3>6. PidToWire(h, item.from).node = item.src
      BY <1>10, <3>3, <3>4, <3>5
    <3>7. arrived' = arrived \cup {[src |-> item.src, dest |-> item.dest,
                   at |-> n, from |-> PidToWire(h, item.from).node]}
      BY <1>8, <2>2, <3>1
    <3>. QED
      BY <3>2, <3>6, <3>7 DEF Addressed, Inv
  <2>. QED
    BY <2>1, <2>2
<1>. QED
  BY <1>18, <1>19 DEF Advances

(* A message of the user.                                                  *)
LEMMA HelloKeeps ==
    ASSUME Inv, NEW n \in Node, SendHello(n)
    PROVE  Fits' /\ Advances
<1>1. PICK t : t = tables[n]
  OBVIOUS
<1>2. /\ TablesFit(t) /\ t.name = n /\ t.out = <<>>
  BY <1>1 DEF Inv, Fits
<1>3. /\ ByIdFits(t) /\ t.name \in Node
      /\ Ids(t) \subseteq Nat /\ 0 \in Ids(t) /\ DOMAIN NameOf(t) = Ids(t)
      /\ Len(t.routersById) \in Nat
      /\ NameOf(t)[0] = t.name
      /\ \A id \in Ids(t) : /\ NameOf(t)[id] = t.routersById[id + 1].name
                            /\ NameOf(t)[id] \in Node
  BY <1>2, IdsOf DEF TablesFit
<1>4. PICK id \in 1..Len(t.routersById) - 1 :
         Performed([t EXCEPT !.out =
             <<Delivery(t, Local(User), Pid(id, User),
                        Hello(n, RouterById(t, id).name, Local(User)))>>])
  BY <1>1 DEF SendHello
<1>5. PICK hello : hello = Hello(n, RouterById(t, id).name, Local(User))
  OBVIOUS
<1>6. PICK d : d = Delivery(t, Local(User), Pid(id, User), hello)
  OBVIOUS
<1>7. PICK u : u = [t EXCEPT !.out = <<d>>]
  OBVIOUS
<1>8. Performed(u)
  BY <1>4, <1>5, <1>6, <1>7
<1>9. id \in Ids(t)
  BY <1>3 DEF Ids
<1>10. /\ Pid(id, User) \in UserPid(Ids(t)) /\ Pid(id, User).node = id
       /\ Local(User) \in UserPid(Ids(t)) /\ Local(User).node = 0
  BY <1>3, <1>9 DEF Pid, Local, UserPid
<1>11. hello \in Hellos(NameOf(t)) /\ hello.dest = NameOf(t)[id]
  <2>1. RouterById(t, id).name = NameOf(t)[id] /\ NameOf(t)[id] \in Node
    BY <1>3, <1>9 DEF RouterById
  <2>. QED
    BY <1>2, <1>3, <1>5, <1>10, <2>1 DEF Hello, Hellos
<1>12. Meant(NameOf(t), Pid(id, User), hello)
  BY <1>3, <1>10, <1>11 DEF Meant, Final
<1>13. d \in Delivered(t)
  <2>1. Local(User) \in SenderPid(Ids(t))
    BY <1>10 DEF UserPid, SenderPid
  <2>. QED
    BY <1>3, <1>6, <1>12, <2>1, DeliveryFits
<1>14. TablesFit(u) /\ Onward(t, u)
  BY <1>2, <1>7, <1>13, DeliveringFits
<1>15. UNCHANGED wire
  BY DEF SendHello
<1>16. Fits' /\ Advanced(n, u)
  BY <1>1, <1>8, <1>14, <1>15, PerformedFits DEF Inv
<1>. QED
  BY <1>16 DEF Advances

(* The user monitors a node.                                               *)
LEMMA MonitorKeeps ==
    ASSUME Inv, NEW n \in Node, Monitor(n)
    PROVE  Fits' /\ Advances
<1>1. PICK m \in Node : Performed(MonitorNode(tables[n], m))
  BY DEF Monitor
<1>2. PICK t : t = tables[n]
  OBVIOUS
<1>3. PICK u : u = MonitorNode(t, m)
  OBVIOUS
<1>4. TablesFit(t)
  BY <1>2 DEF Inv, Fits
<1>5. TablesFit(u) /\ Onward(t, u)
  BY <1>3, <1>4, MonitorFits
<1>6. UNCHANGED wire
  BY DEF Monitor
<1>7. Fits' /\ Advanced(n, u)
  BY <1>1, <1>2, <1>3, <1>5, <1>6, PerformedFits DEF Inv
<1>. QED
  BY <1>7 DEF Advances

(* handleDisconnect.                                                       *)
LEMMA DisconnectKeeps ==
    ASSUME Inv, NEW e \in End, Disconnect(e)
    PROVE  Fits' /\ Advances
<1>1. PICK n \in Node : n = At(e)
  BY Ends
<1>2. PICK t : t = tables[n]
  OBVIOUS
<1>3. PICK u : u = UnregisterRouter(t, Local(e))
  OBVIOUS
<1>4. /\ tables' = [tables EXCEPT ![n] = [u EXCEPT !.out = <<>>]]
      /\ box' = [Posted(u) EXCEPT ![e] = <<>>]
      /\ told' = told \cup Notified(u)
      /\ wire' = [wire EXCEPT ![Other(e)] = <<>>]
  BY <1>1, <1>2, <1>3 DEF Disconnect
<1>5. TablesFit(t)
  BY <1>2 DEF Inv, Fits
<1>6. Local(e) \in ContextPid(Ids(t))
  BY <1>5, IdsOf DEF TablesFit, Local, Pid, ContextPid
<1>7. TablesFit(u) /\ Onward(t, u)
  BY <1>3, <1>5, <1>6, UnregisterFits
<1>8. Advanced(n, u)
  BY <1>2, <1>4, <1>7 DEF Advanced
<1>9. /\ box' = [x \in End |-> box'[x]]
      /\ \A x \in End : box'[x] \in {Posted(u)[x], <<>>}
  <2>1. Posted(u) = [x \in End |-> Posted(u)[x]]
    BY DEF Posted
  <2>2. PICK p : p = Posted(u)
    OBVIOUS
  <2>3. p = [x \in End |-> p[x]] /\ box' = [p EXCEPT ![e] = <<>>]
    BY <1>4, <2>1, <2>2
  <2>4. box' = [x \in End |-> IF x = e THEN <<>> ELSE p[x]]
    BY <2>3
  <2>. QED
    BY <2>2, <2>4
<1>10. /\ wire = [x \in End |-> wire[x]]
       /\ \A x \in End : wire[x] \in Seq(Signals(OnWire) \cup Greetings(At(x)))
  BY DEF Inv, Fits
<1>11. wire' = [x \in End |-> IF x = Other(e) THEN <<>> ELSE wire[x]]
  BY <1>4, <1>10
<1>12. /\ wire' = [x \in End |-> wire'[x]]
       /\ \A x \in End : wire'[x] \in Seq(Signals(OnWire) \cup Greetings(At(x)))
  BY <1>10, <1>11, Empty
<1>13. Fits'
  BY <1>8, <1>9, <1>12, AdvancedFits DEF Inv
<1>. QED
  BY <1>8, <1>13 DEF Advances

(* handleConnect: the greeting names the node itself.                      *)
LEMMA ConnectKeeps ==
    ASSUME Inv, NEW e \in End, Connect(e)
    PROVE  Fits' /\ Advances
<1>1. /\ UNCHANGED <<tables, box, told>>
      /\ wire' = [wire EXCEPT ![e] = Append(@,
            Discover("none", 0, At(e), scenario.type[At(e)], NoPid))]
  BY DEF Connect, history
<1>2. PICK greeting : greeting =
         Discover("none", 0, At(e), scenario.type[At(e)], NoPid)
  OBVIOUS
<1>3. /\ wire = [x \in End |-> wire[x]]
      /\ \A x \in End : wire[x] \in Seq(Signals(OnWire) \cup Greetings(At(x)))
  BY DEF Inv, Fits
<1>4. greeting \in Greetings(At(e))
  <2>1. scenario.type[At(e)] \in Types
    BY Ends DEF Inv, Scenario, Types
  <2>. QED
    BY <1>2, <2>1 DEF Greetings
<1>5. PICK S : S = Signals(OnWire) \cup Greetings(At(e))
  OBVIOUS
<1>6. Append(wire[e], greeting) \in Seq(S)
  <2>1. wire[e] \in Seq(S) /\ greeting \in S
    BY <1>3, <1>4, <1>5
  <2>. QED
    BY <2>1, Appended
<1>7. wire' = [x \in End |-> IF x = e THEN Append(wire[e], greeting) ELSE wire[x]]
  BY <1>1, <1>2, <1>3
<1>8. /\ wire' = [x \in End |-> wire'[x]]
      /\ \A x \in End : wire'[x] \in Seq(Signals(OnWire) \cup Greetings(At(x)))
  BY <1>3, <1>5, <1>6, <1>7
<1>. QED
  BY <1>1, <1>8 DEF Inv, Fits, Advances

(* What leaves a node has names for ids.                                   *)
LEMMA ForwardKeeps ==
    ASSUME Inv, NEW e \in End, Forward(e)
    PROVE  Fits' /\ Advances
<1>1. /\ UNCHANGED <<tables, told>> /\ box[e] # <<>>
      /\ box' = [box EXCEPT ![e] = Tail(@)]
      /\ wire' = IF status[Other(e)] = "gone" THEN wire ELSE
             [wire EXCEPT ![e] = Append(@, ToWire(tables[At(e)], Head(box[e])))]
  BY DEF Forward, history
<1>2. PICK n \in Node : n = At(e)
  BY Ends
<1>3. /\ wire = [x \in End |-> wire[x]] /\ box = [x \in End |-> box[x]]
      /\ \A x \in End : /\ wire[x] \in Seq(Signals(OnWire) \cup Greetings(At(x)))
                        /\ box[x] \in Seq(Signals(NameOf(tables[At(x)])))
  BY DEF Inv, Fits
<1>4. PICK B : B = Signals(NameOf(tables[n]))
  OBVIOUS
<1>5. Head(box[e]) \in B /\ Tail(box[e]) \in Seq(B)
  <2>1. box[e] \in Seq(B)
    BY <1>2, <1>3, <1>4
  <2>. QED
    BY <1>1, <2>1, Rested
<1>6. PICK x : x = ToWire(tables[n], Head(box[e]))
  OBVIOUS
<1>7. x \in Signals(OnWire)
  <2>1. ByIdFits(tables[n]) /\ tables[n].name \in Node
    BY DEF Inv, Fits, TablesFit
  <2>. QED
    BY <1>4, <1>5, <1>6, <2>1, ToWireFits
<1>8. PICK S : S = Signals(OnWire) \cup Greetings(At(e))
  OBVIOUS
<1>9. Append(wire[e], x) \in Seq(S)
  <2>1. wire[e] \in Seq(S) /\ x \in S
    BY <1>3, <1>7, <1>8
  <2>. QED
    BY <2>1, Appended
<1>10. \/ wire' = wire
       \/ wire' = [y \in End |-> IF y = e THEN Append(wire[e], x) ELSE wire[y]]
  BY <1>1, <1>2, <1>3, <1>6
<1>11. /\ wire' = [y \in End |-> wire'[y]]
       /\ \A y \in End : wire'[y] \in Seq(Signals(OnWire) \cup Greetings(At(y)))
  BY <1>3, <1>8, <1>9, <1>10
<1>12. box' = [y \in End |-> IF y = e THEN Tail(box[e]) ELSE box[y]]
  BY <1>1, <1>3
<1>13. /\ box' = [y \in End |-> box'[y]]
       /\ \A y \in End : box'[y] \in Seq(Signals(NameOf(tables[At(y)])))
  BY <1>2, <1>3, <1>4, <1>5, <1>12
<1>. QED
  BY <1>1, <1>11, <1>13 DEF Inv, Fits, Advances

-----------------------------------------------------------------------------
(* The invariant.                                                          *)

(* A new node knows itself.                                                *)
LEMMA NewTablesFit ==
    ASSUME NEW n \in Node
    PROVE  TablesFit(NewTables(n)) /\ NewTables(n).name = n /\ NewTables(n).out = <<>>
<1>1. PICK t : t = NewTables(n)
  OBVIOUS
<1>2. PICK r : r = Self(n)
  OBVIOUS
<1>3. /\ t.name = n /\ t.routers = <<r>> /\ t.routersById = <<r>>
      /\ t.routersByPid = {[pid |-> r.pid, router |-> r]}
      /\ t.bridges = <<>> /\ t.monitors = {} /\ t.out = <<>>
      /\ IsTables(t)
  BY <1>1, <1>2 DEF NewTables, Self, IsTables
<1>4. /\ r.id = 0 /\ r.pid = Local(System) /\ r.name = n /\ r.pid # NoPid
      /\ r \in RouterRecords
  BY <1>2, NoPids DEF Self, RouterRecord, RouterRecords, Local, Pid
<1>5. /\ <<r>> \in Seq(RouterRecords) /\ Len(<<r>>) = 1 /\ <<r>>[1] = r
      /\ ToSet(<<r>>) = {r} /\ <<r>> # <<>>
  BY <1>4, One
<1>6. Ids(t) = {0} /\ NameOf(t)[0] = n
  <2>1. Ids(t) = {0}
    BY <1>3, <1>5 DEF Ids
  <2>. QED
    BY <1>3, <1>4, <1>5, <2>1 DEF NameOf
<1>7. ByIdFits(t)
  BY <1>2, <1>3, <1>4, <1>5 DEF ByIdFits
<1>8. ListFits(t)
  BY <1>2, <1>3, <1>4, <1>5, <1>6 DEF ListFits
<1>9. ByPidFits(t)
  <2>1. IsFiniteSet(t.routersByPid)
    BY <1>3, FS_Singleton
  <2>. QED
    BY <1>2, <1>3, <1>4, <1>6, <2>1 DEF ByPidFits
<1>10. BridgesFit(t)
  BY <1>3, Empty DEF BridgesFit
<1>11. t.out \in Seq(Delivered(t))
  BY <1>3, Empty
<1>. QED
  BY <1>1, <1>3, <1>7, <1>8, <1>9, <1>10, <1>11 DEF TablesFit

(* Nodes start with the invariant.                                         *)
LEMMA InitInv == Init => Inv
<1>. SUFFICES ASSUME Init PROVE Inv
  OBVIOUS
<1>1. scenario \in Scenario
  BY ScenariosAssumption DEF Init
<1>2. Fits
  <2>1. /\ tables = [n \in Node |-> NewTables(n)]
        /\ box = [e \in End |-> <<>>] /\ wire = [e \in End |-> <<>>]
    BY DEF Init
  <2>2. \A n \in Node :
           TablesFit(tables[n]) /\ tables[n].name = n /\ tables[n].out = <<>>
    BY <2>1, NewTablesFit
  <2>3. tables = [n \in Node |-> tables[n]]
    BY <2>1
  <2>4. \A e \in End :
           /\ box[e] \in Seq(Signals(NameOf(tables[At(e)])))
           /\ wire[e] \in Seq(Signals(OnWire) \cup Greetings(At(e)))
    BY <2>1, Empty
  <2>. QED
    BY <2>1, <2>2, <2>3, <2>4 DEF Fits
<1>3. status \in [End -> {"off", "on", "gone"}]
  BY DEF Init
<1>4. hellos \in 0..MaxHello /\ Addressed /\ told \subseteq Node \X Node
  BY NetworkAssumption DEF Init, Addressed
<1>. QED
  BY <1>1, <1>2, <1>3, <1>4 DEF Inv

(* Every step keeps the invariant and advances the tables of one node.     *)
LEMMA InvNext == Inv /\ [Next]_vars => Inv' /\ Advances
<1>. SUFFICES ASSUME Inv, [Next]_vars PROVE Inv' /\ Advances
  OBVIOUS
<1>1. ASSUME Advances
      PROVE  (told \subseteq Node \X Node)'
  BY <1>1, NotifiedFits DEF Advances, Advanced, Inv
<1>2. ASSUME NEW e \in End, Connect(e)
      PROVE  Inv' /\ Advances
  <2>1. Fits' /\ Advances
    BY <1>2, ConnectKeeps
  <2>2. /\ UNCHANGED <<scenario, hellos, arrived>>
        /\ status' \in [End -> {"off", "on", "gone"}]
    BY <1>2 DEF Connect, history, Inv
  <2>. QED
    BY <1>1, <2>1, <2>2 DEF Inv, Addressed
<1>3. ASSUME NEW e \in End, Disconnect(e)
      PROVE  Inv' /\ Advances
  <2>1. Fits' /\ Advances
    BY <1>3, DisconnectKeeps
  <2>2. /\ UNCHANGED <<scenario, hellos, arrived>>
        /\ status' \in [End -> {"off", "on", "gone"}]
    BY <1>3 DEF Disconnect, Inv
  <2>. QED
    BY <1>1, <2>1, <2>2 DEF Inv, Addressed
<1>4. ASSUME NEW e \in End, Forward(e)
      PROVE  Inv' /\ Advances
  <2>1. Fits' /\ Advances
    BY <1>4, ForwardKeeps
  <2>2. UNCHANGED <<scenario, status, hellos, arrived>>
    BY <1>4 DEF Forward, history
  <2>. QED
    BY <1>1, <2>1, <2>2 DEF Inv, Addressed
<1>5. ASSUME NEW e \in End, HandleDiscover(e)
      PROVE  Inv' /\ Advances
  <2>1. Fits' /\ Advances
    BY <1>5, DiscoverKeeps
  <2>2. UNCHANGED <<scenario, status, hellos, arrived>>
    BY <1>5 DEF HandleDiscover
  <2>. QED
    BY <1>1, <2>1, <2>2 DEF Inv, Addressed
<1>6. ASSUME NEW e \in End, HandleLost(e)
      PROVE  Inv' /\ Advances
  <2>1. Fits' /\ Advances
    BY <1>6, LostKeeps
  <2>2. UNCHANGED <<scenario, status, hellos, arrived>>
    BY <1>6 DEF HandleLost
  <2>. QED
    BY <1>1, <2>1, <2>2 DEF Inv, Addressed
<1>7. ASSUME NEW e \in End, HandleMessage(e)
      PROVE  Inv' /\ Advances
  <2>1. Fits' /\ Advances /\ Addressed'
    BY <1>7, MessageKeeps
  <2>2. UNCHANGED <<scenario, status, hellos>>
    BY <1>7 DEF HandleMessage
  <2>. QED
    BY <1>1, <2>1, <2>2 DEF Inv
<1>8. ASSUME NEW n \in Node, SendHello(n)
      PROVE  Inv' /\ Advances
  <2>1. Fits' /\ Advances
    BY <1>8, HelloKeeps
  <2>2. /\ UNCHANGED <<scenario, status, arrived>>
        /\ hellos' = hellos + 1 /\ hellos < MaxHello
    BY <1>8 DEF SendHello
  <2>3. hellos' \in 0..MaxHello
    BY <2>2, NetworkAssumption DEF Inv
  <2>. QED
    BY <1>1, <2>1, <2>2, <2>3 DEF Inv, Addressed
<1>9. ASSUME NEW n \in Node, Monitor(n)
      PROVE  Inv' /\ Advances
  <2>1. Fits' /\ Advances
    BY <1>9, MonitorKeeps
  <2>2. UNCHANGED <<scenario, status, hellos, arrived>>
    BY <1>9 DEF Monitor
  <2>. QED
    BY <1>1, <2>1, <2>2 DEF Inv, Addressed
<1>10. ASSUME UNCHANGED vars
       PROVE  Inv' /\ Advances
  BY <1>10 DEF vars, history, Inv, Fits, Addressed, Advances
<1>. QED
  BY <1>2, <1>3, <1>4, <1>5, <1>6, <1>7, <1>8, <1>9, <1>10
     DEF Next, Cut, Follow, Handle

(* Every behaviour stays within the invariant. *)
THEOREM Invariant == Spec => []Inv
<1>1. Init => Inv
  BY InitInv
<1>2. Inv /\ [Next]_vars => Inv'
  BY InvNext
<1>. QED
  BY <1>1, <1>2, PTL DEF Spec

(* The invariant has the types.                                            *)
LEMMA InvTypeOK == Inv => TypeOK
<1>. SUFFICES ASSUME Inv PROVE TypeOK
  OBVIOUS
<1>1. ASSUME NEW n \in Node
      PROVE  /\ tables[n].name = n
             /\ tables[n].routers \in Seq(RouterRecords)
             /\ tables[n].routersById \in Seq(RouterRecords)
             /\ \A i \in DOMAIN tables[n].routersById :
                     LET router == tables[n].routersById[i]
                     IN  router.id = i - 1 /\ (router.source = "none" <=> i = 1)
             /\ \A e \in tables[n].routersByPid :
                     e.pid \in [node : Nat, proc : End \cup {System}]
                     /\ e.router \in RouterRecords
             /\ \A i \in DOMAIN tables[n].bridges :
                     tables[n].bridges[i].names \in Seq(Node)
             /\ tables[n].monitors \subseteq Node
             /\ tables[n].out = <<>>
  <2>1. PICK t : t = tables[n]
    OBVIOUS
  <2>2. TablesFit(t) /\ t.name = n /\ t.out = <<>> /\ t.monitors \subseteq Node
    BY <2>1 DEF Inv, Fits, TablesFit
  <2>3. t.routers \in Seq(RouterRecords) /\ t.routersById \in Seq(RouterRecords)
    BY <2>2 DEF TablesFit, ListFits, ByIdFits
  <2>4. DOMAIN t.routersById = 1..Len(t.routersById) /\ Len(t.routersById) \in Nat
    BY <2>3, Elements
  <2>5. ASSUME NEW i \in DOMAIN t.routersById
        PROVE  /\ t.routersById[i].id = i - 1
               /\ t.routersById[i].source = "none" <=> i = 1
    <3>1. /\ t.routersById[i].id = i - 1
          /\ i > 1 => RouterFits(t, t.routersById[i])
          /\ t.routersById[1] = Self(n)
      BY <2>2, <2>4 DEF TablesFit, ByIdFits
    <3>2. CASE i = 1
      BY <3>1, <3>2 DEF Self, RouterRecord
    <3>3. CASE i # 1
      <4>1. i > 1
        BY <2>4, <3>3
      <4>2. t.routersById[i].source \in Node
        BY <3>1, <4>1 DEF RouterFits
      <4>. QED
        BY <3>1, <3>3, <4>2, NetworkAssumption
    <3>. QED
      BY <3>2, <3>3
  <2>6. ASSUME NEW e \in t.routersByPid
        PROVE  /\ e.pid \in [node : Nat, proc : End \cup {System}]
               /\ e.router \in RouterRecords
    <3>1. /\ e.router.pid = e.pid /\ e.pid # NoPid
          /\ e.router = Self(n) \/ RouterFits(t, e.router)
      BY <2>2 DEF TablesFit, ByPidFits
    <3>2. Self(n) \in RouterRecords
      BY DEF Self, RouterRecord, RouterRecords, Local, Pid
    <3>3. e.router \in RouterRecords
      BY <3>1, <3>2 DEF RouterFits
    <3>. QED
      BY <3>1, <3>3 DEF RouterRecords
  <2>7. ASSUME NEW i \in DOMAIN t.bridges
        PROVE  t.bridges[i].names \in Seq(Node)
    <3>1. PICK S : S = [pid : ContextPid(Ids(t)), names : Seq(Node)]
      OBVIOUS
    <3>2. t.bridges \in Seq(S)
      BY <2>2, <3>1 DEF TablesFit, BridgesFit
    <3>3. t.bridges[i] \in S
      BY <3>2, Elements
    <3>. QED
      BY <3>1, <3>3
  <2>. QED
    BY <2>1, <2>2, <2>3, <2>5, <2>6, <2>7
<1>. QED
  BY <1>1 DEF Inv, TypeOK

(* The Maps of every node hold what they are meant to hold, and the node   *)
(* itself is the only router without a source.                             *)
THEOREM NetworkTypeOK == Spec => []TypeOK
BY Invariant, InvTypeOK, PTL

(* However nodes come and go, a signal to a name and a signal to a pid of  *)
(* that node take one way: routers and routersById of node.js never differ *)
(* about a router in the list.                                             *)
THEOREM NetworkRoutesAgree == Spec => []RoutesAgree
<1>1. Inv => RoutesAgree
  <2>. SUFFICES ASSUME Inv, NEW n \in Node, NEW i \in DOMAIN tables[n].routers
                PROVE  RouterById(tables[n], tables[n].routers[i].id)
                          = tables[n].routers[i]
    BY DEF RoutesAgree
  <2>1. ListFits(tables[n])
    BY DEF Inv, Fits, TablesFit
  <2>2. tables[n].routers[i] \in ToSet(tables[n].routers)
    BY <2>1, Elements DEF ListFits
  <2>. QED
    BY <2>1, <2>2 DEF ListFits, RouterById
<1>. QED
  BY <1>1, Invariant, PTL

(* A pid means the same process on every node it travels to, over any      *)
(* number of nodes and connections that come and go: a message that        *)
(* arrives is on the node of the pid it was sent to, and the sender's pid  *)
(* in it still stands for its node there.                                  *)
THEOREM NetworkAddressed == Spec => []Addressed
<1>1. Inv => Addressed
  BY DEF Inv
<1>. QED
  BY <1>1, Invariant, PTL

(* What every step does to the ids of a node and to what its user watches. *)
LEMMA AdvancesSteps ==
    ASSUME Inv, Advances, NEW n \in Node
    PROVE  /\ Extends(NameOf(tables[n]), NameOf(tables'[n]))
           /\ \A m : /\ Watches(tables[n], m)
                     => Lives(tables'[n], m) \/ <<n, m>> \in told'
<1>1. CASE UNCHANGED <<tables, told>>
  BY <1>1, ExtendsSame DEF Watches, Extends
<1>2. ASSUME NEW k \in Node, NEW t, Advanced(k, t)
      PROVE  /\ Extends(NameOf(tables[n]), NameOf(tables'[n]))
             /\ \A m : /\ Watches(tables[n], m)
                       => Lives(tables'[n], m) \/ <<n, m>> \in told'
  <2>1. PICK u : u = [t EXCEPT !.out = <<>>]
    OBVIOUS
  <2>2. /\ TablesFit(t) /\ Onward(tables[k], t)
        /\ tables' = [tables EXCEPT ![k] = u] /\ told' = told \cup Notified(t)
    BY <1>2, <2>1 DEF Advanced
  <2>3. tables'[n] = IF n = k THEN u ELSE tables[n]
    BY <2>2 DEF Inv, Fits
  <2>4. u.routers = t.routers /\ NameOf(u) = NameOf(t)
    BY <2>1, <2>2, ClearedFits
  <2>5. CASE n # k
    BY <2>3, <2>5 DEF Extends, Watches
  <2>6. CASE n = k
    <3>1. t.name = n
      BY <2>2, <2>6 DEF Onward, Inv, Fits
    <3>2. Extends(NameOf(tables[n]), NameOf(tables'[n]))
      BY <2>2, <2>3, <2>4, <2>6 DEF Onward
    <3>3. ASSUME NEW m, Watches(tables[n], m)
          PROVE  Lives(tables'[n], m) \/ <<n, m>> \in told'
      <4>1. CASE Watches(t, m)
        BY <2>3, <2>4, <2>6, <4>1 DEF Watches, Lives
      <4>2. CASE Reported(t, m)
        BY <2>2, <3>1, <4>2, NotifiedFits
      <4>. QED
        BY <2>2, <2>6, <3>3, <4>1, <4>2 DEF Onward
    <3>. QED
      BY <3>2, <3>3
  <2>. QED
    BY <2>5, <2>6
<1>. QED
  BY <1>1, <1>2 DEF Advances

(* An id stands for one node for ever: pids in the hands of processes are  *)
(* not redirected when nodes come and go, on any node and in any order.    *)
THEOREM NetworkIdsKeepNames == Spec => IdsKeepNames
<1>1. Inv /\ [Next]_vars =>
         \A n \in Node : \A i \in DOMAIN tables[n].routersById :
            tables'[n].routersById[i].name = tables[n].routersById[i].name
  <2>. SUFFICES ASSUME Inv, [Next]_vars, NEW n \in Node,
                       NEW i \in DOMAIN tables[n].routersById
                PROVE  tables'[n].routersById[i].name = tables[n].routersById[i].name
    OBVIOUS
  <2>1. Extends(NameOf(tables[n]), NameOf(tables'[n]))
    BY InvNext, AdvancesSteps
  <2>2. /\ tables[n].routersById \in Seq(RouterRecords)
        /\ DOMAIN tables[n].routersById = 1..Len(tables[n].routersById)
        /\ Len(tables[n].routersById) \in Nat
    BY Elements DEF Inv, Fits, TablesFit, ByIdFits
  <2>3. i - 1 \in Ids(tables[n]) /\ (i - 1) + 1 = i
    BY <2>2 DEF Ids
  <2>4. i - 1 \in Ids(tables'[n])
    BY <2>1, <2>3 DEF Extends, NameOf
  <2>5. /\ NameOf(tables[n])[i - 1] = tables[n].routersById[i].name
        /\ NameOf(tables'[n])[i - 1] = tables'[n].routersById[i].name
    BY <2>3, <2>4 DEF NameOf
  <2>6. i - 1 \in DOMAIN NameOf(tables[n])
    BY <2>3 DEF NameOf
  <2>. QED
    BY <2>1, <2>5, <2>6 DEF Extends
<1>. QED
  BY <1>1, Invariant, PTL DEF Spec, IdsKeepNames

(* Whoever monitors a node that can be reached is sent a nodedown in the   *)
(* same step that takes the route away (unregisterRouter of node.js),      *)
(* however long the way to that node was and whatever broke on it.         *)
THEOREM NetworkWatchersHear == Spec => WatchersHear
<1>1. Inv /\ [Next]_vars =>
         \A n, m \in Node :
            m \in tables[n].monitors /\ Live(n, m) /\ ~Live(n, m)'
               => <<n, m>> \in told'
  <2>. SUFFICES ASSUME Inv, [Next]_vars, NEW n \in Node, NEW m \in Node,
                       m \in tables[n].monitors, Live(n, m), ~Live(n, m)'
                PROVE  <<n, m>> \in told'
    OBVIOUS
  <2>1. Inv' /\ Advances
    BY InvNext
  <2>2. ListFits(tables[n]) /\ ListFits(tables'[n])
    BY <2>1 DEF Inv, Fits, TablesFit
  <2>3. Lives(tables[n], m)
    BY <2>2, LiveLives DEF Live
  <2>4. ~Lives(tables'[n], m)
    BY <2>2, LiveLives DEF Live
  <2>5. Watches(tables[n], m)
    BY <2>3 DEF Watches
  <2>. QED
    BY <2>1, <2>4, <2>5, AdvancesSteps
<1>. QED
  BY <1>1, Invariant, PTL DEF Spec, WatchersHear
=============================================================================
