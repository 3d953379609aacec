-------------------------- MODULE GenServer_proofs --------------------------
(* Servers and callers keep the promise of module Call, only one server    *)
(* runs under the name, and what is left behind in inboxes is explained,   *)
(* for any clients, servers, finitely many calls, and any bounds.          *)
EXTENDS GenServer, SequenceTheorems, FiniteSetTheorems, TLAPS

-----------------------------------------------------------------------------
(* The inductive invariant.                                                *)

(* Signals that fit the call or the server they are about: a request is    *)
(* not yet executed, a reply is of one that was, a DOWN of a dead server.  *)
Fit ==
    {m \in Signal :
        /\ m.kind = "go" => code[m.to] # "none"
        /\ m.kind \in {"call", "monitor", "demonitor"} => callee[m.ref] = m.to
        /\ m.kind = "call" => handled[m.ref] = 0
        /\ m.kind = "reply" => handled[m.ref] = 1
        /\ m.kind = "down" =>
              callee[m.ref] # Nobody /\ life[callee[m.ref]] = "down"}

(* Messages for a server: its own calls, not yet executed. *)
Open(s) == {m \in Task : m \in Ref => callee[m] = s /\ handled[m] = 0}

Calls(q) == {i \in 1..Len(q) : q[i].kind = "call"}

(* No call is twice in a queue, or in an inbox. *)
OneCall(q) == \A i, j \in Calls(q) : q[i].ref = q[j].ref => i = j
Once(box) ==
    \A i, j \in 1..Len(box) : box[i] \in Ref /\ box[i] = box[j] => i = j

(* ... or in both. *)
Lies(r, box) == \E i \in 1..Len(box) : box[i] = r

SignalsFit ==
    /\ queue \in Seq(Fit)
    /\ OneCall(queue)
    /\ \A i \in Calls(queue), s \in Server : ~Lies(queue[i].ref, inbox[s])

ServersFit ==
    \A s \in Server :
        /\ code[s] = "none" <=> life[s] = "none"
        /\ code[s] # "none" => owner[s] # Nobody
        /\ \A r \in watchers[s] : callee[r] = s
        /\ inbox[s] \in Seq(Open(s)) /\ Once(inbox[s])
        /\ task[s] \in Ref => handled[task[s]] = 1
        /\ code[s] = "stopping" /\ answering[s] => task[s] \in Ref

CallsFit ==
    \A r \in Ref :
        /\ caller[r] = Nobody <=> callee[r] = Nobody
        /\ callee[r] = Nobody => handled[r] = 0 /\ result[r] = "none"
        /\ r \in saved => handled[r] = 1

ClientsFit ==
    \A c \in Client : pc[c] = "calling" =>
        /\ wait[c] \in Ref
        /\ caller[wait[c]] = c
        /\ result[wait[c]] = "none"

Inv == TypeOK /\ SignalsFit /\ ServersFit /\ CallsFit /\ ClientsFit

(* What a step of the code is in module Call. *)
Kept == Promise!Next \/ UNCHANGED Promise!vars

-----------------------------------------------------------------------------
(* Sequences.                                                              *)
LEMMA Few ==
    ASSUME NEW S
    PROVE  /\ <<>> \in Seq(S) /\ Len(<<>>) = 0
           /\ \A x \in S : /\ <<x>> \in Seq(S) /\ Len(<<x>>) = 1
                           /\ <<x>>[1] = x
           /\ \A x, y \in S : /\ <<x, y>> \in Seq(S) /\ Len(<<x, y>>) = 2
                              /\ <<x, y>>[1] = x /\ <<x, y>>[2] = y
  OBVIOUS

LEMMA Elements ==
    ASSUME NEW S, NEW T, NEW q \in Seq(S), \A i \in 1..Len(q) : q[i] \in T
    PROVE  q \in Seq(T)
<1>1. Len(q) \in Nat /\ q \in [1..Len(q) -> S] /\ DOMAIN q = 1..Len(q)
  BY LenProperties
<1>2. q \in [1..Len(q) -> T]
  BY <1>1
<1>. QED
  BY <1>1, <1>2, SeqDef

LEMMA Joined ==
    ASSUME NEW S, NEW p \in Seq(S), NEW q \in Seq(S)
    PROVE  /\ p \o q \in Seq(S)
           /\ Len(p) \in Nat /\ Len(q) \in Nat
           /\ Len(p \o q) = Len(p) + Len(q)
           /\ \A i \in 1..Len(p \o q) :
                 /\ (p \o q)[i] = IF i <= Len(p) THEN p[i] ELSE q[i - Len(p)]
                 /\ i <= Len(p) => i \in 1..Len(p)
                 /\ i > Len(p) => i - Len(p) \in 1..Len(q)
<1>1. Len(p) \in Nat /\ Len(q) \in Nat
  BY LenProperties
<1>2. /\ p \o q \in Seq(S) /\ Len(p \o q) = Len(p) + Len(q)
      /\ \A i \in 1..Len(p) + Len(q) :
            (p \o q)[i] = IF i <= Len(p) THEN p[i] ELSE q[i - Len(p)]
  BY ConcatProperties
<1>. QED
  BY <1>1, <1>2

LEMMA Rested ==
    ASSUME NEW S, NEW q \in Seq(S), q # <<>>
    PROVE  /\ Head(q) \in S /\ Head(q) = q[1] /\ 1 \in 1..Len(q)
           /\ Tail(q) \in Seq(S) /\ Len(q) \in Nat
           /\ Len(Tail(q)) = Len(q) - 1
           /\ \A i \in 1..Len(Tail(q)) :
                 Tail(q)[i] = q[i + 1] /\ i + 1 \in 1..Len(q)
<1>1. Len(q) \in Nat /\ Len(q) # 0
  BY EmptySeq, LenProperties
<1>2. /\ Head(q) \in S /\ Tail(q) \in Seq(S) /\ Len(Tail(q)) = Len(q) - 1
      /\ \A i \in 1..Len(Tail(q)) : Tail(q)[i] = q[i + 1]
  BY HeadTailProperties
<1>3. Head(q) = q[1]
  OBVIOUS
<1>. QED
  BY <1>1, <1>2, <1>3

(* The orders of a finite set are sequences of its elements. *)
LEMMA Orders ==
    ASSUME NEW S, IsFiniteSet(S), NEW s \in SetToSeqs(S)
    PROVE  s \in Seq(S)
<1> DEFINE n == Cardinality(S)
<1>1. n \in Nat
  BY FS_CardinalityType
<1>2. s \in [1..n -> S]
  BY DEF SetToSeqs
<1> HIDE DEF n
<1>. QED
  BY <1>1, <1>2, SeqDef

-----------------------------------------------------------------------------
(* Signals.                                                                *)
LEMMA SignalFields ==
    ASSUME NEW m \in Signal
    PROVE  /\ m.kind \in {"go", "cast", "call", "monitor", "demonitor",
                          "reply", "down", "ack"}
           /\ m.kind \in {"go", "cast", "call", "monitor", "demonitor"}
                 => m.to \in Server
           /\ m.kind \in {"reply", "down", "ack"} => m.to \in Client
           /\ m.kind \in {"call", "monitor", "demonitor", "reply", "down"}
                 => m.ref \in Ref
<1>1. CASE m \in [kind : {"go", "cast"}, to : Server]
  BY <1>1
<1>2. CASE m \in [kind : {"call", "monitor", "demonitor"}, to : Server, ref : Ref]
  BY <1>2
<1>3. CASE m \in [kind : {"reply", "down"}, to : Client, ref : Ref]
  BY <1>3
<1>4. CASE m \in [kind : {"ack"}, to : Client, from : Server]
  BY <1>4
<1>. QED
  BY <1>1, <1>2, <1>3, <1>4 DEF Signal

LEMMA SignalsMade ==
    /\ \A s \in Server : Go(s) \in Signal /\ CastTo(s) \in Signal
    /\ \A s \in Server, r \in Ref, kind \in {"call", "monitor", "demonitor"} :
          ToServer(kind, s, r) \in Signal
    /\ \A r \in Ref, kind \in {"reply", "down"} :
          caller[r] \in Client => ToCaller(kind, r) \in Signal
    /\ \A c \in Client, s \in Server : AckTo(c, s) \in Signal
BY DEF Signal, Go, CastTo, ToServer, ToCaller, AckTo

LEMMA SentIfUp ==
    ASSUME NEW S, NEW m \in S, NEW s
    PROVE  /\ IfUp(s, <<m>>) \in Seq(S)
           /\ \A i \in 1..Len(IfUp(s, <<m>>)) : IfUp(s, <<m>>)[i] = m
<1>1. <<>> \in Seq(S) /\ \A i \in 1..Len(<<>>) : <<>>[i] = m
  BY Few
<1>2. <<m>> \in Seq(S) /\ \A i \in 1..Len(<<m>>) : <<m>>[i] = m
  BY Few
<1>. QED
  BY <1>1, <1>2 DEF IfUp

(* What a step may do to the calls and servers that signals are about. *)
Forward ==
    /\ \A r \in Ref : callee[r] # Nobody => callee'[r] = callee[r]
    /\ \A r \in Ref : handled[r] = 1 => handled'[r] = 1
    /\ \A s \in Server : life[s] = "down" => life'[s] = "down"
    /\ \A s \in Server : code[s] # "none" => code'[s] # "none"

(* A signal still fits, unless it is a request that is taken up. *)
LEMMA StillFits ==
    ASSUME TypeOK, Forward, NEW m \in Fit,
           m.kind = "call" => handled'[m.ref] = handled[m.ref]
    PROVE  m \in Fit'
<1>1. m \in Signal
  BY DEF Fit
<1>2. Nobody \notin Server
  BY GenServerAssumption
<1>3. CASE m.kind \in {"call", "monitor", "demonitor"}
  <2>1. m.ref \in Ref /\ m.to \in Server /\ callee[m.ref] = m.to
    BY <1>1, <1>3, SignalFields DEF Fit
  <2>2. callee'[m.ref] = m.to
    BY <1>2, <2>1 DEF Forward
  <2>. QED
    BY <1>1, <1>3, <2>2 DEF Fit
<1>4. CASE m.kind = "reply"
  <2>1. m.ref \in Ref /\ handled[m.ref] = 1
    BY <1>1, <1>4, SignalFields DEF Fit
  <2>. QED
    BY <1>1, <1>4, <2>1 DEF Fit, Forward
<1>5. CASE m.kind = "down"
  <2>1. m.ref \in Ref /\ callee[m.ref] \in Server
        /\ callee[m.ref] # Nobody /\ life[callee[m.ref]] = "down"
    BY <1>1, <1>5, SignalFields DEF Fit, TypeOK
  <2>. QED
    BY <1>1, <1>5, <2>1 DEF Fit, Forward
<1>6. CASE m.kind = "go"
  <2>1. m.to \in Server /\ code[m.to] # "none"
    BY <1>1, <1>6, SignalFields DEF Fit
  <2>. QED
    BY <1>1, <1>6, <2>1 DEF Fit, Forward
<1>7. CASE m.kind \in {"cast", "ack"}
  BY <1>1, <1>7 DEF Fit
<1>. QED
  BY <1>1, <1>3, <1>4, <1>5, <1>6, <1>7, SignalFields

(* The rest of the queue, after the timer that fires or without one. *)
Left(q) == q = queue \/ (queue # <<>> /\ q = Tail(queue))

LEMMA LeftSignals ==
    ASSUME SignalsFit, NEW q, Left(q)
    PROVE  /\ q \in Seq(Fit) /\ OneCall(q)
           /\ \A i \in Calls(q) : /\ q[i] \in Fit
                                  /\ \A s \in Server : ~Lies(q[i].ref, inbox[s])
<1>1. queue \in Seq(Fit)
  BY DEF SignalsFit
<1>2. CASE q = queue
  <2>1. \A i \in 1..Len(queue) : queue[i] \in Fit
    BY <1>1, ElementOfSeq
  <2>. QED
    BY <1>2, <2>1 DEF SignalsFit, Calls
<1>3. CASE queue # <<>> /\ q = Tail(queue)
  <2>1. /\ q \in Seq(Fit) /\ Len(queue) \in Nat /\ Len(q) = Len(queue) - 1
        /\ \A i \in 1..Len(q) : q[i] = queue[i + 1] /\ i + 1 \in 1..Len(queue)
    BY <1>1, <1>3, Rested
  <2>2. \A i \in 1..Len(q) : q[i] \in Fit
    BY <2>1, ElementOfSeq
  <2>3. \A i \in Calls(q) : i \in Nat /\ i + 1 \in Calls(queue) /\ q[i] = queue[i + 1]
    BY <2>1 DEF Calls
  <2>4. OneCall(q)
    BY <2>3 DEF SignalsFit, OneCall
  <2>. QED
    BY <2>1, <2>2, <2>3, <2>4 DEF SignalsFit, Calls
<1>. QED
  BY <1>2, <1>3 DEF Left

(* What is left still fits, and what is sent fits; a request only if it is *)
(* on no way yet.                                                          *)
LEMMA SignalsStep ==
    ASSUME TypeOK, SignalsFit, Forward, NEW q, Left(q),
           NEW add \in Seq(Fit'), queue' = q \o add,
           OneCall(add),
           \A i \in Calls(add) :
              /\ \A j \in Calls(q) : q[j].ref # add[i].ref
              /\ \A s \in Server : ~Lies(add[i].ref, inbox'[s]),
           \A i \in Calls(q) :
              /\ handled'[q[i].ref] = handled[q[i].ref]
              /\ \A s \in Server : ~Lies(q[i].ref, inbox'[s])
    PROVE  SignalsFit' /\ queue' \in Seq(Signal)
<1>1. q \in Seq(Fit) /\ OneCall(q)
  BY LeftSignals
<1>2. \A i \in 1..Len(q) : q[i] \in Fit'
  <2>1. ASSUME NEW i \in 1..Len(q) PROVE q[i] \in Fit'
    <3>1. q[i] \in Fit
      BY <1>1, ElementOfSeq
    <3>2. q[i].kind = "call" => handled'[q[i].ref] = handled[q[i].ref]
      BY DEF Calls
    <3>. QED
      BY <3>1, <3>2, StillFits
  <2>. QED
    BY <2>1
<1>3. q \in Seq(Fit')
  BY <1>1, <1>2, Elements
<1>4. /\ queue' \in Seq(Fit') /\ Len(q) \in Nat
      /\ \A i \in 1..Len(queue') :
            /\ queue'[i] = IF i <= Len(q) THEN q[i] ELSE add[i - Len(q)]
            /\ i <= Len(q) => i \in 1..Len(q)
            /\ i > Len(q) => i - Len(q) \in 1..Len(add)
  BY <1>3, Joined
<1>5. \A i \in Calls(queue') :
          \/ i \in Calls(q) /\ queue'[i] = q[i]
          \/ i - Len(q) \in Calls(add) /\ queue'[i] = add[i - Len(q)]
  BY <1>4 DEF Calls
<1>6. OneCall(queue')
  <2>1. ASSUME NEW i \in Calls(queue'), NEW j \in Calls(queue'),
               queue'[i].ref = queue'[j].ref
        PROVE  i = j
    <3>1. i \in Nat /\ j \in Nat /\ (i - Len(q) = j - Len(q) => i = j)
      BY <1>4 DEF Calls
    <3> DEFINE Old(k) == k \in Calls(q) /\ queue'[k] = q[k]
               New(k) == /\ k - Len(q) \in Calls(add)
                         /\ queue'[k] = add[k - Len(q)]
    <3>2. (Old(i) \/ New(i)) /\ (Old(j) \/ New(j))
      BY <1>5
    <3>3. CASE Old(i) /\ Old(j)
      BY <1>1, <2>1, <3>3 DEF OneCall
    <3>4. CASE New(i) /\ New(j)
      <4>1. add[i - Len(q)].ref = add[j - Len(q)].ref
        BY <2>1, <3>4
      <4>. QED
        BY <3>1, <3>4, <4>1 DEF OneCall
    <3>5. CASE Old(i) /\ New(j)
      BY <2>1, <3>5
    <3>6. CASE New(i) /\ Old(j)
      BY <2>1, <3>6
    <3>. QED
      BY <3>2, <3>3, <3>4, <3>5, <3>6
  <2>. QED
    BY <2>1 DEF OneCall
<1>7. queue' \in Seq(Signal)
  BY <1>4, SeqMonotonic DEF Fit
<1>. QED
  BY <1>4, <1>5, <1>6, <1>7 DEF SignalsFit

-----------------------------------------------------------------------------
(* Steps of module Call.                                                   *)
LEMMA Stutters ==
    ASSUME TypeOK, UNCHANGED <<caller, callee, handled, result>>,
           \A s \in Server : life'[s] = "down" <=> life[s] = "down"
    PROVE  Kept
<1>1. \A r \in Ref : callee[r] # Nobody => callee[r] \in Server
  BY DEF TypeOK
<1>. QED
  BY <1>1 DEF Kept, Promise!vars

LEMMA Crashes ==
    ASSUME TypeOK, CallsFit, UNCHANGED <<caller, callee, handled, result>>,
           NEW s \in Server, life' = [life EXCEPT ![s] = "down"]
    PROVE  Kept
<1> DEFINE asked == {r \in Ref : caller[r] # Nobody}
           gone == {r \in Ref : callee[r] # Nobody /\ life[callee[r]] = "down"}
<1>1. Nobody \notin Server
  BY GenServerAssumption
<1>0. PICK R : R = {r \in Ref : callee[r] = s}
  OBVIOUS
<1>2. R \in SUBSET asked
  BY <1>0, <1>1 DEF CallsFit
<1>3. gone' = gone \cup R
  <2>1. \A r \in Ref : callee[r] # Nobody => callee[r] \in Server
    BY DEF TypeOK
  <2>2. \A t \in Server : life'[t] = "down" <=> t = s \/ life[t] = "down"
    BY DEF TypeOK
  <2>3. gone' = {r \in Ref : callee[r] # Nobody /\ life'[callee[r]] = "down"}
    OBVIOUS
  <2>. QED
    BY <1>0, <1>1, <2>1, <2>2, <2>3
<1>4. Promise!Crash(R)
  BY <1>3 DEF Promise!Crash
<1>. QED
  BY <1>2, <1>4 DEF Kept, Promise!Next

LEMMA Executes ==
    ASSUME TypeOK, CallsFit, UNCHANGED <<caller, callee, life, result>>,
           NEW r \in Ref, handled[r] = 0, callee[r] \in Server,
           life[callee[r]] = "up", handled' = [handled EXCEPT ![r] = 1]
    PROVE  Kept
<1>1. callee[r] # Nobody
  BY GenServerAssumption
<1>2. caller[r] # Nobody
  BY <1>1 DEF CallsFit
<1>3. Promise!Execute(r)
  BY <1>1, <1>2 DEF Promise!Execute
<1>. QED
  BY <1>3 DEF Kept, Promise!Next

LEMMA Answers ==
    ASSUME TypeOK, CallsFit, UNCHANGED <<caller, callee, life, handled>>,
           NEW r \in Ref, NEW how \in {"reply", "down", "timeout"},
           caller[r] # Nobody, result[r] = "none",
           how = "reply" => handled[r] = 1,
           how = "down" => callee[r] # Nobody /\ life[callee[r]] = "down",
           result' = [result EXCEPT ![r] = how]
    PROVE  Kept
<1>1. Promise!Answer(r, how)
  BY DEF Promise!Answer
<1>. QED
  BY <1>1 DEF Kept, Promise!Next

LEMMA Asks ==
    ASSUME TypeOK, CallsFit, UNCHANGED <<life, handled, result>>,
           NEW c \in Client, NEW s \in Server, NEW r \in Ref,
           caller[r] = Nobody,
           caller' = [caller EXCEPT ![r] = c],
           callee' = [callee EXCEPT ![r] = s]
    PROVE  Kept
<1> DEFINE asked == {x \in Ref : caller[x] # Nobody}
           gone == {x \in Ref : callee[x] # Nobody /\ life[callee[x]] = "down"}
<1>1. Nobody \notin Client /\ Nobody \notin Server
  BY GenServerAssumption
<1>2. caller \in [Ref -> Client \cup {Nobody}] /\ callee \in [Ref -> Server \cup {Nobody}]
  BY DEF TypeOK
<1>3. asked' = asked \cup {r}
  BY <1>1, <1>2
<1>4. gone' \in {gone, gone \cup {r}}
  <2>1. \A x \in Ref : x # r => (x \in gone' <=> x \in gone)
    BY <1>2
  <2>2. r \notin gone
    BY DEF CallsFit
  <2>3. \A x : x \in gone \/ x \in gone' => x \in Ref
    OBVIOUS
  <2>. QED
    BY <2>1, <2>2, <2>3
<1>5. Promise!Ask(r)
  BY <1>3, <1>4 DEF Promise!Ask
<1>. QED
  BY <1>5 DEF Kept, Promise!Next

-----------------------------------------------------------------------------
(* A step that takes up no request.                                        *)
LEMMA QuietInboxes ==
    ASSUME Inv, Forward, handled' = handled,
           \A s \in Server : inbox'[s] = inbox[s] \/ inbox'[s] = <<>>
    PROVE  /\ \A s \in Server : inbox'[s] \in Seq(Open(s)') /\ Once(inbox'[s])
           /\ \A r \in Ref, s \in Server :
                 Lies(r, inbox'[s]) => callee[r] = s /\ Lies(r, inbox[s])
<1>1. ASSUME NEW s \in Server
      PROVE  inbox'[s] \in Seq(Open(s)') /\ Once(inbox'[s])
  <2>1. Open(s) \subseteq Open(s)'
    BY GenServerAssumption DEF Open, Forward
  <2>2. inbox[s] \in Seq(Open(s)')
    BY <2>1, SeqMonotonic DEF Inv, ServersFit
  <2>3. <<>> \in Seq(Open(s)') /\ Once(<<>>)
    BY Few DEF Once
  <2>. QED
    BY <2>2, <2>3 DEF Inv, ServersFit
<1>2. ASSUME NEW r \in Ref, NEW s \in Server, Lies(r, inbox'[s])
      PROVE  callee[r] = s /\ Lies(r, inbox[s])
  <2>1. Lies(r, inbox[s])
    BY <1>2, Few DEF Lies
  <2>2. \A i \in 1..Len(inbox[s]) : inbox[s][i] \in Open(s)
    BY ElementOfSeq DEF Inv, ServersFit
  <2>. QED
    BY <2>1, <2>2 DEF Lies, Open
<1>. QED
  BY <1>1, <1>2

LEMMA QuietStep ==
    ASSUME Inv, Forward, handled' = handled,
           \A s \in Server : inbox'[s] = inbox[s] \/ inbox'[s] = <<>>,
           NEW q, Left(q), NEW add \in Seq(Fit'), queue' = q \o add,
           \A i \in 1..Len(add) : add[i].kind # "call"
    PROVE  /\ SignalsFit' /\ queue' \in Seq(Signal)
           /\ \A s \in Server : inbox'[s] \in Seq(Open(s)') /\ Once(inbox'[s])
<1>1. Calls(add) = {}
  BY DEF Calls
<1>2. OneCall(add)
  BY <1>1 DEF OneCall
<1>3. \A i \in Calls(q) : q[i].ref \in Ref
  BY LeftSignals, SignalFields DEF Inv, Fit, Calls
<1>4. \A i \in Calls(q), s \in Server : ~Lies(q[i].ref, inbox'[s])
  BY <1>3, LeftSignals, QuietInboxes DEF Inv
<1>5. SignalsFit' /\ queue' \in Seq(Signal)
  BY <1>1, <1>2, <1>4, SignalsStep DEF Inv
<1>. QED
  BY <1>5, QuietInboxes

(* The head of the loop, which may take a request from the inbox.          *)
Took(s) ==
    \/ handled' = handled
    \/ \E r \in Ref : /\ handled[r] = 0 /\ callee[r] = s /\ life[s] = "up"
                      /\ handled' = [handled EXCEPT ![r] = 1]

TakenTypes ==
    /\ code' \in [Server -> {"none", "pending", "init", "idle", "busy",
                             "stopping", "ended"}]
    /\ task' \in [Server -> Task \cup {"none"}]
    /\ timed' \in [Server -> BOOLEAN]
    /\ inbox' \in [Server -> Seq(Task)]
    /\ handled' \in [Ref -> Nat]

TakenFit(s) ==
    /\ TakenTypes /\ Forward /\ Took(s)
    /\ \A t \in Server : /\ inbox'[t] \in Seq(Open(t)') /\ Once(inbox'[t])
                         /\ task'[t] \in Ref => handled'[task'[t]] = 1
                         /\ code'[t] # "none" => code[t] # "none"
                         /\ code'[t] = "stopping"
                              => code[t] = "stopping" /\ task'[t] = task[t]

(* Requests that lie in no inbox are not touched. *)
Untouched(r) ==
    (\A t \in Server : ~Lies(r, inbox[t]))
        => handled'[r] = handled[r] /\ \A t \in Server : ~Lies(r, inbox'[t])

LEMMA ServerTypes ==
    ASSUME TypeOK
    PROVE  /\ code \in [Server -> {"none", "pending", "init", "idle", "busy",
                                   "stopping", "ended"}]
           /\ task \in [Server -> Task \cup {"none"}]
           /\ timed \in [Server -> BOOLEAN]
           /\ inbox \in [Server -> Seq(Task)]
           /\ handled \in [Ref -> Nat]
           /\ life \in [Server -> {"none", "up", "down"}]
           /\ callee \in [Ref -> Server \cup {Nobody}]
           /\ "none" \notin Ref /\ "cast" \notin Ref /\ "timeout" \notin Ref
BY GenServerAssumption DEF TypeOK

(* One request is taken up: the other ones stay as they are. *)
LEMMA OneTakenUp ==
    ASSUME Inv, NEW s \in Server, NEW m \in Ref, handled[m] = 0, callee[m] = s,
           handled' = [handled EXCEPT ![m] = @ + 1], callee' = callee
    PROVE  /\ handled' = [handled EXCEPT ![m] = 1]
           /\ \A r \in Ref : handled[r] = 1 => r # m /\ handled'[r] = 1
           /\ \A t \in Server : \A x \in Open(t) : x # m => x \in Open(t)'
           /\ \A t \in Server : t # s => m \notin Open(t)
<1>1. handled \in [Ref -> Nat]
  BY DEF Inv, TypeOK
<1>2. handled' = [handled EXCEPT ![m] = 1]
  BY <1>1
<1>. QED
  BY <1>1, <1>2 DEF Open

LEMMA TakeStep ==
    ASSUME Inv, NEW s \in Server, NEW wake \in BOOLEAN, Take(s, wake),
           UNCHANGED <<life, callee>>, code[s] # "none"
    PROVE  TakenFit(s) /\ \A r \in Ref : Untouched(r)
<1>0. /\ TypeOK
      /\ \A t \in Server : /\ inbox[t] \in Seq(Open(t)) /\ Once(inbox[t])
                           /\ task[t] \in Ref => handled[task[t]] = 1
  BY DEF Inv, ServersFit
<1>1. CASE life[s] = "up" /\ inbox[s] # <<>>
  <2> DEFINE m == Head(inbox[s])
  <2>1. /\ m \in Open(s) /\ m = inbox[s][1] /\ 1 \in 1..Len(inbox[s])
        /\ Tail(inbox[s]) \in Seq(Open(s)) /\ Len(inbox[s]) \in Nat
        /\ Len(Tail(inbox[s])) = Len(inbox[s]) - 1
        /\ \A i \in 1..Len(Tail(inbox[s])) :
              /\ Tail(inbox[s])[i] = inbox[s][i + 1]
              /\ i + 1 \in 1..Len(inbox[s])
    BY <1>0, <1>1, Rested
  <2> HIDE DEF m
  <2>2. /\ code' = [code EXCEPT ![s] = "busy"]
        /\ task' = [task EXCEPT ![s] = m]
        /\ inbox' = [inbox EXCEPT ![s] = Tail(@)]
        /\ handled' = IF m \in Ref THEN [handled EXCEPT ![m] = @ + 1] ELSE handled
        /\ timed' = timed
    BY <1>1 DEF Take, Takes, m
  <2>3. /\ m \in Task /\ Tail(inbox[s]) \in Seq(Task)
        /\ m \in Ref => callee[m] = s /\ handled[m] = 0
    <3>1. inbox[s] \in Seq(Task)
      BY <1>0, ServerTypes
    <3>. QED
      BY <1>1, <2>1, <3>1, Rested DEF Open
  <2>4. TakenTypes
    BY <1>0, <2>2, <2>3, ServerTypes DEF TakenTypes
  <2>5. Once(Tail(inbox[s]))
    <3>1. \A i, j \in 1..Len(Tail(inbox[s])) :
              i \in Nat /\ j \in Nat /\ (i + 1 = j + 1 => i = j)
      OBVIOUS
    <3>. QED
      BY <1>0, <2>1, <3>1 DEF Once
  <2>6. \A t \in Server : /\ inbox'[t] = IF t = s THEN Tail(inbox[s]) ELSE inbox[t]
                          /\ task'[t] = IF t = s THEN m ELSE task[t]
                          /\ code'[t] = IF t = s THEN "busy" ELSE code[t]
    BY <1>0, <2>2, ServerTypes
  <2>7. ASSUME NEW r \in Ref, NEW t \in Server, Lies(r, inbox'[t])
        PROVE  Lies(r, inbox[t])
    <3>1. Lies(r, Tail(inbox[s])) => Lies(r, inbox[s])
      BY <2>1 DEF Lies
    <3>. QED
      BY <2>6, <2>7, <3>1
  <2>8. CASE m \in Ref
    <3>1. /\ handled' = [handled EXCEPT ![m] = 1]
          /\ \A r \in Ref : handled[r] = 1 => r # m /\ handled'[r] = 1
          /\ \A t \in Server : \A x \in Open(t) : x # m => x \in Open(t)'
          /\ \A t \in Server : t # s => m \notin Open(t)
      BY <2>2, <2>3, <2>8, OneTakenUp
    <3>2. ASSUME NEW t \in Server PROVE inbox'[t] \in Seq(Open(t)')
      <4>1. CASE t = s
        <5>1. ASSUME NEW i \in 1..Len(Tail(inbox[s]))
              PROVE  Tail(inbox[s])[i] \in Open(s)'
          <6>1. Tail(inbox[s])[i] \in Open(s)
            BY <2>1, ElementOfSeq
          <6>2. Tail(inbox[s])[i] # m
            <7>1. i \in Nat /\ i + 1 # 1
              OBVIOUS
            <7>. QED
              BY <1>0, <2>1, <2>8, <7>1 DEF Once
          <6>. QED
            BY <3>1, <6>1, <6>2
        <5>. QED
          BY <2>1, <2>6, <4>1, <5>1, Elements
      <4>2. CASE t # s
        <5>1. \A i \in 1..Len(inbox[t]) : inbox[t][i] \in Open(t)
          BY <1>0, ElementOfSeq
        <5>2. \A i \in 1..Len(inbox[t]) : inbox[t][i] \in Open(t)'
          BY <3>1, <4>2, <5>1
        <5>. QED
          BY <1>0, <2>6, <4>2, <5>2, Elements
      <4>. QED
        BY <4>1, <4>2
    <3>3. Forward
      BY <1>0, <2>6, <3>1 DEF Forward
    <3>4. Took(s)
      BY <1>1, <2>3, <2>8, <3>1 DEF Took
    <3>5. \A t \in Server : task'[t] \in Ref => handled'[task'[t]] = 1
      <4>1. handled'[m] = 1
        BY <1>0, <2>8, <3>1, ServerTypes
      <4>. QED
        BY <1>0, <2>6, <3>1, <4>1
    <3>6. \A r \in Ref : Untouched(r)
      <4>1. Lies(m, inbox[s])
        BY <2>1 DEF Lies
      <4>2. \A r \in Ref : r # m => handled'[r] = handled[r]
        BY <1>0, <3>1, ServerTypes
      <4>. QED
        BY <2>7, <4>1, <4>2 DEF Untouched
    <3>. QED
      BY <1>0, <2>4, <2>5, <2>6, <3>2, <3>3, <3>4, <3>5, <3>6 DEF TakenFit
  <2>9. CASE m \notin Ref
    <3>1. handled' = handled
      BY <2>2, <2>9
    <3>2. \A t \in Server : Open(t)' = Open(t)
      BY <3>1 DEF Open
    <3>. QED
      BY <1>0, <2>1, <2>4, <2>5, <2>6, <2>7, <2>9, <3>1, <3>2
         DEF TakenFit, Forward, Took, Untouched
  <2>. QED
    BY <2>8, <2>9
<1>2. CASE ~(life[s] = "up" /\ inbox[s] # <<>>)
  <2>1. /\ code' = [code EXCEPT ![s] = IF life[s] = "up" THEN "idle" ELSE "ended"]
        /\ timed' = [timed EXCEPT ![s] = wake /\ life[s] = "up"]
        /\ task' = [task EXCEPT ![s] = "none"]
        /\ inbox' = inbox /\ handled' = handled
    BY <1>2 DEF Take
  <2>2. TakenTypes
    <3>1. (wake /\ life[s] = "up") \in BOOLEAN
      OBVIOUS
    <3>2. timed' \in [Server -> BOOLEAN]
      BY <1>0, <2>1, ServerTypes
    <3>. QED
      BY <1>0, <2>1, <3>2, ServerTypes DEF TakenTypes
  <2>3. \A t \in Server : /\ task'[t] = IF t = s THEN "none" ELSE task[t]
                          /\ t # s => code'[t] = code[t]
                          /\ code'[s] \in {"idle", "ended"}
    BY <1>0, <2>1, ServerTypes
  <2>4. \A t \in Server : Open(t)' = Open(t)
    BY <2>1 DEF Open
  <2>. QED
    BY <1>0, <2>1, <2>2, <2>3, <2>4, ServerTypes
       DEF TakenFit, Forward, Took, Untouched
<1>. QED
  BY <1>1, <1>2

(* A message that reaches the server, a request that lies nowhere else.    *)
LEMMA ArriveStep ==
    ASSUME Inv, NEW s \in Server, NEW m \in Task, Arrives(s, m),
           UNCHANGED <<life, callee>>,
           m \in Ref => /\ callee[m] = s /\ handled[m] = 0
                        /\ \A t \in Server : ~Lies(m, inbox[t])
    PROVE  TakenFit(s) /\ \A r \in Ref : r # m => Untouched(r)
<1>0. /\ TypeOK
      /\ \A t \in Server : /\ inbox[t] \in Seq(Open(t)) /\ Once(inbox[t])
                           /\ task[t] \in Ref => handled[task[t]] = 1
  BY DEF Inv, ServersFit
<1>1. CASE life[s] # "up"
  <2>1. UNCHANGED <<code, task, timed, inbox, handled>>
    BY <1>1 DEF Arrives
  <2>2. \A t \in Server : Open(t)' = Open(t)
    BY <2>1 DEF Open
  <2>. QED
    BY <1>0, <2>1, <2>2, ServerTypes DEF TakenFit, TakenTypes, Forward, Took, Untouched
<1>2. CASE life[s] = "up" /\ code[s] = "idle"
  <2>1. /\ code' = [code EXCEPT ![s] = "busy"]
        /\ task' = [task EXCEPT ![s] = m]
        /\ handled' = IF m \in Ref THEN [handled EXCEPT ![m] = @ + 1] ELSE handled
        /\ timed' = [timed EXCEPT ![s] = FALSE] /\ inbox' = inbox
    BY <1>2 DEF Arrives, Takes
  <2>2. TakenTypes
    BY <1>0, <2>1, ServerTypes DEF TakenTypes
  <2>3. /\ task'[s] = m /\ code'[s] = "busy"
        /\ \A t \in Server : t # s => task'[t] = task[t] /\ code'[t] = code[t]
    BY <1>0, <1>2, <2>1, ServerTypes
  <2>4. CASE m \in Ref
    <3>1. /\ handled' = [handled EXCEPT ![m] = 1]
          /\ \A r \in Ref : handled[r] = 1 => r # m /\ handled'[r] = 1
          /\ \A t \in Server : \A x \in Open(t) : x # m => x \in Open(t)'
      BY <2>1, <2>4, OneTakenUp
    <3>2. ASSUME NEW t \in Server PROVE inbox'[t] \in Seq(Open(t)')
      <4>1. \A i \in 1..Len(inbox[t]) : inbox[t][i] \in Open(t) /\ inbox[t][i] # m
        BY <1>0, <2>4, ElementOfSeq DEF Lies
      <4>2. \A i \in 1..Len(inbox[t]) : inbox[t][i] \in Open(t)'
        BY <3>1, <4>1
      <4>. QED
        BY <1>0, <2>1, <4>2, Elements
    <3>3. handled'[m] = 1 /\ \A r \in Ref : r # m => handled'[r] = handled[r]
      BY <1>0, <2>4, <3>1, ServerTypes
    <3>4. Forward /\ Took(s)
      BY <1>2, <2>1, <2>3, <2>4, <3>1 DEF Forward, Took
    <3>5. \A t \in Server : /\ task'[t] \in Ref => handled'[task'[t]] = 1
                            /\ code'[t] # "none" => code[t] # "none"
                            /\ code'[t] = "stopping"
                              => code[t] = "stopping" /\ task'[t] = task[t]
      BY <1>0, <1>2, <2>3, <3>1, <3>3
    <3>6. \A r \in Ref : r # m => Untouched(r)
      BY <2>1, <3>3 DEF Untouched
    <3>7. TakenFit(s)
      BY <1>0, <2>1, <2>2, <3>2, <3>4, <3>5 DEF TakenFit
    <3>. QED
      BY <3>6, <3>7
  <2>5. CASE m \notin Ref
    <3>1. handled' = handled
      BY <2>1, <2>5
    <3>2. \A t \in Server : Open(t)' = Open(t)
      BY <3>1 DEF Open
    <3>3. \A r \in Ref : Untouched(r)
      BY <2>1, <3>1 DEF Untouched
    <3>4. Forward /\ Took(s)
      BY <1>2, <2>3, <3>1 DEF Forward, Took
    <3>5. \A t \in Server : /\ task'[t] \in Ref => handled'[task'[t]] = 1
                            /\ code'[t] # "none" => code[t] # "none"
                            /\ code'[t] = "stopping"
                              => code[t] = "stopping" /\ task'[t] = task[t]
      BY <1>0, <1>2, <2>3, <2>5, <3>1
    <3>6. TakenFit(s)
      BY <1>0, <2>1, <2>2, <3>2, <3>4, <3>5 DEF TakenFit
    <3>. QED
      BY <3>3, <3>6
  <2>. QED
    BY <2>4, <2>5
<1>3. CASE life[s] = "up" /\ code[s] # "idle"
  <2>1. /\ inbox' = [inbox EXCEPT ![s] = Append(@, m)]
        /\ UNCHANGED <<code, task, timed, handled>>
    BY <1>3 DEF Arrives
  <2>2. m \in Open(s)
    BY DEF Open
  <2>3. \A t \in Server : inbox'[t] = IF t = s THEN Append(inbox[s], m) ELSE inbox[t]
    BY <1>0, <2>1, ServerTypes
  <2>4. /\ Append(inbox[s], m) \in Seq(Open(s)) /\ Len(inbox[s]) \in Nat
        /\ Len(Append(inbox[s], m)) = Len(inbox[s]) + 1
        /\ Append(inbox[s], m)[Len(inbox[s]) + 1] = m
        /\ \A i \in 1..Len(inbox[s]) : Append(inbox[s], m)[i] = inbox[s][i]
    BY <1>0, <2>2, AppendProperties, LenProperties
  <2>5. \A i \in 1..Len(Append(inbox[s], m)) :
            i \in 1..Len(inbox[s]) \/ i = Len(inbox[s]) + 1
    BY <2>4
  <2>6. Once(Append(inbox[s], m))
    <3>1. ASSUME NEW i \in 1..Len(Append(inbox[s], m)),
                 NEW j \in 1..Len(Append(inbox[s], m)),
                 Append(inbox[s], m)[i] \in Ref,
                 Append(inbox[s], m)[i] = Append(inbox[s], m)[j]
          PROVE  i = j
      <4>1. CASE i \in 1..Len(inbox[s]) /\ j \in 1..Len(inbox[s])
        BY <1>0, <2>4, <3>1, <4>1 DEF Once
      <4>2. CASE i = Len(inbox[s]) + 1 /\ j \in 1..Len(inbox[s])
        BY <2>4, <3>1, <4>2 DEF Lies
      <4>3. CASE j = Len(inbox[s]) + 1 /\ i \in 1..Len(inbox[s])
        BY <2>4, <3>1, <4>3 DEF Lies
      <4>. QED
        BY <2>5, <4>1, <4>2, <4>3
    <3>. QED
      BY <3>1 DEF Once
  <2>7. \A t \in Server : Open(t)' = Open(t)
    BY <2>1 DEF Open
  <2>8. \A r \in Ref : r # m => Untouched(r)
    <3>1. ASSUME NEW r \in Ref, r # m, Lies(r, Append(inbox[s], m))
          PROVE  Lies(r, inbox[s])
      BY <2>4, <2>5, <3>1 DEF Lies
    <3>. QED
      BY <2>1, <2>3, <3>1 DEF Untouched
  <2>9. TakenTypes
    <3>1. Append(inbox[s], m) \in Seq(Task)
      BY <1>0, ServerTypes, AppendProperties
    <3>2. inbox' \in [Server -> Seq(Task)]
      BY <1>0, <2>1, <3>1, ServerTypes
    <3>. QED
      BY <1>0, <2>1, <3>2, ServerTypes DEF TakenTypes
  <2>10. Forward /\ Took(s)
    BY <2>1 DEF Forward, Took
  <2>11. ASSUME NEW t \in Server
         PROVE  inbox'[t] \in Seq(Open(t)') /\ Once(inbox'[t])
    BY <1>0, <2>3, <2>4, <2>6, <2>7, ZenonT(40)
  <2>12. \A t \in Server : /\ task'[t] \in Ref => handled'[task'[t]] = 1
                           /\ code'[t] # "none" => code[t] # "none"
                           /\ code'[t] = "stopping"
                              => code[t] = "stopping" /\ task'[t] = task[t]
    BY <1>0, <2>1
  <2>13. TakenFit(s)
    BY <2>9, <2>10, <2>11, <2>12 DEF TakenFit
  <2>. QED
    BY <2>8, <2>13
<1>. QED
  BY <1>1, <1>2, <1>3

-----------------------------------------------------------------------------
(* The steps of the clients.                                               *)
LEMMA StartStep ==
    ASSUME Inv, NEW c \in Client, NEW s \in Server, Start(c, s)
    PROVE  Inv' /\ Kept
<1>0. TypeOK /\ Nobody \notin Client /\ Nobody \notin Server
      /\ code[s] = "none" /\ life[s] = "none"
  BY GenServerAssumption DEF Inv, ServersFit, Start
<1>1. /\ life' = [life EXCEPT ![s] = "up"]
      /\ code' = [code EXCEPT ![s] = "pending"]
      /\ owner' = [owner EXCEPT ![s] = c]
      /\ pc' = [pc EXCEPT ![c] = "starting"]
      /\ wait' = [wait EXCEPT ![c] = s]
      /\ queue' = queue \o <<Go(s)>>
      /\ UNCHANGED <<name, task, answering, timed, inbox, watchers, response>>
      /\ UNCHANGED <<requests, calls>>
  <2>1. Append(queue, Go(s)) = queue \o <<Go(s)>>
    BY AppendIsConcat, SignalsMade, <1>0 DEF TypeOK
  <2>. QED
    BY <2>1 DEF Start
<1>2. \A t \in Server : /\ life'[t] = IF t = s THEN "up" ELSE life[t]
                        /\ code'[t] = IF t = s THEN "pending" ELSE code[t]
                        /\ owner'[t] = IF t = s THEN c ELSE owner[t]
  BY <1>0, <1>1 DEF TypeOK
<1>3. Forward
  BY <1>0, <1>1, <1>2 DEF Forward, requests, calls
<1>4. Go(s) \in Fit'
  BY <1>2, SignalsMade DEF Fit, Go
<1>5. /\ SignalsFit' /\ queue' \in Seq(Signal)
      /\ \A t \in Server : inbox'[t] \in Seq(Open(t)') /\ Once(inbox'[t])
  <2>1. <<Go(s)>> \in Seq(Fit') /\ \A i \in 1..Len(<<Go(s)>>) : <<Go(s)>>[i].kind # "call"
    BY <1>4, Few DEF Go
  <2>2. Left(queue)
    BY DEF Left
  <2>3. handled' = handled /\ inbox' = inbox
    BY <1>1 DEF calls
  <2>. QED
    BY <1>1, <1>3, <2>1, <2>2, <2>3, QuietStep
<1>6. TypeOK'
  BY <1>0, <1>1, <1>5 DEF TypeOK, requests, calls
<1>7. ServersFit'
  BY <1>0, <1>1, <1>2, <1>5 DEF Inv, ServersFit, requests, calls
<1>8. CallsFit' /\ ClientsFit'
  BY <1>0, <1>1 DEF Inv, CallsFit, ClientsFit, TypeOK, requests, calls
<1>9. Kept
  BY <1>0, <1>1, <1>2, Stutters DEF requests, calls
<1>. QED
  BY <1>5, <1>6, <1>7, <1>8, <1>9 DEF Inv

LEMMA CastStep ==
    ASSUME Inv, NEW c \in Client, NEW s \in Server, Cast(c, s)
    PROVE  Inv' /\ Kept
<1>0. TypeOK
  BY DEF Inv
<1>1. /\ queue' = queue \o IfUp(s, <<CastTo(s)>>)
      /\ UNCHANGED <<servers, starts, clients, requests, calls>>
  BY DEF Cast
<1>2. Forward
  BY <1>1 DEF Forward, servers, requests, calls
<1>3. CastTo(s) \in Fit'
  BY SignalsMade DEF Fit, CastTo
<1>4. /\ IfUp(s, <<CastTo(s)>>) \in Seq(Fit')
      /\ \A i \in 1..Len(IfUp(s, <<CastTo(s)>>)) :
            IfUp(s, <<CastTo(s)>>)[i].kind # "call"
  BY <1>3, SentIfUp DEF CastTo
<1>5. Left(queue) /\ handled' = handled /\ inbox' = inbox
  BY <1>1 DEF Left, servers, calls
<1>6. /\ SignalsFit' /\ queue' \in Seq(Signal)
      /\ \A t \in Server : inbox'[t] \in Seq(Open(t)') /\ Once(inbox'[t])
  BY <1>1, <1>2, <1>4, <1>5, QuietStep
<1>7. TypeOK'
  BY <1>0, <1>1, <1>6 DEF TypeOK, servers, starts, clients, requests, calls
<1>8. ServersFit' /\ CallsFit' /\ ClientsFit'
  BY <1>1, <1>6 DEF Inv, ServersFit, CallsFit, ClientsFit,
                    servers, starts, clients, requests, calls
<1>9. Kept
  BY <1>0, <1>1, Stutters DEF servers, requests, calls
<1>. QED
  BY <1>6, <1>7, <1>8, <1>9 DEF Inv

(* A call that returns. *)
LEMMA Returns ==
    ASSUME TypeOK, CallsFit, ClientsFit, NEW r \in Ref, Waiting(r),
           caller[r] \in Client,
           NEW how \in {"reply", "down", "timeout"}, Return(r, how),
           UNCHANGED <<caller, callee, handled, saved>>
    PROVE  /\ CallsFit' /\ ClientsFit' /\ result[r] = "none"
           /\ pc' \in [Client -> {"ready", "starting", "calling"}]
           /\ wait' \in [Client -> Server \cup Ref \cup {Nobody}]
           /\ result' \in [Ref -> {"none", "reply", "down", "timeout"}]
<1>1. /\ result' = [result EXCEPT ![r] = how]
      /\ pc' = [pc EXCEPT ![caller[r]] = "ready"]
      /\ wait' = [wait EXCEPT ![caller[r]] = Nobody]
  BY DEF Return
<1>2. caller[r] # Nobody /\ result[r] = "none"
  BY GenServerAssumption DEF ClientsFit, Waiting
<1>3. CallsFit'
  BY <1>1, <1>2 DEF CallsFit, TypeOK
<1>4. ASSUME NEW c \in Client, pc'[c] = "calling"
      PROVE  wait'[c] \in Ref /\ caller[wait'[c]] = c /\ result'[wait'[c]] = "none"
  <2>1. c # caller[r] /\ pc[c] = "calling" /\ wait'[c] = wait[c]
    BY <1>1, <1>4 DEF TypeOK
  <2>2. wait[c] \in Ref /\ caller[wait[c]] = c /\ result[wait[c]] = "none"
    BY <2>1 DEF ClientsFit
  <2>3. wait[c] # r
    BY <2>1, <2>2
  <2>. QED
    BY <1>1, <2>1, <2>2, <2>3 DEF TypeOK
<1>5. ClientsFit'
  BY <1>4 DEF ClientsFit
<1>. QED
  BY <1>1, <1>2, <1>3, <1>5 DEF TypeOK

LEMMA TimeoutStep ==
    ASSUME Inv, NEW c \in Client, Timeout(c)
    PROVE  Inv' /\ Kept
<1> DEFINE r == wait[c]
<1>0. /\ TypeOK /\ CallsFit /\ ClientsFit
      /\ r \in Ref /\ caller[r] = c /\ caller[r] \in Client /\ Waiting(r)
  BY DEF Inv, ClientsFit, Timeout, Waiting
<1>1. /\ Return(r, "timeout")
      /\ UNCHANGED <<queue, servers, starts, requests>>
      /\ UNCHANGED <<saved, late, killed, handled, strays>>
  BY DEF Timeout
<1> HIDE DEF r
<1>2. /\ CallsFit' /\ ClientsFit' /\ result[r] = "none"
      /\ pc' \in [Client -> {"ready", "starting", "calling"}]
      /\ wait' \in [Client -> Server \cup Ref \cup {Nobody}]
      /\ result' \in [Ref -> {"none", "reply", "down", "timeout"}]
  BY <1>0, <1>1, Returns DEF requests
<1>3. SignalsFit' /\ ServersFit'
  BY <1>1 DEF Inv, SignalsFit, Fit, ServersFit, Open, servers, starts, requests
<1>4. TypeOK'
  BY <1>0, <1>1, <1>2 DEF TypeOK, servers, starts, requests
<1>5. Kept
  <2>1. caller[r] # Nobody
    BY <1>0, GenServerAssumption
  <2>. QED
    BY <1>0, <1>1, <1>2, <2>1, Answers DEF Return, servers, requests
<1>. QED
  BY <1>2, <1>3, <1>4, <1>5 DEF Inv

(* The signals of a new call. *)
LEMMA AskFits ==
    ASSUME NEW c \in Client, NEW s \in Server, NEW r \in Ref,
           callee'[r] = s, handled'[r] = 0, life'[s] = life[s],
           life[s] # "none", life[s] \in {"none", "up", "down"}
    PROVE  /\ MonitorAndAsk(c, s, r) \in Seq(Fit')
           /\ OneCall(MonitorAndAsk(c, s, r))
           /\ \A i \in Calls(MonitorAndAsk(c, s, r)) :
                 MonitorAndAsk(c, s, r)[i].ref = r
<1>0. Nobody \notin Server
  BY GenServerAssumption
<1>1. CASE life[s] = "up"
  <2> DEFINE m == ToServer("monitor", s, r)
             k == ToServer("call", s, r)
  <2>1. m \in Fit' /\ k \in Fit' /\ m.kind = "monitor" /\ k.kind = "call" /\ k.ref = r
    BY SignalsMade DEF Fit, ToServer
  <2> HIDE DEF m, k
  <2>2. /\ <<m, k>> \in Seq(Fit') /\ Len(<<m, k>>) = 2
        /\ <<m, k>>[1] = m /\ <<m, k>>[2] = k
    BY <2>1, Few
  <2>3. Calls(<<m, k>>) \subseteq {2}
    <3>1. 1..2 = {1, 2}
      OBVIOUS
    <3>. QED
      BY <2>1, <2>2, <3>1 DEF Calls
  <2>4. MonitorAndAsk(c, s, r) = <<m, k>>
    BY <1>1 DEF MonitorAndAsk, m, k
  <2>. QED
    BY <2>1, <2>2, <2>3, <2>4 DEF OneCall
<1>2. CASE life[s] # "up"
  <2> DEFINE d == [kind |-> "down", to |-> c, ref |-> r]
  <2>1. d \in Fit' /\ d.kind = "down"
    BY <1>0, <1>2 DEF Fit, Signal
  <2> HIDE DEF d
  <2>2. <<d>> \in Seq(Fit') /\ Len(<<d>>) = 1 /\ <<d>>[1] = d
    BY <2>1, Few
  <2>3. Calls(<<d>>) = {}
    BY <2>1, <2>2 DEF Calls
  <2>4. MonitorAndAsk(c, s, r) = <<d>>
    BY <1>2 DEF MonitorAndAsk, d
  <2>. QED
    BY <2>1, <2>2, <2>3, <2>4 DEF OneCall
<1>. QED
  BY <1>1, <1>2

LEMMA CallStep ==
    ASSUME Inv, NEW c \in Client, NEW s \in Server, NEW r \in Ref,
           NEW forever \in BOOLEAN, Call(c, s, r, forever)
    PROVE  Inv' /\ Kept
<1>0. /\ TypeOK /\ CallsFit /\ caller[r] = Nobody /\ callee[r] = Nobody
      /\ handled[r] = 0 /\ result[r] = "none"
      /\ Nobody \notin Client /\ Nobody \notin Server
      /\ life[s] # "none" /\ pc[c] = "ready"
  BY GenServerAssumption DEF Inv, CallsFit, ServersFit, Call, Known
<1>1. /\ caller' = [caller EXCEPT ![r] = c]
      /\ callee' = [callee EXCEPT ![r] = s]
      /\ patient' = IF forever THEN patient \cup {r} ELSE patient
      /\ pc' = [pc EXCEPT ![c] = "calling"]
      /\ wait' = [wait EXCEPT ![c] = r]
      /\ queue' = queue \o MonitorAndAsk(c, s, r)
      /\ UNCHANGED <<servers, starts, calls>>
  BY DEF Call
<1>2. /\ life' = life /\ handled' = handled /\ inbox' = inbox
      /\ callee'[r] = s /\ caller'[r] = c
      /\ \A x \in Ref : x # r => callee'[x] = callee[x] /\ caller'[x] = caller[x]
  BY <1>0, <1>1 DEF servers, calls, TypeOK
<1>3. Forward
  BY <1>0, <1>1, <1>2 DEF Forward, servers
<1>4. /\ MonitorAndAsk(c, s, r) \in Seq(Fit')
      /\ OneCall(MonitorAndAsk(c, s, r))
      /\ \A i \in Calls(MonitorAndAsk(c, s, r)) :
            MonitorAndAsk(c, s, r)[i].ref = r
  <2>1. life'[s] = life[s] /\ handled'[r] = 0 /\ life[s] \in {"none", "up", "down"}
    BY <1>0, <1>2, ServerTypes
  <2>. QED
    BY <1>0, <1>2, <2>1, AskFits
<1>5. /\ \A t \in Server : inbox'[t] \in Seq(Open(t)') /\ Once(inbox'[t])
      /\ \A x \in Ref, t \in Server : Lies(x, inbox'[t]) => callee[x] = t
  BY <1>2, <1>3, QuietInboxes
<1>6. SignalsFit' /\ queue' \in Seq(Signal)
  <2>1. \A i \in Calls(queue) :
            /\ queue[i].ref # r
            /\ \A t \in Server : ~Lies(queue[i].ref, inbox[t])
    <3>1. ASSUME NEW i \in Calls(queue) PROVE queue[i].ref # r
      <4>1. queue[i] \in Fit /\ queue[i].kind = "call"
        BY LeftSignals DEF Inv, Left, Calls
      <4>2. queue[i].to \in Server /\ callee[queue[i].ref] = queue[i].to
        BY <4>1, SignalFields DEF Fit
      <4>. QED
        BY <1>0, <4>2
    <3>. QED
      BY <3>1 DEF Inv, SignalsFit
  <2>2. \A t \in Server : ~Lies(r, inbox'[t])
    BY <1>0, <1>5
  <2>3. Left(queue)
    BY DEF Left
  <2>4. /\ \A i \in Calls(MonitorAndAsk(c, s, r)) :
              /\ \A j \in Calls(queue) :
                    queue[j].ref # MonitorAndAsk(c, s, r)[i].ref
              /\ \A t \in Server : ~Lies(MonitorAndAsk(c, s, r)[i].ref, inbox'[t])
        /\ \A i \in Calls(queue) :
              /\ handled'[queue[i].ref] = handled[queue[i].ref]
              /\ \A t \in Server : ~Lies(queue[i].ref, inbox'[t])
    BY <1>2, <1>4, <2>1, <2>2
  <2>. QED
    BY <1>1, <1>3, <1>4, <2>3, <2>4, SignalsStep DEF Inv
<1>7. TypeOK'
  BY <1>0, <1>1, <1>6 DEF TypeOK, servers, starts, calls
<1>8. ServersFit'
  <2>1. \A t \in Server : \A x \in watchers[t] : callee'[x] = t
    BY <1>0, <1>2 DEF Inv, ServersFit, TypeOK
  <2>. QED
    BY <1>1, <1>5, <2>1 DEF Inv, ServersFit, servers, starts, calls
<1>9. CallsFit'
  BY <1>0, <1>1, <1>2 DEF CallsFit, calls
<1>10. ClientsFit'
  <2>1. \A d \in Client : d # c => pc'[d] = pc[d] /\ wait'[d] = wait[d]
    BY <1>0, <1>1 DEF TypeOK
  <2>2. pc'[c] = "calling" /\ wait'[c] = r /\ result' = result
    BY <1>0, <1>1 DEF TypeOK, calls
  <2>. QED
    BY <1>0, <1>2, <2>1, <2>2 DEF Inv, ClientsFit
<1>11. Kept
  <2>1. UNCHANGED <<life, handled, result>>
    BY <1>1 DEF servers, calls
  <2>. QED
    BY <1>0, <1>1, <2>1, Asks
<1>. QED
  BY <1>6, <1>7, <1>8, <1>9, <1>10, <1>11 DEF Inv

-----------------------------------------------------------------------------
(* The steps that may take up a request.                                   *)
LEMMA TakenStep ==
    ASSUME Inv, NEW s \in Server, TakenFit(s),
           NEW q, Left(q), \A i \in Calls(q) : Untouched(q[i].ref),
           NEW add \in Seq(Fit'), queue' = q \o add,
           \A i \in 1..Len(add) : add[i].kind # "call",
           UNCHANGED <<name, life, answering, watchers, owner, clients, requests>>,
           UNCHANGED <<late, killed, result, strays>>,
           response' \in [Server -> {"none", "ok", "error", "taken"}],
           saved' \subseteq Ref, \A r \in saved' : handled'[r] = 1
    PROVE  Inv' /\ Kept
<1>0. TypeOK /\ CallsFit /\ Forward /\ TakenTypes /\ Took(s) /\ Nobody \notin Server
  BY GenServerAssumption DEF Inv, TakenFit
<1>1. SignalsFit' /\ queue' \in Seq(Signal)
  <2>1. Calls(add) = {}
    BY DEF Calls
  <2>2. OneCall(add)
    BY <2>1 DEF OneCall
  <2>3. \A i \in Calls(q) : /\ handled'[q[i].ref] = handled[q[i].ref]
                            /\ \A t \in Server : ~Lies(q[i].ref, inbox'[t])
    BY LeftSignals DEF Inv, Untouched
  <2>. QED
    BY <1>0, <2>1, <2>2, <2>3, SignalsStep DEF Inv
<1>2. TypeOK'
  BY <1>0, <1>1 DEF TypeOK, TakenTypes, clients, requests
<1>3. ServersFit'
  <2>1. ASSUME NEW t \in Server
        PROVE  /\ code'[t] = "none" <=> life'[t] = "none"
               /\ code'[t] # "none" => owner'[t] # Nobody
               /\ \A r \in watchers'[t] : callee'[r] = t
               /\ code'[t] = "stopping" /\ answering'[t] => task'[t] \in Ref
    BY <1>0 DEF Inv, ServersFit, TakenFit, Forward, requests
  <2>2. \A t \in Server : /\ inbox'[t] \in Seq(Open(t)') /\ Once(inbox'[t])
                          /\ task'[t] \in Ref => handled'[task'[t]] = 1
    BY DEF TakenFit
  <2>. QED
    BY <2>1, <2>2 DEF ServersFit
<1>4. CallsFit' /\ ClientsFit'
  <2>1. \A r \in Ref : callee[r] = Nobody => handled'[r] = handled[r]
    BY <1>0 DEF Took, TypeOK
  <2>. QED
    BY <2>1 DEF Inv, CallsFit, ClientsFit, clients, requests
<1>5. Kept
  <2>1. CASE handled' = handled
    BY <1>0, <2>1, Stutters DEF requests
  <2>2. ASSUME NEW r \in Ref, handled[r] = 0, callee[r] = s, life[s] = "up",
               handled' = [handled EXCEPT ![r] = 1]
        PROVE  Kept
    BY <1>0, <2>2, Executes DEF requests
  <2>. QED
    BY <1>0, <2>1, <2>2 DEF Took
<1>. QED
  BY <1>1, <1>2, <1>3, <1>4, <1>5 DEF Inv

LEMMA SentFits ==
    /\ \A r \in Ref : caller[r] \in Client /\ handled'[r] = 1
            => ToCaller("reply", r) \in Fit'
    /\ \A r \in Ref : /\ caller[r] \in Client /\ callee'[r] \in Server
                      /\ life'[callee'[r]] = "down"
            => ToCaller("down", r) \in Fit'
    /\ \A c \in Client, s \in Server : AckTo(c, s) \in Fit'
BY GenServerAssumption DEF Fit, Signal, ToCaller, AckTo

(* Someone waits for the call that is handled, and for the server. *)
LEMMA Answered ==
    ASSUME Inv
    PROVE  /\ \A r \in Ref : handled[r] = 1 =>
                    caller[r] \in Client /\ callee[r] \in Server
           /\ \A s \in Server : code[s] # "none" => owner[s] \in Client
           /\ \A s \in Server : \A r \in watchers[s] :
                    r \in Ref /\ caller[r] \in Client /\ callee[r] = s
BY GenServerAssumption DEF Inv, CallsFit, ServersFit, TypeOK

LEMMA InitOkStep ==
    ASSUME Inv, NEW s \in Server, InitOk(s)
    PROVE  Inv' /\ Kept
<1>1. /\ code[s] = "init" /\ Take(s, FALSE)
      /\ response' = [response EXCEPT ![s] = "ok"]
      /\ queue' = queue \o Ack(s)
      /\ UNCHANGED <<name, life, answering, watchers, owner, clients, requests>>
      /\ UNCHANGED <<saved, late, killed, result, strays>>
  BY DEF InitOk
<1>2. TakenFit(s) /\ \A r \in Ref : Untouched(r)
  BY <1>1, TakeStep DEF requests
<1>3. Ack(s) \in Seq(Fit') /\ \A i \in 1..Len(Ack(s)) : Ack(s)[i].kind # "call"
  <2>1. AckTo(owner[s], s) \in Fit' /\ AckTo(owner[s], s).kind = "ack"
    BY <1>1, Answered, SentFits DEF AckTo
  <2>. QED
    BY <2>1, Few DEF Ack
<1>4. response' \in [Server -> {"none", "ok", "error", "taken"}]
  BY <1>1 DEF Inv, TypeOK
<1>5. saved' \subseteq Ref /\ \A r \in saved' : handled'[r] = 1
  BY <1>1, <1>2 DEF Inv, TypeOK, CallsFit, TakenFit, Forward
<1>6. Left(queue) /\ \A i \in Calls(queue) : Untouched(queue[i].ref)
  <2>1. \A i \in Calls(queue) : queue[i].ref \in Ref
    BY LeftSignals, SignalFields DEF Inv, Left, Fit, Calls
  <2>. QED
    BY <1>2, <2>1 DEF Left
<1>. QED
  BY <1>1, <1>2, <1>3, <1>4, <1>5, <1>6, TakenStep

LEMMA HandleReplyStep ==
    ASSUME Inv, NEW s \in Server, NEW wake \in BOOLEAN, HandleReply(s, wake)
    PROVE  Inv' /\ Kept
<1>1. /\ code[s] = "busy" /\ task[s] \in Ref /\ Take(s, wake)
      /\ queue' = Append(queue, ToCaller("reply", task[s]))
      /\ UNCHANGED <<name, life, answering, watchers, starts, clients>>
      /\ UNCHANGED <<requests, saved, late, killed, result, strays>>
  BY DEF HandleReply
<1>2. TakenFit(s) /\ \A r \in Ref : Untouched(r)
  BY <1>1, TakeStep DEF requests
<1>3. /\ handled[task[s]] = 1 /\ handled'[task[s]] = 1
      /\ caller[task[s]] \in Client
  BY <1>1, <1>2, Answered DEF Inv, ServersFit, TakenFit, Forward
<1> DEFINE m == ToCaller("reply", task[s])
<1>4. m \in Fit' /\ m \in Signal /\ m.kind = "reply"
  BY <1>1, <1>3, SentFits, SignalsMade DEF ToCaller
<1> HIDE DEF m
<1>5. <<m>> \in Seq(Fit') /\ \A i \in 1..Len(<<m>>) : <<m>>[i].kind # "call"
  BY <1>4, Few
<1>6. queue' = queue \o <<m>>
  <2>1. queue' = Append(queue, m) /\ queue \in Seq(Signal)
    BY <1>1 DEF Inv, TypeOK, m
  <2>. QED
    BY <1>4, <2>1, AppendIsConcat
<1>7. /\ saved' \subseteq Ref /\ \A r \in saved' : handled'[r] = 1
      /\ response' \in [Server -> {"none", "ok", "error", "taken"}]
  BY <1>1, <1>2 DEF Inv, TypeOK, CallsFit, TakenFit, Forward, starts
<1>8. Left(queue) /\ \A i \in Calls(queue) : Untouched(queue[i].ref)
  <2>1. \A i \in Calls(queue) : queue[i].ref \in Ref
    BY LeftSignals, SignalFields DEF Inv, Left, Fit, Calls
  <2>. QED
    BY <1>2, <2>1 DEF Left
<1>9. UNCHANGED <<name, life, answering, watchers, owner, clients, requests>>
      /\ UNCHANGED <<late, killed, result, strays>>
  BY <1>1 DEF starts
<1>. QED
  BY <1>2, <1>5, <1>6, <1>7, <1>8, <1>9, TakenStep

LEMMA HandleNoReplyStep ==
    ASSUME Inv, NEW s \in Server, NEW wake \in BOOLEAN, HandleNoReply(s, wake)
    PROVE  Inv' /\ Kept
<1>1. /\ code[s] = "busy" /\ Take(s, wake)
      /\ saved' = saved \cup ({task[s]} \cap Ref)
      /\ UNCHANGED <<queue, name, life, answering, watchers, starts, clients>>
      /\ UNCHANGED <<requests, late, killed, result, strays>>
  BY DEF HandleNoReply
<1>2. TakenFit(s) /\ \A r \in Ref : Untouched(r)
  BY <1>1, TakeStep DEF requests
<1>3. <<>> \in Seq(Fit') /\ \A i \in 1..Len(<<>>) : <<>>[i].kind # "call"
  BY Few
<1>4. queue' = queue \o <<>>
  BY <1>1, ConcatEmptySeq DEF Inv, TypeOK
<1>5. /\ saved' \subseteq Ref /\ \A r \in saved' : handled'[r] = 1
      /\ response' \in [Server -> {"none", "ok", "error", "taken"}]
  BY <1>1, <1>2 DEF Inv, TypeOK, CallsFit, ServersFit, TakenFit, Forward, starts
<1>6. Left(queue) /\ \A i \in Calls(queue) : Untouched(queue[i].ref)
  <2>1. \A i \in Calls(queue) : queue[i].ref \in Ref
    BY LeftSignals, SignalFields DEF Inv, Left, Fit, Calls
  <2>. QED
    BY <1>2, <2>1 DEF Left
<1>7. UNCHANGED <<name, life, answering, watchers, owner, clients, requests>>
      /\ UNCHANGED <<late, killed, result, strays>>
  BY <1>1 DEF starts
<1>. QED
  BY <1>2, <1>3, <1>4, <1>5, <1>6, <1>7, TakenStep

(* The timer at the head of the queue. *)
LEMMA Timer ==
    ASSUME Inv, NEW kind, Fires(kind)
    PROVE  /\ Head(queue) \in Fit /\ Head(queue) \in Signal
           /\ Head(queue).kind = kind /\ Left(Tail(queue))
           /\ Tail(queue) = Tail(queue) \o <<>>
           /\ Tail(queue) \in Seq(Fit)
           /\ kind = "call" =>
                 /\ \A t \in Server : ~Lies(Head(queue).ref, inbox[t])
                 /\ \A i \in Calls(Tail(queue)) :
                       Tail(queue)[i].ref # Head(queue).ref
<1>1. queue \in Seq(Fit) /\ queue # <<>> /\ Head(queue).kind = kind
  BY DEF Inv, SignalsFit, Fires
<1>2. /\ Head(queue) \in Fit /\ Head(queue) = queue[1] /\ 1 \in 1..Len(queue)
      /\ Tail(queue) \in Seq(Fit) /\ Len(queue) \in Nat
      /\ Len(Tail(queue)) = Len(queue) - 1
      /\ \A i \in 1..Len(Tail(queue)) :
            Tail(queue)[i] = queue[i + 1] /\ i + 1 \in 1..Len(queue)
  BY <1>1, Rested
<1>3. ASSUME kind = "call"
      PROVE  /\ \A t \in Server : ~Lies(Head(queue).ref, inbox[t])
             /\ \A i \in Calls(Tail(queue)) :
                   Tail(queue)[i].ref # Head(queue).ref
  <2>1. 1 \in Calls(queue)
    BY <1>1, <1>2, <1>3 DEF Calls
  <2>2. \A i \in Calls(Tail(queue)) :
            /\ i + 1 \in Calls(queue) /\ i + 1 # 1
            /\ Tail(queue)[i] = queue[i + 1]
    BY <1>2 DEF Calls
  <2>. QED
    BY <1>2, <2>1, <2>2 DEF Inv, SignalsFit, OneCall
<1>4. Tail(queue) = Tail(queue) \o <<>>
  BY <1>2, ConcatEmptySeq
<1>5. Left(Tail(queue))
  BY <1>1 DEF Left
<1>. QED
  BY <1>1, <1>2, <1>3, <1>4, <1>5 DEF Fit

(* A request reaches the server it is for, or the void. *)
LEMMA OnCallStep ==
    ASSUME Inv, OnCall
    PROVE  Inv' /\ Kept
<1> DEFINE s == Head(queue).to
           m == Head(queue).ref
<1>1. /\ Fires("call") /\ queue' = Tail(queue) /\ Arrives(s, m)
      /\ UNCHANGED <<name, life, answering, watchers, starts, clients>>
      /\ UNCHANGED <<requests, saved, late, killed, result, strays>>
  BY DEF OnCall
<1>2. /\ s \in Server /\ m \in Ref /\ callee[m] = s /\ handled[m] = 0
      /\ \A t \in Server : ~Lies(m, inbox[t])
      /\ \A i \in Calls(Tail(queue)) : Tail(queue)[i].ref # m
  BY <1>1, Timer, SignalFields DEF Fit
<1>3. /\ Left(Tail(queue)) /\ Tail(queue) = Tail(queue) \o <<>>
      /\ Tail(queue) \in Seq(Fit)
  BY <1>1, Timer
<1> HIDE DEF s, m
<1>4. TakenFit(s) /\ \A r \in Ref : r # m => Untouched(r)
  <2>1. UNCHANGED <<life, callee>> /\ m \in Task
    BY <1>1, <1>2 DEF requests, Task
  <2>. QED
    BY <1>1, <1>2, <2>1, ArriveStep
<1>5. /\ saved' \subseteq Ref /\ \A r \in saved' : handled'[r] = 1
      /\ response' \in [Server -> {"none", "ok", "error", "taken"}]
  BY <1>1, <1>4 DEF Inv, TypeOK, CallsFit, TakenFit, Forward, starts
<1>6. \A i \in Calls(Tail(queue)) : Untouched(Tail(queue)[i].ref)
  <2>1. \A i \in Calls(Tail(queue)) : Tail(queue)[i].ref \in Ref
    BY <1>3, LeftSignals, SignalFields DEF Inv, Fit, Calls
  <2>. QED
    BY <1>2, <1>4, <2>1
<1>7. UNCHANGED <<name, life, answering, watchers, owner, clients, requests>>
      /\ UNCHANGED <<late, killed, result, strays>>
  BY <1>1 DEF starts
<1>8. <<>> \in Seq(Fit') /\ \A i \in 1..Len(<<>>) : <<>>[i].kind # "call"
  BY Few
<1>9. queue' = Tail(queue) \o <<>>
  BY <1>1, <1>3
<1>. QED
  BY <1>2, <1>3, <1>4, <1>5, <1>6, <1>7, <1>8, <1>9, TakenStep

LEMMA OnCastStep ==
    ASSUME Inv, OnCast
    PROVE  Inv' /\ Kept
<1> DEFINE s == Head(queue).to
<1>1. /\ Fires("cast") /\ queue' = Tail(queue) /\ Arrives(s, "cast")
      /\ UNCHANGED <<name, life, answering, watchers, starts, clients>>
      /\ UNCHANGED <<requests, saved, late, killed, result, strays>>
  BY DEF OnCast
<1>2. /\ s \in Server /\ Left(Tail(queue))
      /\ Tail(queue) = Tail(queue) \o <<>> /\ Tail(queue) \in Seq(Fit)
  BY <1>1, Timer, SignalFields
<1> HIDE DEF s
<1>3. TakenFit(s) /\ \A r \in Ref : Untouched(r)
  <2>1. UNCHANGED <<life, callee>> /\ "cast" \in Task /\ "cast" \notin Ref
    BY <1>1, GenServerAssumption DEF requests, Task
  <2>. QED
    BY <1>1, <1>2, <2>1, ArriveStep
<1>4. /\ saved' \subseteq Ref /\ \A r \in saved' : handled'[r] = 1
      /\ response' \in [Server -> {"none", "ok", "error", "taken"}]
  BY <1>1, <1>3 DEF Inv, TypeOK, CallsFit, TakenFit, Forward, starts
<1>5. \A i \in Calls(Tail(queue)) : Untouched(Tail(queue)[i].ref)
  <2>1. \A i \in Calls(Tail(queue)) : Tail(queue)[i].ref \in Ref
    BY <1>2, LeftSignals, SignalFields DEF Inv, Fit, Calls
  <2>. QED
    BY <1>3, <2>1
<1>6. UNCHANGED <<name, life, answering, watchers, owner, clients, requests>>
      /\ UNCHANGED <<late, killed, result, strays>>
  BY <1>1 DEF starts
<1>7. <<>> \in Seq(Fit') /\ \A i \in 1..Len(<<>>) : <<>>[i].kind # "call"
  BY Few
<1>8. queue' = Tail(queue) \o <<>>
  BY <1>1, <1>2
<1>. QED
  BY <1>2, <1>3, <1>4, <1>5, <1>6, <1>7, <1>8, TakenStep

-----------------------------------------------------------------------------
(* The steps that end a server.                                            *)
LEMMA DownsSent ==
    ASSUME Inv, NEW s \in Server, NEW downs \in Downs(s),
           UNCHANGED <<caller, callee>>, life'[s] = "down"
    PROVE  downs \in Seq(Fit') /\ \A i \in 1..Len(downs) : downs[i].kind # "call"
<1> DEFINE D == {ToCaller("down", r) : r \in watchers[s]}
<1>1. D \subseteq Fit' /\ \A d \in D : d.kind # "call"
  <2>1. ASSUME NEW r \in watchers[s]
        PROVE  ToCaller("down", r) \in Fit' /\ ToCaller("down", r).kind = "down"
    BY Answered, SentFits DEF ToCaller
  <2>. QED
    BY <2>1
<1>2. IsFiniteSet(watchers[s])
  BY GenServerAssumption, FS_Subset DEF Inv, TypeOK
<1>3. IsFiniteSet(D)
  <2> DEFINE g == [r \in watchers[s] |-> ToCaller("down", r)]
  <2>1. g \in Surjection(watchers[s], D)
    BY DEF Surjection
  <2>. QED
    BY <1>2, <2>1, FS_Surjection
<1>4. downs \in SetToSeqs(D)
  BY DEF Downs
<1> HIDE DEF D
<1>5. downs \in Seq(D)
  BY <1>3, <1>4, Orders
<1>6. \A i \in 1..Len(downs) : downs[i] \in D
  BY <1>5, ElementOfSeq
<1>. QED
  BY <1>1, <1>5, <1>6, SeqMonotonic

LEMMA DiesStep ==
    ASSUME Inv, NEW s \in Server, NEW before, Dies(s, before),
           code[s] # "none", \A t \in Server : code[t] # "none" => code'[t] # "none",
           before \in Seq(Fit'), \A i \in 1..Len(before) : before[i].kind # "call",
           UNCHANGED <<requests, handled, result>>
    PROVE  /\ Forward /\ Kept /\ SignalsFit' /\ queue' \in Seq(Signal)
           /\ \A t \in Server : inbox'[t] \in Seq(Open(t)') /\ Once(inbox'[t])
           /\ \A t \in Server : watchers'[t] \subseteq watchers[t]
           /\ \A t \in Server : life'[t] # "none" <=> life[t] # "none"
           /\ life' \in [Server -> {"none", "up", "down"}]
           /\ name' \in Server \cup {Nobody}
           /\ inbox' \in [Server -> Seq(Task)]
           /\ watchers' \in [Server -> SUBSET Ref]
           /\ timed' \in [Server -> BOOLEAN]
<1>0. TypeOK /\ CallsFit /\ life[s] # "none"
  BY DEF Inv, ServersFit
<1>1. /\ life' = [life EXCEPT ![s] = "down"]
      /\ name' = IF name = s THEN Nobody ELSE name
      /\ inbox' = [inbox EXCEPT ![s] = <<>>]
      /\ watchers' = [watchers EXCEPT ![s] = {}]
      /\ timed' = [timed EXCEPT ![s] = FALSE]
  BY DEF Dies
<1>2. Forward
  BY <1>0, <1>1 DEF Forward, TypeOK, requests
<1>3. Kept
  BY <1>0, <1>1, Crashes DEF requests
<1>4. /\ life'[s] = "down"
      /\ \A t \in Server : /\ inbox'[t] = inbox[t] \/ inbox'[t] = <<>>
                           /\ watchers'[t] \subseteq watchers[t]
                           /\ life'[t] # "none" <=> life[t] # "none"
  BY <1>0, <1>1 DEF TypeOK
<1>5. PICK add \in Seq(Fit') : /\ queue' = queue \o add
                               /\ \A i \in 1..Len(add) : add[i].kind # "call"
  <2>1. CASE life[s] = "up"
    <3>1. PICK downs \in Downs(s) : queue' = queue \o before \o downs
      BY <2>1 DEF Dies
    <3>2. downs \in Seq(Fit') /\ \A i \in 1..Len(downs) : downs[i].kind # "call"
      BY <1>4, DownsSent DEF requests
    <3>3. queue' = queue \o (before \o downs)
      <4>1. queue \in Seq(Signal) /\ before \in Seq(Signal) /\ downs \in Seq(Signal)
        BY <1>0, <3>2, SeqMonotonic DEF TypeOK, Fit
      <4>. QED
        BY <3>1, <4>1, ConcatAssociative, SMTT(20)
    <3>4. /\ before \o downs \in Seq(Fit')
          /\ \A i \in 1..Len(before \o downs) : (before \o downs)[i].kind # "call"
      BY <3>2, Joined
    <3>. QED
      BY <3>3, <3>4
  <2>2. CASE life[s] # "up"
    BY <2>2 DEF Dies
  <2>. QED
    BY <2>1, <2>2
<1>6. /\ SignalsFit' /\ queue' \in Seq(Signal)
      /\ \A t \in Server : inbox'[t] \in Seq(Open(t)') /\ Once(inbox'[t])
  <2>1. Left(queue) /\ handled' = handled
    BY DEF Left
  <2>. QED
    BY <1>2, <1>4, <1>5, <2>1, QuietStep
<1>7. /\ life' \in [Server -> {"none", "up", "down"}]
      /\ name' \in Server \cup {Nobody}
      /\ watchers' \in [Server -> SUBSET Ref]
      /\ timed' \in [Server -> BOOLEAN]
  BY <1>0, <1>1 DEF TypeOK
<1>8. inbox' \in [Server -> Seq(Task)]
  <2>1. <<>> \in Seq(Task)
    BY Few
  <2>. QED
    BY <1>0, <1>1, <2>1 DEF TypeOK
<1>. QED
  BY <1>2, <1>3, <1>4, <1>6, <1>7, <1>8

(* Servers whose request is the old one, or none. *)
LEMMA ServersKept ==
    ASSUME Inv, Forward, UNCHANGED <<callee, handled, owner>>,
           \A t \in Server :
              /\ inbox'[t] \in Seq(Open(t)') /\ Once(inbox'[t])
              /\ watchers'[t] \subseteq watchers[t]
              /\ life'[t] # "none" <=> life[t] # "none"
              /\ code'[t] # "none" <=> code[t] # "none"
              /\ task'[t] \in Ref => task'[t] = task[t]
              /\ code'[t] = "stopping" /\ answering'[t] => task'[t] \in Ref
    PROVE  ServersFit'
<1>1. ASSUME NEW t \in Server
      PROVE  /\ code'[t] = "none" <=> life'[t] = "none"
             /\ code'[t] # "none" => owner'[t] # Nobody
             /\ \A r \in watchers'[t] : callee'[r] = t
             /\ task'[t] \in Ref => handled'[task'[t]] = 1
  BY DEF Inv, ServersFit
<1>. QED
  BY <1>1 DEF ServersFit

LEMMA InitFailStep ==
    ASSUME Inv, NEW s \in Server, InitFail(s)
    PROVE  Inv' /\ Kept
<1>1. /\ code[s] = "init" /\ Dies(s, Ack(s))
      /\ response' = [response EXCEPT ![s] = "error"]
      /\ code' = [code EXCEPT ![s] = "ended"]
      /\ UNCHANGED <<task, answering, owner, clients, requests, calls>>
  BY DEF InitFail
<1>2. Ack(s) \in Seq(Fit') /\ \A i \in 1..Len(Ack(s)) : Ack(s)[i].kind # "call"
  <2>1. AckTo(owner[s], s) \in Fit' /\ AckTo(owner[s], s).kind = "ack"
    BY <1>1, Answered, SentFits DEF AckTo
  <2>. QED
    BY <2>1, Few DEF Ack
<1>3. \A t \in Server : code'[t] = IF t = s THEN "ended" ELSE code[t]
  BY <1>1 DEF Inv, TypeOK
<1>4. UNCHANGED <<requests, handled, result, saved>>
  BY <1>1 DEF calls
<1>5. \A t \in Server : code[t] # "none" <=> code'[t] # "none"
  BY <1>1, <1>3
<1>6. /\ Forward /\ Kept /\ SignalsFit' /\ queue' \in Seq(Signal)
      /\ \A t \in Server : inbox'[t] \in Seq(Open(t)') /\ Once(inbox'[t])
      /\ \A t \in Server : watchers'[t] \subseteq watchers[t]
      /\ \A t \in Server : life'[t] # "none" <=> life[t] # "none"
      /\ life' \in [Server -> {"none", "up", "down"}]
      /\ name' \in Server \cup {Nobody}
      /\ inbox' \in [Server -> Seq(Task)]
      /\ watchers' \in [Server -> SUBSET Ref]
      /\ timed' \in [Server -> BOOLEAN]
  BY <1>1, <1>2, <1>4, <1>5, DiesStep
<1>7. TypeOK'
  BY <1>1, <1>6 DEF Inv, TypeOK, clients, requests, calls
<1>8. ServersFit'
  <2>1. \A t \in Server : code'[t] = "stopping" /\ answering'[t] => task'[t] \in Ref
    BY <1>1, <1>3 DEF Inv, ServersFit
  <2>. QED
    BY <1>1, <1>5, <1>6, <2>1, ServersKept DEF requests, calls
<1>9. CallsFit' /\ ClientsFit'
  BY <1>1 DEF Inv, CallsFit, ClientsFit, clients, requests, calls
<1>. QED
  BY <1>6, <1>7, <1>8, <1>9 DEF Inv

LEMMA TerminatedStep ==
    ASSUME Inv, NEW s \in Server, Terminated(s)
    PROVE  Inv' /\ Kept
<1> DEFINE before == IF answering[s] THEN <<ToCaller("reply", task[s])>> ELSE <<>>
<1>1. /\ code[s] = "stopping" /\ Dies(s, before)
      /\ code' = [code EXCEPT ![s] = "ended"]
      /\ task' = [task EXCEPT ![s] = "none"]
      /\ answering' = [answering EXCEPT ![s] = FALSE]
      /\ UNCHANGED <<starts, clients, requests, calls>>
  BY DEF Terminated
<1>2. before \in Seq(Fit') /\ \A i \in 1..Len(before) : before[i].kind # "call"
  <2>1. CASE answering[s]
    <3>1. task[s] \in Ref /\ handled'[task[s]] = 1 /\ caller[task[s]] \in Client
      BY <1>1, <2>1, Answered DEF Inv, ServersFit, calls
    <3>2. /\ ToCaller("reply", task[s]) \in Fit'
          /\ ToCaller("reply", task[s]).kind = "reply"
      BY <3>1, SentFits DEF ToCaller
    <3>. QED
      BY <2>1, <3>2, Few
  <2>2. CASE ~answering[s]
    BY <2>2, Few
  <2>. QED
    BY <2>1, <2>2
<1> HIDE DEF before
<1>3. /\ \A t \in Server : t # s => code'[t] = code[t] /\ task'[t] = task[t]
                                    /\ answering'[t] = answering[t]
      /\ code'[s] = "ended" /\ task'[s] = "none" /\ "none" \notin Ref
  BY <1>1, ServerTypes DEF Inv, TypeOK
<1>4. UNCHANGED <<requests, handled, result, saved>>
  BY <1>1 DEF calls
<1>5. \A t \in Server : code[t] # "none" <=> code'[t] # "none"
  BY <1>1, <1>3
<1>6. /\ Forward /\ Kept /\ SignalsFit' /\ queue' \in Seq(Signal)
      /\ \A t \in Server : inbox'[t] \in Seq(Open(t)') /\ Once(inbox'[t])
      /\ \A t \in Server : watchers'[t] \subseteq watchers[t]
      /\ \A t \in Server : life'[t] # "none" <=> life[t] # "none"
      /\ life' \in [Server -> {"none", "up", "down"}]
      /\ name' \in Server \cup {Nobody}
      /\ inbox' \in [Server -> Seq(Task)]
      /\ watchers' \in [Server -> SUBSET Ref]
      /\ timed' \in [Server -> BOOLEAN]
  BY <1>1, <1>2, <1>4, <1>5, DiesStep
<1>7. TypeOK'
  BY <1>1, <1>6 DEF Inv, TypeOK, starts, clients, requests, calls
<1>8. ServersFit'
  <2>1. \A t \in Server :
            /\ task'[t] \in Ref => task'[t] = task[t]
            /\ code'[t] = "stopping" /\ answering'[t] => task'[t] \in Ref
    BY <1>3 DEF Inv, ServersFit
  <2>. QED
    BY <1>1, <1>5, <1>6, <2>1, ServersKept DEF requests, calls, starts
<1>9. CallsFit' /\ ClientsFit'
  BY <1>1 DEF Inv, CallsFit, ClientsFit, clients, requests, calls
<1>. QED
  BY <1>6, <1>7, <1>8, <1>9 DEF Inv

LEMMA KillStep ==
    ASSUME Inv, NEW s \in Server, Kill(s)
    PROVE  Inv' /\ Kept
<1>1. /\ code[s] # "none" /\ Dies(s, <<>>)
      /\ code' = [code EXCEPT ![s] = IF @ = "idle" THEN "ended" ELSE @]
      /\ killed' = killed \cup {s}
      /\ UNCHANGED <<task, answering, starts, clients, requests>>
      /\ UNCHANGED <<saved, late, handled, result, strays>>
  BY DEF Kill, Known
<1>2. <<>> \in Seq(Fit') /\ \A i \in 1..Len(<<>>) : <<>>[i].kind # "call"
  BY Few
<1>3. \A t \in Server : \/ code'[t] = code[t]
                        \/ /\ code[t] = "idle"
                           /\ code'[t] = "ended"
  BY <1>1 DEF Inv, TypeOK
<1>4. UNCHANGED <<requests, handled, result, saved>>
  BY <1>1
<1>5. \A t \in Server : code[t] # "none" <=> code'[t] # "none"
  BY <1>3
<1>6. /\ Forward /\ Kept /\ SignalsFit' /\ queue' \in Seq(Signal)
      /\ \A t \in Server : inbox'[t] \in Seq(Open(t)') /\ Once(inbox'[t])
      /\ \A t \in Server : watchers'[t] \subseteq watchers[t]
      /\ \A t \in Server : life'[t] # "none" <=> life[t] # "none"
      /\ life' \in [Server -> {"none", "up", "down"}]
      /\ name' \in Server \cup {Nobody}
      /\ inbox' \in [Server -> Seq(Task)]
      /\ watchers' \in [Server -> SUBSET Ref]
      /\ timed' \in [Server -> BOOLEAN]
  BY <1>1, <1>2, <1>4, <1>5, DiesStep
<1>7. TypeOK'
  BY <1>1, <1>6, ZenonT(40) DEF Inv, TypeOK, starts, clients, requests
<1>8. ServersFit'
  <2>1. \A t \in Server : code'[t] = "stopping" /\ answering'[t] => task'[t] \in Ref
    BY <1>1, <1>3 DEF Inv, ServersFit
  <2>. QED
    BY <1>1, <1>5, <1>6, <2>1, ServersKept DEF requests, starts
<1>9. CallsFit' /\ ClientsFit'
  BY <1>1 DEF Inv, CallsFit, ClientsFit, clients, requests
<1>. QED
  BY <1>6, <1>7, <1>8, <1>9 DEF Inv

-----------------------------------------------------------------------------
(* The other steps of a server.                                            *)
LEMMA ReplySavedStep ==
    ASSUME Inv, NEW s \in Server, NEW r \in Ref, ReplySaved(s, r)
    PROVE  Inv' /\ Kept
<1> DEFINE m == ToCaller("reply", r)
<1>1. /\ r \in saved /\ saved' = saved \ {r}
      /\ queue' = Append(queue, m)
      /\ UNCHANGED <<servers, starts, clients, requests>>
      /\ UNCHANGED <<late, killed, handled, result, strays>>
  BY DEF ReplySaved
<1>2. handled'[r] = 1 /\ caller[r] \in Client
  BY <1>1, Answered DEF Inv, CallsFit
<1>3. m \in Fit' /\ m \in Signal /\ m.kind = "reply"
  BY <1>2, SentFits, SignalsMade DEF ToCaller
<1> HIDE DEF m
<1>4. <<m>> \in Seq(Fit') /\ \A i \in 1..Len(<<m>>) : <<m>>[i].kind # "call"
  BY <1>3, Few
<1>5. queue' = queue \o <<m>>
  <2>1. queue \in Seq(Signal)
    BY DEF Inv, TypeOK
  <2>. QED
    BY <1>1, <1>3, <2>1, AppendIsConcat
<1>6. Forward /\ Left(queue) /\ handled' = handled /\ inbox' = inbox
  BY <1>1 DEF Forward, Left, servers, requests
<1>7. /\ SignalsFit' /\ queue' \in Seq(Signal)
      /\ \A t \in Server : inbox'[t] \in Seq(Open(t)') /\ Once(inbox'[t])
  BY <1>4, <1>5, <1>6, QuietStep
<1>8. TypeOK'
  BY <1>1, <1>7 DEF Inv, TypeOK, servers, starts, clients, requests
<1>9. ServersFit' /\ CallsFit' /\ ClientsFit'
  BY <1>1, <1>7 DEF Inv, ServersFit, CallsFit, ClientsFit,
                    servers, starts, clients, requests
<1>10. Kept
  BY <1>1, Stutters DEF Inv, servers, requests
<1>. QED
  BY <1>7, <1>8, <1>9, <1>10 DEF Inv

(* A server that goes on by itself: no signal is sent and no call changes. *)
LEMMA ServerStep ==
    ASSUME Inv, UNCHANGED <<queue, name, life, inbox, watchers, starts>>,
           UNCHANGED <<clients, requests, calls>>,
           code' \in [Server -> {"none", "pending", "init", "idle", "busy",
                                 "stopping", "ended"}],
           task' \in [Server -> Task \cup {"none"}],
           answering' \in [Server -> BOOLEAN], timed' \in [Server -> BOOLEAN],
           \A t \in Server :
              /\ code'[t] # "none" <=> code[t] # "none"
              /\ task'[t] \in Ref => task'[t] = task[t]
              /\ code'[t] = "stopping" /\ answering'[t] => task'[t] \in Ref
    PROVE  Inv' /\ Kept
<1>1. Forward
  BY DEF Forward, requests, calls
<1>2. SignalsFit'
  <2>1. Fit \subseteq Fit'
    BY <1>1, StillFits DEF Inv, calls
  <2>2. queue \in Seq(Fit')
    BY <2>1, SeqMonotonic DEF Inv, SignalsFit
  <2>. QED
    BY <2>2 DEF Inv, SignalsFit, requests, calls
<1>3. TypeOK'
  BY DEF Inv, TypeOK, starts, clients, requests, calls
<1>4. ServersFit'
  <2>1. \A t \in Server : inbox'[t] \in Seq(Open(t)') /\ Once(inbox'[t])
    BY <1>1, QuietInboxes DEF calls
  <2>. QED
    BY <1>1, <2>1, ServersKept DEF requests, calls, starts
<1>5. CallsFit' /\ ClientsFit'
  BY DEF Inv, CallsFit, ClientsFit, clients, requests, calls
<1>6. Kept
  BY Stutters DEF Inv, requests, calls
<1>. QED
  BY <1>2, <1>3, <1>4, <1>5, <1>6 DEF Inv

LEMMA StopStep ==
    ASSUME Inv, NEW s \in Server, NEW replies \in BOOLEAN, Stop(s, replies)
    PROVE  Inv' /\ Kept
<1>1. /\ code[s] = "busy" /\ (replies => task[s] \in Ref)
      /\ code' = [code EXCEPT ![s] = "stopping"]
      /\ answering' = [answering EXCEPT ![s] = replies]
      /\ UNCHANGED <<queue, name, life, task, timed, inbox, watchers>>
      /\ UNCHANGED <<starts, clients, requests, calls>>
  BY DEF Stop
<1>2. /\ code'[s] = "stopping" /\ answering'[s] = replies
      /\ \A t \in Server : t # s => code'[t] = code[t] /\ answering'[t] = answering[t]
  BY <1>1 DEF Inv, TypeOK
<1>3. \A t \in Server :
          /\ code'[t] # "none" <=> code[t] # "none"
          /\ task'[t] \in Ref => task'[t] = task[t]
          /\ code'[t] = "stopping" /\ answering'[t] => task'[t] \in Ref
  BY <1>1, <1>2 DEF Inv, ServersFit
<1>4. /\ code' \in [Server -> {"none", "pending", "init", "idle", "busy",
                               "stopping", "ended"}]
      /\ task' \in [Server -> Task \cup {"none"}]
      /\ answering' \in [Server -> BOOLEAN] /\ timed' \in [Server -> BOOLEAN]
  BY <1>1 DEF Inv, TypeOK
<1>. QED
  BY <1>1, <1>3, <1>4, ServerStep

LEMMA WakeUpStep ==
    ASSUME Inv, NEW s \in Server, WakeUp(s)
    PROVE  Inv' /\ Kept
<1>1. /\ code[s] = "idle"
      /\ code' = [code EXCEPT ![s] = "busy"]
      /\ task' = [task EXCEPT ![s] = "timeout"]
      /\ timed' = [timed EXCEPT ![s] = FALSE]
      /\ UNCHANGED <<queue, name, life, answering, inbox, watchers>>
      /\ UNCHANGED <<starts, clients, requests, calls>>
  BY DEF WakeUp
<1>2. /\ code'[s] = "busy" /\ task'[s] = "timeout" /\ "timeout" \notin Ref
      /\ \A t \in Server : t # s => code'[t] = code[t] /\ task'[t] = task[t]
  BY <1>1, ServerTypes DEF Inv, TypeOK
<1>3. \A t \in Server :
          /\ code'[t] # "none" <=> code[t] # "none"
          /\ task'[t] \in Ref => task'[t] = task[t]
          /\ code'[t] = "stopping" /\ answering'[t] => task'[t] \in Ref
  BY <1>1, <1>2 DEF Inv, ServersFit
<1>4. /\ code' \in [Server -> {"none", "pending", "init", "idle", "busy",
                               "stopping", "ended"}]
      /\ task' \in [Server -> Task \cup {"none"}]
      /\ answering' \in [Server -> BOOLEAN] /\ timed' \in [Server -> BOOLEAN]
  BY <1>1 DEF Inv, TypeOK, Task
<1>. QED
  BY <1>1, <1>3, <1>4, ServerStep

-----------------------------------------------------------------------------
(* The other timers.                                                       *)
LEMMA OnGoStep ==
    ASSUME Inv, OnGo
    PROVE  Inv' /\ Kept
<1> DEFINE s == Head(queue).to
<1>1. /\ Fires("go")
      /\ UNCHANGED <<task, answering, timed, inbox, watchers, owner>>
      /\ UNCHANGED <<clients, requests, calls>>
  BY DEF OnGo
<1>2. /\ s \in Server /\ code[s] # "none" /\ Left(Tail(queue))
      /\ Tail(queue) = Tail(queue) \o <<>> /\ Tail(queue) \in Seq(Fit)
  BY <1>1, Timer, SignalFields DEF Fit
<1>3. \/ /\ name' = s /\ code' = [code EXCEPT ![s] = "init"]
         /\ queue' = Tail(queue) /\ UNCHANGED <<life, response>>
      \/ /\ life' = [life EXCEPT ![s] = "down"]
         /\ code' = [code EXCEPT ![s] = "ended"]
         /\ response' = [response EXCEPT ![s] = "taken"]
         /\ queue' = Tail(queue) \o Ack(s)
         /\ UNCHANGED name
  BY DEF OnGo
<1> HIDE DEF s
<1>4. /\ \A t \in Server : t # s => code'[t] = code[t]
      /\ code'[s] \in {"init", "ended"}
      /\ code' \in [Server -> {"none", "pending", "init", "idle", "busy",
                               "stopping", "ended"}]
      /\ \A t \in Server : /\ life'[t] = life[t] \/ life'[t] = "down"
                           /\ life'[t] # "none" <=> life[t] # "none"
      /\ life' \in [Server -> {"none", "up", "down"}]
      /\ response' \in [Server -> {"none", "ok", "error", "taken"}]
      /\ name' \in Server \cup {Nobody}
  <2>0. TypeOK /\ life[s] # "none"
    BY <1>2 DEF Inv, ServersFit
  <2>1. code' = [code EXCEPT ![s] = "init"] \/ code' = [code EXCEPT ![s] = "ended"]
    BY <1>3
  <2>2. life' = life \/ life' = [life EXCEPT ![s] = "down"]
    BY <1>3
  <2>3. response' = response \/ response' = [response EXCEPT ![s] = "taken"]
    BY <1>3
  <2>4. name' = s \/ name' = name
    BY <1>3
  <2>5. /\ \A t \in Server : t # s => code'[t] = code[t]
        /\ code'[s] \in {"init", "ended"}
        /\ code' \in [Server -> {"none", "pending", "init", "idle", "busy",
                                 "stopping", "ended"}]
    BY <1>2, <2>0, <2>1, ZenonT(40) DEF TypeOK
  <2>6. /\ \A t \in Server : /\ life'[t] = life[t] \/ life'[t] = "down"
                             /\ life'[t] # "none" <=> life[t] # "none"
        /\ life' \in [Server -> {"none", "up", "down"}]
    BY <1>2, <2>0, <2>2, ZenonT(40) DEF TypeOK
  <2>7. /\ response' \in [Server -> {"none", "ok", "error", "taken"}]
        /\ name' \in Server \cup {Nobody}
    BY <1>2, <2>0, <2>3, <2>4, ZenonT(40) DEF TypeOK
  <2>. QED
    BY <2>5, <2>6, <2>7
<1>5. Forward
  BY <1>1, <1>4 DEF Forward, requests, calls
<1>6. \E add \in Seq(Fit') : /\ queue' = Tail(queue) \o add
                             /\ \A i \in 1..Len(add) : add[i].kind # "call"
  <2>1. <<>> \in Seq(Fit') /\ \A i \in 1..Len(<<>>) : <<>>[i].kind # "call"
    BY Few
  <2>2. Ack(s) \in Seq(Fit') /\ \A i \in 1..Len(Ack(s)) : Ack(s)[i].kind # "call"
    <3>1. AckTo(owner[s], s) \in Fit' /\ AckTo(owner[s], s).kind = "ack"
      BY <1>2, Answered, SentFits DEF AckTo
    <3>. QED
      BY <3>1, Few DEF Ack
  <2>. QED
    BY <1>2, <1>3, <2>1, <2>2
<1>7. /\ SignalsFit' /\ queue' \in Seq(Signal)
      /\ \A t \in Server : inbox'[t] \in Seq(Open(t)') /\ Once(inbox'[t])
  <2>1. handled' = handled /\ inbox' = inbox
    BY <1>1 DEF calls
  <2>. QED
    BY <1>2, <1>5, <1>6, <2>1, QuietStep
<1>8. TypeOK'
  BY <1>1, <1>4, <1>7 DEF Inv, TypeOK, clients, requests, calls
<1>9. ServersFit'
  <2>1. \A t \in Server :
            /\ code'[t] # "none" <=> code[t] # "none"
            /\ code'[t] = "stopping" /\ answering'[t] => task'[t] \in Ref
    BY <1>1, <1>2, <1>4 DEF Inv, ServersFit
  <2>. QED
    BY <1>1, <1>4, <1>5, <1>7, <2>1, ServersKept DEF requests, calls
<1>10. CallsFit' /\ ClientsFit'
  BY <1>1 DEF Inv, CallsFit, ClientsFit, clients, requests, calls
<1>11. Kept
  BY <1>1, <1>2, <1>3, Stutters, Crashes DEF Inv, requests, calls
<1>. QED
  BY <1>7, <1>8, <1>9, <1>10, <1>11 DEF Inv

LEMMA OnAckStep ==
    ASSUME Inv, OnAck
    PROVE  Inv' /\ Kept
<1> DEFINE c == Head(queue).to
<1>1. /\ Fires("ack")
      /\ pc' = [pc EXCEPT ![c] = "ready"]
      /\ wait' = [wait EXCEPT ![c] = Nobody]
      /\ queue' = Tail(queue)
      /\ UNCHANGED <<servers, starts, requests, calls>>
  BY DEF OnAck
<1>2. /\ c \in Client /\ Left(Tail(queue))
      /\ queue' = Tail(queue) \o <<>>
  BY <1>1, Timer, SignalFields
<1> HIDE DEF c
<1>3. Forward /\ handled' = handled /\ inbox' = inbox
  BY <1>1 DEF Forward, servers, requests, calls
<1>4. /\ SignalsFit' /\ queue' \in Seq(Signal)
      /\ \A t \in Server : inbox'[t] \in Seq(Open(t)') /\ Once(inbox'[t])
  <2>1. <<>> \in Seq(Fit') /\ \A i \in 1..Len(<<>>) : <<>>[i].kind # "call"
    BY Few
  <2>. QED
    BY <1>2, <1>3, <2>1, QuietStep
<1>5. TypeOK'
  BY <1>1, <1>2, <1>4 DEF Inv, TypeOK, servers, starts, requests, calls
<1>6. ServersFit' /\ CallsFit'
  BY <1>1, <1>4 DEF Inv, ServersFit, CallsFit, servers, starts, requests, calls
<1>7. ClientsFit'
  <2>1. /\ \A d \in Client : d # c => pc'[d] = pc[d] /\ wait'[d] = wait[d]
        /\ pc'[c] = "ready"
    BY <1>1, <1>2 DEF Inv, TypeOK
  <2>. QED
    BY <1>1, <2>1 DEF Inv, ClientsFit, requests, calls
<1>8. Kept
  BY <1>1, Stutters DEF Inv, servers, requests, calls
<1>. QED
  BY <1>4, <1>5, <1>6, <1>7, <1>8 DEF Inv

(* The monitors of a server are calls to it. *)
LEMMA WatchStep ==
    ASSUME Inv, Left(Tail(queue)), queue' = Tail(queue) \o <<>>,
           UNCHANGED <<name, life, code, task, answering, timed, inbox, starts>>,
           UNCHANGED <<clients, requests, saved, killed, handled, result, strays>>,
           watchers' \in [Server -> SUBSET Ref], late' \subseteq Ref,
           \A t \in Server : \A r \in watchers'[t] : callee[r] = t
    PROVE  Inv' /\ Kept
<1>1. Forward /\ handled' = handled /\ inbox' = inbox
  BY DEF Forward, requests
<1>2. /\ SignalsFit' /\ queue' \in Seq(Signal)
      /\ \A t \in Server : inbox'[t] \in Seq(Open(t)') /\ Once(inbox'[t])
  <2>1. <<>> \in Seq(Fit') /\ \A i \in 1..Len(<<>>) : <<>>[i].kind # "call"
    BY Few
  <2>. QED
    BY <1>1, <2>1, QuietStep
<1>3. TypeOK'
  BY <1>2 DEF Inv, TypeOK, starts, clients, requests
<1>4. ServersFit'
  BY <1>2 DEF Inv, ServersFit, starts, requests
<1>5. CallsFit' /\ ClientsFit'
  BY DEF Inv, CallsFit, ClientsFit, clients, requests
<1>6. Kept
  BY Stutters DEF Inv, requests
<1>. QED
  BY <1>2, <1>3, <1>4, <1>5, <1>6 DEF Inv

LEMMA OnMonitorStep ==
    ASSUME Inv, OnMonitor
    PROVE  Inv' /\ Kept
<1> DEFINE s == Head(queue).to
           r == Head(queue).ref
<1>1. /\ Fires("monitor") /\ queue' = Tail(queue)
      /\ \/ watchers' = [watchers EXCEPT ![s] = @ \cup {r}] /\ late' = late
         \/ late' = late \cup {r} /\ watchers' = watchers
      /\ UNCHANGED <<name, life, code, task, answering, timed, inbox, starts>>
      /\ UNCHANGED <<clients, requests, saved, killed, handled, result, strays>>
  BY DEF OnMonitor
<1>2. /\ s \in Server /\ r \in Ref /\ callee[r] = s
      /\ Left(Tail(queue)) /\ queue' = Tail(queue) \o <<>>
  BY <1>1, Timer, SignalFields DEF Fit
<1> HIDE DEF s, r
<1>3. /\ watchers' \in [Server -> SUBSET Ref] /\ late' \subseteq Ref
      /\ \A t \in Server : \A x \in watchers'[t] : callee[x] = t
  <2>1. TypeOK /\ \A t \in Server : \A x \in watchers[t] : callee[x] = t
    BY DEF Inv, ServersFit
  <2>2. CASE watchers' = [watchers EXCEPT ![s] = @ \cup {r}] /\ late' = late
    <3>1. \A t \in Server : \A x \in watchers'[t] :
              x \in watchers[t] \/ (t = s /\ x = r)
      BY <1>2, <2>1, <2>2 DEF TypeOK
    <3>2. watchers' \in [Server -> SUBSET Ref]
      BY <1>2, <2>1, <2>2 DEF TypeOK
    <3>. QED
      BY <1>2, <2>1, <2>2, <3>1, <3>2 DEF TypeOK
  <2>3. CASE late' = late \cup {r} /\ watchers' = watchers
    BY <1>2, <2>1, <2>3 DEF TypeOK
  <2>. QED
    BY <1>1, <2>2, <2>3
<1>. QED
  BY <1>1, <1>2, <1>3, WatchStep

LEMMA OnDemonitorStep ==
    ASSUME Inv, OnDemonitor
    PROVE  Inv' /\ Kept
<1> DEFINE s == Head(queue).to
           r == Head(queue).ref
<1>1. /\ Fires("demonitor") /\ queue' = Tail(queue)
      /\ watchers' = [watchers EXCEPT ![s] = @ \ {r}]
      /\ UNCHANGED <<name, life, code, task, answering, timed, inbox, starts>>
      /\ UNCHANGED <<clients, requests, calls>>
  BY DEF OnDemonitor
<1>2. s \in Server /\ Left(Tail(queue)) /\ queue' = Tail(queue) \o <<>>
  BY <1>1, Timer, SignalFields
<1> HIDE DEF s, r
<1>3. /\ watchers' \in [Server -> SUBSET Ref] /\ late' \subseteq Ref
      /\ \A t \in Server : \A x \in watchers'[t] : callee[x] = t
  BY <1>1, <1>2 DEF Inv, TypeOK, ServersFit, calls
<1>. QED
  BY <1>1, <1>2, <1>3, WatchStep DEF calls

(* A message for a caller: the answer it waits for, or a stray one.        *)
LEMMA AnswerStep ==
    ASSUME Inv, NEW r \in Ref, NEW how \in {"reply", "down"},
           caller[r] \in Client,
           how = "reply" => handled[r] = 1,
           how = "down" => callee[r] # Nobody /\ life[callee[r]] = "down",
           Left(Tail(queue)), NEW add \in Seq(Fit'), queue' = Tail(queue) \o add,
           \A i \in 1..Len(add) : add[i].kind # "call",
           \/ Waiting(r) /\ Return(r, how) /\ UNCHANGED strays
           \/ Strays(r, how) /\ UNCHANGED <<clients, result>>,
           UNCHANGED <<servers, starts, requests, saved, late, killed, handled>>
    PROVE  Inv' /\ Kept
<1>1. Forward /\ handled' = handled /\ inbox' = inbox
  BY DEF Forward, servers, requests
<1>2. /\ SignalsFit' /\ queue' \in Seq(Signal)
      /\ \A t \in Server : inbox'[t] \in Seq(Open(t)') /\ Once(inbox'[t])
  BY <1>1, QuietStep
<1>3. ServersFit'
  BY <1>2 DEF Inv, ServersFit, servers, starts, requests
<1>4. CASE Waiting(r) /\ Return(r, how) /\ UNCHANGED strays
  <2>1. /\ CallsFit' /\ ClientsFit' /\ result[r] = "none"
        /\ pc' \in [Client -> {"ready", "starting", "calling"}]
        /\ wait' \in [Client -> Server \cup Ref \cup {Nobody}]
        /\ result' \in [Ref -> {"none", "reply", "down", "timeout"}]
    BY <1>4, Returns DEF Inv, requests
  <2>2. TypeOK'
    BY <1>2, <1>4, <2>1 DEF Inv, TypeOK, servers, starts, requests
  <2>3. Kept
    <3>1. caller[r] # Nobody
      BY GenServerAssumption
    <3>. QED
      BY <1>4, <2>1, <3>1, Answers DEF Inv, Return, servers, requests
  <2>. QED
    BY <1>2, <1>3, <2>1, <2>2, <2>3 DEF Inv
<1>5. CASE Strays(r, how) /\ UNCHANGED <<clients, result>>
  <2>1. TypeOK'
    BY <1>2, <1>5 DEF Inv, TypeOK, Strays, servers, starts, clients, requests
  <2>2. CallsFit' /\ ClientsFit'
    BY <1>5 DEF Inv, CallsFit, ClientsFit, clients, requests
  <2>3. Kept
    BY <1>5, Stutters DEF Inv, servers, requests
  <2>. QED
    BY <1>2, <1>3, <2>1, <2>2, <2>3 DEF Inv
<1>. QED
  BY <1>4, <1>5

LEMMA OnReplyStep ==
    ASSUME Inv, OnReply
    PROVE  Inv' /\ Kept
<1> DEFINE r == Head(queue).ref
           s == callee[r]
           m == ToServer("demonitor", s, r)
<1>1. /\ Fires("reply")
      /\ \/ /\ Waiting(r) /\ Return(r, "reply") /\ UNCHANGED strays
            /\ queue' = Tail(queue) \o IfUp(s, <<m>>)
         \/ /\ Strays(r, "reply") /\ UNCHANGED <<clients, result>>
            /\ queue' = Tail(queue)
      /\ UNCHANGED <<servers, starts, requests, saved, late, killed, handled>>
  BY DEF OnReply
<1>2. /\ r \in Ref /\ handled[r] = 1 /\ Left(Tail(queue))
      /\ Tail(queue) = Tail(queue) \o <<>>
  BY <1>1, Timer, SignalFields DEF Fit
<1> HIDE DEF r
<1>3. caller[r] \in Client /\ s \in Server
  BY <1>2, Answered
<1>4. m \in Fit' /\ m.kind = "demonitor"
  <2>1. callee'[r] = s
    BY <1>1 DEF requests
  <2>. QED
    BY <1>2, <1>3, <2>1, SignalsMade DEF Fit, ToServer
<1> HIDE DEF m
<1>5. \E add \in Seq(Fit') :
          /\ queue' = Tail(queue) \o add
          /\ \A i \in 1..Len(add) : add[i].kind # "call"
  <2>1. <<>> \in Seq(Fit') /\ \A i \in 1..Len(<<>>) : <<>>[i].kind # "call"
    BY Few
  <2>2. /\ IfUp(s, <<m>>) \in Seq(Fit')
        /\ \A i \in 1..Len(IfUp(s, <<m>>)) : IfUp(s, <<m>>)[i].kind # "call"
    BY <1>4, SentIfUp
  <2>. QED
    BY <1>1, <1>2, <2>1, <2>2
<1>6. \/ Waiting(r) /\ Return(r, "reply") /\ UNCHANGED strays
      \/ Strays(r, "reply") /\ UNCHANGED <<clients, result>>
  BY <1>1
<1>. QED
  BY <1>1, <1>2, <1>3, <1>5, <1>6, AnswerStep

LEMMA OnDownStep ==
    ASSUME Inv, OnDown
    PROVE  Inv' /\ Kept
<1> DEFINE r == Head(queue).ref
<1>1. /\ Fires("down") /\ queue' = Tail(queue)
      /\ \/ Waiting(r) /\ Return(r, "down") /\ UNCHANGED strays
         \/ Strays(r, "down") /\ UNCHANGED <<clients, result>>
      /\ UNCHANGED <<servers, starts, requests, saved, late, killed, handled>>
  BY DEF OnDown
<1>2. /\ r \in Ref /\ callee[r] # Nobody /\ life[callee[r]] = "down"
      /\ Left(Tail(queue)) /\ Tail(queue) = Tail(queue) \o <<>>
  BY <1>1, Timer, SignalFields DEF Fit
<1> HIDE DEF r
<1>3. caller[r] \in Client
  BY <1>2 DEF Inv, TypeOK, CallsFit
<1>4. <<>> \in Seq(Fit') /\ \A i \in 1..Len(<<>>) : <<>>[i].kind # "call"
  BY Few
<1>. QED
  BY <1>1, <1>2, <1>3, <1>4, AnswerStep

-----------------------------------------------------------------------------
(* The specification.                                                      *)
LEMMA InvInit == Init => Inv /\ Promise!Init
<1>. SUFFICES ASSUME Init PROVE Inv /\ Promise!Init
  OBVIOUS
<1>1. queue = <<>> /\ Calls(queue) = {} /\ queue \in Seq(Fit) /\ queue \in Seq(Signal)
  BY Few DEF Init, Calls
<1>2. SignalsFit
  BY <1>1 DEF SignalsFit, OneCall
<1>3. TypeOK
  BY <1>1, Few DEF Init, TypeOK
<1>4. ServersFit
  <2>1. \A s \in Server : inbox[s] \in Seq(Open(s)) /\ Once(inbox[s])
    BY Few DEF Init, Once
  <2>. QED
    BY <2>1, ServerTypes, <1>3 DEF Init, ServersFit
<1>5. CallsFit /\ ClientsFit
  BY DEF Init, CallsFit, ClientsFit
<1>6. Promise!Init
  BY DEF Init, Promise!Init
<1>. QED
  BY <1>2, <1>3, <1>4, <1>5, <1>6 DEF Inv

LEMMA InvNext == Inv /\ [Next]_vars => Inv' /\ Kept
<1>. SUFFICES ASSUME Inv, [Next]_vars PROVE Inv' /\ Kept
  OBVIOUS
<1>1. CASE ClientStep
  BY <1>1, StartStep, CastStep, CallStep DEF ClientStep
<1>2. ASSUME NEW c \in Client, Timeout(c) PROVE Inv' /\ Kept
  BY <1>2, TimeoutStep
<1>3. ASSUME NEW s \in Server, Initializes(s) PROVE Inv' /\ Kept
  BY <1>3, InitOkStep, InitFailStep DEF Initializes
<1>4. ASSUME NEW s \in Server, Handles(s) PROVE Inv' /\ Kept
  BY <1>4, HandleReplyStep, HandleNoReplyStep, StopStep, TerminatedStep
     DEF Handles
<1>5. ASSUME NEW s \in Server, NEW r \in Ref, ReplySaved(s, r)
      PROVE  Inv' /\ Kept
  BY <1>5, ReplySavedStep
<1>6. CASE Tick
  BY <1>6, OnGoStep, OnAckStep, OnCallStep, OnCastStep, OnMonitorStep,
     OnDemonitorStep, OnReplyStep, OnDownStep DEF Tick
<1>7. CASE UNCHANGED vars
  <2>1. UNCHANGED <<queue, servers, starts, clients, requests, calls>>
    BY <1>7 DEF vars
  <2>2. Inv'
    <3>1. TypeOK'
      BY <2>1 DEF Inv, TypeOK, servers, starts, clients, requests, calls
    <3>2. SignalsFit'
      BY <2>1 DEF Inv, SignalsFit, Fit, servers, requests, calls
    <3>3. ServersFit'
      BY <2>1 DEF Inv, ServersFit, Open, servers, starts, requests, calls
    <3>4. CallsFit' /\ ClientsFit'
      BY <2>1 DEF Inv, CallsFit, ClientsFit, clients, requests, calls
    <3>. QED
      BY <3>1, <3>2, <3>3, <3>4 DEF Inv
  <2>3. Kept
    BY <2>1, Stutters DEF Inv, servers, requests, calls
  <2>. QED
    BY <2>2, <2>3
<1>8. ASSUME NEW s \in Server, WakeUp(s) \/ Kill(s) PROVE Inv' /\ Kept
  BY <1>8, WakeUpStep, KillStep
<1>. QED
  BY <1>1, <1>2, <1>3, <1>4, <1>5, <1>6, <1>7, <1>8 DEF Next

(* Every variable keeps its type: what is in the timer queue, in the       *)
(* inboxes of servers and in their tables is what gen, gen_server and      *)
(* proc_lib put there.                                                     *)
THEOREM TypeCorrect == Spec => []TypeOK
<1>1. Inv => TypeOK
  BY DEF Inv
<1>. QED
  BY <1>1, InvInit, InvNext, PTL DEF Spec

(* Servers and callers implement module Call: whatever dies and whenever,  *)
(* handleCall runs at most once for a call and only while its server is    *)
(* alive, the caller gets one answer, a reply only after handleCall, and a *)
(* DOWN only when the server is gone.                                      *)
THEOREM KeepsPromise == Spec => CallPromise
<1>1. Kept => [Promise!Next]_(Promise!vars)
  BY DEF Kept
<1>. QED
  BY <1>1, InvInit, InvNext, PTL DEF Spec, CallPromise, Promise!Spec

-----------------------------------------------------------------------------
(* The name.                                                               *)

(* Whoever runs past gen's initializer holds the name. *)
NameHeld ==
    \A s \in Server : life[s] = "up" /\ code[s] # "pending" => name = s

(* No server comes past the initializer, and the name stays. *)
LEMMA NameKept ==
    ASSUME NameHeld, name' = name,
           \A t \in Server : life'[t] = "up" /\ code'[t] # "pending"
                                => life[t] = "up" /\ code[t] # "pending"
    PROVE  NameHeld'
BY DEF NameHeld

LEMMA NameFreed ==
    ASSUME TypeOK, NameHeld, NEW s \in Server, NEW before, Dies(s, before),
           code' = [code EXCEPT ![s] = "ended"] \/ code'= code
    PROVE  NameHeld'
<1>1. /\ life' = [life EXCEPT ![s] = "down"]
      /\ name' = IF name = s THEN Nobody ELSE name
  BY DEF Dies
<1>2. \A t \in Server : t # s => life'[t] = life[t] /\ code'[t] = code[t]
  BY <1>1 DEF TypeOK
<1>3. life'[s] = "down"
  BY <1>1 DEF TypeOK
<1>. QED
  BY <1>1, <1>2, <1>3 DEF NameHeld

LEMMA NameTaken ==
    ASSUME TypeOK, NameHeld, NEW s \in Server, NEW wake, Take(s, wake),
           code[s] # "pending", UNCHANGED <<name, life>>
    PROVE  NameHeld'
<1>1. \A t \in Server : t # s => code'[t] = code[t]
  BY DEF Take, TypeOK
<1>. QED
  BY <1>1, NameKept

LEMMA NameServed ==
    ASSUME TypeOK, NameHeld, NEW s \in Server, NEW m, Arrives(s, m),
           UNCHANGED <<name, life>>
    PROVE  NameHeld'
<1>1. CASE life[s] = "up" /\ code[s] = "idle"
  <2>1. \A t \in Server : t # s => code'[t] = code[t]
    BY <1>1 DEF Arrives, TypeOK
  <2>. QED
    BY <1>1, <2>1, NameKept
<1>2. CASE ~(life[s] = "up" /\ code[s] = "idle")
  <2>1. code' = code
    BY <1>2 DEF Arrives
  <2>. QED
    BY <2>1, NameKept
<1>. QED
  BY <1>1, <1>2

LEMMA NameNext == TypeOK /\ NameHeld /\ [Next]_vars => NameHeld'
<1>. SUFFICES ASSUME TypeOK, NameHeld, [Next]_vars PROVE NameHeld'
  OBVIOUS
<1>1. CASE UNCHANGED <<name, life, code>>
  BY <1>1, NameKept
<1>2. ASSUME NEW c \in Client, NEW s \in Server, Start(c, s) PROVE NameHeld'
  <2>1. /\ name' = name /\ code'[s] = "pending"
        /\ \A t \in Server : t # s => code'[t] = code[t] /\ life'[t] = life[t]
    BY <1>2 DEF Start, TypeOK
  <2>. QED
    BY <2>1, NameKept
<1>3. ASSUME NEW s \in Server, Initializes(s) PROVE NameHeld'
  <2>1. CASE InitOk(s)
    BY <2>1, NameTaken DEF InitOk
  <2>2. CASE InitFail(s)
    BY <2>2, NameFreed DEF InitFail
  <2>. QED
    BY <1>3, <2>1, <2>2 DEF Initializes
<1>4. ASSUME NEW s \in Server, NEW b \in BOOLEAN,
             HandleReply(s, b) \/ HandleNoReply(s, b)
      PROVE  NameHeld'
  BY <1>4, NameTaken DEF HandleReply, HandleNoReply
<1>5. ASSUME NEW s \in Server, NEW b \in BOOLEAN, Stop(s, b) \/ WakeUp(s)
      PROVE  NameHeld'
  <2>1. /\ code[s] # "pending" /\ name' = name /\ life' = life
        /\ \A t \in Server : t # s => code'[t] = code[t]
    BY <1>5 DEF Stop, WakeUp, TypeOK
  <2>. QED
    BY <2>1, NameKept
<1>6. ASSUME NEW s \in Server, Terminated(s) PROVE NameHeld'
  BY <1>6, NameFreed DEF Terminated
<1>7. ASSUME NEW s \in Server, Kill(s) PROVE NameHeld'
  <2>1. code' = [code EXCEPT ![s] = "ended"] \/ code' = code
    BY <1>7 DEF Kill, TypeOK
  <2>. QED
    BY <1>7, <2>1, NameFreed DEF Kill
<1>8. CASE OnGo
  <2> DEFINE s == Head(queue).to
  <2>1. \/ /\ name = Nobody /\ name' = s /\ code' = [code EXCEPT ![s] = "init"]
           /\ life' = life
        \/ /\ life' = [life EXCEPT ![s] = "down"] /\ name' = name
           /\ code' = [code EXCEPT ![s] = "ended"]
    BY <1>8 DEF OnGo
  <2> HIDE DEF s
  <2>2. \A t \in Server : t # s => code'[t] = code[t] /\ life'[t] = life[t]
    BY <2>1 DEF TypeOK
  <2>3. CASE name = Nobody /\ name' = s
    BY <2>2, <2>3, GenServerAssumption DEF NameHeld
  <2>4. CASE life' = [life EXCEPT ![s] = "down"] /\ name' = name
    <3>1. s \in Server => life'[s] = "down"
      BY <2>4 DEF TypeOK
    <3>. QED
      BY <2>2, <2>4, <3>1 DEF NameHeld
  <2>. QED
    BY <2>1, <2>3, <2>4
<1>9. CASE OnCall \/ OnCast
  <2>1. /\ Head(queue).to \in Server /\ UNCHANGED <<name, life>>
        /\ \E m : Arrives(Head(queue).to, m)
    <3>1. queue # <<>> /\ Head(queue).kind \in {"call", "cast"}
      BY <1>9 DEF OnCall, OnCast, Fires
    <3>2. Head(queue) \in Signal
      BY <3>1, Rested DEF TypeOK
    <3>. QED
      BY <1>9, <3>1, <3>2, SignalFields DEF OnCall, OnCast
  <2>. QED
    BY <2>1, NameServed
<1>. QED
  <2>1. CASE ClientStep
    BY <1>1, <1>2, <2>1 DEF ClientStep, Call, Cast, servers
  <2>2. CASE \E c \in Client : Timeout(c)
    BY <1>1, <2>2 DEF Timeout, servers
  <2>3. ASSUME NEW s \in Server, NEW r \in Ref, ReplySaved(s, r) PROVE NameHeld'
    BY <1>1, <2>3 DEF ReplySaved, servers
  <2>4. ASSUME NEW s \in Server, Handles(s) PROVE NameHeld'
    BY <1>4, <1>5, <1>6, <2>4 DEF Handles
  <2>5. CASE Tick
    BY <1>1, <1>8, <1>9, <2>5
       DEF Tick, OnAck, OnMonitor, OnDemonitor, OnReply, OnDown, servers
  <2>6. CASE UNCHANGED vars
    BY <1>1, <2>6 DEF vars, servers
  <2>. QED
    BY <1>3, <1>5, <1>7, <2>1, <2>2, <2>3, <2>4, <2>5, <2>6 DEF Next

(* However starts interleave, although gen.start checks the name long      *)
(* before the child registers: only one server runs under it.              *)
THEOREM OneServerRuns == Spec => []OneServer
<1>1. Init => NameHeld
  BY DEF Init, NameHeld
<1>2. NameHeld => OneServer
  BY DEF NameHeld, OneServer
<1>. QED
  BY <1>1, <1>2, TypeCorrect, NameNext, PTL DEF Spec

-----------------------------------------------------------------------------
(* What is left behind in inboxes: the inductive invariant.                *)

(* The call that a signal is about, or the process whose start it is. *)
About(m) == IF m.kind \in {"go", "ack"} THEN m.to ELSE m.ref

Sent(q, kinds, x) == \E i \in 1..Len(q) : q[i].kind \in kinds /\ About(q[i]) = x

Single(q, kinds) ==
    \A i, j \in 1..Len(q) :
        /\ q[i].kind \in kinds /\ q[j].kind \in kinds
        /\ About(q[i]) = About(q[j])
        => i = j

(* Replies to r stand before every DOWN of its server. *)
InOrder(q, r) ==
    \A i, j \in 1..Len(q) :
        /\ q[i].kind = "reply" /\ q[j].kind = "down"
        /\ About(q[i]) = r /\ About(q[j]) = r
        => i < j

(* A client starts one server at a time, and one acknowledgement ends it. *)
StartsFit ==
    /\ Single(queue, {"go"}) /\ Single(queue, {"ack"})
    /\ \A s \in Server :
          /\ Sent(queue, {"go"}, s) => code[s] = "pending"
          /\ code[s] \in {"pending", "init"} =>
                owner[s] \in Client /\ pc[owner[s]] = "starting" /\ wait[owner[s]] = s
    /\ \A c \in Client : Sent(queue, {"ack"}, c) =>
          /\ pc[c] = "starting" /\ wait[c] \in Server
          /\ code[wait[c]] \notin {"none", "pending", "init"}

(* A call that has not returned is what its caller waits for. *)
Awaited == \A r \in Ref : caller[r] # Nobody /\ result[r] = "none" => Waiting(r)

(* A server has the call in hand, or the user has it for later. *)
InHand(r) == r \in saved \/ \E s \in Server : task[s] = r

(* A call that was executed is in hand or has a reply on the way or had    *)
(* one: only one of them.                                                  *)
OneReply ==
    /\ Single(queue, {"reply"})
    /\ \A s \in Server : task[s] \in Ref => callee[task[s]] = s
    /\ \A r \in Ref :
          /\ r \in saved => \A s \in Server : task[s] # r
          /\ InHand(r) => ~Sent(queue, {"reply"}, r) /\ result[r] # "reply"
          /\ result[r] = "reply" => handled[r] = 1 /\ ~Sent(queue, {"reply"}, r)

Watch == {"monitor", "down"}
Watched(r) == \E s \in Server : r \in watchers[s]

(* The same of the monitor and its DOWN. *)
OneDown ==
    /\ Single(queue, Watch)
    /\ \A r \in Ref :
          /\ Watched(r) => ~Sent(queue, Watch, r) /\ result[r] # "down"
          /\ result[r] = "down" => /\ life[callee[r]] = "down"
                                   /\ ~Sent(queue, Watch, r)

(* Only the code of a killed server goes on; any other has answered before *)
(* its DOWN.                                                               *)
RepliesFirst ==
    /\ \A s \in Server : life[s] = "down" => s \in killed \/ code[s] = "ended"
    /\ \A r \in Ref : callee[r] \notin killed =>
          /\ InOrder(queue, r)
          /\ result[r] = "down" => ~Sent(queue, {"reply"}, r)

Story ==
    /\ StartsFit /\ Awaited /\ OneReply /\ OneDown /\ RepliesFirst
    /\ StraysExplained

-----------------------------------------------------------------------------
(* Signals in a queue.                                                     *)
LEMMA Silent ==
    ASSUME NEW q, NEW K, \A x : ~Sent(q, K, x)
    PROVE  Single(q, K)
BY DEF Sent, Single

LEMMA NothingSent ==
    /\ \A K, x : ~Sent(<<>>, K, x)
    /\ \A K : Single(<<>>, K)
    /\ \A x : InOrder(<<>>, x)
<1>1. Len(<<>>) = 0
  BY Few
<1>2. 1..Len(<<>>) = {}
  BY <1>1
<1>. QED
  BY <1>2 DEF Sent, Single, InOrder

LEMMA OneSent ==
    ASSUME NEW m
    PROVE  /\ \A K, x : Sent(<<m>>, K, x) => m.kind \in K /\ About(m) = x
           /\ \A K : Single(<<m>>, K)
           /\ \A x : InOrder(<<m>>, x)
<1>1. 1..Len(<<m>>) = {1} /\ <<m>>[1] = m
  OBVIOUS
<1>2. PICK q : q = <<m>>
  OBVIOUS
<1>3. \A i \in 1..Len(q) : i = 1 /\ q[i] = m
  BY <1>1, <1>2
<1>4. \A x : InOrder(q, x)
  BY <1>3 DEF InOrder
<1>5. \A K : Single(q, K)
  BY <1>3 DEF Single
<1>6. \A K, x : Sent(q, K, x) => m.kind \in K /\ About(m) = x
  BY <1>3 DEF Sent
<1>. QED
  BY <1>2, <1>4, <1>5, <1>6

LEMMA SomeSent ==
    ASSUME NEW s, NEW m
    PROVE  /\ \A K, x : Sent(IfUp(s, <<m>>), K, x) => m.kind \in K /\ About(m) = x
           /\ \A K : Single(IfUp(s, <<m>>), K)
           /\ \A x : InOrder(IfUp(s, <<m>>), x)
BY NothingSent, OneSent DEF IfUp

LEMMA Joins ==
    ASSUME NEW S, NEW p \in Seq(S), NEW add \in Seq(S), NEW K
    PROVE  /\ \A x : Sent(p \o add, K, x) => Sent(p, K, x) \/ Sent(add, K, x)
           /\ (/\ Single(p, K) /\ Single(add, K)
               /\ \A x : Sent(add, K, x) => ~Sent(p, K, x))
              => Single(p \o add, K)
<1>1. PICK q : q = p \o add
  OBVIOUS
<1>2. /\ Len(p) \in Nat
      /\ \A i \in 1..Len(q) :
            /\ i \in Nat
            /\ \/ i \in 1..Len(p) /\ q[i] = p[i]
               \/ i - Len(p) \in 1..Len(add) /\ q[i] = add[i - Len(p)]
  BY <1>1, Joined
<1>3. \A x : Sent(q, K, x) => Sent(p, K, x) \/ Sent(add, K, x)
  BY <1>2 DEF Sent
<1>4. ASSUME Single(p, K), Single(add, K),
             \A x : Sent(add, K, x) => ~Sent(p, K, x)
      PROVE  Single(q, K)
  <2>1. SUFFICES ASSUME NEW i \in 1..Len(q), NEW j \in 1..Len(q),
                        q[i].kind \in K, q[j].kind \in K,
                        About(q[i]) = About(q[j])
                 PROVE  i = j
    BY DEF Single
  <2>2. CASE i \in 1..Len(p) /\ q[i] = p[i]
    <3>1. Sent(p, K, About(q[i]))
      BY <2>1, <2>2 DEF Sent
    <3>2. CASE j \in 1..Len(p) /\ q[j] = p[j]
      BY <1>4, <2>1, <2>2, <3>2 DEF Single
    <3>3. CASE j - Len(p) \in 1..Len(add) /\ q[j] = add[j - Len(p)]
      <4>1. Sent(add, K, About(q[i]))
        BY <2>1, <3>3 DEF Sent
      <4>. QED
        BY <1>4, <3>1, <4>1
    <3>. QED
      BY <1>2, <3>2, <3>3
  <2>3. CASE i - Len(p) \in 1..Len(add) /\ q[i] = add[i - Len(p)]
    <3>1. Sent(add, K, About(q[i]))
      BY <2>1, <2>3 DEF Sent
    <3>2. CASE j \in 1..Len(p) /\ q[j] = p[j]
      <4>1. Sent(p, K, About(q[i]))
        BY <2>1, <3>2 DEF Sent
      <4>. QED
        BY <1>4, <3>1, <4>1
    <3>3. CASE j - Len(p) \in 1..Len(add) /\ q[j] = add[j - Len(p)]
      <4>1. i - Len(p) = j - Len(p)
        BY <1>4, <2>1, <2>3, <3>3 DEF Single
      <4>. QED
        BY <1>2, <4>1
    <3>. QED
      BY <1>2, <3>2, <3>3
  <2>. QED
    BY <1>2, <2>2, <2>3
<1>. QED
  BY <1>1, <1>3, <1>4

LEMMA JoinsInOrder ==
    ASSUME NEW S, NEW p \in Seq(S), NEW add \in Seq(S), NEW r,
           InOrder(p, r), InOrder(add, r),
           Sent(add, {"reply"}, r) => ~Sent(p, {"down"}, r)
    PROVE  InOrder(p \o add, r)
<1>1. PICK q : q = p \o add
  OBVIOUS
<1>2. /\ Len(p) \in Nat
      /\ \A i \in 1..Len(q) :
            /\ i \in Nat
            /\ \/ i \in 1..Len(p) /\ q[i] = p[i]
               \/ i - Len(p) \in 1..Len(add) /\ q[i] = add[i - Len(p)]
  BY <1>1, Joined
<1>3. SUFFICES ASSUME NEW i \in 1..Len(q), NEW j \in 1..Len(q),
                      q[i].kind = "reply", q[j].kind = "down",
                      About(q[i]) = r, About(q[j]) = r
               PROVE  i < j
  BY <1>1 DEF InOrder
<1>4. CASE i \in 1..Len(p) /\ q[i] = p[i]
  <2>1. CASE j \in 1..Len(p) /\ q[j] = p[j]
    BY <1>3, <1>4, <2>1 DEF InOrder
  <2>2. CASE j - Len(p) \in 1..Len(add)
    BY <1>2, <1>4, <2>2
  <2>. QED
    BY <1>2, <2>1, <2>2
<1>5. CASE i - Len(p) \in 1..Len(add) /\ q[i] = add[i - Len(p)]
  <2>1. Sent(add, {"reply"}, r)
    BY <1>3, <1>5 DEF Sent
  <2>2. CASE j \in 1..Len(p) /\ q[j] = p[j]
    <3>1. Sent(p, {"down"}, r)
      BY <1>3, <2>2 DEF Sent
    <3>. QED
      BY <2>1, <3>1
  <2>3. CASE j - Len(p) \in 1..Len(add) /\ q[j] = add[j - Len(p)]
    <3>1. i - Len(p) < j - Len(p)
      BY <1>3, <1>5, <2>3 DEF InOrder
    <3>. QED
      BY <1>2, <3>1
  <2>. QED
    BY <1>2, <2>2, <2>3
<1>. QED
  BY <1>2, <1>4, <1>5

(* What is left of the queue holds nothing more than the queue. *)
LEMMA LeftSent ==
    ASSUME TypeOK, NEW q, Left(q)
    PROVE  /\ q \in Seq(Signal)
           /\ \A K, x : Sent(q, K, x) => Sent(queue, K, x)
           /\ \A K : Single(queue, K) => Single(q, K)
           /\ \A x : InOrder(queue, x) => InOrder(q, x)
<1>1. queue \in Seq(Signal)
  BY DEF TypeOK
<1>2. CASE q = queue
  BY <1>1, <1>2
<1>3. CASE queue # <<>> /\ q = Tail(queue)
  <2>1. /\ q \in Seq(Signal)
        /\ \A i \in 1..Len(q) :
              i \in Nat /\ q[i] = queue[i + 1] /\ i + 1 \in 1..Len(queue)
    BY <1>1, <1>3, Rested
  <2>2. \A K, x : Sent(q, K, x) => Sent(queue, K, x)
    BY <2>1 DEF Sent
  <2>3. \A K : Single(queue, K) => Single(q, K)
    <3>1. SUFFICES ASSUME NEW K, Single(queue, K),
                          NEW i \in 1..Len(q), NEW j \in 1..Len(q),
                          q[i].kind \in K, q[j].kind \in K,
                          About(q[i]) = About(q[j])
                   PROVE  i = j
      BY DEF Single
    <3>2. i + 1 = j + 1
      BY <2>1, <3>1 DEF Single
    <3>. QED
      BY <2>1, <3>2
  <2>4. \A x : InOrder(queue, x) => InOrder(q, x)
    <3>1. SUFFICES ASSUME NEW x, InOrder(queue, x),
                          NEW i \in 1..Len(q), NEW j \in 1..Len(q),
                          q[i].kind = "reply", q[j].kind = "down",
                          About(q[i]) = x, About(q[j]) = x
                   PROVE  i < j
      BY DEF InOrder
    <3>2. i + 1 < j + 1
      BY <2>1, <3>1 DEF InOrder
    <3>. QED
      BY <2>1, <3>2
  <2>. QED
    BY <2>1, <2>2, <2>3, <2>4
<1>. QED
  BY <1>2, <1>3 DEF Left

(* The timer that fires is not there again, and no reply is behind a DOWN. *)
LEMMA HeadGone ==
    ASSUME TypeOK, queue # <<>>
    PROVE  /\ \A K : Head(queue).kind \in K /\ Single(queue, K) =>
                /\ Sent(queue, K, About(Head(queue)))
                /\ ~Sent(Tail(queue), K, About(Head(queue)))
           /\ Head(queue).kind = "down" /\ InOrder(queue, About(Head(queue))) =>
                ~Sent(Tail(queue), {"reply"}, About(Head(queue)))
<1>1. queue \in Seq(Signal)
  BY DEF TypeOK
<1>2. PICK q : q = Tail(queue)
  OBVIOUS
<1>3. /\ Head(queue) = queue[1] /\ 1 \in 1..Len(queue)
      /\ \A i \in 1..Len(q) :
            i \in Nat /\ i # 0 /\ q[i] = queue[i + 1] /\ i + 1 \in 1..Len(queue)
  BY <1>1, <1>2, Rested
<1>4. ASSUME NEW K, Head(queue).kind \in K, Single(queue, K)
      PROVE  /\ Sent(queue, K, About(Head(queue)))
             /\ ~Sent(q, K, About(Head(queue)))
  <2>1. Sent(queue, K, About(Head(queue)))
    BY <1>3, <1>4 DEF Sent
  <2>2. ASSUME NEW i \in 1..Len(q), q[i].kind \in K,
               About(q[i]) = About(Head(queue))
        PROVE  FALSE
    <3>1. i + 1 = 1
      BY <1>3, <1>4, <2>2 DEF Single
    <3>. QED
      BY <1>3, <3>1
  <2>. QED
    BY <2>1, <2>2 DEF Sent
<1>5. ASSUME Head(queue).kind = "down", InOrder(queue, About(Head(queue)))
      PROVE  ~Sent(q, {"reply"}, About(Head(queue)))
  <2>1. ASSUME NEW i \in 1..Len(q), q[i].kind = "reply",
               About(q[i]) = About(Head(queue))
        PROVE  FALSE
    <3>1. i + 1 < 1
      BY <1>3, <1>5, <2>1 DEF InOrder
    <3>. QED
      BY <1>3, <3>1
  <2>. QED
    BY <2>1 DEF Sent
<1>. QED
  BY <1>2, <1>4, <1>5

-----------------------------------------------------------------------------
(* What a step has to do for each part.                                    *)

(* A step takes the first signal or none, and sends some. *)
Queued(q, add) == Left(q) /\ add \in Seq(Signal) /\ queue' = q \o add

LEMMA Unqueued ==
    ASSUME TypeOK, queue' = queue
    PROVE  Queued(queue, <<>>)
<1>1. queue \in Seq(Signal) /\ <<>> \in Seq(Signal)
  BY Few DEF TypeOK
<1>2. queue \o <<>> = queue
  BY <1>1
<1>. QED
  BY <1>1, <1>2 DEF Queued, Left

LEMMA Dequeued ==
    ASSUME TypeOK, queue # <<>>, queue' = Tail(queue)
    PROVE  Queued(Tail(queue), <<>>)
<1>1. Tail(queue) \in Seq(Signal) /\ <<>> \in Seq(Signal)
  BY Few, Rested DEF TypeOK
<1>2. PICK q : q = Tail(queue)
  OBVIOUS
<1>3. q \o <<>> = q
  BY <1>1, <1>2
<1>. QED
  BY <1>1, <1>2, <1>3 DEF Queued, Left

LEMMA QueuedSent ==
    ASSUME TypeOK, NEW q, NEW add, Queued(q, add), NEW K
    PROVE  /\ \A x : Sent(queue', K, x) => Sent(q, K, x) \/ Sent(add, K, x)
           /\ \A x : Sent(q, K, x) => Sent(queue, K, x)
           /\ (/\ Single(queue, K) /\ Single(add, K)
               /\ \A x : Sent(add, K, x) => ~Sent(q, K, x))
              => Single(queue', K)
BY LeftSent, Joins DEF Queued

LEMMA StartsStep ==
    ASSUME TypeOK, StartsFit, NEW q, NEW add, Queued(q, add),
           Single(add, {"go"}), Single(add, {"ack"}),
           \A s \in Server :
              /\ Sent(add, {"go"}, s) =>
                    ~Sent(q, {"go"}, s) /\ code'[s] = "pending"
              /\ Sent(q, {"go"}, s) /\ code[s] = "pending" =>
                    code'[s] = "pending"
              /\ code'[s] \in {"pending", "init"} =>
                    /\ owner'[s] \in Client
                    /\ pc'[owner'[s]] = "starting" /\ wait'[owner'[s]] = s,
           \A c \in Client :
              /\ Sent(add, {"ack"}, c) => ~Sent(q, {"ack"}, c)
              /\ \/ Sent(add, {"ack"}, c)
                 \/ /\ Sent(q, {"ack"}, c) /\ pc[c] = "starting"
                    /\ wait[c] \in Server
                    /\ code[wait[c]] \notin {"none", "pending", "init"}
                 => /\ pc'[c] = "starting" /\ wait'[c] \in Server
                    /\ code'[wait'[c]] \notin {"none", "pending", "init"},
           \A x : Sent(add, {"go"}, x) => x \in Server,
           \A x : Sent(add, {"ack"}, x) => x \in Client
    PROVE  StartsFit'
<1>1. Single(queue', {"go"})
  BY QueuedSent DEF StartsFit
<1>2. Single(queue', {"ack"})
  BY QueuedSent DEF StartsFit
<1>3. ASSUME NEW s \in Server, Sent(queue', {"go"}, s)
      PROVE  code'[s] = "pending"
  <2>1. Sent(q, {"go"}, s) \/ Sent(add, {"go"}, s)
    BY <1>3, QueuedSent
  <2>2. Sent(q, {"go"}, s) => code[s] = "pending"
    BY QueuedSent DEF StartsFit
  <2>. QED
    BY <2>1, <2>2
<1>4. ASSUME NEW c \in Client, Sent(queue', {"ack"}, c)
      PROVE  /\ pc'[c] = "starting" /\ wait'[c] \in Server
             /\ code'[wait'[c]] \notin {"none", "pending", "init"}
  <2>1. Sent(q, {"ack"}, c) \/ Sent(add, {"ack"}, c)
    BY <1>4, QueuedSent
  <2>2. Sent(q, {"ack"}, c) => /\ pc[c] = "starting" /\ wait[c] \in Server
                               /\ code[wait[c]] \notin {"none", "pending", "init"}
    BY QueuedSent DEF StartsFit
  <2>. QED
    BY <2>1, <2>2
<1>. QED
  BY <1>1, <1>2, <1>3, <1>4 DEF StartsFit

(* A step that starts nothing and acknowledges nothing. *)
LEMMA StartsKept ==
    ASSUME TypeOK, StartsFit, NEW q, NEW add, Queued(q, add),
           \A x : ~Sent(add, {"go"}, x) /\ ~Sent(add, {"ack"}, x),
           owner' = owner,
           \A s \in Server :
              /\ code'[s] \in {"none", "pending", "init"} \/ code[s] = "pending"
                    => code'[s] = code[s],
           \A c \in Client : pc[c] = "starting" =>
              pc'[c] = "starting" /\ wait'[c] = wait[c]
    PROVE  StartsFit'
<1>1. Single(add, {"go"}) /\ Single(add, {"ack"})
  BY Silent
<1>2. \A s \in Server : code'[s] \in {"pending", "init"} =>
          /\ owner'[s] \in Client
          /\ pc'[owner'[s]] = "starting" /\ wait'[owner'[s]] = s
  BY DEF StartsFit
<1>. QED
  BY <1>1, <1>2, StartsStep

LEMMA RepliesStep ==
    ASSUME TypeOK, OneReply, NEW q, NEW add, Queued(q, add),
           CallsFit, SignalsFit,
           Single(add, {"reply"}),
           \A s \in Server : task'[s] \in Ref => callee'[task'[s]] = s,
           \A r \in Ref : r \in saved' => \A s \in Server : task'[s] # r,
           \A r : Sent(add, {"reply"}, r) => r \in Ref /\ InHand(r) /\ ~InHand(r)',
           \A r \in Ref : InHand(r)' =>
              \/ InHand(r)
              \/ handled[r] = 0 /\ result'[r] # "reply",
           \A r \in Ref : handled[r] = 1 => handled'[r] = 1,
           \A r \in Ref : result'[r] = "reply" =>
              \/ result[r] = "reply"
              \/ Sent(queue, {"reply"}, r) /\ ~Sent(q, {"reply"}, r)
    PROVE  OneReply'
<1>1. \A r \in Ref : Sent(queue, {"reply"}, r) => handled[r] = 1
  <2>1. SUFFICES ASSUME NEW r \in Ref, NEW i \in 1..Len(queue),
                        queue[i].kind = "reply", About(queue[i]) = r
                 PROVE  handled[r] = 1
    BY DEF Sent
  <2>2. queue[i] \in Fit
    BY ElementOfSeq DEF SignalsFit
  <2>. QED
    BY <2>1, <2>2 DEF Fit, About
<1>2. /\ \A x : Sent(queue', {"reply"}, x) => Sent(q, {"reply"}, x) \/ Sent(add, {"reply"}, x)
      /\ \A x : Sent(q, {"reply"}, x) => Sent(queue, {"reply"}, x)
  BY QueuedSent
<1>3. Single(queue', {"reply"})
  <2>1. \A x : Sent(add, {"reply"}, x) => ~Sent(q, {"reply"}, x)
    BY <1>2 DEF OneReply
  <2>. QED
    BY <2>1, QueuedSent DEF OneReply
<1>4. ASSUME NEW r \in Ref, InHand(r)'
      PROVE  ~Sent(queue', {"reply"}, r) /\ result'[r] # "reply"
  <2>1. ~Sent(add, {"reply"}, r)
    BY <1>4
  <2>2. CASE InHand(r)
    BY <1>2, <2>1, <2>2 DEF OneReply
  <2>3. CASE handled[r] = 0 /\ result'[r] # "reply"
    BY <1>1, <1>2, <2>1, <2>3
  <2>. QED
    BY <1>4, <2>2, <2>3
<1>5. ASSUME NEW r \in Ref, result'[r] = "reply"
      PROVE  handled'[r] = 1 /\ ~Sent(queue', {"reply"}, r)
  <2>1. CASE result[r] = "reply"
    <3>1. ~InHand(r)
      BY <2>1 DEF OneReply
    <3>. QED
      BY <1>2, <2>1, <3>1 DEF OneReply
  <2>2. CASE Sent(queue, {"reply"}, r) /\ ~Sent(q, {"reply"}, r)
    <3>1. ~InHand(r)
      BY <2>2 DEF OneReply
    <3>. QED
      BY <1>1, <1>2, <2>2, <3>1
  <2>. QED
    BY <1>5, <2>1, <2>2
<1>. QED
  BY <1>3, <1>4, <1>5 DEF OneReply

(* A step that sends no reply and keeps nothing for later. *)
LEMMA RepliesKept ==
    ASSUME Inv, OneReply, NEW q, NEW add, Queued(q, add), Forward,
           \A x : ~Sent(add, {"reply"}, x),
           saved' \subseteq saved,
           \A s \in Server : task'[s] \in Ref =>
              \/ task'[s] = task[s]
              \/ handled[task'[s]] = 0 /\ callee[task'[s]] = s,
           \A r \in Ref : result'[r] = "reply" =>
              \/ result[r] = "reply"
              \/ Sent(queue, {"reply"}, r) /\ ~Sent(q, {"reply"}, r)
    PROVE  OneReply'
<1>0. TypeOK /\ CallsFit /\ SignalsFit
  BY DEF Inv
<1>1. Single(add, {"reply"})
  BY Silent
<1>2. \A s \in Server : task'[s] \in Ref => callee'[task'[s]] = s
  <2>1. SUFFICES ASSUME NEW s \in Server, task'[s] \in Ref
                 PROVE  callee'[task'[s]] = s
    OBVIOUS
  <2>2. callee[task'[s]] = s
    BY <2>1 DEF OneReply
  <2>3. s # Nobody
    BY GenServerAssumption
  <2>. QED
    BY <2>1, <2>2, <2>3 DEF Forward
<1>3. \A r \in Ref : r \in saved' => \A s \in Server : task'[s] # r
  <2>1. SUFFICES ASSUME NEW r \in Ref, r \in saved', NEW s \in Server,
                        task'[s] = r
                 PROVE  FALSE
    OBVIOUS
  <2>2. r \in saved /\ handled[r] = 1
    BY <1>0, <2>1 DEF CallsFit
  <2>. QED
    BY <2>1, <2>2 DEF OneReply
<1>4. \A r \in Ref : InHand(r)' =>
              \/ InHand(r)
              \/ handled[r] = 0 /\ result'[r] # "reply"
  <2>1. \A r \in Ref : handled[r] = 0 => result'[r] # "reply"
    <3>1. SUFFICES ASSUME NEW r \in Ref, handled[r] = 0, result'[r] = "reply"
                   PROVE  FALSE
      OBVIOUS
    <3>2. result[r] # "reply"
      BY <3>1 DEF OneReply
    <3>3. Sent(queue, {"reply"}, r)
      BY <3>1, <3>2
    <3>4. PICK i \in 1..Len(queue) : queue[i].kind = "reply" /\ About(queue[i]) = r
      BY <3>3 DEF Sent
    <3>5. queue[i] \in Fit
      BY <1>0, ElementOfSeq DEF SignalsFit
    <3>. QED
      BY <3>1, <3>4, <3>5 DEF Fit, About
  <2>. QED
    BY <2>1 DEF InHand
<1>. QED
  BY <1>0, <1>1, <1>2, <1>3, <1>4, RepliesStep DEF Forward

LEMMA DownsStep ==
    ASSUME Inv, OneDown, NEW q, NEW add, Queued(q, add), Forward,
           Single(add, Watch),
           \A r : Sent(add, Watch, r) =>
              /\ r \in Ref
              /\ result'[r] # "down" \/ result[r] = "down"
              /\ \/ callee[r] = Nobody
                 \/ Watched(r) /\ ~Watched(r)',
           \A r \in Ref : Watched(r)' =>
              \/ Watched(r) /\ (result'[r] # "down" \/ result[r] = "down")
              \/ /\ Sent(queue, Watch, r) /\ ~Sent(q, Watch, r)
                 /\ ~Sent(add, Watch, r) /\ result'[r] = result[r],
           \A r \in Ref : result'[r] = "down" =>
              \/ result[r] = "down"
              \/ /\ Sent(queue, Watch, r) /\ ~Sent(q, Watch, r)
                 /\ callee[r] # Nobody /\ life[callee[r]] = "down"
    PROVE  OneDown'
<1>0. TypeOK /\ SignalsFit /\ ServersFit /\ CallsFit /\ Nobody \notin Server
  BY GenServerAssumption DEF Inv
<1>1. /\ \A x : Sent(queue', Watch, x) => Sent(q, Watch, x) \/ Sent(add, Watch, x)
      /\ \A x : Sent(q, Watch, x) => Sent(queue, Watch, x)
  BY <1>0, QueuedSent
<1>2. \A r \in Ref : callee[r] = Nobody =>
          ~Sent(queue, Watch, r) /\ ~Watched(r) /\ result[r] # "down"
  <2>1. SUFFICES ASSUME NEW r \in Ref, callee[r] = Nobody
                 PROVE  ~Sent(queue, Watch, r) /\ ~Watched(r) /\ result[r] # "down"
    OBVIOUS
  <2>2. ~Watched(r)
    BY <1>0, <2>1 DEF Watched, ServersFit
  <2>3. ~Sent(queue, Watch, r)
    <3>1. SUFFICES ASSUME NEW i \in 1..Len(queue), queue[i].kind \in Watch,
                          About(queue[i]) = r
                   PROVE  FALSE
      BY DEF Sent
    <3>2. queue[i] \in Fit
      BY <1>0, ElementOfSeq DEF SignalsFit
    <3>3. queue[i].kind = "monitor" => queue[i].to \in Server
      BY <3>2, SignalFields DEF Fit
    <3>. QED
      BY <1>0, <2>1, <3>1, <3>2, <3>3 DEF Fit, About, Watch
  <2>. QED
    BY <1>0, <2>1, <2>2, <2>3 DEF CallsFit
<1>3. \A x : Sent(add, Watch, x) => ~Sent(queue, Watch, x)
  BY <1>2 DEF OneDown
<1>4. Single(queue', Watch)
  BY <1>0, <1>1, <1>3, QueuedSent DEF OneDown
<1>5. ASSUME NEW r \in Ref, Watched(r)'
      PROVE  ~Sent(queue', Watch, r) /\ result'[r] # "down"
  <2>1. CASE Watched(r) /\ (result'[r] # "down" \/ result[r] = "down")
    BY <1>1, <1>2, <1>5, <2>1 DEF OneDown
  <2>2. CASE /\ Sent(queue, Watch, r) /\ ~Sent(q, Watch, r)
             /\ ~Sent(add, Watch, r) /\ result'[r] = result[r]
    BY <1>1, <2>2 DEF OneDown
  <2>. QED
    BY <1>5, <2>1, <2>2
<1>6. ASSUME NEW r \in Ref, result'[r] = "down"
      PROVE  life'[callee'[r]] = "down" /\ ~Sent(queue', Watch, r)
  <2>1. callee[r] # Nobody /\ life[callee[r]] = "down" /\ callee[r] \in Server
    BY <1>0, <1>6 DEF OneDown, CallsFit, TypeOK
  <2>2. life'[callee'[r]] = "down"
    BY <2>1 DEF Forward
  <2>3. CASE result[r] = "down"
    <3>1. ~Sent(queue, Watch, r) /\ ~Watched(r)
      BY <2>3 DEF OneDown
    <3>. QED
      BY <1>1, <2>1, <2>2, <3>1
  <2>4. CASE result[r] # "down"
    BY <1>1, <1>6, <2>2, <2>4
  <2>. QED
    BY <2>3, <2>4
<1>. QED
  BY <1>4, <1>5, <1>6 DEF OneDown

(* A step that sends no monitor and no DOWN and takes none. *)
LEMMA DownsKept ==
    ASSUME Inv, OneDown, NEW q, NEW add, Queued(q, add), Forward,
           \A x : ~Sent(add, Watch, x),
           \A s \in Server : watchers'[s] \subseteq watchers[s],
           \A r \in Ref : result'[r] = "down" => result[r] = "down"
    PROVE  OneDown'
<1>1. Single(add, Watch)
  BY Silent
<1>2. \A r \in Ref : Watched(r)' => Watched(r)
  BY DEF Watched
<1>. QED
  BY <1>1, <1>2, DownsStep

LEMMA OrderStep ==
    ASSUME Inv, RepliesFirst, NEW q, NEW add, Queued(q, add),
           \A s \in Server : life'[s] = "down" => s \in killed' \/ code'[s] = "ended",
           \A r \in Ref : callee'[r] \notin killed' =>
              /\ callee[r] \notin killed
              /\ InOrder(add, r)
              /\ Sent(add, {"reply"}, r) =>
                    ~Sent(q, {"down"}, r) /\ result'[r] # "down"
              /\ result'[r] = "down" =>
                    result[r] = "down" \/ ~Sent(q, {"reply"}, r)
    PROVE  RepliesFirst'
<1>0. TypeOK
  BY DEF Inv
<1>1. ASSUME NEW r \in Ref, callee'[r] \notin killed'
      PROVE  InOrder(queue', r) /\ (result'[r] = "down" => ~Sent(queue', {"reply"}, r))
  <2>1. InOrder(q, r) /\ q \in Seq(Signal)
    BY <1>0, <1>1, LeftSent DEF RepliesFirst, Queued
  <2>2. InOrder(queue', r)
    BY <1>1, <2>1, JoinsInOrder DEF Queued
  <2>3. ASSUME result'[r] = "down", Sent(queue', {"reply"}, r)
        PROVE  FALSE
    <3>1. Sent(q, {"reply"}, r)
      BY <1>0, <1>1, <2>3, QueuedSent
    <3>2. Sent(queue, {"reply"}, r)
      BY <1>0, <3>1, QueuedSent
    <3>. QED
      BY <1>1, <2>3, <3>1, <3>2 DEF RepliesFirst
  <2>. QED
    BY <2>2, <2>3
<1>. QED
  BY <1>1 DEF RepliesFirst

(* A step that sends no reply. *)
LEMMA OrderKept ==
    ASSUME Inv, RepliesFirst, NEW q, NEW add, Queued(q, add), Forward,
           \A x : ~Sent(add, {"reply"}, x),
           killed \subseteq killed',
           \A s \in Server : life'[s] = "down" => s \in killed' \/ code'[s] = "ended",
           \A r \in Ref : result'[r] = "down" =>
              result[r] = "down" \/ ~Sent(q, {"reply"}, r) \/ callee[r] \in killed
    PROVE  RepliesFirst'
<1>1. \A x : InOrder(add, x)
  BY DEF Sent, InOrder
<1>2. ASSUME NEW r \in Ref, callee'[r] \notin killed'
      PROVE  callee[r] \notin killed
  <2>1. CASE callee[r] = Nobody
    BY <2>1, GenServerAssumption DEF Inv, TypeOK
  <2>2. CASE callee[r] # Nobody
    BY <1>2, <2>2 DEF Forward
  <2>. QED
    BY <2>1, <2>2
<1>3. \A r \in Ref : callee'[r] \notin killed' =>
              /\ callee[r] \notin killed
              /\ InOrder(add, r)
              /\ Sent(add, {"reply"}, r) =>
                    ~Sent(q, {"down"}, r) /\ result'[r] # "down"
              /\ result'[r] = "down" =>
                    result[r] = "down" \/ ~Sent(q, {"reply"}, r)
  BY <1>1, <1>2
<1>. QED
  BY <1>3, OrderStep

LEMMA AwaitedKept ==
    ASSUME Inv, Awaited, caller' = caller,
           \A r \in Ref : result'[r] = "none" => result[r] = "none",
           \A c \in Client : pc[c] = "calling" =>
              \/ pc'[c] = "calling" /\ wait'[c] = wait[c]
              \/ wait[c] \in Ref /\ result'[wait[c]] # "none"
    PROVE  Awaited'
<1>1. SUFFICES ASSUME NEW r \in Ref, caller[r] # Nobody, result'[r] = "none"
               PROVE  pc'[caller[r]] = "calling" /\ wait'[caller[r]] = r
  BY DEF Awaited, Waiting
<1>2. caller[r] \in Client /\ pc[caller[r]] = "calling" /\ wait[caller[r]] = r
  BY <1>1 DEF Awaited, Waiting, Inv, TypeOK
<1>. QED
  BY <1>1, <1>2

(* Results stay, and so do those who were killed. *)
Settled ==
    /\ \A r \in Ref : result[r] # "none" => result'[r] = result[r]
    /\ killed \subseteq killed'

LEMMA StraysStep ==
    ASSUME Inv, StraysExplained, Forward, Settled,
           \A x \in strays' : \/ x \in strays
                              \/ \E r \in Ref : x = <<r, "reply">> /\
                                    \/ result'[r] = "timeout"
                                    \/ result'[r] = "down" /\ callee'[r] \in killed'
                              \/ \E r \in Ref : x = <<r, "down">> /\
                                    result'[r] \in {"timeout", "reply"}
    PROVE  StraysExplained'
<1>0. \A r \in Ref : result[r] # "none" =>
          result'[r] = result[r] /\ callee'[r] = callee[r]
  BY DEF Inv, CallsFit, Forward, Settled
<1>1. ASSUME NEW r \in Ref, <<r, "reply">> \in strays'
      PROVE  \/ result'[r] = "timeout"
             \/ result'[r] = "down" /\ callee'[r] \in killed'
  <2>1. CASE <<r, "reply">> \in strays
    <3>1. \/ result[r] = "timeout"
          \/ result[r] = "down" /\ callee[r] \in killed
      BY <2>1 DEF StraysExplained
    <3>. QED
      BY <1>0, <3>1 DEF Settled
  <2>2. CASE <<r, "reply">> \notin strays
    BY <1>1, <2>2
  <2>. QED
    BY <2>1, <2>2
<1>2. ASSUME NEW r \in Ref, <<r, "down">> \in strays'
      PROVE  result'[r] \in {"timeout", "reply"}
  <2>1. CASE <<r, "down">> \in strays
    <3>1. result[r] \in {"timeout", "reply"}
      BY <2>1 DEF StraysExplained
    <3>. QED
      BY <1>0, <3>1
  <2>2. CASE <<r, "down">> \notin strays
    BY <1>2, <2>2
  <2>. QED
    BY <2>1, <2>2
<1>. QED
  BY <1>1, <1>2 DEF StraysExplained

LEMMA StraysKept ==
    ASSUME Inv, StraysExplained, Forward, Settled, strays' = strays
    PROVE  StraysExplained'
BY StraysStep

-----------------------------------------------------------------------------
(* Every step goes forward.                                                *)
LEMMA Promised ==
    ASSUME TypeOK, Kept
    PROVE  /\ \A r \in Ref : handled[r] = 1 => handled'[r] = 1
           /\ \A r \in Ref : result[r] # "none" => result'[r] = result[r]
<1>1. CASE UNCHANGED Promise!vars
  BY <1>1 DEF Promise!vars
<1>2. CASE Promise!Next
  <2> DEFINE Goal == /\ \A r \in Ref : handled[r] = 1 => handled'[r] = 1
                     /\ \A r \in Ref : result[r] # "none" => result'[r] = result[r]
  <2>1. ASSUME NEW r \in Ref, Promise!Ask(r)
        PROVE  Goal
    BY <2>1 DEF Promise!Ask
  <2>2. ASSUME NEW R, Promise!Crash(R)
        PROVE  Goal
    BY <2>2 DEF Promise!Crash
  <2>3. ASSUME NEW r \in Ref, Promise!Execute(r)
        PROVE  Goal
    BY <2>3 DEF TypeOK, Promise!Execute
  <2>4. ASSUME NEW r \in Ref, NEW how, Promise!Answer(r, how)
        PROVE  Goal
    BY <2>4 DEF TypeOK, Promise!Answer
  <2> HIDE DEF Goal
  <2>5. Goal
    BY <1>2, <2>1, <2>2, <2>3, <2>4 DEF Promise!Next
  <2>. QED
    BY <2>5 DEF Goal
<1>. QED
  BY <1>1, <1>2 DEF Kept

LEMMA Advance ==
    ASSUME Inv, [Next]_vars
    PROVE  Forward /\ Settled
<1>0. TypeOK /\ Kept
  BY InvNext DEF Inv
<1>1. \A s \in Server : (code[s] = "none" <=> life[s] = "none")
  BY DEF Inv, ServersFit
<1> DEFINE OnWard ==
       /\ \A r \in Ref : callee[r] # Nobody => callee'[r] = callee[r]
       /\ \A s \in Server : life[s] = "down" => life'[s] = "down"
       /\ \A s \in Server : code[s] # "none" => code'[s] # "none"
       /\ killed \subseteq killed'
<1>2. OnWard
  <2>1. ASSUME NEW c \in Client, NEW s \in Server, Start(c, s) PROVE OnWard
    BY <1>0, <1>1, <2>1 DEF Start, TypeOK, requests, calls
  <2>2. ASSUME NEW c \in Client, NEW s \in Server, Cast(c, s) PROVE OnWard
    BY <2>2 DEF Cast, servers, requests, calls
  <2>3. ASSUME NEW c \in Client, NEW s \in Server, NEW r \in Ref,
               NEW forever \in BOOLEAN, Call(c, s, r, forever)
        PROVE  OnWard
    <3>1. callee[r] = Nobody
      BY <2>3 DEF Call, Inv, CallsFit
    <3>. QED
      BY <1>0, <2>3, <3>1 DEF Call, servers, calls, TypeOK
  <2>4. ASSUME NEW c \in Client, Timeout(c) PROVE OnWard
    BY <2>4 DEF Timeout, servers, requests
  <2>5. ASSUME NEW s \in Server, NEW wake, Take(s, wake),
               life' = life, callee' = callee, killed' = killed
        PROVE  OnWard
    BY <1>0, <2>5 DEF Take, TypeOK
  <2>6. ASSUME NEW s \in Server, NEW before, Dies(s, before),
               code' = [code EXCEPT ![s] = "ended"],
               callee' = callee, killed' = killed
        PROVE  OnWard
    BY <1>0, <2>6 DEF Dies, TypeOK
  <2>7. ASSUME NEW s \in Server, NEW m, Arrives(s, m),
               life' = life, callee' = callee, killed' = killed
        PROVE  OnWard
    BY <1>0, <2>7 DEF Arrives, TypeOK
  <2>8. ASSUME NEW s \in Server, InitOk(s) PROVE OnWard
    BY <2>5, <2>8 DEF InitOk, requests
  <2>9. ASSUME NEW s \in Server, InitFail(s) PROVE OnWard
    BY <2>6, <2>9 DEF InitFail, requests, calls
  <2>10. ASSUME NEW s \in Server, NEW b \in BOOLEAN, HandleReply(s, b)
         PROVE  OnWard
    BY <2>5, <2>10 DEF HandleReply, requests
  <2>11. ASSUME NEW s \in Server, NEW b \in BOOLEAN, HandleNoReply(s, b)
         PROVE  OnWard
    BY <2>5, <2>11 DEF HandleNoReply, requests
  <2>12. ASSUME NEW s \in Server, NEW b \in BOOLEAN, Stop(s, b)
         PROVE  OnWard
    BY <1>0, <2>12 DEF Stop, requests, calls, TypeOK
  <2>13. ASSUME NEW s \in Server, Terminated(s) PROVE OnWard
    BY <2>6, <2>13 DEF Terminated, requests, calls
  <2>14. ASSUME NEW s \in Server, NEW r \in Ref, ReplySaved(s, r)
         PROVE  OnWard
    BY <2>14 DEF ReplySaved, servers, requests
  <2>15. ASSUME NEW s \in Server, WakeUp(s) PROVE OnWard
    BY <1>0, <2>15 DEF WakeUp, requests, calls, TypeOK
  <2>16. ASSUME NEW s \in Server, Kill(s) PROVE OnWard
    BY <1>0, <2>16 DEF Kill, Dies, requests, TypeOK
  <2>17. CASE OnGo
    BY <1>0, <2>17 DEF OnGo, requests, calls, TypeOK
  <2>18. CASE OnAck
    BY <2>18 DEF OnAck, servers, requests, calls
  <2>19. CASE OnCall
    <3>1. Head(queue).to \in Server
      BY <2>19, Timer, SignalFields DEF OnCall
    <3>. QED
      BY <2>7, <2>19, <3>1 DEF OnCall, requests
  <2>20. CASE OnCast
    <3>1. Head(queue).to \in Server
      BY <2>20, Timer, SignalFields DEF OnCast
    <3>. QED
      BY <2>7, <2>20, <3>1 DEF OnCast, requests
  <2>21. CASE OnMonitor
    BY <2>21 DEF OnMonitor, requests
  <2>22. CASE OnDemonitor
    BY <2>22 DEF OnDemonitor, requests, calls
  <2>23. CASE OnReply
    BY <2>23 DEF OnReply, servers, requests
  <2>24. CASE OnDown
    BY <2>24 DEF OnDown, servers, requests
  <2>25. CASE UNCHANGED vars
    BY <2>25 DEF vars, servers, requests, calls
  <2>. QED
    BY <2>1, <2>2, <2>3, <2>4, <2>8, <2>9, <2>10, <2>11, <2>12, <2>13, <2>14,
       <2>15, <2>16, <2>17, <2>18, <2>19, <2>20, <2>21, <2>22, <2>23, <2>24,
       <2>25 DEF Next, ClientStep, Initializes, Handles, Tick
<1>. QED
  BY <1>0, <1>2, Promised DEF Forward, Settled

-----------------------------------------------------------------------------
(* The steps of clients.                                                   *)

(* A step that has to do with replies and DOWNs in nothing. *)
LEMMA Quiet ==
    ASSUME Inv, Story, Forward, Settled, NEW q, NEW add, Queued(q, add),
           \A x : ~Sent(add, {"reply"}, x) /\ ~Sent(add, Watch, x),
           StartsFit', Awaited',
           saved' \subseteq saved,
           \A s \in Server : task'[s] \in Ref =>
              \/ task'[s] = task[s]
              \/ handled[task'[s]] = 0 /\ callee[task'[s]] = s,
           \A s \in Server : watchers'[s] \subseteq watchers[s],
           \A s \in Server : life'[s] = "down" => s \in killed' \/ code'[s] = "ended",
           \A r \in Ref : result'[r] \in {"reply", "down"} => result'[r] = result[r],
           strays' = strays
    PROVE  Story'
<1>1. OneReply'
  BY RepliesKept DEF Story
<1>2. OneDown'
  BY DownsKept DEF Story
<1>3. RepliesFirst'
  BY OrderKept DEF Story, Settled
<1>4. StraysExplained'
  BY StraysKept DEF Story
<1>. QED
  BY <1>1, <1>2, <1>3, <1>4 DEF Story

(* What signals are about. *)
LEMMA Signalled ==
    /\ \A s : Go(s).kind = "go" /\ About(Go(s)) = s
    /\ \A s : CastTo(s).kind = "cast"
    /\ \A c, s : AckTo(c, s).kind = "ack" /\ About(AckTo(c, s)) = c
    /\ \A s, r : \A kind \in {"call", "monitor", "demonitor"} :
          ToServer(kind, s, r).kind = kind /\ About(ToServer(kind, s, r)) = r
    /\ \A r : \A kind \in {"reply", "down"} :
          ToCaller(kind, r).kind = kind /\ About(ToCaller(kind, r)) = r
BY DEF Go, CastTo, AckTo, ToServer, ToCaller, About

LEMMA StartStory ==
    ASSUME Inv, Story, Forward, Settled,
           NEW c \in Client, NEW s \in Server, Start(c, s)
    PROVE  Story'
<1>0. TypeOK /\ StartsFit /\ Awaited /\ c # Nobody
  BY GenServerAssumption DEF Inv, Story
<1>1. /\ pc[c] = "ready" /\ code[s] = "none"
      /\ life' = [life EXCEPT ![s] = "up"]
      /\ code' = [code EXCEPT ![s] = "pending"]
      /\ owner' = [owner EXCEPT ![s] = c]
      /\ pc' = [pc EXCEPT ![c] = "starting"]
      /\ wait' = [wait EXCEPT ![c] = s]
      /\ queue' = Append(queue, Go(s))
      /\ UNCHANGED <<task, watchers, caller, saved, killed, result, strays>>
  BY DEF Start, requests, calls
<1>2. PICK add : add = <<Go(s)>>
  OBVIOUS
<1>3. Queued(queue, add)
  <2>1. queue \in Seq(Signal) /\ Go(s) \in Signal
    BY <1>0, SignalsMade DEF TypeOK
  <2>. QED
    BY <1>1, <1>2, <2>1, AppendIsConcat, Few DEF Queued, Left
<1>4. /\ \A K : Single(add, K)
      /\ \A K, x : Sent(add, K, x) => "go" \in K /\ x = s
  BY <1>2, OneSent, Signalled
<1>5. \A r \in Ref : caller[r] # Nobody /\ result[r] = "none" => caller[r] # c
  BY <1>0, <1>1 DEF Awaited, Waiting
<1>6. ~Sent(queue, {"go"}, s)
  BY <1>0, <1>1 DEF StartsFit
<1>7. \A x \in Client : Sent(queue, {"ack"}, x) => x # c
  BY <1>0, <1>1 DEF StartsFit
<1>8. StartsFit'
  <2>1. \A t \in Server : code'[t] \in {"pending", "init"} =>
           /\ owner'[t] \in Client
           /\ pc'[owner'[t]] = "starting" /\ wait'[owner'[t]] = t
    BY <1>0, <1>1 DEF StartsFit, TypeOK
  <2>2. \A x \in Client :
           Sent(queue, {"ack"}, x) =>
              /\ pc'[x] = "starting" /\ wait'[x] \in Server
              /\ code'[wait'[x]] \notin {"none", "pending", "init"}
    BY <1>0, <1>1, <1>7 DEF StartsFit, TypeOK
  <2>3. \A t \in Server : code[t] = "pending" \/ t = s => code'[t] = "pending"
    BY <1>0, <1>1 DEF TypeOK
  <2>. QED
    BY <1>0, <1>3, <1>4, <1>6, <2>1, <2>2, <2>3, StartsStep
<1>9. Awaited'
  BY <1>0, <1>1, AwaitedKept DEF TypeOK
<1>10. \A t \in Server : life'[t] = "down" => t \in killed' \/ code'[t] = "ended"
  BY <1>0, <1>1 DEF Story, RepliesFirst, TypeOK
<1>. QED
  BY <1>1, <1>3, <1>4, <1>8, <1>9, <1>10, Quiet DEF Watch

LEMMA CastStory ==
    ASSUME Inv, Story, Forward, Settled,
           NEW c \in Client, NEW s \in Server, Cast(c, s)
    PROVE  Story'
<1>0. TypeOK /\ StartsFit /\ Awaited
  BY DEF Inv, Story
<1>1. /\ queue' = queue \o IfUp(s, <<CastTo(s)>>)
      /\ UNCHANGED <<life, code, task, watchers, owner, pc, wait>>
      /\ UNCHANGED <<caller, saved, killed, result, strays>>
  BY DEF Cast, servers, starts, clients, requests, calls
<1>2. PICK m : m = CastTo(s)
  OBVIOUS
<1>3. PICK add : add = IfUp(s, <<m>>)
  OBVIOUS
<1>4. Queued(queue, add)
  BY <1>0, <1>1, <1>2, <1>3, SentIfUp, SignalsMade DEF Queued, Left
<1>5. \A K, x : Sent(add, K, x) => "cast" \in K
  BY <1>2, <1>3, SomeSent, Signalled
<1>6. StartsFit'
  BY <1>0, <1>1, <1>4, <1>5, StartsKept
<1>7. Awaited'
  BY <1>0, <1>1, AwaitedKept
<1>8. \A t \in Server : life'[t] = "down" => t \in killed' \/ code'[t] = "ended"
  BY <1>1 DEF Story, RepliesFirst
<1>. QED
  BY <1>1, <1>4, <1>5, <1>6, <1>7, <1>8, Quiet DEF Watch

LEMMA TimeoutStory ==
    ASSUME Inv, Story, Forward, Settled, NEW c \in Client, Timeout(c)
    PROVE  Story'
<1>0. TypeOK /\ StartsFit /\ Awaited
  BY DEF Inv, Story
<1>1. PICK r : r = wait[c]
  OBVIOUS
<1>2. /\ pc[c] = "calling" /\ r \in Ref /\ caller[r] = c /\ result[r] = "none"
      /\ result' = [result EXCEPT ![r] = "timeout"]
      /\ pc' = [pc EXCEPT ![c] = "ready"]
      /\ wait' = [wait EXCEPT ![c] = Nobody]
      /\ UNCHANGED <<queue, life, code, task, watchers, owner>>
      /\ UNCHANGED <<caller, saved, killed, strays>>
  BY <1>1 DEF Timeout, Return, servers, starts, requests, Inv, ClientsFit
<1>3. Queued(queue, <<>>)
  BY <1>0, <1>2, Unqueued
<1>4. \A K, x : ~Sent(<<>>, K, x)
  BY NothingSent
<1>5. StartsFit'
  <2>1. \A x \in Client : pc[x] = "starting" =>
            pc'[x] = "starting" /\ wait'[x] = wait[x]
    BY <1>0, <1>2 DEF TypeOK
  <2>. QED
    BY <1>0, <1>2, <1>3, <1>4, <2>1, StartsKept
<1>6. Awaited'
  BY <1>0, <1>1, <1>2, AwaitedKept DEF TypeOK
<1>7. \A t \in Server : life'[t] = "down" => t \in killed' \/ code'[t] = "ended"
  BY <1>2 DEF Story, RepliesFirst
<1>8. \A x \in Ref : result'[x] \in {"reply", "down"} => result'[x] = result[x]
  BY <1>0, <1>2 DEF TypeOK
<1>. QED
  BY <1>2, <1>3, <1>4, <1>5, <1>6, <1>7, <1>8, Quiet

LEMMA CallStory ==
    ASSUME Inv, Story, Forward, Settled,
           NEW c \in Client, NEW s \in Server, NEW r \in Ref, NEW forever,
           Call(c, s, r, forever)
    PROVE  Story'
<1>0. /\ TypeOK /\ StartsFit /\ Awaited /\ OneReply /\ OneDown /\ RepliesFirst
      /\ c # Nobody
  BY GenServerAssumption DEF Inv, Story
<1>1. /\ pc[c] = "ready" /\ caller[r] = Nobody
      /\ caller' = [caller EXCEPT ![r] = c]
      /\ callee' = [callee EXCEPT ![r] = s]
      /\ pc' = [pc EXCEPT ![c] = "calling"]
      /\ wait' = [wait EXCEPT ![c] = r]
      /\ queue' = queue \o MonitorAndAsk(c, s, r)
      /\ UNCHANGED <<life, code, task, watchers, owner>>
      /\ UNCHANGED <<saved, killed, result, strays>>
  BY DEF Call, servers, starts, calls
<1>2. callee[r] = Nobody /\ result[r] = "none"
  BY <1>1 DEF Inv, CallsFit
<1>3. PICK add : add = MonitorAndAsk(c, s, r)
  OBVIOUS
<1>4. /\ add \in Seq(Signal)
      /\ \A K, x : Sent(add, K, x) =>
            x = r /\ ("monitor" \in K \/ "call" \in K \/ "down" \in K)
      /\ Single(add, Watch)
  <2>1. CASE life[s] = "up"
    <3>1. PICK m1, m2 : m1 = ToServer("monitor", s, r) /\ m2 = ToServer("call", s, r)
      OBVIOUS
    <3>2. /\ m1 \in Signal /\ m2 \in Signal /\ m1.kind = "monitor" /\ m2.kind = "call"
          /\ About(m1) = r /\ About(m2) = r
      BY <3>1, SignalsMade, Signalled
    <3>3. PICK p : p = <<m1, m2>>
      OBVIOUS
    <3>4. p \in Seq(Signal) /\ 1..Len(p) = {1, 2} /\ p[1] = m1 /\ p[2] = m2
      BY <3>2, <3>3, Few
    <3>5. \A K, x : Sent(p, K, x) => x = r /\ ("monitor" \in K \/ "call" \in K)
      BY <3>2, <3>4 DEF Sent
    <3>6. Single(p, Watch)
      BY <3>2, <3>4 DEF Single, Watch
    <3>7. add = p
      BY <1>3, <2>1, <3>1, <3>3 DEF MonitorAndAsk
    <3>. QED
      BY <3>4, <3>5, <3>6, <3>7
  <2>2. CASE life[s] # "up"
    <3>1. PICK m : m = [kind |-> "down", to |-> c, ref |-> r]
      OBVIOUS
    <3>2. m \in Signal /\ m.kind = "down" /\ About(m) = r
      BY <3>1 DEF Signal, About
    <3>3. add = <<m>>
      BY <1>3, <2>2, <3>1 DEF MonitorAndAsk
    <3>. QED
      BY <3>2, <3>3, OneSent, Few
  <2>. QED
    BY <2>1, <2>2
<1>5. Queued(queue, add)
  BY <1>1, <1>3, <1>4 DEF Queued, Left
<1>6. StartsFit'
  <2>1. \A x \in Client : pc[x] = "starting" =>
            pc'[x] = "starting" /\ wait'[x] = wait[x]
    BY <1>0, <1>1 DEF TypeOK
  <2>2. \A x : ~Sent(add, {"go"}, x) /\ ~Sent(add, {"ack"}, x)
    BY <1>4
  <2>. QED
    BY <1>0, <1>1, <1>5, <2>1, <2>2, StartsKept
<1>7. Awaited'
  <2>1. SUFFICES ASSUME NEW x \in Ref, caller'[x] # Nobody, result'[x] = "none"
                 PROVE  pc'[caller'[x]] = "calling" /\ wait'[caller'[x]] = x
    BY DEF Awaited, Waiting
  <2>2. CASE x = r
    BY <1>0, <1>1, <2>2 DEF TypeOK
  <2>3. CASE x # r
    <3>1. /\ caller[x] \in Client /\ caller'[x] = caller[x]
          /\ pc[caller[x]] = "calling" /\ wait[caller[x]] = x
      BY <1>0, <1>1, <2>1, <2>3 DEF TypeOK, Awaited, Waiting
    <3>. QED
      BY <1>0, <1>1, <3>1 DEF TypeOK
  <2>. QED
    BY <2>2, <2>3
<1>8. OneReply'
  <2>1. \A x : ~Sent(add, {"reply"}, x)
    BY <1>4
  <2>. QED
    BY <1>0, <1>1, <1>5, <2>1, RepliesKept
<1>9. OneDown'
  <2>1. \A x : Sent(add, Watch, x) => x = r
    BY <1>4
  <2>2. \A x \in Ref : Watched(x)' => Watched(x)
    BY <1>1 DEF Watched
  <2>. QED
    BY <1>0, <1>1, <1>2, <1>4, <1>5, <2>1, <2>2, DownsStep
<1>10. RepliesFirst'
  <2>1. \A x : ~Sent(add, {"reply"}, x)
    BY <1>4
  <2>2. \A t \in Server : life'[t] = "down" => t \in killed' \/ code'[t] = "ended"
    BY <1>0, <1>1 DEF RepliesFirst
  <2>. QED
    BY <1>0, <1>1, <1>5, <2>1, <2>2, OrderKept
<1>11. StraysExplained'
  BY <1>1, StraysKept DEF Story
<1>. QED
  BY <1>6, <1>7, <1>8, <1>9, <1>10, <1>11 DEF Story

-----------------------------------------------------------------------------
(* The steps of the server's code.                                         *)

(* The server takes up a new call or none; the others do what they did. *)
Turns(s) ==
    /\ \A t \in Server : t # s => code'[t] = code[t] /\ task'[t] = task[t]
    /\ task'[s] \in Ref =>
          \/ task'[s] = task[s] /\ life[s] # "up"
          \/ handled[task'[s]] = 0 /\ callee[task'[s]] = s

LEMMA TakeTurn ==
    ASSUME Inv, NEW s \in Server, NEW wake, Take(s, wake)
    PROVE  /\ Turns(s)
           /\ task'[s] \in Ref => handled[task'[s]] = 0 /\ callee[task'[s]] = s
           /\ code'[s] \in {"busy", "idle", "ended"}
           /\ life[s] # "up" => code'[s] = "ended"
<1>0. TypeOK
  BY DEF Inv
<1>1. CASE life[s] = "up" /\ inbox[s] # <<>>
  <2>1. inbox[s] \in Seq(Open(s))
    BY DEF Inv, ServersFit
  <2>2. Head(inbox[s]) \in Open(s)
    BY <1>1, <2>1, Rested
  <2>3. /\ code' = [code EXCEPT ![s] = "busy"]
        /\ task' = [task EXCEPT ![s] = Head(inbox[s])]
    BY <1>1 DEF Take
  <2>. QED
    BY <1>0, <1>1, <2>2, <2>3 DEF TypeOK, Turns, Open
<1>2. CASE ~(life[s] = "up" /\ inbox[s] # <<>>)
  <2>1. /\ code' = [code EXCEPT ![s] = IF life[s] = "up" THEN "idle" ELSE "ended"]
        /\ task' = [task EXCEPT ![s] = "none"]
    BY <1>2 DEF Take
  <2>. QED
    BY <1>0, <2>1, GenServerAssumption DEF TypeOK, Turns
<1>. QED
  BY <1>1, <1>2

LEMMA InitOkStory ==
    ASSUME Inv, Story, Forward, Settled, NEW s \in Server, InitOk(s)
    PROVE  Story'
<1>0. TypeOK /\ StartsFit /\ Awaited /\ RepliesFirst
  BY DEF Inv, Story
<1>1. /\ code[s] = "init" /\ Take(s, FALSE)
      /\ queue' = queue \o Ack(s)
      /\ UNCHANGED <<life, watchers, owner, pc, wait>>
      /\ UNCHANGED <<caller, saved, killed, result, strays>>
  BY DEF InitOk, clients, requests
<1>2. /\ Turns(s) /\ code'[s] \in {"busy", "idle", "ended"}
      /\ life[s] # "up" => code'[s] = "ended"
      /\ task'[s] \in Ref => handled[task'[s]] = 0 /\ callee[task'[s]] = s
  BY <1>1, TakeTurn
<1>3. PICK c : c = owner[s]
  OBVIOUS
<1>4. c \in Client /\ pc[c] = "starting" /\ wait[c] = s
  BY <1>0, <1>1, <1>3 DEF StartsFit
<1>5. PICK add : add = <<AckTo(c, s)>>
  OBVIOUS
<1>6. Queued(queue, add)
  <2>1. queue \in Seq(Signal) /\ AckTo(c, s) \in Signal
    BY <1>0, <1>4, SignalsMade DEF TypeOK
  <2>. QED
    BY <1>1, <1>3, <1>5, <2>1, Few DEF Queued, Left, Ack
<1>7. /\ \A K : Single(add, K)
      /\ \A K, x : Sent(add, K, x) => "ack" \in K /\ x = c
  BY <1>5, OneSent, Signalled
<1>8. ~Sent(queue, {"ack"}, c)
  BY <1>0, <1>1, <1>4 DEF StartsFit
<1>9. StartsFit'
  <2>1. \A t \in Server : /\ code[t] = "pending" => code'[t] = "pending"
                          /\ code'[t] \in {"pending", "init"} => code'[t] = code[t]
    BY <1>1, <1>2 DEF Turns
  <2>2. \A t \in Server : code'[t] \in {"pending", "init"} =>
           /\ owner'[t] \in Client
           /\ pc'[owner'[t]] = "starting" /\ wait'[owner'[t]] = t
    BY <1>0, <1>1, <2>1 DEF StartsFit
  <2>3. \A t \in Server : code[t] \notin {"none", "pending", "init"} =>
            code'[t] \notin {"none", "pending", "init"}
    BY <1>2 DEF Turns
  <2>4. code'[s] \notin {"none", "pending", "init"}
    BY <1>2
  <2>5. ~Sent(add, {"go"}, s) /\ \A x : ~Sent(add, {"go"}, x)
    BY <1>7
  <2>6. \A x : Sent(add, {"ack"}, x) => x = c
    BY <1>7
  <2>. QED
    BY <1>0, <1>1, <1>4, <1>6, <1>7, <1>8, <2>1, <2>2, <2>3, <2>4, <2>5, <2>6, StartsStep
<1>10. Awaited'
  BY <1>0, <1>1, AwaitedKept
<1>11. \A t \in Server : life'[t] = "down" => t \in killed' \/ code'[t] = "ended"
  BY <1>0, <1>1, <1>2 DEF RepliesFirst, Turns
<1>12. \A t \in Server : task'[t] \in Ref =>
              \/ task'[t] = task[t]
              \/ handled[task'[t]] = 0 /\ callee[task'[t]] = t
  BY <1>2 DEF Turns
<1>. QED
  BY <1>1, <1>6, <1>7, <1>9, <1>10, <1>11, <1>12, Quiet DEF Watch

(* A busy server starts nobody: the parts that no handler touches. *)
LEMMA BusyStory ==
    ASSUME Inv, Story, Forward, Settled, NEW s \in Server,
           code[s] \in {"busy", "idle", "stopping"},
           NEW q, NEW add, Queued(q, add),
           \A x : ~Sent(add, {"go"}, x) /\ ~Sent(add, {"ack"}, x),
           code'[s] \notin {"none", "pending", "init"},
           \A t \in Server : t # s => code'[t] = code[t],
           UNCHANGED <<owner, pc, wait, caller, result, strays>>
    PROVE  StartsFit' /\ Awaited' /\ StraysExplained'
<1>0. TypeOK /\ StartsFit /\ Awaited
  BY DEF Inv, Story
<1>1. StartsFit'
  <2>1. \A t \in Server :
           code'[t] \in {"none", "pending", "init"} \/ code[t] = "pending"
              => code'[t] = code[t]
    OBVIOUS
  <2>. QED
    BY <1>0, <2>1, StartsKept
<1>2. Awaited'
  BY <1>0, AwaitedKept
<1>. QED
  BY <1>1, <1>2, StraysKept DEF Story

(* As long as a server lives, nobody hears of its death. *)
LEMMA NoDownYet ==
    ASSUME Inv, OneDown, NEW r \in Ref, life[callee[r]] # "down"
    PROVE  result[r] # "down" /\ ~Sent(queue, {"down"}, r)
<1>1. SUFFICES ASSUME NEW i \in 1..Len(queue), queue[i].kind = "down",
                      About(queue[i]) = r
               PROVE  FALSE
  BY DEF OneDown, Sent
<1>2. queue[i] \in Fit
  BY ElementOfSeq DEF Inv, SignalsFit
<1>. QED
  BY <1>1, <1>2 DEF Fit, About

LEMMA HandleReplyStory ==
    ASSUME Inv, Story, Forward, Settled, NEW s \in Server, NEW wake,
           HandleReply(s, wake)
    PROVE  Story'
<1>0. /\ TypeOK /\ OneReply /\ OneDown /\ RepliesFirst
      /\ CallsFit /\ SignalsFit /\ ServersFit
  BY DEF Inv, Story
<1>1. PICK r : r = task[s]
  OBVIOUS
<1>2. /\ code[s] = "busy" /\ r \in Ref
      /\ queue' = Append(queue, ToCaller("reply", r)) /\ Take(s, wake)
      /\ UNCHANGED <<life, watchers, owner, pc, wait>>
      /\ UNCHANGED <<caller, callee, saved, killed, result, strays>>
  BY <1>1 DEF HandleReply, starts, clients, requests
<1>3. callee[r] = s /\ handled[r] = 1 /\ caller[r] \in Client /\ s # Nobody
  BY <1>0, <1>1, <1>2, Answered, GenServerAssumption DEF OneReply, ServersFit
<1>4. /\ Turns(s) /\ code'[s] \in {"busy", "idle", "ended"}
      /\ life[s] # "up" => code'[s] = "ended"
      /\ task'[s] \in Ref => handled[task'[s]] = 0 /\ callee[task'[s]] = s
  BY <1>2, TakeTurn
<1>5. PICK add : add = <<ToCaller("reply", r)>>
  OBVIOUS
<1>6. Queued(queue, add)
  <2>1. queue \in Seq(Signal) /\ ToCaller("reply", r) \in Signal
    BY <1>0, <1>2, <1>3, SignalsMade DEF TypeOK
  <2>. QED
    BY <1>2, <1>5, <2>1, AppendIsConcat, Few DEF Queued, Left
<1>7. /\ \A K : Single(add, K)
      /\ \A x : InOrder(add, x)
      /\ \A K, x : Sent(add, K, x) => "reply" \in K /\ x = r
  BY <1>5, OneSent, Signalled
<1>8. StartsFit' /\ Awaited' /\ StraysExplained'
  <2>1. \A t \in Server : t # s => code'[t] = code[t]
    BY <1>4 DEF Turns
  <2>. QED
    BY <1>2, <1>4, <1>6, <1>7, <2>1, BusyStory
<1>9. OneReply'
  <2>1. \A t \in Server : task'[t] \in Ref =>
           /\ callee'[task'[t]] = t
           /\ task'[t] # r
           /\ task'[t] = task[t] \/ handled[task'[t]] = 0
    BY <1>0, <1>2, <1>3, <1>4 DEF Turns, OneReply
  <2>2. \A x \in Ref : x \in saved' => \A t \in Server : task'[t] # x
    BY <1>0, <1>2, <2>1 DEF OneReply, CallsFit
  <2>3. InHand(r) /\ r \notin saved
    BY <1>0, <1>1, <1>2 DEF InHand, OneReply
  <2>4. ~InHand(r)'
    BY <1>2, <2>1, <2>3 DEF InHand
  <2>5. \A x \in Ref : InHand(x)' =>
              \/ InHand(x)
              \/ handled[x] = 0 /\ result'[x] # "reply"
    BY <1>0, <1>2, <2>1 DEF InHand, OneReply
  <2>6. \A x : Sent(add, {"reply"}, x) => x \in Ref /\ InHand(x) /\ ~InHand(x)'
    BY <1>2, <1>7, <2>3, <2>4
  <2>. QED
    BY <1>0, <1>2, <1>6, <1>7, <2>1, <2>2, <2>5, <2>6, RepliesStep DEF Forward
<1>10. OneDown'
  <2>1. \A x : ~Sent(add, Watch, x)
    BY <1>7 DEF Watch
  <2>. QED
    BY <1>0, <1>2, <1>6, <2>1, DownsKept
<1>11. RepliesFirst'
  <2>1. \A t \in Server : life'[t] = "down" => t \in killed' \/ code'[t] = "ended"
    BY <1>0, <1>2, <1>4 DEF RepliesFirst, Turns
  <2>2. callee[r] \notin killed => life[s] # "down"
    BY <1>0, <1>2, <1>3 DEF RepliesFirst
  <2>3. life[s] # "down" => result[r] # "down" /\ ~Sent(queue, {"down"}, r)
    BY <1>0, <1>2, <1>3, NoDownYet
  <2>. QED
    BY <1>2, <1>6, <1>7, <2>1, <2>2, <2>3, OrderStep DEF Story
<1>. QED
  BY <1>8, <1>9, <1>10, <1>11 DEF Story

LEMMA HandleNoReplyStory ==
    ASSUME Inv, Story, Forward, Settled, NEW s \in Server, NEW wake,
           HandleNoReply(s, wake)
    PROVE  Story'
<1>0. /\ TypeOK /\ OneReply /\ OneDown /\ RepliesFirst
      /\ CallsFit /\ SignalsFit /\ ServersFit
  BY DEF Inv, Story
<1>1. /\ code[s] = "busy" /\ Take(s, wake)
      /\ saved' = saved \cup ({task[s]} \cap Ref)
      /\ UNCHANGED <<queue, life, watchers, owner, pc, wait>>
      /\ UNCHANGED <<caller, callee, killed, result, strays>>
  BY DEF HandleNoReply, starts, clients, requests
<1>2. /\ Turns(s) /\ code'[s] \in {"busy", "idle", "ended"}
      /\ life[s] # "up" => code'[s] = "ended"
      /\ task'[s] \in Ref => handled[task'[s]] = 0 /\ callee[task'[s]] = s
  BY <1>1, TakeTurn
<1>3. Queued(queue, <<>>)
  BY <1>0, <1>1, Unqueued
<1>4. \A K, x : ~Sent(<<>>, K, x)
  BY NothingSent
<1>5. StartsFit' /\ Awaited' /\ StraysExplained'
  <2>1. \A t \in Server : t # s => code'[t] = code[t]
    BY <1>2 DEF Turns
  <2>. QED
    BY <1>1, <1>2, <1>3, <1>4, <2>1, BusyStory
<1>6. OneReply'
  <2>1. \A t \in Server : task'[t] \in Ref =>
           /\ callee'[task'[t]] = t
           /\ (t # s /\ task'[t] = task[t]) \/ handled[task'[t]] = 0
    BY <1>0, <1>1, <1>2 DEF Turns, OneReply
  <2>2. task[s] \in Ref => handled[task[s]] = 1 /\ callee[task[s]] = s
    BY <1>0 DEF ServersFit, OneReply
  <2>3. ASSUME NEW x \in Ref, x \in saved', NEW t \in Server, task'[t] = x
        PROVE  FALSE
    <3>1. CASE x \in saved
      BY <1>0, <2>1, <2>3, <3>1 DEF OneReply, CallsFit
    <3>2. CASE x = task[s]
      BY <1>0, <1>1, <2>1, <2>2, <2>3, <3>2
    <3>. QED
      BY <1>1, <2>3, <3>1, <3>2
  <2>4. \A x \in Ref : InHand(x)' =>
              \/ InHand(x)
              \/ handled[x] = 0 /\ result'[x] # "reply"
    <3>1. SUFFICES ASSUME NEW x \in Ref, InHand(x)', ~InHand(x)
                   PROVE  handled[x] = 0 /\ result'[x] # "reply"
      OBVIOUS
    <3>2. x \notin saved /\ \A t \in Server : task[t] # x
      BY <3>1 DEF InHand
    <3>3. handled[x] = 0
      BY <1>1, <2>1, <3>1, <3>2 DEF InHand
    <3>. QED
      BY <1>0, <1>1, <3>3 DEF OneReply
  <2>5. Single(<<>>, {"reply"})
    BY NothingSent
  <2>. QED
    BY <1>0, <1>1, <1>3, <1>4, <2>1, <2>3, <2>4, <2>5, RepliesStep DEF Forward
<1>7. OneDown'
  BY <1>0, <1>1, <1>3, <1>4, DownsKept
<1>8. RepliesFirst'
  <2>1. \A t \in Server : life'[t] = "down" => t \in killed' \/ code'[t] = "ended"
    BY <1>0, <1>1, <1>2 DEF RepliesFirst, Turns
  <2>. QED
    BY <1>0, <1>1, <1>3, <1>4, <2>1, OrderKept
<1>. QED
  BY <1>5, <1>6, <1>7, <1>8 DEF Story

LEMMA ReplySavedStory ==
    ASSUME Inv, Story, Forward, Settled, NEW s \in Server, NEW r \in Ref,
           ReplySaved(s, r)
    PROVE  Story'
<1>0. /\ TypeOK /\ OneReply /\ OneDown /\ RepliesFirst
      /\ CallsFit /\ SignalsFit /\ ServersFit
  BY DEF Inv, Story
<1>1. /\ code[s] = "busy" /\ r \in saved /\ callee[r] = s
      /\ saved' = saved \ {r}
      /\ queue' = Append(queue, ToCaller("reply", r))
      /\ UNCHANGED <<life, code, task, watchers, owner, pc, wait>>
      /\ UNCHANGED <<caller, callee, killed, handled, result, strays>>
  BY DEF ReplySaved, servers, starts, clients, requests
<1>2. handled[r] = 1 /\ caller[r] \in Client /\ s # Nobody
  BY <1>0, <1>1, Answered, GenServerAssumption DEF CallsFit
<1>3. PICK add : add = <<ToCaller("reply", r)>>
  OBVIOUS
<1>4. Queued(queue, add)
  <2>1. queue \in Seq(Signal) /\ ToCaller("reply", r) \in Signal
    BY <1>0, <1>2, SignalsMade DEF TypeOK
  <2>. QED
    BY <1>1, <1>3, <2>1, AppendIsConcat, Few DEF Queued, Left
<1>5. /\ \A K : Single(add, K)
      /\ \A x : InOrder(add, x)
      /\ \A K, x : Sent(add, K, x) => "reply" \in K /\ x = r
  BY <1>3, OneSent, Signalled
<1>6. StartsFit' /\ Awaited' /\ StraysExplained'
  BY <1>1, <1>4, <1>5, BusyStory
<1>7. OneReply'
  <2>1. InHand(r) /\ \A t \in Server : task'[t] # r
    BY <1>0, <1>1 DEF InHand, OneReply
  <2>2. ~InHand(r)'
    BY <1>1, <2>1 DEF InHand
  <2>3. \A x \in Ref : InHand(x)' => InHand(x)
    BY <1>1 DEF InHand
  <2>4. \A x : Sent(add, {"reply"}, x) => x \in Ref /\ InHand(x) /\ ~InHand(x)'
    BY <1>5, <2>1, <2>2
  <2>5. \A t \in Server : task'[t] \in Ref => callee'[task'[t]] = t
    BY <1>0, <1>1 DEF OneReply
  <2>6. \A x \in Ref : x \in saved' => \A t \in Server : task'[t] # x
    BY <1>0, <1>1 DEF OneReply
  <2>. QED
    BY <1>0, <1>1, <1>4, <1>5, <2>3, <2>4, <2>5, <2>6, RepliesStep
<1>8. OneDown'
  <2>1. \A x : ~Sent(add, Watch, x)
    BY <1>5 DEF Watch
  <2>. QED
    BY <1>0, <1>1, <1>4, <2>1, DownsKept
<1>9. RepliesFirst'
  <2>1. \A t \in Server : life'[t] = "down" => t \in killed' \/ code'[t] = "ended"
    BY <1>0, <1>1 DEF RepliesFirst
  <2>2. callee[r] \notin killed => life[s] # "down"
    BY <1>0, <1>1 DEF RepliesFirst
  <2>3. life[s] # "down" => result[r] # "down" /\ ~Sent(queue, {"down"}, r)
    BY <1>0, <1>1, NoDownYet
  <2>. QED
    BY <1>1, <1>4, <1>5, <2>1, <2>2, <2>3, OrderStep DEF Story
<1>. QED
  BY <1>6, <1>7, <1>8, <1>9 DEF Story

LEMMA StopStory ==
    ASSUME Inv, Story, Forward, Settled, NEW s \in Server, NEW replies,
           Stop(s, replies)
    PROVE  Story'
<1>0. TypeOK /\ RepliesFirst
  BY DEF Inv, Story
<1>1. /\ code[s] = "busy" /\ code' = [code EXCEPT ![s] = "stopping"]
      /\ UNCHANGED <<queue, life, task, watchers, owner, pc, wait>>
      /\ UNCHANGED <<caller, saved, killed, result, strays>>
  BY DEF Stop, starts, clients, requests, calls
<1>2. \A t \in Server : code'[t] = IF t = s THEN "stopping" ELSE code[t]
  BY <1>0, <1>1 DEF TypeOK
<1>3. Queued(queue, <<>>)
  BY <1>0, <1>1, Unqueued
<1>4. \A K, x : ~Sent(<<>>, K, x)
  BY NothingSent
<1>5. StartsFit' /\ Awaited'
  BY <1>1, <1>2, <1>3, <1>4, BusyStory
<1>6. \A t \in Server : life'[t] = "down" => t \in killed' \/ code'[t] = "ended"
  BY <1>0, <1>1, <1>2 DEF RepliesFirst
<1>. QED
  BY <1>1, <1>3, <1>4, <1>5, <1>6, Quiet

LEMMA WakeUpStory ==
    ASSUME Inv, Story, Forward, Settled, NEW s \in Server, WakeUp(s)
    PROVE  Story'
<1>0. TypeOK /\ RepliesFirst
  BY DEF Inv, Story
<1>1. /\ code[s] = "idle" /\ code' = [code EXCEPT ![s] = "busy"]
      /\ task' = [task EXCEPT ![s] = "timeout"]
      /\ UNCHANGED <<queue, life, watchers, owner, pc, wait>>
      /\ UNCHANGED <<caller, saved, killed, result, strays>>
  BY DEF WakeUp, starts, clients, requests, calls
<1>2. \A t \in Server : /\ code'[t] = IF t = s THEN "busy" ELSE code[t]
                        /\ task'[t] = IF t = s THEN "timeout" ELSE task[t]
  BY <1>0, <1>1 DEF TypeOK
<1>3. Queued(queue, <<>>)
  BY <1>0, <1>1, Unqueued
<1>4. \A K, x : ~Sent(<<>>, K, x)
  BY NothingSent
<1>5. StartsFit' /\ Awaited'
  BY <1>1, <1>2, <1>3, <1>4, BusyStory
<1>6. \A t \in Server : life'[t] = "down" => t \in killed' \/ code'[t] = "ended"
  BY <1>0, <1>1, <1>2 DEF RepliesFirst
<1>7. \A t \in Server : task'[t] \in Ref => task'[t] = task[t]
  BY <1>2, GenServerAssumption
<1>. QED
  BY <1>1, <1>3, <1>4, <1>5, <1>6, <1>7, Quiet

-----------------------------------------------------------------------------
(* Deaths.                                                                 *)

(* One DOWN for each call that watches the server that dies. *)
LEMMA DownsContent ==
    ASSUME Inv, NEW s \in Server, NEW downs \in Downs(s)
    PROVE  /\ downs \in Seq(Signal)
           /\ \A K : Single(downs, K)
           /\ \A K, x : Sent(downs, K, x) => "down" \in K /\ x \in watchers[s]
           /\ \A x : InOrder(downs, x)
<1> DEFINE D == {ToCaller("down", r) : r \in watchers[s]}
<1>0. PICK W : W = watchers[s]
  OBVIOUS
<1>1. \A r \in W : r \in Ref /\ ToCaller("down", r) \in Signal
                   /\ ToCaller("down", r).kind = "down" /\ About(ToCaller("down", r)) = r
  BY <1>0, Answered, SignalsMade, Signalled
<1>2. IsFiniteSet(D)
  <2>1. IsFiniteSet(W)
    BY <1>0, GenServerAssumption, FS_Subset DEF Inv, TypeOK
  <2> DEFINE g == [r \in W |-> ToCaller("down", r)]
  <2>2. g \in Surjection(W, D)
    BY <1>0 DEF Surjection
  <2>. QED
    BY <2>1, <2>2, FS_Surjection
<1>3. downs \in SetToSeqs(D)
  BY DEF Downs
<1>4. \A d \in D : d \in Signal /\ d.kind = "down" /\ About(d) \in W
                   /\ d = ToCaller("down", About(d))
  BY <1>0, <1>1
<1> HIDE DEF D
<1>5. downs \in Seq(D)
  BY <1>2, <1>3, Orders
<1>6. \A i \in 1..Len(downs) : downs[i] \in D
  BY <1>5, ElementOfSeq
<1>7. \A i, j \in 1..Len(downs) : downs[i] = downs[j] => i = j
  <2>1. PICK n : n = Cardinality(D)
    OBVIOUS
  <2>2. downs \in [1..n -> D] /\ n \in Nat
    BY <1>2, <1>3, <2>1, FS_CardinalityType DEF SetToSeqs
  <2>3. \A i, j \in 1..n : i # j => downs[i] # downs[j]
    BY <1>3, <2>1 DEF SetToSeqs
  <2>4. Len(downs) = n
    BY <1>5, <2>2, LenProperties
  <2>. QED
    BY <2>3, <2>4
<1>8. \A i \in 1..Len(downs) :
          /\ downs[i].kind = "down" /\ About(downs[i]) \in W
          /\ downs[i] = ToCaller("down", About(downs[i]))
  BY <1>4, <1>6
<1>9. \A K : Single(downs, K)
  <2>1. SUFFICES ASSUME NEW i \in 1..Len(downs), NEW j \in 1..Len(downs),
                        About(downs[i]) = About(downs[j])
                 PROVE  i = j
    BY DEF Single
  <2>2. downs[i] = downs[j]
    BY <1>8, <2>1
  <2>. QED
    BY <1>7, <2>2
<1>10. \A K, x : Sent(downs, K, x) => "down" \in K /\ x \in W
  BY <1>8 DEF Sent
<1>11. \A x : InOrder(downs, x)
  BY <1>8 DEF InOrder
<1>12. downs \in Seq(Signal)
  BY <1>4, <1>5, <1>6, Elements
<1>. QED
  BY <1>0, <1>9, <1>10, <1>11, <1>12

LEMMA DiesSends ==
    ASSUME Inv, NEW s \in Server, NEW before \in Seq(Signal), Dies(s, before),
           \A x : ~Sent(before, Watch, x) /\ ~Sent(before, {"down"}, x),
           \A K : Single(before, K),
           \A x : InOrder(before, x)
    PROVE  \E add :
              /\ Queued(queue, add)
              /\ \A K, x : Sent(add, K, x) =>
                    Sent(before, K, x) \/ ("down" \in K /\ x \in watchers[s])
              /\ Single(add, {"go"}) /\ Single(add, {"ack"})
              /\ Single(add, {"reply"}) /\ Single(add, Watch)
              /\ \A x : InOrder(add, x)
<1>0. queue \in Seq(Signal)
  BY DEF Inv, TypeOK
<1>1. CASE life[s] = "up"
  <2>1. PICK downs \in Downs(s) : queue' = queue \o before \o downs
    BY <1>1 DEF Dies
  <2>2. /\ downs \in Seq(Signal)
        /\ \A K : Single(downs, K)
        /\ \A K, x : Sent(downs, K, x) => "down" \in K /\ x \in watchers[s]
        /\ \A x : InOrder(downs, x)
    BY DownsContent
  <2>3. PICK add : add = before \o downs
    OBVIOUS
  <2>4. queue' = queue \o add
    BY <1>0, <2>1, <2>2, <2>3, ConcatAssociative, SMTT(20)
  <2>5. add \in Seq(Signal)
    BY <2>2, <2>3, Joined
  <2>6. \A K, x : Sent(add, K, x) => Sent(before, K, x) \/ Sent(downs, K, x)
    BY <2>2, <2>3, Joins
  <2>7. ASSUME NEW K, \A x : Sent(downs, K, x) => ~Sent(before, K, x)
        PROVE  Single(add, K)
    BY <2>2, <2>3, <2>7, Joins
  <2>8. Single(add, Watch)
    BY <2>7
  <2>9. Single(add, {"go"}) /\ Single(add, {"ack"}) /\ Single(add, {"reply"})
    BY <2>2, <2>7
  <2>10. \A x : InOrder(add, x)
    BY <2>2, <2>3, JoinsInOrder
  <2>11. Queued(queue, add)
    BY <2>4, <2>5 DEF Queued, Left
  <2>. QED
    BY <2>2, <2>6, <2>8, <2>9, <2>10, <2>11
<1>2. CASE life[s] # "up"
  <2>1. queue' = queue \o before
    BY <1>2 DEF Dies
  <2>. QED
    BY <2>1 DEF Queued, Left
<1>. QED
  BY <1>1, <1>2

(* What a death does to the parts that are alike for all of them. *)
LEMMA DeathStory ==
    ASSUME Inv, Story, Forward, Settled, NEW s \in Server, NEW add,
           Queued(queue, add), Single(add, Watch),
           \A x : Sent(add, Watch, x) => x \in watchers[s],
           watchers' = [watchers EXCEPT ![s] = {}],
           life' = [life EXCEPT ![s] = "down"],
           s \in killed' \/ code'[s] = "ended",
           \A t \in Server : t # s => code'[t] = code[t],
           UNCHANGED <<pc, wait, caller, result, strays>>
    PROVE  /\ Awaited' /\ OneDown' /\ StraysExplained'
           /\ \A t \in Server : life'[t] = "down" => t \in killed' \/ code'[t] = "ended"
<1>0. TypeOK /\ Awaited /\ OneDown /\ RepliesFirst /\ ServersFit
  BY DEF Inv, Story
<1>1. Awaited'
  BY <1>0, AwaitedKept
<1>2. StraysExplained'
  BY StraysKept DEF Story
<1>3. \A t \in Server : watchers'[t] = IF t = s THEN {} ELSE watchers[t]
  BY <1>0 DEF TypeOK
<1>4. \A x \in Ref : Watched(x)' => Watched(x)
  BY <1>3 DEF Watched
<1>5. \A x \in watchers[s] : x \in Ref /\ callee[x] = s /\ Watched(x)
  BY Answered DEF Watched
<1>6. \A x \in watchers[s] : ~Watched(x)'
  <2>1. SUFFICES ASSUME NEW x \in watchers[s], NEW t \in Server, x \in watchers'[t]
                 PROVE  FALSE
    BY DEF Watched
  <2>2. t # s /\ x \in watchers[t]
    BY <1>3, <2>1
  <2>3. callee[x] = t
    BY <2>2, Answered
  <2>. QED
    BY <1>5, <2>2, <2>3
<1>7. OneDown'
  <2>1. \A x : Sent(add, Watch, x) =>
              /\ x \in Ref
              /\ result'[x] # "down" \/ result[x] = "down"
              /\ Watched(x) /\ ~Watched(x)'
    BY <1>5, <1>6
  <2>. QED
    BY <1>0, <1>4, <2>1, DownsStep
<1>8. \A t \in Server : life'[t] = "down" => t \in killed' \/ code'[t] = "ended"
  <2>1. SUFFICES ASSUME NEW t \in Server, life'[t] = "down"
                 PROVE  t \in killed' \/ code'[t] = "ended"
    OBVIOUS
  <2>2. CASE t = s
    BY <2>2
  <2>3. CASE t # s
    <3>1. life[t] = "down"
      BY <1>0, <2>1, <2>3 DEF TypeOK
    <3>2. t \in killed \/ code[t] = "ended"
      BY <1>0, <3>1 DEF RepliesFirst
    <3>. QED
      BY <2>3, <3>2 DEF Settled
  <2>. QED
    BY <2>2, <2>3
<1>. QED
  BY <1>1, <1>2, <1>7, <1>8

LEMMA InitFailStory ==
    ASSUME Inv, Story, Forward, Settled, NEW s \in Server, InitFail(s)
    PROVE  Story'
<1>0. TypeOK /\ StartsFit /\ OneReply /\ RepliesFirst
  BY DEF Inv, Story
<1>1. /\ code[s] = "init" /\ Dies(s, Ack(s))
      /\ code' = [code EXCEPT ![s] = "ended"]
      /\ UNCHANGED <<task, owner, pc, wait>>
      /\ UNCHANGED <<caller, callee, saved, killed, handled, result, strays>>
  BY DEF InitFail, clients, requests, calls
<1>2. /\ life' = [life EXCEPT ![s] = "down"]
      /\ watchers' = [watchers EXCEPT ![s] = {}]
      /\ \A t \in Server : code'[t] = IF t = s THEN "ended" ELSE code[t]
  BY <1>0, <1>1 DEF Dies, TypeOK
<1>3. PICK c : c = owner[s]
  OBVIOUS
<1>4. c \in Client /\ pc[c] = "starting" /\ wait[c] = s
  BY <1>0, <1>1, <1>3 DEF StartsFit
<1>5. PICK ack : ack = <<AckTo(c, s)>>
  OBVIOUS
<1>6. /\ \A K : Single(ack, K) /\ \A x : InOrder(ack, x)
      /\ \A K, x : Sent(ack, K, x) => "ack" \in K /\ x = c
  BY <1>5, OneSent, Signalled
<1>7. ack \in Seq(Signal) /\ Dies(s, ack)
  BY <1>1, <1>3, <1>4, <1>5, SignalsMade, Few DEF Ack
<1>8. PICK add :
         /\ Queued(queue, add)
         /\ \A K, x : Sent(add, K, x) =>
               Sent(ack, K, x) \/ ("down" \in K /\ x \in watchers[s])
         /\ Single(add, {"go"}) /\ Single(add, {"ack"})
         /\ Single(add, {"reply"}) /\ Single(add, Watch)
         /\ \A x : InOrder(add, x)
  BY <1>6, <1>7, DiesSends DEF Watch
<1>9. /\ \A x : ~Sent(add, {"go"}, x) /\ ~Sent(add, {"reply"}, x)
      /\ \A x : Sent(add, {"ack"}, x) => x = c
      /\ \A x : Sent(add, Watch, x) => x \in watchers[s]
  BY <1>6, <1>8 DEF Watch
<1>10. ~Sent(queue, {"ack"}, c)
  BY <1>0, <1>1, <1>4 DEF StartsFit
<1>11. StartsFit'
  <2>1. \A t \in Server : code'[t] \in {"pending", "init"} =>
           /\ owner'[t] \in Client
           /\ pc'[owner'[t]] = "starting" /\ wait'[owner'[t]] = t
    BY <1>0, <1>1, <1>2 DEF StartsFit
  <2>2. \A t \in Server : /\ code[t] = "pending" => code'[t] = "pending"
                          /\ code[t] \notin {"none", "pending", "init"} =>
                                code'[t] \notin {"none", "pending", "init"}
    BY <1>1, <1>2
  <2>3. code'[s] \notin {"none", "pending", "init"}
    BY <1>2
  <2>. QED
    BY <1>0, <1>1, <1>4, <1>8, <1>9, <1>10, <2>1, <2>2, <2>3, StartsStep
<1>12. /\ Awaited' /\ OneDown' /\ StraysExplained'
       /\ \A t \in Server : life'[t] = "down" => t \in killed' \/ code'[t] = "ended"
  BY <1>1, <1>2, <1>8, <1>9, DeathStory
<1>13. OneReply'
  BY <1>0, <1>1, <1>8, <1>9, RepliesKept
<1>14. RepliesFirst'
  BY <1>0, <1>1, <1>8, <1>9, <1>12, OrderKept
<1>. QED
  BY <1>11, <1>12, <1>13, <1>14 DEF Story

LEMMA TerminatedStory ==
    ASSUME Inv, Story, Forward, Settled, NEW s \in Server, Terminated(s)
    PROVE  Story'
<1>0. /\ TypeOK /\ StartsFit /\ OneReply /\ OneDown /\ RepliesFirst
      /\ CallsFit /\ SignalsFit /\ ServersFit
  BY DEF Inv, Story
<1>1. PICK r : r = task[s]
  OBVIOUS
<1>2. PICK before : before = IF answering[s] THEN <<ToCaller("reply", r)>> ELSE <<>>
  OBVIOUS
<1>3. /\ code[s] = "stopping" /\ Dies(s, before)
      /\ code' = [code EXCEPT ![s] = "ended"]
      /\ task' = [task EXCEPT ![s] = "none"]
      /\ UNCHANGED <<owner, pc, wait>>
      /\ UNCHANGED <<caller, callee, saved, killed, handled, result, strays>>
  BY <1>1, <1>2 DEF Terminated, starts, clients, requests, calls
<1>4. /\ life' = [life EXCEPT ![s] = "down"]
      /\ watchers' = [watchers EXCEPT ![s] = {}]
      /\ \A t \in Server : /\ code'[t] = IF t = s THEN "ended" ELSE code[t]
                           /\ task'[t] = IF t = s THEN "none" ELSE task[t]
  BY <1>0, <1>3 DEF Dies, TypeOK
<1> DEFINE Owed == /\ r \in Ref /\ callee[r] = s /\ handled[r] = 1
                   /\ caller[r] \in Client
<1>5. answering[s] => Owed
  BY <1>0, <1>1, <1>3, Answered DEF ServersFit, OneReply
<1> HIDE DEF Owed
<1>6. /\ before \in Seq(Signal)
      /\ \A K : Single(before, K)
      /\ \A x : InOrder(before, x)
      /\ \A K, x : Sent(before, K, x) => "reply" \in K /\ x = r /\ Owed
  <2>1. CASE answering[s]
    <3>1. PICK m : m = ToCaller("reply", r)
      OBVIOUS
    <3>2. Owed
      BY <1>5, <2>1
    <3>3. m \in Signal /\ m.kind = "reply" /\ About(m) = r
      BY <3>1, <3>2, SignalsMade, Signalled DEF Owed
    <3>4. before = <<m>>
      BY <1>2, <2>1, <3>1
    <3>. QED
      BY <3>2, <3>3, <3>4, OneSent, Few
  <2>2. CASE ~answering[s]
    <3>1. before = <<>>
      BY <1>2, <2>2
    <3>. QED
      BY <3>1, NothingSent, Few
  <2>. QED
    BY <2>1, <2>2
<1>7. \A x : ~Sent(before, Watch, x) /\ ~Sent(before, {"down"}, x)
  BY <1>6 DEF Watch
<1>8. PICK add :
         /\ Queued(queue, add)
         /\ \A K, x : Sent(add, K, x) =>
               Sent(before, K, x) \/ ("down" \in K /\ x \in watchers[s])
         /\ Single(add, {"go"}) /\ Single(add, {"ack"})
         /\ Single(add, {"reply"}) /\ Single(add, Watch)
         /\ \A x : InOrder(add, x)
  BY <1>3, <1>6, <1>7, DiesSends
<1>9. /\ \A x : ~Sent(add, {"go"}, x) /\ ~Sent(add, {"ack"}, x)
      /\ \A x : Sent(add, {"reply"}, x) => x = r /\ Owed
      /\ \A x : Sent(add, Watch, x) => x \in watchers[s]
  BY <1>6, <1>8 DEF Watch
<1>10. StartsFit'
  BY <1>3, <1>4, <1>8, <1>9, BusyStory
<1>11. /\ Awaited' /\ OneDown' /\ StraysExplained'
       /\ \A t \in Server : life'[t] = "down" => t \in killed' \/ code'[t] = "ended"
  BY <1>3, <1>4, <1>8, <1>9, DeathStory
<1>12. OneReply'
  <2>1. \A t \in Server : task'[t] \in Ref => t # s /\ task'[t] = task[t] /\ callee[task[t]] = t
    BY <1>0, <1>4, GenServerAssumption DEF OneReply
  <2>2. \A x \in Ref : InHand(x)' => InHand(x)
    BY <1>3, <2>1 DEF InHand
  <2>3. \A x \in Ref : x \in saved' => \A t \in Server : task'[t] # x
    BY <1>0, <1>3, <2>1 DEF OneReply
  <2>4. Owed => InHand(r) /\ ~InHand(r)'
    <3>1. SUFFICES ASSUME Owed
                   PROVE  InHand(r) /\ ~InHand(r)'
      OBVIOUS
    <3>2. InHand(r) /\ r \notin saved
      BY <1>0, <1>1, <3>1 DEF Owed, InHand, OneReply
    <3>3. \A t \in Server : task'[t] # r
      BY <2>1, <3>1 DEF Owed
    <3>. QED
      BY <1>3, <3>2, <3>3 DEF InHand
  <2>5. \A x : Sent(add, {"reply"}, x) => x \in Ref /\ InHand(x) /\ ~InHand(x)'
    BY <1>9, <2>4 DEF Owed
  <2>6. \A t \in Server : task'[t] \in Ref => callee'[task'[t]] = t
    BY <1>3, <2>1
  <2>. QED
    BY <1>0, <1>3, <1>8, <2>2, <2>3, <2>5, <2>6, RepliesStep
<1>13. RepliesFirst'
  <2>1. Owed /\ callee[r] \notin killed => life[callee[r]] # "down"
    BY <1>0, <1>3 DEF Owed, RepliesFirst
  <2>2. Owed /\ callee[r] \notin killed =>
            result[r] # "down" /\ ~Sent(queue, {"down"}, r)
    BY <1>0, <2>1, NoDownYet DEF Owed
  <2>. QED
    BY <1>0, <1>3, <1>8, <1>9, <1>11, <2>2, OrderStep
<1>. QED
  BY <1>10, <1>11, <1>12, <1>13 DEF Story

LEMMA KillStory ==
    ASSUME Inv, Story, Forward, Settled, NEW s \in Server, Kill(s)
    PROVE  Story'
<1>0. TypeOK /\ StartsFit /\ OneReply /\ RepliesFirst
  BY DEF Inv, Story
<1>1. /\ code[s] \notin {"none", "pending"} /\ Dies(s, <<>>)
      /\ code' = [code EXCEPT ![s] = IF @ = "idle" THEN "ended" ELSE @]
      /\ killed' = killed \cup {s}
      /\ UNCHANGED <<task, owner, pc, wait>>
      /\ UNCHANGED <<caller, callee, saved, handled, result, strays>>
  BY DEF Kill, Known, starts, clients, requests
<1>2. /\ life' = [life EXCEPT ![s] = "down"]
      /\ watchers' = [watchers EXCEPT ![s] = {}]
      /\ \A t \in Server : \/ code'[t] = code[t]
                           \/ t = s /\ code[t] = "idle" /\ code'[t] = "ended"
  BY <1>0, <1>1 DEF Dies, TypeOK
<1>3. PICK none : none = <<>>
  OBVIOUS
<1>4. /\ none \in Seq(Signal) /\ Dies(s, none)
      /\ \A K : Single(none, K) /\ \A x : InOrder(none, x)
      /\ \A K, x : ~Sent(none, K, x)
  BY <1>1, <1>3, NothingSent, Few
<1>5. PICK add :
         /\ Queued(queue, add)
         /\ \A K, x : Sent(add, K, x) =>
               Sent(none, K, x) \/ ("down" \in K /\ x \in watchers[s])
         /\ Single(add, {"go"}) /\ Single(add, {"ack"})
         /\ Single(add, {"reply"}) /\ Single(add, Watch)
         /\ \A x : InOrder(add, x)
  BY <1>4, DiesSends
<1>6. /\ \A x : ~Sent(add, {"go"}, x) /\ ~Sent(add, {"ack"}, x)
      /\ \A x : ~Sent(add, {"reply"}, x)
      /\ \A x : Sent(add, Watch, x) => x \in watchers[s]
  BY <1>4, <1>5 DEF Watch
<1>7. StartsFit'
  <2>1. \A t \in Server :
           code'[t] \in {"none", "pending", "init"} \/ code[t] = "pending"
              => code'[t] = code[t]
    BY <1>2
  <2>. QED
    BY <1>0, <1>1, <1>5, <1>6, <2>1, StartsKept
<1>8. /\ Awaited' /\ OneDown' /\ StraysExplained'
      /\ \A t \in Server : life'[t] = "down" => t \in killed' \/ code'[t] = "ended"
  <2>1. \A t \in Server : t # s => code'[t] = code[t]
    BY <1>2
  <2>. QED
    BY <1>1, <1>2, <1>5, <1>6, <2>1, DeathStory
<1>9. OneReply'
  BY <1>0, <1>1, <1>5, <1>6, RepliesKept
<1>10. RepliesFirst'
  BY <1>0, <1>1, <1>5, <1>6, <1>8, OrderKept
<1>. QED
  BY <1>7, <1>8, <1>9, <1>10 DEF Story

-----------------------------------------------------------------------------
(* Timers.                                                                 *)

(* What is taken from the queue. *)
LEMMA Taken ==
    ASSUME Inv, Story, NEW kind, Fires(kind)
    PROVE  /\ queue # <<>> /\ Head(queue).kind = kind /\ Head(queue) \in Fit
           /\ \A K : kind \in K /\ Single(queue, K) =>
                 /\ Sent(queue, K, About(Head(queue)))
                 /\ ~Sent(Tail(queue), K, About(Head(queue)))
           /\ kind = "down" /\ InOrder(queue, About(Head(queue))) =>
                 ~Sent(Tail(queue), {"reply"}, About(Head(queue)))
           /\ Left(Tail(queue)) /\ Tail(queue) \in Seq(Signal)
<1>1. queue # <<>> /\ Head(queue).kind = kind /\ Head(queue) \in Fit
      /\ Left(Tail(queue)) /\ TypeOK
  BY Timer DEF Fires, Inv
<1>2. Tail(queue) \in Seq(Signal)
  BY <1>1, LeftSent
<1>. QED
  BY <1>1, <1>2, HeadGone

LEMMA OnGoStory ==
    ASSUME Inv, Story, Forward, Settled, OnGo
    PROVE  Story'
<1>0. TypeOK /\ StartsFit /\ Awaited /\ RepliesFirst
  BY DEF Inv, Story
<1>1. PICK s : s = Head(queue).to
  OBVIOUS
<1>2. /\ Fires("go")
      /\ \/ /\ code' = [code EXCEPT ![s] = "init"]
            /\ queue' = Tail(queue) /\ UNCHANGED life
         \/ /\ life' = [life EXCEPT ![s] = "down"]
            /\ code' = [code EXCEPT ![s] = "ended"]
            /\ queue' = Tail(queue) \o Ack(s)
      /\ UNCHANGED <<task, watchers, owner, pc, wait>>
      /\ UNCHANGED <<caller, saved, killed, result, strays>>
  BY <1>1 DEF OnGo, clients, requests, calls
<1>3. PICK q : q = Tail(queue)
  OBVIOUS
<1>4. /\ s \in Server /\ queue # <<>> /\ Left(q) /\ q \in Seq(Signal)
      /\ Sent(queue, {"go"}, s) /\ ~Sent(q, {"go"}, s)
  <2>1. Head(queue) \in Signal /\ Head(queue).kind = "go" /\ About(Head(queue)) = s
    BY <1>1, <1>2, Taken DEF Fit, About
  <2>. QED
    BY <1>0, <1>1, <1>2, <1>3, <2>1, Taken, SignalFields DEF StartsFit
<1>5. PICK c : c = owner[s]
  OBVIOUS
<1>6. code[s] = "pending" /\ c \in Client /\ pc[c] = "starting" /\ wait[c] = s
  BY <1>0, <1>4, <1>5 DEF StartsFit
<1>7. ~Sent(queue, {"ack"}, c)
  BY <1>0, <1>6 DEF StartsFit
<1>8. \A t \in Server : /\ t # s => code'[t] = code[t]
                        /\ code'[s] \in {"init", "ended"}
                        /\ life'[t] = life[t] \/ (t = s /\ code'[t] = "ended")
  BY <1>0, <1>2, <1>4 DEF TypeOK
<1>9. PICK add :
         /\ Queued(q, add)
         /\ \A K : Single(add, K)
         /\ \A K, x : Sent(add, K, x) => "ack" \in K /\ x = c /\ code'[s] = "ended"
  <2>1. CASE queue' = Tail(queue)
    BY <1>0, <1>3, <1>4, <2>1, Dequeued, NothingSent
  <2>2. CASE code'[s] = "ended" /\ queue' = Tail(queue) \o Ack(s)
    <3>1. PICK m : m = AckTo(c, s)
      OBVIOUS
    <3>2. m \in Signal /\ m.kind = "ack" /\ About(m) = c
      BY <1>4, <1>6, <3>1, SignalsMade, Signalled
    <3>3. <<m>> \in Seq(Signal) /\ queue' = q \o <<m>>
      BY <1>3, <1>5, <2>2, <3>1, <3>2, Few DEF Ack
    <3>4. Queued(q, <<m>>)
      BY <1>4, <3>3 DEF Queued
    <3>. QED
      BY <2>2, <3>2, <3>4, OneSent
  <2>. QED
    BY <1>0, <1>2, <1>4, <2>1, <2>2 DEF TypeOK
<1>10. StartsFit'
  <2>1. \A t \in Server :
           /\ code'[t] \in {"pending", "init"} =>
                 /\ owner'[t] \in Client
                 /\ pc'[owner'[t]] = "starting" /\ wait'[owner'[t]] = t
           /\ Sent(q, {"go"}, t) /\ code[t] = "pending" => code'[t] = "pending"
    BY <1>0, <1>2, <1>4, <1>5, <1>6, <1>8 DEF StartsFit
  <2>2. \A t \in Server : code[t] \notin {"none", "pending", "init"} =>
            code'[t] \notin {"none", "pending", "init"}
    BY <1>6, <1>8
  <2>3. ~Sent(q, {"ack"}, c)
    BY <1>0, <1>4, <1>7, LeftSent
  <2>4. \A x : ~Sent(add, {"go"}, x)
    BY <1>9
  <2>5. \A x : Sent(add, {"ack"}, x) => x = c /\ code'[s] = "ended"
    BY <1>9
  <2>. QED
    BY <1>0, <1>2, <1>4, <1>6, <1>9, <2>1, <2>2, <2>3, <2>4, <2>5, StartsStep
<1>11. Awaited'
  BY <1>0, <1>2, AwaitedKept
<1>12. \A t \in Server : life'[t] = "down" => t \in killed' \/ code'[t] = "ended"
  BY <1>0, <1>2, <1>6, <1>8 DEF RepliesFirst
<1>13. \A x : ~Sent(add, {"reply"}, x) /\ ~Sent(add, Watch, x)
  BY <1>9 DEF Watch
<1>. QED
  BY <1>2, <1>9, <1>10, <1>11, <1>12, <1>13, Quiet

LEMMA OnAckStory ==
    ASSUME Inv, Story, Forward, Settled, OnAck
    PROVE  Story'
<1>0. TypeOK /\ StartsFit /\ Awaited /\ RepliesFirst
  BY DEF Inv, Story
<1>1. PICK c : c = Head(queue).to
  OBVIOUS
<1>2. /\ Fires("ack") /\ queue' = Tail(queue)
      /\ pc' = [pc EXCEPT ![c] = "ready"]
      /\ wait' = [wait EXCEPT ![c] = Nobody]
      /\ UNCHANGED <<life, code, task, watchers, owner>>
      /\ UNCHANGED <<caller, saved, killed, result, strays>>
  BY <1>1 DEF OnAck, servers, starts, requests, calls
<1>3. PICK q : q = Tail(queue)
  OBVIOUS
<1>4. /\ c \in Client /\ queue # <<>>
      /\ Sent(queue, {"ack"}, c) /\ ~Sent(q, {"ack"}, c)
  <2>1. Head(queue) \in Signal /\ Head(queue).kind = "ack" /\ About(Head(queue)) = c
    BY <1>1, <1>2, Taken DEF Fit, About
  <2>. QED
    BY <1>0, <1>1, <1>2, <1>3, <2>1, Taken, SignalFields DEF StartsFit
<1>5. Queued(q, <<>>)
  BY <1>0, <1>2, <1>3, <1>4, Dequeued
<1>6. (\A K, x : ~Sent(<<>>, K, x)) /\ (\A K : Single(<<>>, K))
  BY NothingSent
<1>7. /\ pc[c] = "starting" /\ wait[c] \in Server
      /\ code[wait[c]] \notin {"none", "pending", "init"}
  BY <1>0, <1>4 DEF StartsFit
<1>8. \A x \in Client : x # c => pc'[x] = pc[x] /\ wait'[x] = wait[x]
  BY <1>0, <1>2 DEF TypeOK
<1>9. StartsFit'
  <2>1. \A t \in Server : code'[t] \in {"pending", "init"} =>
           /\ owner'[t] \in Client
           /\ pc'[owner'[t]] = "starting" /\ wait'[owner'[t]] = t
    <3>1. SUFFICES ASSUME NEW t \in Server, code[t] \in {"pending", "init"}
                   PROVE  /\ owner[t] \in Client
                          /\ pc'[owner[t]] = "starting" /\ wait'[owner[t]] = t
      BY <1>2
    <3>2. owner[t] \in Client /\ pc[owner[t]] = "starting" /\ wait[owner[t]] = t
      BY <1>0, <3>1 DEF StartsFit
    <3>3. owner[t] # c
      BY <1>7, <3>1, <3>2
    <3>. QED
      BY <1>8, <3>2, <3>3
  <2>2. \A t \in Server : Sent(q, {"go"}, t) /\ code[t] = "pending" => code'[t] = "pending"
    BY <1>2
  <2>3. \A x \in Client :
           /\ Sent(q, {"ack"}, x) /\ pc[x] = "starting"
           /\ wait[x] \in Server
           /\ code[wait[x]] \notin {"none", "pending", "init"}
           => /\ pc'[x] = "starting" /\ wait'[x] \in Server
              /\ code'[wait'[x]] \notin {"none", "pending", "init"}
    BY <1>2, <1>4, <1>8
  <2>. QED
    BY <1>0, <1>5, <1>6, <2>1, <2>2, <2>3, StartsStep
<1>10. Awaited'
  <2>1. \A x \in Client : pc[x] = "calling" => pc'[x] = "calling" /\ wait'[x] = wait[x]
    BY <1>7, <1>8
  <2>. QED
    BY <1>0, <1>2, <2>1, AwaitedKept
<1>11. \A t \in Server : life'[t] = "down" => t \in killed' \/ code'[t] = "ended"
  BY <1>0, <1>2 DEF RepliesFirst
<1>. QED
  BY <1>2, <1>5, <1>6, <1>9, <1>10, <1>11, Quiet

LEMMA ArrivesStory ==
    ASSUME Inv, Story, Forward, Settled,
           NEW s \in Server, NEW m \in Task,
           m \in Ref => handled[m] = 0 /\ callee[m] = s,
           queue # <<>>, queue' = Tail(queue), Arrives(s, m),
           UNCHANGED <<life, watchers, owner, pc, wait>>,
           UNCHANGED <<caller, saved, killed, result, strays>>
    PROVE  Story'
<1>0. TypeOK /\ StartsFit /\ Awaited /\ RepliesFirst
  BY DEF Inv, Story
<1>1. \/ code' = code /\ task' = task
      \/ /\ code[s] = "idle" /\ life[s] = "up"
         /\ code' = [code EXCEPT ![s] = "busy"]
         /\ task' = [task EXCEPT ![s] = m]
  BY DEF Arrives
<1>2. \A t \in Server :
         /\ \/ code'[t] = code[t]
            \/ t = s /\ code[t] = "idle" /\ code'[t] = "busy" /\ life[t] = "up"
         /\ task'[t] = task[t] \/ (t = s /\ task'[t] = m)
  BY <1>0, <1>1 DEF TypeOK
<1>3. PICK q : q = Tail(queue)
  OBVIOUS
<1>4. Queued(q, <<>>)
  BY <1>0, <1>3, Dequeued
<1>5. \A K, x : ~Sent(<<>>, K, x)
  BY NothingSent
<1>6. StartsFit'
  <2>1. \A t \in Server :
           code'[t] \in {"none", "pending", "init"} \/ code[t] = "pending"
              => code'[t] = code[t]
    BY <1>2
  <2>. QED
    BY <1>0, <1>4, <1>5, <2>1, StartsKept
<1>7. Awaited'
  BY <1>0, AwaitedKept
<1>8. \A t \in Server : life'[t] = "down" => t \in killed' \/ code'[t] = "ended"
  BY <1>0, <1>2 DEF RepliesFirst
<1>9. \A t \in Server : task'[t] \in Ref =>
              \/ task'[t] = task[t]
              \/ handled[task'[t]] = 0 /\ callee[task'[t]] = t
  BY <1>2
<1>. QED
  BY <1>4, <1>5, <1>6, <1>7, <1>8, <1>9, Quiet

LEMMA OnCallStory ==
    ASSUME Inv, Story, Forward, Settled, OnCall
    PROVE  Story'
<1>1. /\ Fires("call") /\ queue' = Tail(queue)
      /\ Arrives(Head(queue).to, Head(queue).ref)
      /\ UNCHANGED <<life, watchers, owner, pc, wait>>
      /\ UNCHANGED <<caller, saved, killed, result, strays>>
  BY DEF OnCall, starts, clients, requests
<1>2. /\ queue # <<>> /\ Head(queue).to \in Server /\ Head(queue).ref \in Ref
      /\ handled[Head(queue).ref] = 0 /\ callee[Head(queue).ref] = Head(queue).to
  BY <1>1, Taken, SignalFields DEF Fit
<1>3. Head(queue).ref \in Task
  BY <1>2 DEF Task
<1>. QED
  BY <1>1, <1>2, <1>3, ArrivesStory

LEMMA OnCastStory ==
    ASSUME Inv, Story, Forward, Settled, OnCast
    PROVE  Story'
<1>1. /\ Fires("cast") /\ queue' = Tail(queue)
      /\ Arrives(Head(queue).to, "cast")
      /\ UNCHANGED <<life, watchers, owner, pc, wait>>
      /\ UNCHANGED <<caller, saved, killed, result, strays>>
  BY DEF OnCast, starts, clients, requests
<1>2. queue # <<>> /\ Head(queue).to \in Server
  BY <1>1, Taken, SignalFields DEF Fit
<1>3. "cast" \in Task /\ "cast" \notin Ref
  BY GenServerAssumption DEF Task
<1>. QED
  BY <1>1, <1>2, <1>3, ArrivesStory

(* A timer that concerns neither starts nor results. *)
LEMMA TimerStory ==
    ASSUME Inv, Story, Forward, Settled, NEW q, NEW add, Queued(q, add),
           \A x : ~Sent(add, {"go"}, x) /\ ~Sent(add, {"ack"}, x),
           UNCHANGED <<life, code, task, owner, pc, wait>>,
           UNCHANGED <<caller, saved, killed, result, strays>>
    PROVE  /\ StartsFit' /\ Awaited' /\ StraysExplained'
           /\ (\A x : ~Sent(add, {"reply"}, x)) => OneReply' /\ RepliesFirst'
<1>0. TypeOK /\ StartsFit /\ Awaited /\ OneReply /\ RepliesFirst
  BY DEF Inv, Story
<1>1. StartsFit' /\ Awaited' /\ StraysExplained'
  BY <1>0, StartsKept, AwaitedKept, StraysKept DEF Story
<1>2. ASSUME \A x : ~Sent(add, {"reply"}, x)
      PROVE  OneReply' /\ RepliesFirst'
  <2>1. \A t \in Server : life'[t] = "down" => t \in killed' \/ code'[t] = "ended"
    BY <1>0 DEF RepliesFirst
  <2>. QED
    BY <1>0, <1>2, <2>1, RepliesKept, OrderKept
<1>. QED
  BY <1>1, <1>2

LEMMA OnMonitorStory ==
    ASSUME Inv, Story, Forward, Settled, OnMonitor
    PROVE  Story'
<1>0. TypeOK /\ OneDown
  BY DEF Inv, Story
<1>1. PICK s, r : s = Head(queue).to /\ r = Head(queue).ref
  OBVIOUS
<1>2. /\ Fires("monitor") /\ queue' = Tail(queue)
      /\ \/ watchers' = [watchers EXCEPT ![s] = @ \cup {r}]
         \/ watchers' = watchers
      /\ UNCHANGED <<life, code, task, owner, pc, wait>>
      /\ UNCHANGED <<caller, saved, killed, result, strays>>
  BY <1>1 DEF OnMonitor, starts, clients, requests
<1>3. PICK q : q = Tail(queue)
  OBVIOUS
<1>4. /\ s \in Server /\ r \in Ref /\ queue # <<>>
      /\ Sent(queue, Watch, r) /\ ~Sent(q, Watch, r)
  <2>1. Head(queue) \in Signal /\ Head(queue).kind = "monitor" /\ About(Head(queue)) = r
    BY <1>1, <1>2, Taken DEF Fit, About
  <2>2. "monitor" \in Watch
    BY DEF Watch
  <2>. QED
    BY <1>0, <1>1, <1>2, <1>3, <2>1, <2>2, Taken, SignalFields DEF OneDown
<1>5. Queued(q, <<>>)
  BY <1>0, <1>2, <1>3, <1>4, Dequeued
<1>6. (\A K, x : ~Sent(<<>>, K, x)) /\ (\A K : Single(<<>>, K))
  BY NothingSent
<1>7. StartsFit' /\ Awaited' /\ StraysExplained' /\ OneReply' /\ RepliesFirst'
  BY <1>2, <1>5, <1>6, TimerStory
<1>8. OneDown'
  <2>1. \A t \in Server : \A x \in watchers'[t] : x \in watchers[t] \/ x = r
    <3>1. SUFFICES ASSUME NEW t \in Server, NEW x, x \in watchers'[t]
                   PROVE  x \in watchers[t] \/ x = r
      OBVIOUS
    <3>2. watchers \in [Server -> SUBSET Ref]
      BY <1>0 DEF TypeOK
    <3>3. \/ watchers'[t] = watchers[t]
          \/ watchers'[t] = watchers[t] \cup {r}
      BY <1>2, <3>2
    <3>. QED
      BY <3>1, <3>3
  <2>2. \A x \in Ref : Watched(x)' => Watched(x) \/ x = r
    BY <2>1 DEF Watched
  <2>3. \A x \in Ref : Watched(x)' =>
              \/ Watched(x) /\ (result'[x] # "down" \/ result[x] = "down")
              \/ /\ Sent(queue, Watch, x) /\ ~Sent(q, Watch, x)
                 /\ ~Sent(<<>>, Watch, x) /\ result'[x] = result[x]
    BY <1>2, <1>4, <1>6, <2>2
  <2>. QED
    BY <1>0, <1>2, <1>5, <1>6, <2>3, DownsStep
<1>. QED
  BY <1>7, <1>8 DEF Story

LEMMA OnDemonitorStory ==
    ASSUME Inv, Story, Forward, Settled, OnDemonitor
    PROVE  Story'
<1>0. TypeOK /\ OneDown
  BY DEF Inv, Story
<1>1. /\ Fires("demonitor") /\ queue' = Tail(queue)
      /\ watchers' = [watchers EXCEPT ![Head(queue).to] = @ \ {Head(queue).ref}]
      /\ UNCHANGED <<life, code, task, owner, pc, wait>>
      /\ UNCHANGED <<caller, saved, killed, result, strays>>
  BY DEF OnDemonitor, starts, clients, requests, calls
<1>2. Queued(Tail(queue), <<>>)
  BY <1>0, <1>1, Dequeued DEF Fires
<1>3. \A K, x : ~Sent(<<>>, K, x)
  BY NothingSent
<1>4. StartsFit' /\ Awaited' /\ StraysExplained' /\ OneReply' /\ RepliesFirst'
  BY <1>1, <1>2, <1>3, TimerStory
<1>5. \A t \in Server : watchers'[t] \subseteq watchers[t]
  BY <1>0, <1>1 DEF TypeOK
<1>6. OneDown'
  BY <1>0, <1>1, <1>2, <1>3, <1>5, DownsKept
<1>. QED
  BY <1>4, <1>6 DEF Story

(* A caller that gets what it waits for. *)
LEMMA ReturnStory ==
    ASSUME Inv, Story, NEW r \in Ref, NEW how, Waiting(r), Return(r, how),
           how # "none", caller[r] \in Client,
           NEW q, NEW add, Queued(q, add),
           \A x : ~Sent(add, {"go"}, x) /\ ~Sent(add, {"ack"}, x),
           UNCHANGED <<code, owner, caller>>
    PROVE  /\ StartsFit' /\ Awaited'
           /\ \A x \in Ref : result'[x] = IF x = r THEN how ELSE result[x]
<1>0. TypeOK /\ StartsFit /\ Awaited
  BY DEF Inv, Story
<1>1. PICK c : c = caller[r]
  OBVIOUS
<1>2. /\ c \in Client /\ pc[c] = "calling" /\ wait[c] = r
      /\ result' = [result EXCEPT ![r] = how]
      /\ pc' = [pc EXCEPT ![c] = "ready"]
      /\ wait' = [wait EXCEPT ![c] = Nobody]
  BY <1>1 DEF Waiting, Return
<1>3. \A x \in Client : x # c => pc'[x] = pc[x] /\ wait'[x] = wait[x]
  BY <1>0, <1>2 DEF TypeOK
<1>4. \A x \in Ref : result'[x] = IF x = r THEN how ELSE result[x]
  BY <1>0, <1>2 DEF TypeOK
<1>5. StartsFit'
  <2>1. \A x \in Client : pc[x] = "starting" => pc'[x] = "starting" /\ wait'[x] = wait[x]
    BY <1>2, <1>3
  <2>. QED
    BY <1>0, <2>1, StartsKept
<1>6. Awaited'
  <2>1. \A x \in Client : pc[x] = "calling" =>
              \/ pc'[x] = "calling" /\ wait'[x] = wait[x]
              \/ wait[x] \in Ref /\ result'[wait[x]] # "none"
    BY <1>2, <1>3, <1>4
  <2>2. \A x \in Ref : result'[x] = "none" => result[x] = "none"
    BY <1>4
  <2>. QED
    BY <1>0, <2>1, <2>2, AwaitedKept
<1>. QED
  BY <1>4, <1>5, <1>6

LEMMA OnReplyStory ==
    ASSUME Inv, Story, Forward, Settled, OnReply
    PROVE  Story'
<1>0. TypeOK /\ Awaited /\ OneReply /\ OneDown /\ RepliesFirst
  BY DEF Inv, Story
<1>1. PICK r, s : r = Head(queue).ref /\ s = callee[r]
  OBVIOUS
<1>2. /\ Fires("reply")
      /\ \/ /\ Waiting(r) /\ Return(r, "reply") /\ UNCHANGED strays
            /\ queue' = Tail(queue) \o IfUp(s, <<ToServer("demonitor", s, r)>>)
         \/ /\ ~Waiting(r) /\ Strays(r, "reply") /\ queue' = Tail(queue)
            /\ UNCHANGED <<pc, wait, result>>
      /\ UNCHANGED <<life, code, task, watchers, owner>>
      /\ UNCHANGED <<caller, callee, saved, killed, handled>>
  BY <1>1 DEF OnReply, servers, starts, clients, requests
<1>3. PICK q : q = Tail(queue)
  OBVIOUS
<1>4. /\ r \in Ref /\ handled[r] = 1 /\ queue # <<>> /\ Left(q) /\ q \in Seq(Signal)
      /\ Sent(queue, {"reply"}, r) /\ ~Sent(q, {"reply"}, r)
  <2>1. Head(queue) \in Fit /\ Head(queue).kind = "reply" /\ About(Head(queue)) = r
    BY <1>1, <1>2, Taken DEF About
  <2>2. r \in Ref /\ handled[r] = 1
    BY <1>1, <2>1, SignalFields DEF Fit
  <2>. QED
    BY <1>0, <1>1, <1>2, <1>3, <2>1, <2>2, Taken DEF OneReply
<1>5. caller[r] \in Client /\ s \in Server
  BY <1>1, <1>4, Answered
<1>6. \A t \in Server : life'[t] = "down" => t \in killed' \/ code'[t] = "ended"
  BY <1>0, <1>2 DEF RepliesFirst
<1>7. CASE Waiting(r) /\ Return(r, "reply") /\ UNCHANGED strays
           /\ queue' = Tail(queue) \o IfUp(s, <<ToServer("demonitor", s, r)>>)
  <2>1. PICK m : m = ToServer("demonitor", s, r)
    OBVIOUS
  <2>2. m \in Signal /\ m.kind = "demonitor"
    BY <1>4, <1>5, <2>1, SignalsMade, Signalled
  <2>3. PICK add : add = IfUp(s, <<m>>)
    OBVIOUS
  <2>4. Queued(q, add) /\ \A K, x : Sent(add, K, x) => "demonitor" \in K
    BY <1>3, <1>4, <1>7, <2>1, <2>2, <2>3, SentIfUp, SomeSent DEF Queued
  <2>5. \A x : /\ ~Sent(add, {"go"}, x) /\ ~Sent(add, {"ack"}, x)
               /\ ~Sent(add, {"reply"}, x) /\ ~Sent(add, Watch, x)
    BY <2>4 DEF Watch
  <2>6. /\ StartsFit' /\ Awaited'
        /\ \A x \in Ref : result'[x] = IF x = r THEN "reply" ELSE result[x]
    BY <1>2, <1>4, <1>5, <1>7, <2>4, <2>5, ReturnStory
  <2>7. OneReply'
    <3>1. \A x \in Ref : result'[x] = "reply" =>
              \/ result[x] = "reply"
              \/ Sent(queue, {"reply"}, x) /\ ~Sent(q, {"reply"}, x)
      BY <1>4, <2>6
    <3>. QED
      BY <1>0, <1>2, <2>4, <2>5, <3>1, RepliesKept
  <2>8. \A x \in Ref : result'[x] = "down" => result[x] = "down"
    BY <2>6
  <2>9. OneDown'
    BY <1>0, <1>2, <2>4, <2>5, <2>8, DownsKept
  <2>10. RepliesFirst'
    BY <1>0, <1>2, <1>6, <2>4, <2>5, <2>8, OrderKept
  <2>11. StraysExplained'
    BY <1>7, StraysKept DEF Story
  <2>. QED
    BY <2>6, <2>7, <2>9, <2>10, <2>11 DEF Story
<1>8. CASE /\ ~Waiting(r) /\ Strays(r, "reply") /\ queue' = Tail(queue)
           /\ UNCHANGED <<pc, wait, result>>
  <2>1. Queued(q, <<>>)
    BY <1>0, <1>3, <1>4, <1>8, Dequeued
  <2>2. \A K, x : ~Sent(<<>>, K, x)
    BY NothingSent
  <2>3. StartsFit' /\ Awaited'
    BY <1>0, <1>2, <1>8, <2>1, <2>2, StartsKept, AwaitedKept DEF Story
  <2>4. OneReply' /\ OneDown' /\ RepliesFirst'
    BY <1>0, <1>2, <1>6, <1>8, <2>1, <2>2, RepliesKept, DownsKept, OrderKept
  <2>5. StraysExplained'
    <3>1. caller[r] # Nobody /\ result[r] # "none"
      BY <1>0, <1>4, <1>5, <1>8, GenServerAssumption DEF Awaited
    <3>2. result[r] # "reply"
      BY <1>0, <1>4 DEF OneReply
    <3>3. result[r] = "down" => callee[r] \in killed
      BY <1>0, <1>4 DEF RepliesFirst
    <3>4. \/ result'[r] = "timeout"
          \/ result'[r] = "down" /\ callee'[r] \in killed'
      BY <1>0, <1>2, <1>4, <1>8, <3>1, <3>2, <3>3 DEF TypeOK
    <3>5. \A x \in strays' : x \in strays \/ x = <<r, "reply">>
      BY <1>8 DEF Strays
    <3>. QED
      BY <1>4, <3>4, <3>5, StraysStep DEF Story
  <2>. QED
    BY <2>3, <2>4, <2>5 DEF Story
<1>. QED
  BY <1>2, <1>7, <1>8

LEMMA OnDownStory ==
    ASSUME Inv, Story, Forward, Settled, OnDown
    PROVE  Story'
<1>0. TypeOK /\ Awaited /\ OneReply /\ OneDown /\ RepliesFirst
  BY DEF Inv, Story
<1>1. PICK r : r = Head(queue).ref
  OBVIOUS
<1>2. /\ Fires("down") /\ queue' = Tail(queue)
      /\ \/ Waiting(r) /\ Return(r, "down") /\ UNCHANGED strays
         \/ ~Waiting(r) /\ Strays(r, "down") /\ UNCHANGED <<pc, wait, result>>
      /\ UNCHANGED <<life, code, task, watchers, owner>>
      /\ UNCHANGED <<caller, callee, saved, killed, handled>>
  BY <1>1 DEF OnDown, servers, starts, clients, requests
<1>3. PICK q : q = Tail(queue)
  OBVIOUS
<1>4. Head(queue) \in Fit /\ Head(queue).kind = "down" /\ About(Head(queue)) = r
  BY <1>1, <1>2, Taken DEF About
<1>5. /\ r \in Ref /\ callee[r] # Nobody /\ life[callee[r]] = "down" /\ queue # <<>>
      /\ Sent(queue, Watch, r) /\ ~Sent(q, Watch, r)
      /\ callee[r] \in killed \/ ~Sent(q, {"reply"}, r)
  <2>1. r \in Ref /\ callee[r] # Nobody /\ life[callee[r]] = "down"
    BY <1>1, <1>4, SignalFields DEF Fit
  <2>2. "down" \in Watch
    BY DEF Watch
  <2>3. queue # <<>> /\ Sent(queue, Watch, r) /\ ~Sent(q, Watch, r)
    BY <1>0, <1>2, <1>3, <1>4, <2>2, Taken DEF OneDown
  <2>4. callee[r] \in killed \/ ~Sent(q, {"reply"}, r)
    BY <1>0, <1>2, <1>3, <1>4, <2>1, Taken DEF RepliesFirst
  <2>. QED
    BY <2>1, <2>3, <2>4
<1>6. caller[r] \in Client /\ caller[r] # Nobody
  BY <1>5, GenServerAssumption DEF Inv, TypeOK, CallsFit
<1>7. \A t \in Server : life'[t] = "down" => t \in killed' \/ code'[t] = "ended"
  BY <1>0, <1>2 DEF RepliesFirst
<1>8. Queued(q, <<>>)
  BY <1>0, <1>2, <1>3, <1>5, Dequeued
<1>9. (\A K, x : ~Sent(<<>>, K, x)) /\ (\A K : Single(<<>>, K))
  BY NothingSent
<1>10. CASE Waiting(r) /\ Return(r, "down") /\ UNCHANGED strays
  <2>1. /\ StartsFit' /\ Awaited'
        /\ \A x \in Ref : result'[x] = IF x = r THEN "down" ELSE result[x]
    BY <1>2, <1>5, <1>6, <1>8, <1>9, <1>10, ReturnStory
  <2>2. OneReply'
    BY <1>0, <1>2, <1>8, <1>9, <2>1, RepliesKept
  <2>3. OneDown'
    <3>1. \A x \in Ref : Watched(x)' => Watched(x) /\ x # r
      BY <1>0, <1>2, <1>5 DEF Watched, OneDown
    <3>2. \A x \in Ref : result'[x] = "down" => x = r \/ result[x] = "down"
      BY <2>1
    <3>3. \A x \in Ref : Watched(x)' =>
              Watched(x) /\ (result'[x] # "down" \/ result[x] = "down")
      BY <3>1, <3>2
    <3>. QED
      BY <1>0, <1>5, <1>8, <1>9, <3>2, <3>3, DownsStep
  <2>4. RepliesFirst'
    <3>1. \A x \in Ref : result'[x] = "down" =>
              result[x] = "down" \/ ~Sent(q, {"reply"}, x) \/ callee[x] \in killed
      BY <1>5, <2>1
    <3>. QED
      BY <1>0, <1>2, <1>7, <1>8, <1>9, <3>1, OrderKept
  <2>5. StraysExplained'
    BY <1>10, StraysKept DEF Story
  <2>. QED
    BY <2>1, <2>2, <2>3, <2>4, <2>5 DEF Story
<1>11. CASE ~Waiting(r) /\ Strays(r, "down") /\ UNCHANGED <<pc, wait, result>>
  <2>1. StartsFit' /\ Awaited'
    BY <1>0, <1>2, <1>8, <1>9, <1>11, StartsKept, AwaitedKept DEF Story
  <2>2. OneReply' /\ OneDown' /\ RepliesFirst'
    BY <1>0, <1>2, <1>7, <1>8, <1>9, <1>11, RepliesKept, DownsKept, OrderKept
  <2>3. StraysExplained'
    <3>1. result[r] # "none" /\ result[r] # "down"
      BY <1>0, <1>5, <1>6, <1>11 DEF Awaited, OneDown
    <3>2. result'[r] \in {"timeout", "reply"}
      BY <1>0, <1>5, <1>11, <3>1 DEF TypeOK
    <3>3. \A x \in strays' : x \in strays \/ x = <<r, "down">>
      BY <1>11 DEF Strays
    <3>. QED
      BY <1>5, <3>2, <3>3, StraysStep DEF Story
  <2>. QED
    BY <2>1, <2>2, <2>3 DEF Story
<1>. QED
  BY <1>2, <1>10, <1>11

-----------------------------------------------------------------------------
LEMMA StoryInit == Init => Story
<1>. SUFFICES ASSUME Init PROVE Story
  OBVIOUS
<1>1. /\ \A K, x : ~Sent(queue, K, x)
      /\ \A K : Single(queue, K)
      /\ \A x : InOrder(queue, x)
  <2>1. queue = <<>>
    BY DEF Init
  <2>. QED
    BY <2>1, NothingSent
<1>2. StartsFit
  BY <1>1 DEF Init, StartsFit
<1>3. Awaited
  BY DEF Init, Awaited
<1>4. OneReply
  BY <1>1, GenServerAssumption DEF Init, OneReply, InHand
<1>5. OneDown
  BY <1>1 DEF Init, OneDown, Watched
<1>6. RepliesFirst
  BY <1>1 DEF Init, RepliesFirst
<1>7. StraysExplained
  BY DEF Init, StraysExplained
<1>. QED
  BY <1>2, <1>3, <1>4, <1>5, <1>6, <1>7 DEF Story

LEMMA StoryNext == Inv /\ Story /\ [Next]_vars => Story'
<1>. SUFFICES ASSUME Inv, Story, [Next]_vars PROVE Story'
  OBVIOUS
<1>0. Forward /\ Settled
  BY Advance
<1>1. CASE ClientStep
  BY <1>0, <1>1, StartStory, CastStory, CallStory DEF ClientStep
<1>2. ASSUME NEW c \in Client, Timeout(c) PROVE Story'
  BY <1>0, <1>2, TimeoutStory
<1>3. ASSUME NEW s \in Server, Initializes(s) PROVE Story'
  BY <1>0, <1>3, InitOkStory, InitFailStory DEF Initializes
<1>4. ASSUME NEW s \in Server, Handles(s) PROVE Story'
  BY <1>0, <1>4, HandleReplyStory, HandleNoReplyStory, StopStory,
     TerminatedStory DEF Handles
<1>5. ASSUME NEW s \in Server, NEW r \in Ref, ReplySaved(s, r) PROVE Story'
  BY <1>0, <1>5, ReplySavedStory
<1>6. ASSUME NEW s \in Server, WakeUp(s) \/ Kill(s) PROVE Story'
  BY <1>0, <1>6, WakeUpStory, KillStory
<1>7. CASE Tick
  BY <1>0, <1>7, OnGoStory, OnAckStory, OnCallStory, OnCastStory,
     OnMonitorStory, OnDemonitorStory, OnReplyStory, OnDownStory DEF Tick
<1>8. CASE UNCHANGED vars
  <2>1. UNCHANGED <<queue, servers, starts, clients, requests, calls>>
    BY <1>8 DEF vars
  <2>2. StartsFit' /\ Awaited'
    BY <2>1 DEF Story, StartsFit, Awaited, Waiting, servers, starts, clients,
       requests, calls
  <2>3. OneReply' /\ OneDown' /\ RepliesFirst' /\ StraysExplained'
    BY <2>1 DEF Story, OneReply, InHand, OneDown, Watched, RepliesFirst,
       StraysExplained, servers, requests, calls
  <2>. QED
    BY <2>2, <2>3 DEF Story
<1>. QED
  BY <1>1, <1>2, <1>3, <1>4, <1>5, <1>6, <1>7, <1>8 DEF Next

(* What a call leaves behind in its caller's inbox is explained: a reply   *)
(* that nobody waits for comes after a timeout, or after the DOWN of a     *)
(* server that was killed and whose code went on; a DOWN comes after a     *)
(* timeout, or after a reply whose demonitor came too late.                *)
THEOREM Strayed == Spec => []StraysExplained
<1>1. Init => Inv /\ Story
  BY InvInit, StoryInit
<1>2. Inv /\ Story /\ [Next]_vars => (Inv /\ Story)'
  BY InvNext, StoryNext
<1>3. Story => StraysExplained
  BY DEF Story
<1>. QED
  BY <1>1, <1>2, <1>3, PTL DEF Spec

=============================================================================
