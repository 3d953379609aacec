----------------------------- MODULE MessageBox -----------------------------
(***************************************************************************)
(* The mailbox of one process: packages/core/src/message-box.js, as it is  *)
(* driven by Context.receive, receiveBlock, drain and destroy.             *)
(*                                                                         *)
(* A JavaScript turn is atomic, so one action is one call of push, pop or  *)
(* clear, or one expiry of a receive timer.  A message is the identity of  *)
(* one push.  A pattern is the set of messages its evaluator accepts; an   *)
(* evaluator that throws rejects the message, in push and in pop alike.    *)
(***************************************************************************)
EXTENDS Integers, SequencesExt

CONSTANTS
    Message,    \* the messages that may be pushed, each of them once
    Timer,      \* identities of the timers that setTimeout returns
    NoTimer,    \* the receive waits with timeout = Infinity
    NoReceive   \* #pending = null

ASSUME MessageBoxAssumption ==
    /\ NoTimer \notin Timer
    /\ NoReceive \notin [pattern : SUBSET Message, timer : Timer \cup {NoTimer}]

VARIABLES
    mb,         \* the array itself: messages in order of arrival
    pending,    \* #pending: the one receive that waits
    armed,      \* timers that are set and neither fired nor cleared
    sent,       \* history: messages pushed so far
    taken,      \* history: how many receives each message resolved
    dropped,    \* history: messages thrown away by clear
    nested      \* history: a receiveBlock handler has itself called receive

vars == <<mb, pending, armed, sent, taken, dropped, nested>>

Pattern == SUBSET Message

Record == [pattern : Pattern, timer : Timer \cup {NoTimer}]

(* Positions of mb whose message a pattern accepts. *)
Matches(box, pattern) == {i \in 1..Len(box) : box[i] \in pattern}

(* The receive that waits accepts this message. *)
Wanted(m) == pending # NoReceive /\ m \in pending.pattern

(* The position at which the scan in pop stops. *)
IsFirst(i, positions) == i \in positions /\ \A j \in positions : i <= j

Init ==
    /\ mb = <<>>
    /\ pending = NoReceive
    /\ armed = {}
    /\ sent = {}
    /\ taken = [m \in Message |-> 0]
    /\ dropped = {}
    /\ nested = FALSE

(* Faulty variants of the definitions below stand right before them, each  *)
(* with a name that says what it forgets; the properties must detect them. *)
SettleKeepsTimer ==
    /\ pending' = NoReceive
    /\ UNCHANGED armed

(* The pending receive is settled: its timer, if it has one, is cleared. *)
Settle ==
    /\ pending' = NoReceive
    /\ armed' = armed \ {pending.timer}

-----------------------------------------------------------------------------
PushToReceiverStoresToo(m) ==
    /\ m \notin sent
    /\ Wanted(m)
    /\ Settle
    /\ sent' = sent \cup {m}
    /\ taken' = [taken EXCEPT ![m] = @ + 1]
    /\ mb' = Append(mb, m)
    /\ UNCHANGED <<dropped, nested>>

(* push while a receive waits for this message: it is handed over and is   *)
(* never stored.                                                           *)
PushToReceiver(m) ==
    /\ m \notin sent
    /\ Wanted(m)
    /\ Settle
    /\ sent' = sent \cup {m}
    /\ taken' = [taken EXCEPT ![m] = @ + 1]
    /\ UNCHANGED <<mb, dropped, nested>>

PushStoredAlways(m) ==
    /\ m \notin sent
    /\ mb' = Append(mb, m)
    /\ sent' = sent \cup {m}
    /\ UNCHANGED <<pending, armed, taken, dropped, nested>>

(* push with no receive waiting, or one that does not want this message. *)
PushStored(m) ==
    /\ m \notin sent
    /\ ~Wanted(m)
    /\ mb' = Append(mb, m)
    /\ sent' = sent \cup {m}
    /\ UNCHANGED <<pending, armed, taken, dropped, nested>>

(* pop finds its message in the box; the first match is spliced out. *)
PopTake(pattern) ==
    /\ pending = NoReceive
    /\ \E i \in Matches(mb, pattern) :
        /\ IsFirst(i, Matches(mb, pattern))
        /\ mb' = RemoveAt(mb, i)
        /\ taken' = [taken EXCEPT ![mb[i]] = @ + 1]
    /\ UNCHANGED <<pending, armed, sent, dropped, nested>>

DeferUnarmed(pattern, timer) ==
    /\ pending' = [pattern |-> pattern, timer |-> timer]
    /\ UNCHANGED armed

DeferArmsInfinity(pattern, timer) ==
    /\ timer \notin armed
    /\ pending' = [pattern |-> pattern, timer |-> timer]
    /\ armed' = armed \cup {timer}

(* #defer: the receive is recorded, and its timer set unless it waits for  *)
(* ever.                                                                   *)
Defer(pattern, timer) ==
    /\ timer \notin armed
    /\ pending' = [pattern |-> pattern, timer |-> timer]
    /\ armed' = armed \cup ({timer} \ {NoTimer})

PopDefer(pattern, timer) ==
    /\ pending = NoReceive
    /\ Matches(mb, pattern) = {}
    /\ Defer(pattern, timer)
    /\ UNCHANGED <<mb, sent, taken, dropped, nested>>

(* The handler of a receiveBlock runs inside the evaluator, before pop     *)
(* splices the message out.  When it starts with a receive of its own, the *)
(* inner pop scans a box that still holds the outer message at position i, *)
(* and the outer pop then splices position i of what the inner one left    *)
(* (splice past the end removes nothing).                                  *)
OuterConsume(box, i) == IF i <= Len(box) THEN RemoveAt(box, i) ELSE box

PopNestedTake(pattern, inner) ==
    /\ pending = NoReceive
    /\ nested' = TRUE
    /\ \E i \in Matches(mb, pattern), j \in Matches(mb, inner) :
        /\ IsFirst(i, Matches(mb, pattern))
        /\ IsFirst(j, Matches(mb, inner))
        /\ mb' = OuterConsume(RemoveAt(mb, j), i)
        /\ taken' = [m \in Message |->
              taken[m] + (IF m = mb[i] THEN 1 ELSE 0)
                       + (IF m = mb[j] THEN 1 ELSE 0)]
    /\ UNCHANGED <<pending, armed, sent, dropped>>

PopNestedDefer(pattern, inner, timer) ==
    /\ pending = NoReceive
    /\ nested' = TRUE
    /\ Matches(mb, inner) = {}
    /\ Defer(inner, timer)
    /\ \E i \in Matches(mb, pattern) :
        /\ IsFirst(i, Matches(mb, pattern))
        /\ mb' = RemoveAt(mb, i)
        /\ taken' = [taken EXCEPT ![mb[i]] = @ + 1]
    /\ UNCHANGED <<sent, dropped>>

(* A timer expires.  Its closure rejects the promise it was made for and   *)
(* resets #pending, whatever #pending is by then.                          *)
TimerFires(timer) ==
    /\ timer \in armed
    /\ armed' = armed \ {timer}
    /\ pending' = NoReceive
    /\ UNCHANGED <<mb, sent, taken, dropped, nested>>

(* clear: from Context.drain, and from destroy when the process dies. *)
Clear ==
    /\ mb # <<>> \/ pending # NoReceive
    /\ dropped' = dropped \cup ToSet(mb)
    /\ mb' = <<>>
    /\ IF pending # NoReceive THEN Settle ELSE UNCHANGED <<pending, armed>>
    /\ UNCHANGED <<sent, taken, nested>>

Push(m) == PushToReceiver(m) \/ PushStored(m)

Pop(pattern) ==
    \/ PopTake(pattern)
    \/ \E timer \in Timer \cup {NoTimer} : PopDefer(pattern, timer)
    \/ \E inner \in Pattern : PopNestedTake(pattern, inner)
    \/ \E inner \in Pattern, timer \in Timer \cup {NoTimer} :
            PopNestedDefer(pattern, inner, timer)

Next ==
    \/ \E m \in Message : Push(m)
    \/ \E pattern \in Pattern : Pop(pattern)
    \/ \E timer \in Timer : TimerFires(timer)
    \/ Clear

(* The event loop runs every timer that stays set; nobody is obliged to    *)
(* push, to receive or to clear.                                           *)
Fairness == \A timer \in Timer : WF_vars(TimerFires(timer))

Spec == Init /\ [][Next]_vars /\ Fairness

-----------------------------------------------------------------------------
TypeOK ==
    /\ mb \in Seq(Message)
    /\ pending \in Record \cup {NoReceive}
    /\ armed \in SUBSET Timer
    /\ sent \in SUBSET Message
    /\ taken \in [Message -> Nat]
    /\ dropped \in SUBSET Message
    /\ nested \in BOOLEAN

(* No lost wake-up: push and pop decide separately whether a message meets *)
(* a receive, and between them no receive ever waits while a message that  *)
(* it accepts lies in the box.                                             *)
NoLostWakeup ==
    pending # NoReceive => Matches(mb, pending.pattern) = {}

(* A timer that can still fire belongs to the receive that waits: no       *)
(* settled receive leaves a timer behind that would cancel a later one     *)
(* (the clearTimeout calls in the wrappers of #defer).                     *)
TimerOwnsReceive ==
    armed = IF pending = NoReceive THEN {} ELSE {pending.timer} \ {NoTimer}

(* Whatever mixture of hand-over, storing, timeouts and clears happens,    *)
(* each pushed message is in exactly one place: in the box, received by    *)
(* one receive, or dropped by a clear, as long as no receive is started    *)
(* inside the handler of another.                                          *)
Received == {m \in Message : taken[m] > 0}

Placed ==
    /\ IsInjective(mb)
    /\ \A m \in Message : taken[m] <= 1
    /\ sent = ToSet(mb) \cup Received \cup dropped
    /\ ToSet(mb) \cap Received = {}
    /\ (ToSet(mb) \cup Received) \cap dropped = {}

Conserved == ~nested => Placed

(* Two receives in a row never take the same message, nor lose one that    *)
(* neither of them took, as the tests of pop say.  A receive inside a      *)
(* receiveBlock handler runs before the outer message is spliced out.      *)
TakenOnce == \A m \in Message : taken[m] <= 1

(* A receive with a timeout never waits for ever: it is resolved, rejected *)
(* by its timer, or rejected by a clear.                                   *)
TimedReceiveEnds ==
    (pending # NoReceive /\ pending.timer # NoTimer) ~> (pending = NoReceive)
=============================================================================
