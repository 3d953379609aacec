--------------------------------- MODULE Call ---------------------------------
(***************************************************************************)
(* What a gen_server call promises its caller, whatever happens to the     *)
(* server: a request is executed at most once, and never by a process that *)
(* is gone; the caller gets one answer; it is a reply only if the request  *)
(* was executed, and a DOWN only if the server is gone.                    *)
(***************************************************************************)
EXTENDS Naturals

CONSTANT Ref        \* the references that tell calls apart

VARIABLES
    asked,          \* calls that were made
    executed,       \* how often the server took up the request
    gone,           \* calls whose server is gone
    answer          \* what the caller got

vars == <<asked, executed, gone, answer>>

TypeOK ==
    /\ asked \subseteq Ref
    /\ executed \in [Ref -> Nat]
    /\ gone \subseteq asked
    /\ answer \in [Ref -> {"none", "reply", "down", "timeout"}]

Init ==
    /\ asked = {}
    /\ executed = [r \in Ref |-> 0]
    /\ gone = {}
    /\ answer = [r \in Ref |-> "none"]

Ask(r) ==
    /\ r \notin asked
    /\ asked' = asked \cup {r}
    /\ gone' \in {gone, gone \cup {r}}
    /\ UNCHANGED <<executed, answer>>

Execute(r) ==
    /\ r \in asked \ gone
    /\ executed[r] = 0
    /\ executed' = [executed EXCEPT ![r] = 1]
    /\ UNCHANGED <<asked, gone, answer>>

Crash(R) ==
    /\ gone' = gone \cup R
    /\ UNCHANGED <<asked, executed, answer>>

Answer(r, how) ==
    /\ r \in asked
    /\ answer[r] = "none"
    /\ how = "reply" => executed[r] = 1
    /\ how = "down" => r \in gone
    /\ answer' = [answer EXCEPT ![r] = how]
    /\ UNCHANGED <<asked, executed, gone>>

Next ==
    \/ \E r \in Ref : Ask(r) \/ Execute(r)
    \/ \E R \in SUBSET asked : Crash(R)
    \/ \E r \in Ref, how \in {"reply", "down", "timeout"} : Answer(r, how)

Spec == Init /\ [][Next]_vars
=============================================================================
