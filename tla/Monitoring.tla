----------------------------- MODULE Monitoring -----------------------------
(***************************************************************************)
(* What monitors promise, without signals, queues or tables: the asker of  *)
(* a reference gets one DOWN for it, only of a subject that is gone, with  *)
(* the reason that every other watcher gets.  It gets none only if it went *)
(* away itself, withdrew, or asked so late that the death came first; and  *)
(* a process that is watched from its birth cannot be too fast for that.   *)
(***************************************************************************)
CONSTANTS Pid, Ref, Reason, NoPid

VARIABLES
    life,           \* none, up or gone
    asker,          \* who asked under a reference
    subject,        \* whom the reference watches
    asked,          \* references whose monitor is not in force yet
    standing,       \* references whose monitor is in force
    sure,           \* references that watch from the birth of the subject
    withdrawn,      \* references the asker wants no more
    coming,         \* DOWN on their way
    told            \* references whose DOWN has come

refs == <<asker, subject>>
vars == <<life, refs, asked, standing, sure, withdrawn, coming, told>>

Living == {p \in Pid : life[p] = "up"}

Down(q, p, r, why) ==
    [kind |-> "down", to |-> p, from |-> q, ref |-> r, reason |-> why]

Init ==
    /\ life \in [Pid -> {"none", "up"}]
    /\ asker = [r \in Ref |-> NoPid] /\ subject = asker
    /\ asked = {} /\ standing = {} /\ sure = {} /\ withdrawn = {}
    /\ coming = {} /\ told = {}

Become(q, what) == life' = [life EXCEPT ![q] = what]

Born(q) ==
    /\ life[q] = "none" /\ Become(q, "up")
    /\ UNCHANGED <<refs, asked, standing, sure, withdrawn, coming, told>>

Assign(r, p, q) ==
    /\ asker[r] = NoPid
    /\ asker' = [asker EXCEPT ![r] = p]
    /\ subject' = [subject EXCEPT ![r] = q]

Ask(r, p, q) ==
    /\ q \in Living /\ Assign(r, p, q)
    /\ asked' = asked \cup {r}
    /\ UNCHANGED <<life, standing, sure, withdrawn, coming, told>>

AskOfTheGone(r, p, q) ==
    /\ life[q] = "gone" /\ Assign(r, p, q)
    /\ coming' = coming \cup {Down(q, x, r, "noproc") : x \in Living \cap {p}}
    /\ UNCHANGED <<life, asked, standing, sure, withdrawn, told>>

AskAtBirth(r, p, q) ==
    /\ life[q] = "none" /\ Become(q, "up") /\ Assign(r, p, q)
    /\ asked' = asked \cup {r} /\ sure' = sure \cup {r}
    /\ UNCHANGED <<standing, withdrawn, coming, told>>

Stand(r) ==
    /\ r \in asked /\ subject[r] \in Living
    /\ asked' = asked \ {r} /\ standing' = standing \cup {r}
    /\ UNCHANGED <<life, refs, sure, withdrawn, coming, told>>

(* The subject died between the call and the monitor: nothing will come.   *)
Miss(r) ==
    /\ r \in asked \ sure /\ life[subject[r]] = "gone"
    /\ asked' = asked \ {r}
    /\ UNCHANGED <<life, refs, standing, sure, withdrawn, coming, told>>

Withdraw(r) ==
    /\ asker[r] # NoPid
    /\ withdrawn' = withdrawn \cup {r}
    /\ UNCHANGED <<life, refs, asked, standing, sure, coming, told>>

Drop(r) ==
    /\ r \in standing \cap withdrawn
    /\ standing' = standing \ {r}
    /\ UNCHANGED <<life, refs, asked, sure, withdrawn, coming, told>>

Die(q, why) ==
    LET watching == {r \in standing : subject[r] = q}
        due == {r \in watching : asker[r] \in Living \ {q}}
    IN  /\ q \in Living /\ Become(q, "gone")
        /\ standing' = standing \ watching
        /\ coming' = coming \cup {Down(q, asker[r], r, why) : r \in due}
        /\ UNCHANGED <<refs, asked, sure, withdrawn, told>>

Tell(d) ==
    /\ d.ref \notin told
    /\ coming' = coming \ {d} /\ told' = told \cup {d.ref}
    /\ UNCHANGED <<life, refs, asked, standing, sure, withdrawn>>

Next ==
    \/ \E q \in Pid : Born(q)
    \/ \E r \in Ref, p, q \in Pid :
            Ask(r, p, q) \/ AskOfTheGone(r, p, q) \/ AskAtBirth(r, p, q)
    \/ \E r \in Ref : Stand(r) \/ Miss(r) \/ Withdraw(r) \/ Drop(r)
    \/ \E q \in Pid, why \in Reason : Die(q, why)
    \/ \E d \in coming : Tell(d)

Spec == Init /\ [][Next]_vars
=============================================================================
