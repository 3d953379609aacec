------------------------------- MODULE MCTerms -------------------------------
(* Lists of up to three of two values; up to two patterns of all kinds      *)
(* against terms of all kinds.                                              *)
EXTENDS Terms

a == Atom("a")
b == Atom("b")
MCValue == {a, b}

Tuples(S, n) == UNION {[1 .. k -> S] : k \in 0 .. n}

P == {underscore, a, guard({b})}

MCPattern ==
    P \cup {null, Pid("1")}
    \cup {tuple(s) : s \in Tuples(P, 2)}
    \cup {from(s) : s \in Tuples(P, 2)}
    \cup {cons(p, q) : p \in P, q \in P}
    \cup {array(s) : s \in Tuples(P, 2)}
    \cup {array(s \o <<spread>> \o q) : s \in Tuples(P, 1), q \in Tuples(P, 1)}
    \cup {array(<<spread, a, a>>)}
    \cup {object(f) : f \in UNION {[S -> P] : S \in SUBSET {"k", "spread"}}}
    \cup {object(f) : f \in [{"k", "l"} -> P]}

T == {a, b}

MCTerm ==
    T \cup {null, Pid("1"), Pid("2")}
    \cup {tuple(s) : s \in Tuples(T, 2)}
    \cup {from(s) : s \in Tuples(T, 2)} \cup {cons(a, b), cons(b, cons(b, a))}
    \cup {array(s) : s \in Tuples(T, 2)}
    \cup {object(f) : f \in UNION {[S -> T] : S \in SUBSET {"k", "l"}}}
=============================================================================
