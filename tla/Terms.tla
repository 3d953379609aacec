-------------------------------- MODULE Terms --------------------------------
(***************************************************************************)
(* Lists and patterns at work.  A list is changed by one operation after   *)
(* another, beside the sequence it stands for; and the patterns of a       *)
(* buildCase or a clauses builder (packages/matching/src/advanced.js), or  *)
(* of gen_server.callbacks, are collected in a list and asked for the      *)
(* first that matches.                                                     *)
(***************************************************************************)
EXTENDS Matching, SequencesExt

CONSTANTS
    Value,      \* values in lists
    Pattern,    \* patterns of handlers
    Term,       \* messages
    MaxLength,  \* bound: of the list
    MaxClauses  \* bound: of the handlers

ASSUME TermsAssumption ==
    /\ MaxLength \in Nat /\ MaxClauses \in Nat

VARIABLES
    list,       \* a list, as cells
    items,      \* reference: the values in it, in order
    rest,       \* reference: nil, or the tail of an improper list
    handlers,   \* the list a builder collects, the last pattern first
    clauses,    \* reference: the patterns, in the order they were given
    built       \* whether the builder returned and handlers is reversed

lists == <<list, items, rest>>
cases == <<handlers, clauses, built>>
vars == <<lists, cases>>

Init ==
    /\ list = nil /\ items = <<>> /\ rest = nil
    /\ handlers = nil /\ clauses = <<>> /\ built = FALSE

-----------------------------------------------------------------------------
(* Operations on a list, each with what it does to the sequence.           *)
Becomes(new, sequence, end) ==
    /\ isList(list) /\ clauses = <<>>
    /\ Len(sequence) <= MaxLength
    /\ list' = new /\ items' = sequence /\ rest' = end
    /\ UNCHANGED cases

(* The least index of an item in values, or 0. *)
First(values) ==
    LET found == {i \in DOMAIN items : items[i] \in values}
    IN  IF found = {} THEN 0 ELSE Min(found)

Removed(i) == IF i \in DOMAIN items THEN RemoveAt(items, i) ELSE items

Prepend(v) == Becomes(cons(v, list), <<v>> \o items, rest)

ImproperList(v) ==
    items = <<>> /\ Becomes(cons(v, Atom("end")), <<v>>, Atom("end"))

Push(v) == ~Improper(list) /\ Becomes(push(list, v), Append(items, v), nil)

DeleteWhere(values) ==
    Becomes(deleteWhere(list, values), Removed(First(values)), rest)

Delete(v) == Becomes(delete(list, v), Removed(First({v})), rest)

DeleteIndex(i) == Becomes(deleteIndex(list, i), Removed(i + 1), rest)

ReplaceWhere(values, v, insert) ==
    LET i == First(values)
    IN  Becomes(replaceWhere(list, values, v, insert),
                IF i # 0 THEN [items EXCEPT ![i] = v]
                ELSE IF insert THEN Append(items, v) ELSE items, rest)

Reversed == Becomes(reverse(list), Reverse(items), nil)

AppendTo(v) ==
    Becomes(append(list, from(<<v>>)), Append(items, v), nil)

Map(f) == Becomes(map(list, f), [i \in DOMAIN items |-> f[items[i]]], nil)

Filter(values) ==
    Becomes(filter(list, values),
            SelectSeq(items, LAMBDA v : v \in values), nil)

ListStep ==
    \/ Reversed
    \/ \E v \in Value :
        \/ Prepend(v) \/ ImproperList(v) \/ Push(v) \/ Delete(v) \/ AppendTo(v)
        \/ \E values \in SUBSET Value, insert \in BOOLEAN :
                ReplaceWhere(values, v, insert)
    \/ \E values \in SUBSET Value : DeleteWhere(values) \/ Filter(values)
    \/ \E i \in 0 .. MaxLength : DeleteIndex(i)
    \/ \E f \in [Value -> Value] : Map(f)

-----------------------------------------------------------------------------
(* Clauses.                                                                *)
(* compile throws for a pattern that is none, and nothing is added. *)
AddClause(pattern) ==
    /\ list = nil /\ ~built /\ Len(clauses) < MaxClauses
    /\ Compiles(pattern)
    /\ handlers' = cons([test |-> pattern, to |-> Len(clauses) + 1], handlers)
    /\ clauses' = Append(clauses, pattern)
    /\ UNCHANGED <<lists, built>>

(* Mutant: the clauses stay in the order of the list. *)
BuildUnreversed ==
    /\ clauses # <<>> /\ ~built
    /\ handlers' = handlers
    /\ built' = TRUE
    /\ UNCHANGED <<lists, clauses>>

Build ==
    /\ clauses # <<>> /\ ~built
    /\ handlers' = reverse(handlers)
    /\ built' = TRUE
    /\ UNCHANGED <<lists, clauses>>

Next ==
    \/ ListStep \/ Build
    \/ \E pattern \in Pattern : AddClause(pattern)

Spec == Init /\ [][Next]_vars

(* for and with of buildCase, and the function that clauses returns: the   *)
(* handler, or case_clause or route_clause, or what a comparison throws.   *)
RECURSIVE Choice(_, _)
Choice(node, value) ==
    IF ~IsCell(node) THEN "no clause"
    ELSE LET outcome == Compare(node.head.test, value)
         IN  CASE outcome = "yes" -> <<node.head.to>>
               [] outcome = "throws" -> "throws"
               [] outcome = "no" -> Choice(node.tail, value)

(* The handlers of gen_server.callbacks: find. *)
Handler(node, message) ==
    LET tests == {h \in ToSet(Items(node)) : Compare(h.test, message) = "yes"}
        found == find(node, tests)
    IN  IF found = undefined THEN "no clause" ELSE <<found.to>>

(* match and oneOf: any of the patterns. *)
RECURSIVE Matches(_, _)
Matches(patterns, value) ==
    IF patterns = <<>> THEN "no"
    ELSE LET outcome == Compare(Head(patterns), value)
         IN  IF outcome = "no" THEN Matches(Tail(patterns), value) ELSE outcome

-----------------------------------------------------------------------------
(* What a pattern means, said of whole terms.  A pattern of an object      *)
(* asks only of the keys that are there: with a spread it matches an       *)
(* object that lacks the others.                                           *)
RECURSIVE Means(_, _)
Means(pattern, term) ==
    CASE pattern.type = "tuple" ->
            /\ term.type = "tuple"
            /\ DOMAIN term.items = DOMAIN pattern.items
            /\ \A i \in DOMAIN term.items : Means(pattern.items[i], term.items[i])
      [] pattern.type \in {"cons", "nil"} ->
            LET heads == Items(pattern)
                n == Len(heads)
                cells == Items(term)
            IN  /\ isList(term)
                /\ Len(cells) >= n
                /\ \A i \in 1 .. n : Means(heads[i], cells[i])
                /\ \/ Rest(pattern) = nil /\ Len(cells) = n /\ Rest(term) = nil
                   \/ Rest(pattern) # nil /\ Len(cells) = n
                        /\ Means(Rest(pattern), Rest(term))
                   \/ Rest(pattern) = underscore
      [] pattern.type = "array" ->
            /\ term.type = "array"
            /\ IF spread \in ToSet(pattern.items)
               THEN LET n == SpreadAt(pattern.items) - 1
                    IN  /\ Len(term.items) >= n
                        /\ \A i \in DOMAIN term.items :
                              IF i <= n THEN Means(pattern.items[i], term.items[i])
                              ELSE Len(pattern.items) = n + 2
                                    => Means(pattern.items[n + 2], term.items[i])
               ELSE /\ DOMAIN term.items = DOMAIN pattern.items
                    /\ \A i \in DOMAIN term.items :
                            Means(pattern.items[i], term.items[i])
      [] pattern.type = "object" ->
            /\ HasFields(term)
            /\ LET asked == DOMAIN pattern.fields
                   given == FieldsOf(term)
               IN  /\ "spread" \in asked \/ asked = DOMAIN given
                   /\ \A k \in DOMAIN given :
                        Means(pattern.fields[IF k \in asked THEN k ELSE "spread"],
                              given[k])
      [] pattern.type = "guard" -> term \in pattern.values
      [] pattern.type = "_" -> TRUE
      [] OTHER -> term = pattern

Throws(pattern, term) == pattern.type = "object" /\ term = null

(* Every operation of a list, and every question to one, improper lists    *)
(* included, agrees with the sequence of its items, after any operations   *)
(* before: an off-by-one in a copy, or a tail lost where it is kept, would *)
(* show.                                                                   *)
ListsAgree ==
    isList(list) =>
        /\ Items(list) = items /\ Rest(list) = rest
        /\ length(list) = Len(items)
        /\ \A values \in SUBSET Value :
            LET i == First(values)
            IN  /\ find(list, values) = IF i = 0 THEN undefined ELSE items[i]
                /\ LET parts == split(list, values)
                       n == IF i = 0 THEN Len(items) ELSE i - 1
                   IN  /\ Items(parts[1]) = SubSeq(items, 1, n)
                       /\ Items(parts[2]) = SubSeq(items, n + 1, Len(items))
        /\ \A v \in Value : includes(list, v) <=> v \in ToSet(items)
        /\ \A i \in 0 .. MaxLength :
            /\ nth(list, i) = IF i < Len(items) THEN items[i + 1] ELSE undefined
            /\ \A j \in -MaxLength .. MaxLength :
                Items(slice(list, i, j)) =
                    SubSeq(items, i + 1, IF j < 0 THEN Len(items) + j
                                         ELSE Min({j, Len(items)}))

(* A compiled pattern matches what the pattern means, with spreads,        *)
(* improper tails and missing keys; only null makes one throw.             *)
MatchingAgrees ==
    \A i \in DOMAIN clauses, term \in Term :
        Compare(clauses[i], term) =
            IF Throws(clauses[i], term) THEN "throws"
                                        ELSE If(Means(clauses[i], term))

(* The handler chosen is that of the first pattern that matches, in the    *)
(* order of the calls to the builder, though they are collected in reverse;*)
(* match and oneOf agree, and so do the handlers of a gen_server.          *)
FirstMatchWins ==
    built => \A term \in Term :
        LET hits == {i \in DOMAIN clauses : Compare(clauses[i], term) # "no"}
            expected ==
                IF hits = {} THEN "no clause"
                ELSE IF Throws(clauses[Min(hits)], term) THEN "throws"
                ELSE <<Min(hits)>>
        IN  /\ Choice(handlers, term) = expected
            /\ Matches(clauses, term) = CASE expected = "no clause" -> "no"
                                      [] expected = "throws" -> "throws"
                                      [] OTHER -> "yes"
            /\ expected # "throws" => Handler(handlers, term) = expected
=============================================================================
