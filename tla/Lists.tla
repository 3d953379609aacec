-------------------------------- MODULE Lists --------------------------------
(***************************************************************************)
(* The lists of packages/types/src/list.js: cells with a head and a tail,  *)
(* and nil.  The tail of an improper list is something else.  Every        *)
(* operation copies the cells before the place it changes to a stack, in   *)
(* reverse, and puts them back onto what follows.  A predicate is the set  *)
(* of values it accepts.                                                   *)
(***************************************************************************)
EXTENDS Integers, Sequences

nil == [type |-> "nil"]
undefined == [type |-> "undefined"]

cons(head, tail) == [type |-> "cons", head |-> head, tail |-> tail]
IsCell(node) == node.type = "cons"
isList(node) == node.type \in {"cons", "nil"}

(* The loop that empties a stack onto a node. *)
RECURSIVE Onto(_, _)
Onto(stack, node) ==
    IF IsCell(stack) THEN Onto(stack.tail, cons(stack.head, node)) ELSE node

(* The loop that walks to the first value of a set. *)
RECURSIVE Walk(_, _, _)
Walk(node, stack, values) ==
    IF IsCell(node) /\ node.head \notin values
    THEN Walk(node.tail, cons(node.head, stack), values)
    ELSE [stack |-> stack, node |-> node]

(* ... and the one that walks to an index. *)
RECURSIVE WalkTo(_, _, _)
WalkTo(node, stack, index) ==
    IF IsCell(node) /\ index # 0
    THEN WalkTo(node.tail, cons(node.head, stack), index - 1)
    ELSE [stack |-> stack, node |-> node]

RECURSIVE length(_)
length(node) == IF IsCell(node) THEN 1 + length(node.tail) ELSE 0

reverse(node) == Onto(node, nil)
append(node, tail) == Onto(reverse(node), tail)

Improper(node) == ~isList(Walk(node, nil, {}).node)

(* push throws on an improper list. *)
push(node, value) == reverse(cons(value, reverse(node)))

(* Mutant: the end of the list is taken for nil. *)
WithoutRest(walk) == Onto(walk.stack, nil)

Without(walk) ==
    Onto(walk.stack, IF IsCell(walk.node) THEN walk.node.tail ELSE walk.node)

deleteWhere(node, values) == Without(Walk(node, nil, values))
delete(node, value) == deleteWhere(node, {value})
deleteIndex(node, index) == Without(WalkTo(node, nil, index))

replaceWhere(node, values, next, insert) ==
    LET walk == Walk(node, nil, values)
    IN  IF IsCell(walk.node)
        THEN Onto(cons(next, walk.stack), walk.node.tail)
        ELSE Onto(IF insert THEN cons(next, walk.stack) ELSE walk.stack,
                  walk.node)

(* map and filter copy the cells only, so that an improper tail is lost. *)
RECURSIVE Copy(_, _, _, _)
Copy(node, stack, values, f) ==
    CASE ~IsCell(node) -> stack
      [] IsCell(node) /\ node.head \in values ->
            Copy(node.tail, cons(f[node.head], stack), values, f)
      [] OTHER -> Copy(node.tail, stack, values, f)

map(node, f) == reverse(Copy(node, nil, DOMAIN f, f))
filter(node, values) == reverse(Copy(node, nil, values, [v \in values |-> v]))

split(node, values) ==
    LET walk == Walk(node, nil, values)
    IN  <<reverse(walk.stack), walk.node>>

find(node, values) ==
    LET walk == Walk(node, nil, values)
    IN  IF IsCell(walk.node) THEN walk.node.head ELSE undefined

includes(node, value) == IsCell(Walk(node, nil, {value}).node)

nth(node, index) ==
    LET walk == WalkTo(node, nil, index)
    IN  IF IsCell(walk.node) THEN walk.node.head ELSE undefined

(* An end below zero counts from the end. *)
slice(node, start, end) ==
    LET last == IF end < 0 THEN length(node) + end ELSE end
        upTo == WalkTo(node, nil, IF last < 0 THEN 0 ELSE last).stack
    IN  WalkTo(reverse(upTo), nil, start).node

(* The iterator, and what the cells end in. *)
RECURSIVE Items(_)
Items(node) == IF IsCell(node) THEN <<node.head>> \o Items(node.tail) ELSE <<>>

Rest(node) == Walk(node, nil, {}).node

RECURSIVE from(_)
from(items) == IF items = <<>> THEN nil ELSE cons(Head(items), from(Tail(items)))
=============================================================================
