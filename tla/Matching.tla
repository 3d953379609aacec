------------------------------- MODULE Matching -------------------------------
(***************************************************************************)
(* Pattern matching: packages/matching/src/core.js.  compile turns a       *)
(* pattern into a list of comparisons that run in order until one fails;   *)
(* Compare runs them.  A comparison may throw, so that there are three     *)
(* outcomes.  A guard is the set of values it accepts; an object is a      *)
(* function from its keys, and "spread" is a key of object patterns.       *)
(***************************************************************************)
EXTENDS Lists, FiniteSets

Atom(v) == [type |-> "atom", value |-> v]
null == [type |-> "null"]
Pid(v) == [type |-> "pid", value |-> v]     \* the same Pid or Ref, maybe a copy
tuple(items) == [type |-> "tuple", items |-> items]
array(items) == [type |-> "array", items |-> items]
object(fields) == [type |-> "object", fields |-> fields]

underscore == [type |-> "_"]
guard(values) == [type |-> "guard", values |-> values]
spread == [type |-> "spread"]

If(condition) == IF condition THEN "yes" ELSE "no"
Then(first, second) == IF first = "yes" THEN second ELSE first

(* Position of spread in an array pattern, or 0. *)
SpreadAt(items) ==
    IF \E i \in DOMAIN items : items[i] = spread
    THEN CHOOSE i \in DOMAIN items :
            items[i] = spread /\ \A j \in 1 .. i - 1 : items[j] # spread
    ELSE 0

(* compile throws invalid_match_pattern for the others. *)
Compiles(pattern) ==
    pattern.type = "array" =>
        LET at == SpreadAt(pattern.items)
        IN  at = 0 \/ at >= Len(pattern.items) - 1

(* What typeof calls an object, with the properties it has of its own;     *)
(* what is in those of a tuple, a cell or an array matches only _.         *)
HasFields(message) ==
    message.type \in {"object", "array", "tuple", "cons", "nil", "pid", "null"}

FieldsOf(message) ==
    CASE message.type = "object" -> message.fields
      [] message.type = "array" -> [k \in {"length"} |-> undefined]
      [] message.type = "tuple" -> [k \in {"size", "get", "set"} |-> undefined]
      [] message.type \in {"cons", "nil"} -> [k \in {"head", "tail"} |-> undefined]
      [] message.type = "pid" ->
            [k \in {"node", "id", "serial", "creation", "process"} |-> undefined]

RECURSIVE Compare(_, _), CompareItems(_, _), CompareCells(_, _), CompareFields(_, _, _)

(* compareTupleItems and compareArrayItems: the items one by one. *)
CompareItems(patterns, items) ==
    IF patterns = <<>> THEN "yes"
    ELSE Then(Compare(Head(patterns), Head(items)),
              CompareItems(Tail(patterns), Tail(items)))

(* listComparator: the cells of the pattern, and its tail. *)
CompareCells(pattern, node) ==
    IF ~IsCell(pattern) THEN Compare(pattern, node)
    ELSE IF ~IsCell(node) THEN "no"
    ELSE Then(Compare(pattern.head, node.head),
              CompareCells(pattern.tail, node.tail))

(* Mutant: the rest must not be empty. *)
ArrayCompareSomeRest(pattern, items) ==
    LET at == SpreadAt(pattern)
        each == IF Len(pattern) = at + 1 THEN pattern[at + 1] ELSE underscore
    IN  IF at = 0
        THEN Then(If(Len(items) = Len(pattern)), CompareItems(pattern, items))
        ELSE Then(If(Len(items) >= at),
                  CompareItems(SubSeq(pattern, 1, at - 1) \o
                                    [i \in 1 .. Len(items) - at + 1 |-> each],
                               items))

ArrayCompare(pattern, items) ==
    LET at == SpreadAt(pattern)
        each == IF Len(pattern) = at + 1 THEN pattern[at + 1] ELSE underscore
    IN  IF at = 0
        THEN Then(If(Len(items) = Len(pattern)), CompareItems(pattern, items))
        ELSE Then(If(Len(items) >= at - 1),
                  CompareItems(SubSeq(pattern, 1, at - 1) \o
                                    [i \in 1 .. Len(items) - at + 1 |-> each],
                               items))

(* compareObjectValues: the keys of the message, not those of the pattern. *)
CompareFields(fields, message, keys) ==
    IF keys = {} THEN "yes"
    ELSE LET k == CHOOSE k \in keys : TRUE
         IN  Then(IF k \in DOMAIN fields THEN Compare(fields[k], message[k])
                  ELSE IF "spread" \in DOMAIN fields
                       THEN Compare(fields["spread"], message[k])
                       ELSE "no",
                  CompareFields(fields, message, keys \ {k}))

(* null is an object to typeof, and has no properties to ask for. *)
ObjectCompare(fields, message) ==
    IF ~HasFields(message) THEN "no"
    ELSE IF message = null THEN "throws"
    ELSE Then(If(\/ "spread" \in DOMAIN fields
                 \/ Cardinality(DOMAIN FieldsOf(message))
                        = Cardinality(DOMAIN fields)),
              CompareFields(fields, FieldsOf(message),
                            DOMAIN FieldsOf(message)))

Compare(pattern, message) ==
    CASE pattern.type = "tuple" ->
            Then(If(message.type = "tuple"),
                 Then(If(Len(message.items) = Len(pattern.items)),
                      CompareItems(pattern.items, message.items)))
      [] pattern.type \in {"cons", "nil"} ->
            Then(If(isList(message)),
                 IF pattern = nil THEN If(message = nil)
                                  ELSE CompareCells(pattern, message))
      [] pattern.type = "array" ->
            Then(If(message.type = "array"),
                 ArrayCompare(pattern.items, message.items))
      [] pattern.type = "object" -> ObjectCompare(pattern.fields, message)
      [] pattern.type = "guard" -> If(message \in pattern.values)
      [] pattern.type = "_" -> "yes"
      [] OTHER -> If(message = pattern)     \* null, pids and simple values
=============================================================================
