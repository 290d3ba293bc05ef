------------------------------- MODULE Shapes -------------------------------
(***************************************************************************)
(* shapeOf and diffShape (src/shape.ts): the types and fields of a JSON    *)
(* value, without its contents, and how the shape of an answer changed.    *)
(* verify judges a server by it.                                           *)
(*                                                                         *)
(* A value is a leaf with its type, an array or an object.  Messages of    *)
(* changes are left out, and so are field names that every JavaScript      *)
(* object inherits ("toString" in n is always true).                       *)
(***************************************************************************)
EXTENDS Naturals, Sequences

CONSTANT MaxDepth         \* MAX_DEPTH of shape.ts

ASSUME MaxDepthAssumption == MaxDepth \in Nat

Leaf(type)     == [k |-> "primitive", type |-> type]
Array(items)   == [k |-> "array", items |-> items]
Object(fields) == [k |-> "object", fields |-> fields]

Null  == Leaf("null")
Empty == [k |-> "none"]   \* the element of an array that was empty

\* The first element stands for all of an array; below MaxDepth all is null.
RECURSIVE ShapeOf(_, _)
ShapeOf(v, depth) ==
  IF depth >= MaxDepth THEN Null ELSE
  CASE v.k = "primitive" -> v
    [] v.k = "array"  -> [k |-> "array", elem |-> IF v.items = <<>> THEN Empty
                                                  ELSE ShapeOf(v.items[1], depth + 1)]
    [] v.k = "object" -> [k |-> "object",
                          fields |-> [f \in DOMAIN v.fields |-> ShapeOf(v.fields[f], depth + 1)]]

Change(severity, path) == [severity |-> severity, path |-> path]

Removed(o, n) == DOMAIN o.fields \ DOMAIN n.fields

\* An array that was emptied, or filled.
ElementChanges_Silent(path, o, n) ==                             \* mutant
  IF o = Empty /\ n # Empty THEN {Change("info", path)} ELSE {}
ElementChanges(path, o, n) ==
  IF o # Empty /\ n = Empty THEN {Change("warning", path)}
  ELSE IF o = Empty /\ n # Empty THEN {Change("info", path)} ELSE {}

RECURSIVE DiffShape(_, _, _, _)
DiffShape(path, o, n, depth) ==
  IF depth >= MaxDepth THEN {} ELSE
  IF o.k # n.k THEN {Change("breaking", path)} ELSE
  CASE o.k = "primitive" -> IF o # n THEN {Change("breaking", path)} ELSE {}
    [] o.k = "object" ->
         {Change("breaking", Append(path, f)) : f \in Removed(o, n)}
           \cup {Change("info", Append(path, f)) : f \in Removed(n, o)}
           \cup UNION {DiffShape(Append(path, f), o.fields[f], n.fields[f], depth + 1)
                         : f \in DOMAIN o.fields \cap DOMAIN n.fields}
    [] o.k = "array" ->
         IF Empty \in {o.elem, n.elem} THEN ElementChanges(Append(path, "[]"), o.elem, n.elem)
         ELSE DiffShape(Append(path, "[]"), o.elem, n.elem, depth + 1)

\* What verify finds between two results.
ResultChanges(recorded, live) == DiffShape(<<>>, ShapeOf(recorded, 0), ShapeOf(live, 0), 0)

-----------------------------------------------------------------------------
(* What a consumer can do with a value: go down by fields and to the first *)
(* element, and find a type there.                                         *)

RECURSIVE Reads(_, _, _)
Reads(path, v, depth) ==
  IF depth >= MaxDepth THEN {}
  ELSE {<<path, IF v.k = "primitive" THEN v.type ELSE v.k>>} \cup
       CASE v.k = "primitive" -> {}
         [] v.k = "array"  -> IF v.items = <<>> THEN {}
                              ELSE {<<Append(path, "[]"), "there">>}
                                     \cup Reads(Append(path, "[]"), v.items[1], depth + 1)
         [] v.k = "object" -> UNION {{<<Append(path, f), "there">>}
                                       \cup Reads(Append(path, f), v.fields[f], depth + 1)
                                     : f \in DOMAIN v.fields}

Severities(changes) == {c.severity : c \in changes}

\* Between a recorded result and a live one: nothing is reported exactly if
\* the same can be read from both; what a consumer loses is reported as
\* breaking, or as a warning when an array became empty; and no alarm is
\* breaking unless something is lost.
LossesAreReported(recorded, live) ==
  LET changes == ResultChanges(recorded, live)
      before  == Reads(<<>>, recorded, 0)
      after   == Reads(<<>>, live, 0)
  IN  /\ changes = {} <=> before = after
      /\ Severities(changes) \subseteq {"info"} <=> before \subseteq after
      /\ "breaking" \in Severities(changes) => ~(before \subseteq after)
      /\ \A read \in before \ after :
           \E c \in changes : /\ c.severity \in {"breaking", "warning"}
                              /\ Len(c.path) <= Len(read[1])
                              /\ SubSeq(read[1], 1, Len(c.path)) = c.path
=============================================================================
