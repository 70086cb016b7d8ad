---------------------------- MODULE JsonValues ----------------------------
(***************************************************************************)
(* The JSON values that answers, branching rules and targeting rules of    *)
(* @sankofa/pulse compare. A value is a record whose one field names its   *)
(* type, so that values of different types are never equal:                *)
(* [text |-> "a"], [num |-> 3], [bool |-> TRUE], [list |-> <<"a", "b">>],  *)
(* [map |-> f], and Undefined. Of a text only three things matter: whether *)
(* it is blank, what number it reads as, and which texts it contains.      *)
(***************************************************************************)
EXTENDS Integers, SequencesExt, FiniteSetsExt

CONSTANTS NumberIn,     \* the texts Number() accepts, each with its number
          Contained     \* pairs <<t, s>>: the text s occurs in the text t

Undefined == [none |-> 0]
Text(s) == [text |-> s]
Num(n) == [num |-> n]
Bool(b) == [bool |-> b]
List(s) == [list |-> s]
Map(f) == [map |-> f]

(* The object f with its property k set to v. *)
Put(f, k, v) == [x \in DOMAIN f \cup {k} |-> IF x = k THEN v ELSE f[x]]

IsText(v) == "text" \in DOMAIN v
IsNum(v) == "num" \in DOMAIN v
IsBool(v) == "bool" \in DOMAIN v
IsList(v) == "list" \in DOMAIN v
IsMap(v) == "map" \in DOMAIN v

(* jsonEqual is = on these values; the arrays of a rule hold texts.        *)
JsonInArray(v, w) == IsList(w) /\ IsText(v) /\ Contains(w.list, v.text)

NoNumber == -99              \* stands for null: no number here is negative

Compared(a, b, op) ==
  /\ a # NoNumber /\ b # NoNumber
  /\ CASE op = "gt" -> a > b
       [] op = "lt" -> a < b
       [] op = "gte" -> a >= b
       [] op = "lte" -> a <= b
=============================================================================
