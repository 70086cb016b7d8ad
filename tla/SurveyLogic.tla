----------------------------- MODULE SurveyLogic -----------------------------
(***************************************************************************)
(* What @sankofa/pulse computes without state: the branching evaluator     *)
(* (branching.ts) and, for every kind of question, what its renderer puts  *)
(* in the field it draws and what the next input of the respondent can     *)
(* make of it (the kind renderers of renderer.ts).                         *)
(***************************************************************************)
EXTENDS JsonValues

CONSTANTS Texts         \* what the respondent may type; "" is the blank text

(* isEmpty of the renderer and isEmptyAnswer of the evaluator agree: an     *)
(* object is never empty, not even one with no entry.                       *)
IsEmpty(v) == v \in {Undefined, Text(""), List(<<>>)}

-----------------------------------------------------------------------------
(* Branching.                                                              *)

NumericValue(v) ==
  CASE IsNum(v) -> v.num
    [] IsBool(v) -> IF v.bool THEN 1 ELSE 0
    [] IsText(v) /\ v.text \in DOMAIN NumberIn -> NumberIn[v.text]
    [] OTHER -> NoNumber

JsonContains(v, w) ==
  \/ IsList(v) /\ IsText(w) /\ Contains(v.list, w.text)
  \/ IsText(v) /\ IsText(w) /\ <<v.text, w.text>> \in Contained

Answer(ans, q) == IF q \in DOMAIN ans THEN ans[q] ELSE Undefined

(* evalAnswerCondition: on an absent or empty answer only not_answered can  *)
(* hold, the negated operators included.                                    *)
EvaluateCondition(c, ans) ==
  LET v == Answer(ans, c.question)
  IN  IF IsEmpty(v)
      THEN c.op = "not_answered"
      ELSE CASE c.op = "answered" -> TRUE
             [] c.op = "not_answered" -> FALSE
             [] c.op = "equals" -> v = c.value
             [] c.op = "not_equals" -> v # c.value
             [] c.op = "contains" -> JsonContains(v, c.value)
             [] c.op = "not_contains" -> ~JsonContains(v, c.value)
             [] c.op = "in" -> JsonInArray(v, c.value)
             [] c.op = "not_in" -> ~JsonInArray(v, c.value)
             [] c.op \in {"gt", "lt", "gte", "lte"} -> Compared(NumericValue(v), NumericValue(c.value), c.op)
             [] OTHER -> FALSE

EndOfSurvey == "__end__"
FallThrough == ""

(* The first rule of the question whose condition holds decides.            *)
ResolveNext(rules, q, ans) ==
  LET matching == {i \in DOMAIN rules : rules[i].from = q
                                        /\ rules[i].action \in {"skip_to", "end_survey"}
                                        /\ EvaluateCondition(rules[i].when, ans)}
  IN  IF matching = {} THEN FallThrough
      ELSE LET r == rules[Min(matching)]
           IN  IF r.action = "skip_to" THEN r.to ELSE EndOfSurvey

(* The constructor's sort: by order_index, equal ones as they were listed.  *)
Place(qs, j) ==
  Cardinality({i \in DOMAIN qs : qs[i].order < qs[j].order
                                 \/ (qs[i].order = qs[j].order /\ i <= j)})
Sorted(qs) == [n \in DOMAIN qs |-> qs[CHOOSE j \in DOMAIN qs : Place(qs, j) = n]]

-----------------------------------------------------------------------------
(* Kinds. Seeded: the value the field holds as soon as it is drawn over the *)
(* recorded answer v. Inputs: what one input event can turn the value into. *)

Keys(q) == ToSet(q.options)

(* filter(): the elements of a sequence that are in a set, in their order. *)
Among(s, A) ==
  LET kept[n \in 0 .. Len(s)] ==
        IF n = 0 THEN <<>>
        ELSE IF s[n] \in A THEN Append(kept[n - 1], s[n]) ELSE kept[n - 1]
  IN  kept[Len(s)]

SliderSeed(q, v) == IF IsNum(v) THEN v ELSE Num((q.min + q.max) \div 2)
RankingSeed(q, v) ==
  IF q.options = <<>> THEN v
  ELSE LET initial == IF IsList(v) THEN v.list ELSE <<>>
       IN  List(Among(initial, Keys(q)) \o Among(q.options, Keys(q) \ ToSet(initial)))
MultiSeed(q, v) == IF IsList(v) THEN v ELSE List(<<>>)
MatrixSeed(q, v) == IF q.rows = {} \/ q.options = <<>> \/ IsMap(v) THEN v ELSE Map(<<>>)
MaxDiffSeed(q, v) == IF Len(q.options) < 2 \/ IsMap(v) THEN v ELSE Map(<<>>)

Seeded(q, v) ==
  CASE q.kind = "multi" -> MultiSeed(q, v)
    [] q.kind = "slider" -> SliderSeed(q, v)
    [] q.kind = "ranking" -> RankingSeed(q, v)
    [] q.kind = "matrix" -> MatrixSeed(q, v)
    [] q.kind = "maxdiff" -> MaxDiffSeed(q, v)
    [] q.kind = "statement" -> Undefined
    [] OTHER -> v

TextInputs == {Text(s) : s \in Texts}
NumberInputs(q) == {Undefined} \cup {Num(n) : n \in q.min .. q.max}
RatingInputs(q) == {Num(n) : n \in q.min .. q.max}
NpsInputs == {Num(n) : n \in 0 .. 10}
SingleInputs(q) == {Text(k) : k \in Keys(q)}
MultiInputs(q, v) ==
  {List(IF Contains(v.list, k) THEN Remove(v.list, k) ELSE Append(v.list, k)) : k \in Keys(q)}
BooleanInputs == {Bool(TRUE), Bool(FALSE)}
SliderInputs(q) == {Num(n) : n \in q.min .. q.max}
DateInputs == {Undefined} \cup (TextInputs \ {Text("")})
RankingInputs(q, v) ==
  IF q.options = <<>> THEN {}
  ELSE {List([v.list EXCEPT ![i] = v.list[i + 1], ![i + 1] = v.list[i]])
          : i \in 1 .. Len(v.list) - 1}
MatrixInputs(q, v) ==
  IF q.rows = {} THEN {}
  ELSE {Map(Put(v.map, r, c)) : r \in q.rows, c \in Keys(q)}
ConsentInputs(v) == {IF v = Bool(TRUE) THEN Undefined ELSE Bool(TRUE)}
ImageInputs(q) == {Text(k) : k \in Keys(q)}
SignatureInputs == {Undefined, Text("signature")}

(* The pick of a row in one column clears it in the other; the radio of a  *)
(* row picked in the other column is disabled.                             *)
Without(f, k, column) ==
  [c \in {d \in DOMAIN f : ~(d = column /\ f[d] = k)} |-> f[c]]
MaxDiffInputs(q, v) ==
  IF Len(q.options) < 2 THEN {}
  ELSE LET Other(c) == IF c = "best" THEN "worst" ELSE "best"
           Free(c, k) == ~(Other(c) \in DOMAIN v.map /\ v.map[Other(c)] = k)
           Picked(c, k) == Map(Put(Without(v.map, k, Other(c)), c, k))
       IN  {Picked(p[1], p[2])
              : p \in {r \in {"best", "worst"} \X Keys(q) : Free(r[1], r[2])}}

Inputs(q, v) ==
  CASE q.kind \in {"short_text", "long_text"} -> TextInputs
    [] q.kind = "number" -> NumberInputs(q)
    [] q.kind = "rating" -> RatingInputs(q)
    [] q.kind = "nps" -> NpsInputs
    [] q.kind = "single" -> SingleInputs(q)
    [] q.kind = "multi" -> MultiInputs(q, v)
    [] q.kind = "boolean" -> BooleanInputs
    [] q.kind = "slider" -> SliderInputs(q)
    [] q.kind = "date" -> DateInputs
    [] q.kind = "ranking" -> RankingInputs(q, v)
    [] q.kind = "matrix" -> MatrixInputs(q, v)
    [] q.kind = "consent" -> ConsentInputs(v)
    [] q.kind = "image_choice" -> ImageInputs(q)
    [] q.kind = "maxdiff" -> MaxDiffInputs(q, v)
    [] q.kind = "signature" -> SignatureInputs
    [] OTHER -> {}            \* statement, file and payment, unknown kinds
=============================================================================
