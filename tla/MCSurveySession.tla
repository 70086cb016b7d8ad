--------------------------- MODULE MCSurveySession ---------------------------
(* Small bundles that between them have every kind of question, every      *)
(* branching operator and rules that match, miss and name no question.     *)
EXTENDS SurveySession

TypedTexts == {"", "2", "12"}
Numbers == ("2" :> 2) @@ ("12" :> 12)
TextContained == {<<"2", "2">>, <<"12", "12">>, <<"12", "2">>}

Q(id, order, kind, required) ==
  [id |-> id, order |-> order, kind |-> kind, required |-> required,
   options |-> <<"x", "y">>, rows |-> {"r"}, min |-> 1, max |-> 3]
Cond(q, op, v) == [question |-> q, op |-> op, value |-> v]
SkipTo(from, when, to) == [from |-> from, when |-> when, action |-> "skip_to", to |-> to]
End(from, when) == [from |-> from, when |-> when, action |-> "end_survey", to |-> FallThrough]
Bundle(qs, rs) == [questions |-> qs, rules |-> rs]

Upload == Bundle(<<Q("b", 2, "single", FALSE), Q("a", 1, "file", TRUE), Q("c", 3, "statement", FALSE)>>,
  <<End("b", Cond("b", "in", List(<<"y">>))), SkipTo("a", Cond("a", "not_answered", Undefined), "c")>>)
Checkout == Bundle(<<Q("a", 1, "payment", TRUE), Q("b", 2, "consent", TRUE)>>, <<>>)
Ranked == Bundle(<<Q("a", 1, "ranking", TRUE), Q("b", 2, "maxdiff", FALSE)>>,
  <<SkipTo("a", Cond("a", "not_contains", Text("x")), "gone"),
    SkipTo("a", Cond("a", "contains", Text("y")), FallThrough)>>)
Grid == Bundle(<<Q("a", 1, "matrix", TRUE), Q("b", 2, "multi", TRUE)>>,
  <<End("a", Cond("a", "not_answered", Undefined)), End("b", Cond("b", "not_contains", Text("x")))>>)
Typed == Bundle(<<Q("a", 1, "short_text", TRUE), Q("b", 2, "number", FALSE), Q("c", 3, "long_text", FALSE)>>,
  <<SkipTo("a", Cond("a", "gt", Num(2)), "c"), SkipTo("a", Cond("a", "contains", Text("12")), "b"),
    End("b", Cond("b", "lte", Text("2")))>>)
Scales == Bundle(<<Q("a", 1, "slider", FALSE), Q("b", 2, "rating", FALSE), Q("c", 3, "nps", TRUE)>>,
  <<SkipTo("a", Cond("a", "gte", Num(3)), "c"), End("b", Cond("a", "lt", Num(2)))>>)
Picks == Bundle(<<Q("a", 1, "boolean", TRUE), Q("b", 2, "image_choice", FALSE), Q("c", 3, "signature", TRUE)>>,
  <<SkipTo("a", Cond("a", "equals", Bool(TRUE)), "nowhere"), End("b", Cond("b", "not_in", List(<<"x">>))),
    SkipTo("b", Cond("b", "answered", Undefined), "c")>>)
Looping == Bundle(<<Q("a", 1, "date", FALSE), Q("b", 2, "voice", FALSE)>>,
  <<SkipTo("b", Cond("a", "not_equals", Text("2")), "a")>>)

AllBundles == {Upload, Checkout, Ranked, Grid, Typed, Scales, Picks, Looping}
=============================================================================
