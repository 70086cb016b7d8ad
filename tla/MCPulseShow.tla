---------------------------- MODULE MCPulseShow ----------------------------
(* Two surveys, three states of the dashboard, rules of every kind.        *)
EXTENDS PulseShow

Numbers == ("7" :> 7)
TextContained == {<<"pro plan", "pro">>}
UrlMatches == {<<"prefix", "/checkout", "/ch">>, <<"contains", "/home", "ome">>,
               <<"regex", "/checkout", "^/c">>}
Hash == <<"nps", "anon_1">> :> 20 @@ <<"nps", "anon_2">> :> 70
        @@ <<"csat", "anon_1">> :> 60 @@ <<"csat", "anon_2">> :> 10
Anonymous == <<"anon_1", "anon_2">>
Visitor == [events |-> "purchase" :> 2, props |-> "plan" :> Text("pro plan") @@ "age" :> Text("7"),
            cohorts |-> {"beta"}, flags |-> "new_ui" :> Bool(TRUE)]

Prop(key, op, value) == [kind |-> "user_property", key |-> key, op |-> op, value |-> value]
OnCheckout == [kind |-> "url", op |-> "prefix", value |-> "/ch"]
OnScreen == [kind |-> "screen", op |-> "regex", screens |-> {"", "^/c", "/pricing"}]
Half == [kind |-> "sampling", rate |-> 50]
Everyone == [kind |-> "sampling", rate |-> 100]
Buyers == {[kind |-> "event", event |-> "purchase", count |-> 2],
           [kind |-> "cohort", cohort |-> "beta"],
           [kind |-> "frequency_cap", max |-> 0],
           [kind |-> "feature_flag", flag |-> "new_ui", value |-> Bool(TRUE)],
           Prop("plan", "contains", Text("pro")), Prop("age", "gte", Num(7)),
           Prop("seats", "not_exists", Undefined), Prop("plan", "not_in", List(<<"free">>)), Everyone}
Nobody == {[kind |-> "telepathy"]}

Survey(id, rules, auto, delay, cooldown) ==
  [id |-> id, rules |-> rules, auto |-> auto, delay |-> delay, cooldown |-> cooldown]
Dashboard ==
  <<<<Survey("nps", {OnCheckout, OnScreen}, TRUE, TRUE, TRUE),
      Survey("csat", Buyers, TRUE, FALSE, TRUE)>>,
    <<Survey("csat", Buyers \cup {Half}, TRUE, FALSE, TRUE), Survey("nps", Nobody, FALSE, FALSE, TRUE)>>>>
=============================================================================
