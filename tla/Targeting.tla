------------------------------ MODULE Targeting ------------------------------
(***************************************************************************)
(* The targeting evaluator of @sankofa/pulse (targeting.ts): may a survey  *)
(* be shown to this respondent, on this page, now? Every rule must pass;   *)
(* a kind or an operator it does not know fails.                           *)
(*                                                                         *)
(* ctx: [survey, respondent, url, screen, events, props, cohorts, flags,   *)
(* prior]; events, props, flags and prior are functions, an absent entry   *)
(* is not in their domain. Rates and scores are percentages.               *)
(***************************************************************************)
EXTENDS JsonValues

CONSTANTS Matches,      \* triples <<op, subject, pattern>>: contains, prefix, regex
          Score         \* Score[<<survey, respondent>>]: the hash, 0..99

Matched(op, subject, pattern) ==
  \/ op = "equals" /\ subject = pattern
  \/ op \in {"contains", "prefix", "regex"} /\ <<op, subject, pattern>> \in Matches

EvalUrl(rule, ctx) == Matched(rule.op, ctx.url, rule.value)

(* An unknown screen never matches, nor does an empty target.              *)
EvalScreen(rule, ctx) ==
  /\ ctx.screen # ""
  /\ \E target \in rule.screens \ {""} : Matched(rule.op, ctx.screen, target)

Entry(f, key, default) == IF key \in DOMAIN f THEN f[key] ELSE default

EvalEvent(rule, ctx) == Entry(ctx.events, rule.event, 0) >= Max({1, rule.count})

NumericProperty(v) ==
  CASE IsNum(v) -> v.num
    [] IsText(v) /\ v.text \in DOMAIN NumberIn -> NumberIn[v.text]
    [] OTHER -> NoNumber

(* strContains serialises what is no text; a text property is what matters *)
(* here, so only texts are compared.                                       *)
StrContains(v, w) == IsText(v) /\ IsText(w) /\ <<v.text, w.text>> \in Contained

(* On an absent property only not_exists passes, unlike in branching.      *)
EvalUserProperty(rule, ctx) ==
  LET present == rule.key \in DOMAIN ctx.props
      v == ctx.props[rule.key]
  IN  CASE rule.op = "exists" -> present
        [] rule.op = "not_exists" -> ~present
        [] OTHER ->
             present /\ CASE rule.op = "equals" -> v = rule.value
                          [] rule.op = "not_equals" -> v # rule.value
                          [] rule.op = "contains" -> StrContains(v, rule.value)
                          [] rule.op = "not_contains" -> ~StrContains(v, rule.value)
                          [] rule.op = "in" -> JsonInArray(v, rule.value)
                          [] rule.op = "not_in" -> ~JsonInArray(v, rule.value)
                          [] rule.op \in {"gt", "lt", "gte", "lte"} ->
                               Compared(NumericProperty(v), NumericProperty(rule.value), rule.op)
                          [] OTHER -> FALSE

EvalCohort(rule, ctx) == rule.cohort \in ctx.cohorts

StableHash(survey, respondent) == Score[<<survey, respondent>>]
EvalSampling(rule, ctx) ==
  /\ rule.rate > 0
  /\ \/ rule.rate >= 100
     \/ ctx.respondent # "" /\ StableHash(ctx.survey, ctx.respondent) < rule.rate

EvalFrequencyCap(rule, ctx) == Entry(ctx.prior, ctx.survey, 0) < Max({1, rule.max})

EvalFeatureFlag(rule, ctx) == rule.flag \in DOMAIN ctx.flags /\ ctx.flags[rule.flag] = rule.value

EvaluateOne(rule, ctx) ==
  CASE rule.kind = "url" -> EvalUrl(rule, ctx)
    [] rule.kind = "screen" -> EvalScreen(rule, ctx)
    [] rule.kind = "event" -> EvalEvent(rule, ctx)
    [] rule.kind = "user_property" -> EvalUserProperty(rule, ctx)
    [] rule.kind = "cohort" -> EvalCohort(rule, ctx)
    [] rule.kind = "sampling" -> EvalSampling(rule, ctx)
    [] rule.kind = "frequency_cap" -> EvalFrequencyCap(rule, ctx)
    [] rule.kind = "feature_flag" -> EvalFeatureFlag(rule, ctx)
    [] OTHER -> FALSE

Eligible(rules, ctx) == \A rule \in rules : EvaluateOne(rule, ctx)
=============================================================================
