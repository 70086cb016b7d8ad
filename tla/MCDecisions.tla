---------------------------- MODULE MCDecisions ----------------------------
(* Two payloads: in the second a value has changed while its version has   *)
(* not (another cohort), another is gone, and Switch is disabled.          *)
EXTENDS Decisions

Flag(value, variant, v) == [value |-> value, variant |-> variant, version |-> v]
Item(value, v) == [value |-> value, version |-> v]

MCPublished ==
  << [switch |-> "checkout" :> Flag(TRUE, "blue", 1),
      config |-> "limit" :> Item(Num(1), 1) @@ "theme" :> Item(Text("dark"), 1)],
     [switch |-> Off, config |-> "limit" :> Item(Text("0"), 1)] >>

MCBundled == [switch |-> "checkout" :> Flag(FALSE, "", 0), config |-> "limit" :> Item(List(<<"a">>), 0)]
MCFallbacks == {Bool(FALSE), Num(7), Text("x"), List(<<>>), Map([a |-> 1])}
MCNumberIn == << >>
MCContained == {}
=============================================================================
