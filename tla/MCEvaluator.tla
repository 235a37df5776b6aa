------------------------------ MODULE MCEvaluator ------------------------------
(***************************************************************************)
(* Tables, contexts and flag configurations for the runs of Evaluator.     *)
(***************************************************************************)
EXTENDS Evaluator, TLC

MCNumber == {0, 1, 2}
MCText == {"", "0", "1", "1.0", "2", "true", "false", "pro", "u1", "u2", "user", "multi", "[]"}
MCFormatFloat == (0 :> "0") @@ (1 :> "1") @@ (2 :> "2")
MCParseFloat == [t \in MCText |-> CASE t = "0" -> {0} [] t \in {"1", "1.0"} -> {1}
                                    [] t = "2" -> {2} [] OTHER -> {}]
MCParseBool == [t \in MCText |-> CASE t \in {"1", "true"} -> {TRUE}
                                   [] t \in {"0", "false"} -> {FALSE} [] OTHER -> {}]
Same == {<<t, t>> : t \in MCText} \cup {<<"", t>> : t \in MCText}
MCPartOf == Same \cup {<<"1", "1.0">>, <<"0", "1.0">>, <<"1", "u1">>}
MCPrefixOf == Same \cup {<<"1", "1.0">>}
MCSuffixOf == Same \cup {<<"0", "1.0">>, <<"1", "u1">>}

\* Users land on both sides of the boundaries.
MCHashPercent(key, salt) ==
  CASE key = <<"user", "u1">> -> 0
    [] key = <<"user", "u2">> -> 50
    [] key = <<"u1">>         -> 99
    [] OTHER                  -> 33
-----------------------------------------------------------------------------
Plan == <<"plan">>
Level == <<"level">>
Ctx(kind, key, attributes, user) ==
  [kind |-> kind, key |-> key, attributes |-> attributes, user |-> user, organization |-> {}]

MCContext == {
  Ctx("user", "u1", (Plan :> String("pro")) @@ (Level :> Float(1)), {}),
  Ctx("user", "u2", (Plan :> Nil) @@ (Level :> String("1.0")), {}),
  Ctx("", "", (<<"user_id">> :> String("u1")) @@ (Level :> Bool(TRUE)), {}),
  Ctx("multi", "", Level :> IntVal(2),
      {[kind |-> "user", key |-> "u1", attributes |-> Plan :> String("pro")]})}
-----------------------------------------------------------------------------
Cond(attribute, operator, value) ==
  [attribute |-> attribute, operator |-> operator, value |-> value]

MCSegments ==
  ("everyone" :> {[force |-> TRUE, rules |-> {Cond(Plan, "eq", String("u2"))}, logicalOp |-> "AND"]})
  @@ ("pro" :> {[force |-> FALSE, rules |-> {Cond(Plan, "startsWith", String("pro")),
                   Cond(<<"user", "plan">>, "in", List({String("pro"), Nil}))}, logicalOp |-> "OR"]})
  @@ ("null" :> {})

MCRollouts ==
  ("half" :> {[strategy |-> "percentage", percentage |-> 50500, salt |-> "s"]})
  @@ ("ramp" :> {[strategy |-> "gradual", started |-> TRUE, start |-> 1, interval |-> 1,
                  increment |-> 40000, target |-> 60000, salt |-> "s"]})
  @@ ("split" :> {[strategy |-> "variant", salt |-> "s",
                   variants |-> <<[variation |-> "v1", weight |-> 33500],
                                  [variation |-> "v2", weight |-> 16500],
                                  [variation |-> "gone", weight |-> 50000]>>]})
  @@ ("over" :> {[strategy |-> "variant", salt |-> "s",
                  variants |-> <<[variation |-> "v1", weight |-> 98001],
                                 [variation |-> "v2", weight |-> 2000]>>]})
  @@ ("short" :> {[strategy |-> "variant", salt |-> "s",
                   variants |-> <<[variation |-> "v1", weight |-> 99998]>>]})
  @@ ("paused" :> {[strategy |-> "off", salt |-> "s"]})
  @@ ("null" :> {})
-----------------------------------------------------------------------------
Rule(kind, segment, conditions, logicalOp, variation, rollout) ==
  [kind |-> kind, segment |-> segment, conditions |-> conditions,
   logicalOp |-> logicalOp, variation |-> variation, rollout |-> rollout]
Custom(conditions, logicalOp, variation) ==
  Rule("custom", "", conditions, logicalOp, {variation}, {})
Everyone(rollout) == Rule("segment", "everyone", {}, "", {}, {rollout})

Template == <<
  Custom({Cond(Level, "eq", String("1.0")), Cond(Plan, "exists", Nil)}, "AND", "v1"),
  Custom({Cond(Level, "gt", Float(1)), Cond(Plan, "contains", String("pro"))}, "OR", "v2"),
  Custom({Cond(Level, "nin", List({IntVal(1)})), Cond(Plan, "not_exists", Nil)}, "NOT", "gone"),
  Rule("segment", "missing", {}, "", {"v1"}, {}),
  Rule("segment", "pro", {}, "", {"v2"}, {}),
  Rule("segment", "everyone", {}, "", {}, {}),
  Rule("segment", "null", {}, "", {"v1"}, {}),
  Everyone("half"), Everyone("ramp"), Everyone("split"), Everyone("short"),
  Everyone("paused"), Everyone("missing"), Everyone("null")>>

Numbered(rule, order) == [order |-> order] @@ rule
Pair(i, j, order) == ("r1" :> Numbered(Template[i], 2)) @@ ("r2" :> Numbered(Template[j], order))

\* The second rule comes first, or either does, and then the pair has no order.
Pairs == {Pair(i, j, 1) : i, j \in DOMAIN Template}
           \cup UNION {{Pair(i, j, 2) : j \in i..Len(Template)} : i \in DOMAIN Template}

Config(type, active, off, rules, variations, rollouts) ==
  [type |-> type, active |-> active, off |-> off, default |-> String("0"),
   rules |-> rules, variations |-> variations, rollouts |-> rollouts, segments |-> MCSegments]

Values == ("v1" :> Bool(TRUE)) @@ ("v2" :> String("1"))

MCFlagConfig ==
  {Config(type, TRUE, {}, rules, Values, MCRollouts) : type \in {"boolean", "string"}, rules \in Pairs}
  \cup {Config("boolean", active, off, Empty, variations, Empty) :
     active \in BOOLEAN, off \in {{}, {"v1"}, {"gone"}}, variations \in {Empty, Values}}
=============================================================================
