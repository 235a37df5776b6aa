------------------------------- MODULE Evaluator -------------------------------
(***************************************************************************)
(* evaluate/evaluator.go, called by FlagClient.GetFlag when the client     *)
(* evaluates locally.                                                      *)
(*                                                                         *)
(* One GetFlag call at a time: concurrent calls share nothing they write.  *)
(* Other goroutines replace the configurations and the context whenever    *)
(* they like, so the call finds any of them at each of its two loads.      *)
(*                                                                         *)
(* A pointer is a set with one element, or none if it is nil; so are the   *)
(* entries of a configuration's maps of segments and of rollouts.          *)
(***************************************************************************)
EXTENDS Rollout, EvaluationContext

CONSTANTS
  FlagConfig, \* the flag configurations SetFlagConfigs may have stored
  Context,    \* the evaluation contexts that may be stored
  MaxTime,    \* the last tick of the clock
  NoConfig,   \* no configuration is being evaluated
  NoContext,  \* no context was ever given
  Fallback    \* what the caller wants if there is no value

\* Steps of a gradual rollout and their distance are numbers.
ASSUME RampsAreTyped ==
  \A c \in FlagConfig : \A id \in DOMAIN c.rollouts : \A r \in c.rollouts[id] :
    r.strategy = "gradual" =>
      /\ r.start \in Int /\ r.interval \in Int
      /\ r.increment \in Int /\ r.target \in Int

\* Attributes have values; there is at most one user and one organization.
AttributeMap(m) == \A name \in DOMAIN m : m[name] \in Value
ASSUME ContextsAreTyped ==
  \A ctx \in Context :
    /\ ctx.kind \in Text /\ ctx.key \in Text
    /\ AttributeMap(ctx.attributes)
    /\ \A e \in ctx.user \cup ctx.organization :
         e.key \in Text /\ AttributeMap(e.attributes) /\ DOMAIN e.attributes \subseteq Seq(STRING)

\* Weights are numbers.
ASSUME WeightsAreTyped ==
  \A c \in FlagConfig : \A id \in DOMAIN c.rollouts : \A r \in c.rollouts[id] :
    r.strategy = "variant" =>
      /\ Len(r.variants) \in Nat
      /\ \A i \in 1..Len(r.variants) : r.variants[i].weight \in Int

ASSUME TimeIsCounted == MaxTime \in Nat
ASSUME NoConfigIsNone == NoConfig \notin FlagConfig

VARIABLES
  pc,     \* where the call is
  config, \* the configuration it found
  flat,   \* the flat context it made
  todo,   \* the rules the loop has not come to
  result, \* what Evaluate returns, then what GetFlag returns
  now,    \* the clock
  at      \* when the result was found

vars == <<pc, config, flat, todo, result, now, at>>

NoResult == Ok(Nil)
Err == {"nil", "panic", "ErrMissingRolloutKey", "ErrPercentageNonBoolean", "ErrGradualNonBoolean",
        "ErrMissingVariation", "ErrMissingRollout", "ErrInvalidVariantWeights"}

\* Dereferencing nil.
Panic == Error(Nil, "panic")

\* The result has a value and one of the sentinel errors, if it is no panic, and a
\* flat context has a kind and a key unless it is empty.
TypeOK ==
  /\ pc \in {"idle", "context", "start", "rules", "done"}
  /\ config \in FlagConfig \cup {NoConfig}
  /\ pc = "idle" <=> config = NoConfig
  /\ flat = Empty \/ {<<"kind">>, <<"key">>} \subseteq DOMAIN flat
  /\ todo \subseteq IF pc = "rules" THEN DOMAIN config.rules ELSE {}
  /\ result.err \in Err
  /\ now \in 0..MaxTime
  /\ at \in 0..now

Init ==
  /\ pc = "idle"
  /\ config = NoConfig
  /\ flat = Empty
  /\ todo = {}
  /\ result = NoResult
  /\ now = 0
  /\ at = 0
-----------------------------------------------------------------------------
(***************************************************************************)
(* What a rule says of a context, and what it leads to                     *)
(***************************************************************************)
evaluateSegment(seg, attrs) ==
  seg.force \/ evaluateConditions(seg.rules, seg.logicalOp, attrs)

\* A rule of a segment that is missing is an error, which skips the rule.
matchRule(rule, segments, attrs) ==
  \/ /\ rule.kind = "segment"
     /\ rule.segment \in DOMAIN segments
     /\ \E seg \in segments[rule.segment] : evaluateSegment(seg, attrs)
  \/ /\ rule.kind = "custom"
     /\ evaluateConditions(rule.conditions, rule.logicalOp, attrs)

\* The segment a rule names is there and is nil.
NilSegment(rule, segments) ==
  /\ rule.kind = "segment"
  /\ rule.segment \in DOMAIN segments
  /\ segments[rule.segment] = {}

\* A rule that matches and has neither a variation nor a rollout is passed over.
Decides(c, attrs, r) ==
  \/ NilSegment(c.rules[r], c.segments)
  \/ /\ matchRule(c.rules[r], c.segments, attrs)
     /\ c.rules[r].variation \cup c.rules[r].rollout # {}

Default(c) == coerceType(c.default, c.type)

Variation(c, id) ==
  IF id \in DOMAIN c.variations THEN Ok(coerceType(c.variations[id], c.type))
  ELSE Error(Default(c), "ErrMissingVariation")

RolloutOutcome(c, attrs, id, time) ==
  LET applied == applyRollout(The(c.rollouts[id]), attrs, c.type, c.variations, c.default, time)
  IN  IF id \notin DOMAIN c.rollouts THEN Error(Default(c), "ErrMissingRollout")
      ELSE IF c.rollouts[id] = {} THEN Panic
      ELSE IF applied.err # "nil" THEN Error(Default(c), applied.err)
      ELSE applied

Outcome(c, attrs, r, time) ==
  IF NilSegment(c.rules[r], c.segments) THEN Panic
  ELSE IF c.rules[r].variation # {} THEN Variation(c, The(c.rules[r].variation))
  ELSE RolloutOutcome(c, attrs, The(c.rules[r].rollout), time)

OffOutcome(c) == IF c.off = {} THEN Ok(Default(c)) ELSE Variation(c, The(c.off))

\* A boolean flag without rules and rollouts is its true variation.
Shortcut(c) == /\ c.type = "boolean"
               /\ c.rules = Empty /\ c.rollouts = Empty /\ c.variations # Empty
OnOutcome(c) == Ok(Bool(\E id \in DOMAIN c.variations : c.variations[id] = Bool(TRUE)))

\* The rules that may come first in todo after sort.Slice, which leaves equal
\* order indices in any order.  Mutated form: the rules are not sorted.
Unsorted(c, rules) == rules
First(c, rules) == {r \in rules : \A q \in rules : c.rules[r].order <= c.rules[q].order}
-----------------------------------------------------------------------------
(***************************************************************************)
(* The steps of a call                                                     *)
(***************************************************************************)
GetFlag(c) ==
  /\ pc = "idle"
  /\ config' = c
  /\ pc' = "context"
  /\ result' = NoResult
  /\ UNCHANGED <<flat, todo, now, at>>

\* The key has no configuration, or a nil one, which Evaluate refuses.
NoFlag ==
  /\ pc = "idle"
  /\ result' = Ok(Fallback)
  /\ UNCHANGED <<pc, config, flat, todo, now, at>>

LoadContext(ctx) ==
  /\ pc = "context"
  /\ flat' = IF ctx = NoContext THEN Empty ELSE Flatten(ctx)
  /\ pc' = "start"
  /\ UNCHANGED <<config, todo, result, now, at>>

Finish(outcome) ==
  /\ result' = outcome
  /\ at' = now
  /\ pc' = "done"
  /\ todo' = {}
  /\ UNCHANGED <<config, flat, now>>

KillSwitch ==
  /\ pc = "start"
  /\ ~config.active
  /\ Finish(OffOutcome(config))

OnVariation ==
  /\ pc = "start"
  /\ config.active /\ Shortcut(config)
  /\ Finish(OnOutcome(config))

SortRules ==
  /\ pc = "start"
  /\ config.active /\ ~Shortcut(config)
  /\ todo' = DOMAIN config.rules
  /\ pc' = "rules"
  /\ UNCHANGED <<config, flat, result, now, at>>

SkipRule(r) ==
  /\ pc = "rules"
  /\ r \in First(config, todo)
  /\ ~Decides(config, flat, r)
  /\ todo' = todo \ {r}
  /\ UNCHANGED <<pc, config, flat, result, now, at>>

ApplyRule(r) ==
  /\ pc = "rules"
  /\ r \in First(config, todo)
  /\ Decides(config, flat, r)
  /\ Finish(Outcome(config, flat, r, now))

NoRuleMatched ==
  /\ pc = "rules"
  /\ todo = {}
  /\ Finish(Ok(Default(config)))

\* An error is logged and the caller gets its fallback; a panic goes through
\* GetFlag, and a caller that recovers from it may call again.
Answer(outcome) ==
  CASE outcome = Panic     -> Panic
    [] outcome.err = "nil" -> outcome
    [] OTHER               -> Ok(Fallback)

Return ==
  /\ pc = "done"
  /\ pc' = "idle"
  /\ result' = Answer(result)
  /\ config' = NoConfig
  /\ flat' = Empty
  /\ at' = 0
  /\ UNCHANGED <<todo, now>>

Tick ==
  /\ now < MaxTime
  /\ now' = now + 1
  /\ UNCHANGED <<pc, config, flat, todo, result, at>>

Next ==
  \/ \E c \in FlagConfig : GetFlag(c)
  \/ \E ctx \in Context \cup {NoContext} : LoadContext(ctx)
  \/ NoFlag \/ KillSwitch \/ OnVariation \/ SortRules \/ NoRuleMatched \/ Return
  \/ \E r \in todo : SkipRule(r) \/ ApplyRule(r)
  \/ Tick

Spec == Init /\ [][Next]_vars
-----------------------------------------------------------------------------
(***************************************************************************)
(* Properties                                                              *)
(***************************************************************************)
\* What the documentation promises of a flag: the off value when it is off, else
\* the outcome of a rule with the least order index among those that decide,
\* whatever rules before it fail, and the default value when there is none.
Deciding == {r \in DOMAIN config.rules : Decides(config, flat, r)}
Promised ==
  IF ~config.active THEN {OffOutcome(config)}
  ELSE IF Shortcut(config) THEN {OnOutcome(config)}
  ELSE IF Deciding = {} THEN {Ok(Default(config))}
  ELSE {Outcome(config, flat, r, at) :
         r \in {r \in Deciding : \A q \in Deciding : config.rules[r].order <= config.rules[q].order}}

\* "The first rule whose conditions are all satisfied wins": the caller gets what
\* the configuration promises, or its fallback where that is an error, though rules
\* fail or are passed over and their order indices may be equal.  GetFlag panics only
\* if the first rule to decide needs a nil segment or a nil rollout.
FirstMatchWins ==
  [][pc # "idle" /\ pc' = "idle" => result' \in {Answer(o) : o \in Promised}]_vars

RolloutsOf(c) == UNION {c.rollouts[id] : id \in DOMAIN c.rollouts}
GradualOf(c) == {r \in RolloutsOf(c) : r.strategy = "gradual"}

\* A gradual rollout never passes its target, and a user it has let in stays in
\* at every later time.
RampNeverRetracts ==
  pc = "start" => \A r \in GradualOf(config), t \in now..MaxTime :
    LET early == computeCurrentPercentage(r, now)
        late  == computeCurrentPercentage(r, t)
    IN  /\ r.target >= 0 => late <= r.target
        /\ \A b \in Bucket : r.target >= 0 /\ Enabled(b, early) => Enabled(b, late)

\* The buckets in variant i's share.
Share(variants, i) == {b \in Bucket : i \in Chosen(variants, b)}
VariantsOf(c) == {r \in RolloutsOf(c) :
                    r.strategy = "variant" /\ r.variants # <<>> /\ AddUp(r.variants)
                    /\ \A i \in 1..Len(r.variants) : r.variants[i].weight >= 0}

\* AddUp lets the weights exceed 100 by a little, which the last variants lose.
Excess(variants) ==
  LET off == Cumulative(variants)[Len(variants)] - Whole IN IF off > 0 THEN off ELSE 0

\* When the weights add up to 100, every bucket has a variant, and a variant has
\* as many buckets as its weight says, but for less than one and what the weights
\* exceed 100 by.
BucketsMatchWeights ==
  pc = "start" => \A r \in VariantsOf(config) :
    /\ UNION {Share(r.variants, i) : i \in 1..Len(r.variants)} = Bucket
    /\ \A i \in 1..Len(r.variants) :
         LET error == Scale * Cardinality(Share(r.variants, i)) - r.variants[i].weight
         IN  -Scale < error + Excess(r.variants) /\ error < Scale

\* An attribute is never at once equal to a value and greater or less than it,
\* whatever types the two have.
OneComparisonHolds ==
  pc = "start" => \A name \in DOMAIN flat, w \in Value :
    \A op, other \in {"eq", "gt", "lt"} :
      Compare(op, flat[name], w) /\ Compare(other, flat[name], w) => op = other
=============================================================================
