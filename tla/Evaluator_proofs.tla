--------------------------- MODULE Evaluator_proofs ---------------------------
(***************************************************************************)
(* Proofs about Evaluator, for any flag configurations and contexts, any   *)
(* number of rules, and any tables of what strconv and strings do.         *)
(***************************************************************************)
EXTENDS Evaluator, Rollout_proofs, TLAPS

-----------------------------------------------------------------------------
(***************************************************************************)
(* Coercions and comparisons                                               *)
(***************************************************************************)
\* The cases of a value, with the type and the content it has in each.
LEMMA ValueCases ==
  ASSUME NEW v \in Value
  PROVE  \/ v = Nil
         \/ v = List({})
         \/ \E b \in BOOLEAN : v = Bool(b)
         \/ \E t \in Text : v = String(t)
         \/ \E n \in Number : v = Float(n) \/ v = IntVal(n)
BY DEF Value

LEMMA Kinds ==
  ASSUME NEW x
  PROVE  /\ Kind(Bool(x)) = "bool" /\ Bool(x)[2] = x
         /\ Kind(String(x)) = "string" /\ String(x)[2] = x
         /\ Kind(Float(x)) = "float64" /\ Float(x)[2] = x
         /\ Kind(IntVal(x)) = "int" /\ IntVal(x)[2] = x
         /\ Kind(List(x)) = "list" /\ Kind(Nil) = "nil"
BY DEF Kind, Bool, String, Float, IntVal, List, Nil

\* The number of a value is the number its text stands for; only a bool has a
\* number that is not in its text.
LEMMA TextAndNumber ==
  ASSUME NEW v \in Value
  PROVE  /\ toComparableString(v) \in Text
         /\ Kind(v) # "bool" => CoerceFloat64(v) \subseteq ParseFloat[toComparableString(v)]
         /\ Kind(v) = "bool" => ParseFloat[toComparableString(v)] = {}
<1>1. CASE v = Nil \/ v = List({})
  BY <1>1, Kinds, TablesAreTyped DEF toComparableString, CoerceFloat64
<1>2. ASSUME NEW b \in BOOLEAN, v = Bool(b)
      PROVE  toComparableString(v) = Word(b) /\ Kind(v) = "bool"
  BY <1>2, Kinds DEF toComparableString
<1>3. ASSUME NEW t \in Text, v = String(t)
      PROVE  toComparableString(v) = t /\ CoerceFloat64(v) = ParseFloat[t] /\ Kind(v) = "string"
  BY <1>3, Kinds DEF toComparableString, CoerceFloat64
<1>4. ASSUME NEW n \in Number, v = Float(n) \/ v = IntVal(n)
      PROVE  /\ toComparableString(v) = FormatFloat[n] /\ CoerceFloat64(v) = {n}
             /\ Kind(v) \in {"float64", "int"}
  BY <1>4, Kinds DEF toComparableString, CoerceFloat64
<1>5. \A n \in Number : FormatFloat[n] \in Text /\ n \in ParseFloat[FormatFloat[n]]
  <2>1. \A n \in Number : FormatFloat[n] \in Text
    BY TablesAreTyped
  <2>2. \A n \in Number : n \in ParseFloat[FormatFloat[n]]
    BY TablesAreFunctional
  <2> QED
    BY <2>1, <2>2
<1>6. \A b \in BOOLEAN : Word(b) \in Text /\ ParseFloat[Word(b)] = {}
  BY TablesAreTyped, TablesAreFunctional DEF Word
<1> QED
  BY <1>1, <1>2, <1>3, <1>4, <1>5, <1>6, ValueCases

\* A value has one number at most, and equal values have equal numbers, if both
\* have one.
LEMMA OneNumber ==
  ASSUME NEW v \in Value, NEW n \in CoerceFloat64(v), NEW k \in CoerceFloat64(v)
  PROVE  n \in Int /\ n = k
<1>1. CASE v = Nil \/ v = List({})
  BY <1>1, Kinds DEF CoerceFloat64
<1>2. ASSUME NEW b \in BOOLEAN, v = Bool(b) PROVE n \in Int /\ n = k
  <2>1. CoerceFloat64(v) = {IF b THEN 1 ELSE 0}
    BY <1>2, Kinds DEF CoerceFloat64
  <2> QED
    BY <2>1
<1>3. ASSUME NEW t \in Text, v = String(t) PROVE n \in Int /\ n = k
  <2>1. CoerceFloat64(v) = ParseFloat[t]
    BY <1>3, Kinds DEF CoerceFloat64
  <2>2. ParseFloat[t] \subseteq Int
    BY TablesAreTyped
  <2> QED
    BY <2>1, <2>2, TablesAreFunctional
<1>4. ASSUME NEW m \in Number, v = Float(m) \/ v = IntVal(m) PROVE n \in Int /\ n = k
  <2>1. CoerceFloat64(v) = {m}
    BY <1>4, Kinds DEF CoerceFloat64
  <2> QED
    BY <2>1, TablesAreTyped
<1> QED
  BY <1>1, <1>2, <1>3, <1>4, ValueCases

LEMMA EqualNumbers ==
  ASSUME NEW v \in Value, NEW w \in Value, matchEq(v, w),
         NEW n \in CoerceFloat64(v), NEW k \in CoerceFloat64(w)
  PROVE  n = k
<1>1. CASE toComparableString(v) = toComparableString(w)
  <2>1. CASE Kind(v) # "bool" /\ Kind(w) # "bool"
    BY <1>1, <2>1, TextAndNumber, TablesAreFunctional
  <2>2. ASSUME Kind(v) = "bool", Kind(w) # "bool" PROVE n = k
    BY <1>1, <2>2, TextAndNumber
  <2>3. ASSUME Kind(w) = "bool", Kind(v) # "bool" PROVE n = k
    BY <1>1, <2>3, TextAndNumber
  <2>4. ASSUME Kind(v) = "bool", Kind(w) = "bool" PROVE n = k
    <3>1. PICK a \in BOOLEAN, b \in BOOLEAN : v = Bool(a) /\ w = Bool(b)
      BY <2>4, ValueCases, Kinds
    <3>2. Word(a) = Word(b)
      BY <1>1, <3>1, Kinds DEF toComparableString
    <3>3. v = w
      BY <3>1, <3>2 DEF Word
    <3>4. n \in CoerceFloat64(v) /\ k \in CoerceFloat64(v)
      BY <3>3
    <3> QED
      BY <3>4, OneNumber
  <2> QED
    BY <2>1, <2>2, <2>3, <2>4
<1>2. CASE toComparableString(v) # toComparableString(w)
  <2>1. /\ Kind(v) \in {"float64", "int"} /\ Kind(w) = "string"
        /\ ParseFloat[w[2]] = {v[2]}
    BY <1>2 DEF matchEq
  <2>2. CoerceFloat64(v) = {v[2]} /\ CoerceFloat64(w) = ParseFloat[w[2]]
    BY <2>1 DEF CoerceFloat64
  <2> QED
    BY <2>1, <2>2
<1> QED
  BY <1>1, <1>2

\* Of eq, gt and lt one holds at most, between any two values.
LEMMA Trichotomy ==
  ASSUME NEW v \in Value, NEW w \in Value,
         NEW op \in {"eq", "gt", "lt"}, NEW other \in {"eq", "gt", "lt"},
         Compare(op, v, w), Compare(other, v, w)
  PROVE  op = other
<1>1. /\ Compare("eq", v, w) <=> matchEq(v, w)
      /\ Compare("gt", v, w) <=> Greater(v, w)
      /\ Compare("lt", v, w) <=> Less(v, w)
  BY DEF Compare
<1>2. ~(matchEq(v, w) /\ Greater(v, w))
  BY EqualNumbers, OneNumber DEF Greater
<1>3. ~(matchEq(v, w) /\ Less(v, w))
  BY EqualNumbers, OneNumber DEF Less
<1>4. ~(Greater(v, w) /\ Less(v, w))
  <2> SUFFICES ASSUME Greater(v, w), Less(v, w) PROVE FALSE
    OBVIOUS
  <2>1. PICK n \in CoerceFloat64(v), k \in CoerceFloat64(w) : n > k
    BY DEF Greater
  <2>2. PICK i \in CoerceFloat64(v), j \in CoerceFloat64(w) : i < j
    BY DEF Less
  <2>3. i = n /\ j = k /\ n \in Int /\ k \in Int
    BY <2>1, <2>2, OneNumber
  <2> QED
    BY <2>1, <2>2, <2>3
<1> QED
  BY <1>1, <1>2, <1>3, <1>4
-----------------------------------------------------------------------------
(***************************************************************************)
(* Flat contexts                                                           *)
(***************************************************************************)
LEMMA OverIsMap ==
  ASSUME NEW f, NEW g, AttributeMap(f), AttributeMap(g)
  PROVE  AttributeMap(Over(f, g)) /\ DOMAIN Over(f, g) = DOMAIN f \cup DOMAIN g
BY DEF AttributeMap, Over

LEMMA EntryIsMap ==
  ASSUME NEW name, NEW t \in Text
  PROVE  AttributeMap(Entry(name, String(t))) /\ DOMAIN Entry(name, String(t)) = {name}
BY DEF AttributeMap, Entry, Value

LEMMA EmptyIsMap == AttributeMap(Empty)
BY DEF AttributeMap, Empty

\* The names of an entity's attributes get a prefix and keep their values.
LEMMA UnderIsMap ==
  ASSUME NEW part, NEW m, AttributeMap(m)
  PROVE  AttributeMap(Under(part, m))
BY DEF Under, AttributeMap

LEMMA EntityIsMap ==
  ASSUME NEW part, NEW entities,
         \A e \in entities : e.key \in Text /\ AttributeMap(e.attributes)
  PROVE  AttributeMap(Entity(part, entities))
<1>1. CASE entities = {}
  BY <1>1, EmptyIsMap DEF Entity
<1>2. CASE entities # {}
  <2> DEFINE e == The(entities)
  <2>1. e \in entities
    BY <1>2 DEF The
  <2>2. AttributeMap(Over(e.attributes, Entry(<<"key">>, String(e.key))))
    BY <2>1, OverIsMap, EntryIsMap
  <2> HIDE DEF e
  <2>3. AttributeMap(Under(part, Over(e.attributes, Entry(<<"key">>, String(e.key)))))
    BY <2>2, UnderIsMap
  <2> QED
    BY <1>2, <2>3 DEF Entity, e
<1> QED
  BY <1>1, <1>2

\* A flat context has values, a kind and a key.
LEMMA FlattenIsMap ==
  ASSUME NEW ctx \in Context
  PROVE  /\ AttributeMap(Flatten(ctx))
         /\ {<<"kind">>, <<"key">>} \subseteq DOMAIN Flatten(ctx)
<1> DEFINE kind == Entry(<<"kind">>, String(ctx.kind))
           key  == Entry(<<"key">>, String(ctx.key))
           top  == Over(Over(kind, key), ctx.attributes)
           org  == Entity("organization", ctx.organization)
           user == Entity("user", ctx.user)
<1>1. AttributeMap(kind) /\ AttributeMap(key) /\ AttributeMap(ctx.attributes)
  BY ContextsAreTyped, EntryIsMap
<1>2. <<"kind">> \in DOMAIN kind /\ <<"key">> \in DOMAIN key
  BY DEF Entry
<1>3. AttributeMap(org) /\ AttributeMap(user)
  <2>1. \A e \in ctx.organization \cup ctx.user : e.key \in Text /\ AttributeMap(e.attributes)
    BY ContextsAreTyped
  <2>2. AttributeMap(org)
    BY <2>1, EntityIsMap
  <2>3. AttributeMap(user)
    BY <2>1, EntityIsMap
  <2> QED
    BY <2>2, <2>3
<1> HIDE DEF kind, key, org, user
<1>4. AttributeMap(Over(kind, key))
  BY <1>1, OverIsMap
<1>5. AttributeMap(top)
  BY <1>1, <1>4, OverIsMap
<1>6. <<"kind">> \in DOMAIN top /\ <<"key">> \in DOMAIN top
  BY <1>2 DEF Over
<1>7. AttributeMap(Over(org, user))
  BY <1>3, OverIsMap
<1> HIDE DEF top
<1>8. Flatten(ctx) = Over(Over(org, user), top)
  BY DEF Flatten, Flat, top, kind, key, org, user
<1>9. DOMAIN top \subseteq DOMAIN Flatten(ctx)
  BY <1>8 DEF Over
<1>10. AttributeMap(Flatten(ctx))
  BY <1>5, <1>7, <1>8, OverIsMap
<1> QED
  BY <1>6, <1>9, <1>10

\* The attributes of an entity are named after it.
LEMMA EntityNames ==
  ASSUME NEW part, NEW entities,
         \A e \in entities : DOMAIN e.attributes \subseteq Seq(STRING)
  PROVE  \A name \in DOMAIN Entity(part, entities) : name[1] = part
<1>1. CASE entities = {}
  BY <1>1 DEF Entity, Empty
<1>2. CASE entities # {}
  <2> DEFINE e == The(entities)
             m == Over(e.attributes, Entry(<<"key">>, String(e.key)))
             S == STRING \cup {"key", part}
  <2>1. e \in entities
    BY <1>2 DEF The
  <2> HIDE DEF e
  <2>5. <<"key">> \in Seq(S) /\ Seq(STRING) \subseteq Seq(S)
    OBVIOUS
  <2>2. DOMAIN m \subseteq Seq(S)
    BY <2>1, <2>5 DEF Over, Entry
  <2> HIDE DEF m
  <2>3. \A n \in Seq(S) : (<<part>> \o n)[1] = part
    OBVIOUS
  <2>4. \A name \in DOMAIN Under(part, m) : name[1] = part
    BY <2>2, <2>3 DEF Under
  <2> QED
    BY <1>2, <2>4 DEF Entity, m, e
<1> QED
  BY <1>1, <1>2

\* No attribute, user or organization replaces the kind and the key.
LEMMA FlattenKeepsIdentity ==
  ASSUME NEW ctx \in Context
  PROVE  /\ Flatten(ctx)[<<"kind">>] = String(ctx.kind)
         /\ Flatten(ctx)[<<"key">>] = String(ctx.key)
<1> DEFINE kind == Entry(<<"kind">>, String(ctx.kind))
           key  == Entry(<<"key">>, String(ctx.key))
           top  == Over(Over(kind, key), ctx.attributes)
           below == Over(Entity("organization", ctx.organization), Entity("user", ctx.user))
<1>1. \A name \in DOMAIN below : name[1] \in {"organization", "user"}
  <2>1. \A e \in ctx.organization \cup ctx.user : DOMAIN e.attributes \subseteq Seq(STRING)
    BY ContextsAreTyped
  <2>2. \A name \in DOMAIN Entity("organization", ctx.organization) : name[1] = "organization"
    BY <2>1, EntityNames
  <2>3. \A name \in DOMAIN Entity("user", ctx.user) : name[1] = "user"
    BY <2>1, EntityNames
  <2> QED
    BY <2>2, <2>3 DEF Over
<1>2. <<"kind">> \notin DOMAIN below /\ <<"key">> \notin DOMAIN below
  <2>1. <<"kind">>[1] = "kind" /\ <<"key">>[1] = "key"
    OBVIOUS
  <2> QED
    BY <1>1, <2>1
<1>3. <<"kind">> \in DOMAIN top /\ <<"key">> \in DOMAIN top
  BY DEF Over, Entry
<1>4. top[<<"kind">>] = String(ctx.kind) /\ top[<<"key">>] = String(ctx.key)
  BY DEF Over, Entry
<1>5. Flatten(ctx) = Over(below, top)
  BY DEF Flatten, Flat
<1> HIDE DEF below, top
<1> QED
  BY <1>2, <1>3, <1>4, <1>5 DEF Over

\* Rollouts know a context by its own kind and key and by nothing else, whatever its
\* attributes are called and whoever its user and organization are: a multi-context
\* without a key of its own is bucketed by its kind alone, and user_id never counts.
THEOREM BucketingKey ==
  ASSUME NEW ctx \in Context
  PROVE  getStableRolloutKey(Flatten(ctx)) = <<ctx.kind, ctx.key>>
<1>1. <<"kind">> \in DOMAIN Flatten(ctx) /\ <<"key">> \in DOMAIN Flatten(ctx)
  BY FlattenIsMap
<1>2. \A t : String(t) # Nil /\ toComparableString(String(t)) = t
  BY DEF String, Nil, toComparableString, Kind
<1> QED
  BY <1>1, <1>2, FlattenKeepsIdentity DEF getStableRolloutKey, Has
-----------------------------------------------------------------------------
(***************************************************************************)
(* Rollouts                                                                *)
(***************************************************************************)
LEMMA DivIsMonotone ==
  ASSUME NEW a \in Int, NEW b \in Int, NEW d \in Int, d > 0, a <= b
  PROVE  a \div d \in Int /\ a \div d <= b \div d
<1> DEFINE q == a \div d
           p == b \div d
<1>1. q \in Int /\ p \in Int /\ q * d <= a /\ b < (p + 1) * d
  BY SMTT(30)
<1>2. q * d < (p + 1) * d
  BY <1>1
<1> HIDE DEF q, p
<1>3. q < p + 1
  BY <1>1, <1>2, SMTT(30)
<1> QED
  BY <1>1, <1>3 DEF q, p

LEMMA ProductIsMonotone ==
  ASSUME NEW a \in Int, NEW b \in Int, NEW c \in Int, c > 0, a <= b
  PROVE  a * c \in Int /\ a * c <= b * c
BY SMTT(30)

\* More users are in a rollout of a greater percentage.
LEMMA EnabledIsMonotone ==
  ASSUME NEW bucket \in Bucket, NEW pct \in Int, NEW more \in Int, pct <= more,
         Enabled(bucket, pct)
  PROVE  Enabled(bucket, more)
<1>1. Scale \in Int /\ Scale > 0 /\ Whole \in Int
  BY ScaleIsPositive DEF Whole
<1>2. pct \div Scale <= more \div Scale /\ pct \div Scale \in Int /\ more \div Scale \in Int
  BY <1>1, DivIsMonotone
<1>3. pct >= Whole => more >= Whole
  BY <1>1
<1>4. pct > 0 => more > 0
  OBVIOUS
<1>5. bucket < pct \div Scale => bucket < more \div Scale
  BY <1>2 DEF Bucket
<1> QED
  BY <1>3, <1>4, <1>5 DEF Enabled, BelowPercentage

LEMMA RampIsMonotone ==
  ASSUME NEW r, r.start \in Int, r.interval \in Int, r.increment \in Int, r.target \in Int,
         NEW t \in Int, NEW u \in Int, t <= u
  PROVE  /\ computeCurrentPercentage(r, t) \in Int
         /\ r.target >= 0 =>
              computeCurrentPercentage(r, t) <= r.target
              /\ computeCurrentPercentage(r, t) <= computeCurrentPercentage(r, u)
<1> DEFINE steps(x) == ((x - r.start) \div r.interval) * r.increment
<1>1. CASE ~r.started \/ t < r.start
  <2>1. computeCurrentPercentage(r, t) = 0
    BY <1>1 DEF computeCurrentPercentage
  <2>2. ASSUME r.target >= 0 PROVE computeCurrentPercentage(r, u) >= 0
    <3>1. CASE ~r.started \/ u < r.start \/ r.interval <= 0 \/ r.increment <= 0
      BY <2>2, <3>1 DEF computeCurrentPercentage
    <3>2. CASE r.started /\ u >= r.start /\ r.interval > 0 /\ r.increment > 0
      <4>1. 0 \div r.interval = 0
        BY <3>2, SMTT(30)
      <4>2. 0 * r.increment <= steps(u) /\ steps(u) \in Int
        BY <3>2, <4>1, DivIsMonotone, ProductIsMonotone
      <4> QED
        BY <2>2, <3>2, <4>2 DEF computeCurrentPercentage, Capped
    <3> QED
      BY <3>1, <3>2
  <2> QED
    BY <2>1, <2>2
<1>2. CASE r.started /\ t >= r.start /\ (r.interval <= 0 \/ r.increment <= 0)
  BY <1>2 DEF computeCurrentPercentage
<1>3. CASE r.started /\ t >= r.start /\ r.interval > 0 /\ r.increment > 0
  <2>1. /\ computeCurrentPercentage(r, t) = Capped(steps(t), r.target)
        /\ computeCurrentPercentage(r, u) = Capped(steps(u), r.target)
    BY <1>3 DEF computeCurrentPercentage
  <2>2. /\ (t - r.start) \div r.interval <= (u - r.start) \div r.interval
        /\ (t - r.start) \div r.interval \in Int /\ (u - r.start) \div r.interval \in Int
    <3>1. t - r.start \in Int /\ u - r.start \in Int /\ t - r.start <= u - r.start
      OBVIOUS
    <3>2. r.interval \in Int /\ r.interval > 0
      BY <1>3
    <3> HIDE DEF steps
    <3> QED
      BY <3>1, <3>2, DivIsMonotone
  <2>3. steps(t) <= steps(u) /\ steps(t) \in Int /\ steps(u) \in Int
    <3> DEFINE i == (t - r.start) \div r.interval
               j == (u - r.start) \div r.interval
    <3>1. i \in Int /\ j \in Int /\ i <= j
      BY <2>2
    <3> HIDE DEF i, j
    <3>2. i * r.increment <= j * r.increment /\ i * r.increment \in Int
      BY <1>3, <3>1, ProductIsMonotone
    <3>3. j * r.increment \in Int
      BY <1>3, <3>1, ProductIsMonotone
    <3> QED
      BY <3>2, <3>3 DEF i, j
  <2> HIDE DEF steps
  <2> QED
    BY <2>1, <2>3 DEF Capped
<1> QED
  BY <1>1, <1>2, <1>3
-----------------------------------------------------------------------------
(***************************************************************************)
(* What Evaluate returns                                                   *)
(***************************************************************************)
LEMMA PercentageErr ==
  \A pct, salt, attrs, type, fallback :
    applyPercentageRollout(pct, salt, attrs, type, fallback).err \in Err
BY DEF applyPercentageRollout, Ok, Error, Err

LEMMA RolloutErr ==
  \A r, attrs, type, variations, fallback, time :
    applyRollout(r, attrs, type, variations, fallback, time).err \in Err
<1> TAKE r, attrs, type, variations, fallback, time
<1>1. applyVariantRollout(r, attrs, variations, fallback).err \in Err
  BY DEF applyVariantRollout, Ok, Error, Err
<1>2. applyGradualRollout(r, attrs, type, fallback, time).err \in Err
  BY PercentageErr DEF applyGradualRollout, Error, Err
<1>3. Ok(coerceType(fallback, type)).err \in Err
  BY DEF Ok, Err
<1> QED
  BY <1>1, <1>2, <1>3, PercentageErr DEF applyRollout

LEMMA OutcomeErr ==
  \A c, attrs, r, id, time :
    /\ Variation(c, id).err \in Err
    /\ RolloutOutcome(c, attrs, id, time).err \in Err
    /\ Outcome(c, attrs, r, time).err \in Err
    /\ OffOutcome(c).err \in Err
    /\ OnOutcome(c).err \in Err
    /\ Ok(Default(c)).err \in Err
<1>1. \A c, id : Variation(c, id).err \in Err
  BY DEF Variation, Ok, Error, Err
<1>2. \A c, attrs, id, time : RolloutOutcome(c, attrs, id, time).err \in Err
  BY RolloutErr DEF RolloutOutcome, Panic, Error, Err
<1>3. \A c, attrs, r, time : Outcome(c, attrs, r, time).err \in Err
  <2>1. Panic.err \in Err
    BY DEF Panic, Error, Err
  <2> QED
    BY <1>1, <1>2, <2>1 DEF Outcome
<1>4. \A c : OffOutcome(c).err \in Err /\ OnOutcome(c).err \in Err /\ Ok(Default(c)).err \in Err
  BY <1>1 DEF OffOutcome, OnOutcome, Ok, Err
<1> QED
  BY <1>1, <1>2, <1>3, <1>4

LEMMA FallbackErr == Ok(Fallback).err \in Err
BY DEF Ok, Err
-----------------------------------------------------------------------------
(***************************************************************************)
(* The inductive invariant                                                 *)
(***************************************************************************)
\* The rules the loop has passed do not decide.
LoopInv ==
  pc = "rules" =>
    /\ config.active /\ ~Shortcut(config)
    /\ \A r \in DOMAIN config.rules \ todo : ~Decides(config, flat, r)

\* What Evaluate returns is what the configuration promises.
ResultInv == pc = "done" => result \in Promised

IInv == TypeOK /\ AttributeMap(flat) /\ LoopInv /\ ResultInv

LEMMA InitIInv == Init => IInv
<1> SUFFICES ASSUME Init PROVE IInv
  OBVIOUS
<1>1. 0 \in 0..MaxTime /\ 0 \in 0..0
  BY TimeIsCounted
<1>2. NoResult.err \in Err
  BY DEF NoResult, Ok, Err
<1>3. TypeOK
  BY <1>1, <1>2 DEF Init, TypeOK
<1> QED
  BY <1>3, EmptyIsMap DEF Init, IInv, LoopInv, ResultInv

\* A result that the configuration promises ends the call.
LEMMA FinishInv ==
  ASSUME IInv, NEW outcome, Finish(outcome), pc # "idle", outcome.err \in Err,
         result' = outcome => outcome \in Promised'
  PROVE  IInv'
<1>1. TypeOK'
  BY DEF IInv, TypeOK, Finish
<1> QED
  BY <1>1 DEF IInv, Finish, LoopInv, ResultInv, AttributeMap

LEMMA CallInv ==
  ASSUME IInv,
         \/ \E c \in FlagConfig : GetFlag(c)
         \/ \E ctx \in Context \cup {NoContext} : LoadContext(ctx)
         \/ NoFlag \/ SortRules \/ Return \/ Tick
         \/ \E r \in todo : SkipRule(r)
         \/ UNCHANGED vars
  PROVE  IInv'
<1> USE DEF IInv, TypeOK, LoopInv, ResultInv
<1>1. ASSUME NEW c \in FlagConfig, GetFlag(c) PROVE IInv'
  <2>1. NoResult.err \in Err
    BY DEF NoResult, Ok, Err
  <2> QED
    BY <1>1, <2>1, NoConfigIsNone DEF GetFlag
<1>2. ASSUME NEW ctx \in Context \cup {NoContext}, LoadContext(ctx) PROVE IInv'
  <2>1. AttributeMap(flat') /\ (flat' = Empty \/ {<<"kind">>, <<"key">>} \subseteq DOMAIN flat')
    BY <1>2, FlattenIsMap, EmptyIsMap DEF LoadContext
  <2> QED
    BY <1>2, <2>1 DEF LoadContext
<1>3. CASE SortRules
  BY <1>3 DEF SortRules
<1>4. CASE Return
  <2>1. Answer(result).err \in Err
    BY FallbackErr DEF Answer, Panic, Error, Err
  <2>2. 0 \in 0..now
    OBVIOUS
  <2> QED
    BY <1>4, <2>1, <2>2, EmptyIsMap DEF Return
<1>5. CASE Tick
  <2>1. now' \in 0..MaxTime /\ at \in 0..now'
    BY <1>5, TimeIsCounted DEF Tick
  <2>2. pc = "done" => Promised' = Promised
    BY <1>5 DEF Tick, Promised, Deciding
  <2> QED
    BY <1>5, <2>1, <2>2 DEF Tick
<1>6. ASSUME NEW r \in todo, SkipRule(r) PROVE IInv'
  BY <1>6 DEF SkipRule
<1>7. CASE UNCHANGED vars
  BY <1>7 DEF vars, Promised, Deciding
<1>8. CASE NoFlag
  BY <1>8, FallbackErr DEF NoFlag
<1> QED
  BY <1>1, <1>2, <1>3, <1>4, <1>5, <1>6, <1>7, <1>8

LEMMA NextInv == IInv /\ [Next]_vars => IInv'
<1> SUFFICES ASSUME IInv, [Next]_vars PROVE IInv'
  OBVIOUS
<1>1. CASE KillSwitch
  <2>1. OffOutcome(config) \in Promised'
    BY <1>1 DEF KillSwitch, Finish, Promised
  <2> QED
    BY <1>1, <2>1, FinishInv, OutcomeErr DEF KillSwitch
<1>2. CASE OnVariation
  <2>1. OnOutcome(config) \in Promised'
    BY <1>2 DEF OnVariation, Finish, Promised
  <2> QED
    BY <1>2, <2>1, FinishInv, OutcomeErr DEF OnVariation
<1>3. CASE NoRuleMatched
  <2>1. Deciding = {} /\ config.active /\ ~Shortcut(config)
    BY <1>3 DEF NoRuleMatched, IInv, LoopInv, Deciding
  <2>2. Ok(Default(config)) \in Promised'
    BY <1>3, <2>1 DEF NoRuleMatched, Finish, Promised, Deciding
  <2> QED
    BY <1>3, <2>2, FinishInv, OutcomeErr DEF NoRuleMatched
<1>4. ASSUME NEW r \in todo, ApplyRule(r) PROVE IInv'
  <2>1. config.active /\ ~Shortcut(config) /\ Deciding \subseteq todo
    BY <1>4 DEF ApplyRule, IInv, LoopInv, Deciding
  <2>2. r \in Deciding
    BY <1>4 DEF ApplyRule, IInv, TypeOK, Deciding
  <2>3. \A q \in Deciding : config.rules[r].order <= config.rules[q].order
    BY <1>4, <2>1 DEF ApplyRule, First
  <2>4. Outcome(config, flat, r, now) \in Promised'
    BY <1>4, <2>1, <2>2, <2>3 DEF ApplyRule, Finish, Promised, Deciding
  <2> QED
    BY <1>4, <2>4, FinishInv, OutcomeErr DEF ApplyRule
<1> QED
  BY <1>1, <1>2, <1>3, <1>4, CallInv DEF Next
-----------------------------------------------------------------------------
(***************************************************************************)
(* Theorems                                                                *)
(***************************************************************************)
\* The inductive invariant holds: the rules before the loop's place do not
\* decide, flat contexts hold values, what Evaluate returns is promised.
THEOREM Invariance == Spec => []IInv
<1> QED
  BY InitIInv, NextInv, PTL DEF Spec

\* Evaluate ends with a sentinel error or none, and what Flatten makes always
\* has a kind and a key.
THEOREM TypeCorrect == Spec => []TypeOK
<1>1. IInv => TypeOK
  BY DEF IInv
<1> QED
  BY <1>1, Invariance, PTL

\* The caller gets the first match, for any number of rules with any order indices,
\* among them rules that fail and rules whose segment or rollout is nil.
THEOREM FirstMatch == Spec => FirstMatchWins
<1>1. IInv /\ [Next]_vars => [pc # "idle" /\ pc' = "idle" => result' \in {Answer(o) : o \in Promised}]_vars
  <2> SUFFICES ASSUME IInv, Next, pc # "idle", pc' = "idle"
               PROVE  result' \in {Answer(o) : o \in Promised}
    OBVIOUS
  <2>1. Return
    BY DEF Next, GetFlag, NoFlag, LoadContext, KillSwitch, OnVariation, SortRules,
           NoRuleMatched, SkipRule, ApplyRule, Finish, Tick
  <2>2. result \in Promised
    BY <2>1 DEF Return, IInv, ResultInv
  <2> QED
    BY <2>1, <2>2 DEF Return
<1> QED
  BY <1>1, Invariance, PTL DEF Spec, FirstMatchWins

\* An attribute is not at once equal to a value and greater or less than it, for
\* any values and any way texts parse.
THEOREM OneComparison == Spec => []OneComparisonHolds
<1>1. IInv => OneComparisonHolds
  BY Trichotomy DEF IInv, AttributeMap, OneComparisonHolds
<1> QED
  BY <1>1, Invariance, PTL

\* A gradual rollout never lets a user go, whatever its steps and the hash.
THEOREM RampHolds == Spec => []RampNeverRetracts
<1>1. IInv => RampNeverRetracts
  <2> SUFFICES ASSUME IInv, pc = "start", NEW r \in GradualOf(config), NEW t \in now..MaxTime
               PROVE  LET early == computeCurrentPercentage(r, now)
                          late  == computeCurrentPercentage(r, t)
                      IN  /\ r.target >= 0 => late <= r.target
                          /\ \A b \in Bucket : r.target >= 0 /\ Enabled(b, early) => Enabled(b, late)
    BY DEF RampNeverRetracts
  <2>1. config \in FlagConfig
    BY DEF IInv, TypeOK
  <2>2. r.start \in Int /\ r.interval \in Int /\ r.increment \in Int /\ r.target \in Int
    BY <2>1, RampsAreTyped DEF GradualOf, RolloutsOf
  <2>3. now \in Int /\ t \in Int /\ now <= t /\ t <= t
    BY TimeIsCounted DEF IInv, TypeOK
  <2> QED
    BY <2>2, <2>3, RampIsMonotone, EnabledIsMonotone
<1> QED
  BY <1>1, Invariance, PTL

\* The shares of the variants are the weights, but for rounding and what the weights
\* exceed 100 by, for any number of variants and whatever the unit of a weight is.
THEOREM BucketsMatch == Spec => []BucketsMatchWeights
<1>1. IInv => BucketsMatchWeights
  <2> SUFFICES ASSUME IInv, pc = "start", NEW r \in VariantsOf(config)
               PROVE  /\ UNION {Share(r.variants, i) : i \in 1..Len(r.variants)} = Bucket
                      /\ \A i \in 1..Len(r.variants) :
                           LET error == Scale * Cardinality(Share(r.variants, i)) - r.variants[i].weight
                           IN  -Scale < error + Excess(r.variants) /\ error < Scale
    BY DEF BucketsMatchWeights
  <2>1. config \in FlagConfig
    BY DEF IInv, TypeOK
  <2>2. Legal(r.variants) /\ AddUp(r.variants)
    BY <2>1, WeightsAreTyped DEF VariantsOf, RolloutsOf, Legal, Weighted
  <2>3. UNION {Share(r.variants, i) : i \in 1..Len(r.variants)} = Bucket
    <3>1. \A b \in Bucket : \E i \in 1..Len(r.variants) : b \in Share(r.variants, i)
      BY <2>2, EveryBucketIsChosen DEF Share
    <3>2. \A i : Share(r.variants, i) \subseteq Bucket
      BY DEF Share
    <3> QED
      BY <3>1, <3>2
  <2>4. ASSUME NEW i \in 1..Len(r.variants)
        PROVE  LET error == Scale * Cardinality(Share(r.variants, i)) - r.variants[i].weight
               IN  -Scale < error + Excess(r.variants) /\ error < Scale
    <3> DEFINE size == Scale * Cardinality(Share(r.variants, i))
               error == size - r.variants[i].weight
               off == Cumulative(r.variants)[Len(r.variants)] - Whole
    <3>1. error < Scale /\ (-Scale < error \/ -Scale < error + off)
      BY <2>2, ShareSize DEF Share
    <3>2. Excess(r.variants) = IF off > 0 THEN off ELSE 0
      BY DEF Excess
    <3>3. /\ size \in Int /\ r.variants[i].weight \in Int
          /\ Cumulative(r.variants)[Len(r.variants)] \in Int /\ Whole \in Int /\ Scale \in Int
      <4>1. Cardinality(Share(r.variants, i)) \in Nat
        <5> DEFINE S == Share(r.variants, i)
        <5>1. S \in SUBSET Nat /\ \A b \in S : b <= 99
          <6>1. S \subseteq Bucket
            BY DEF Share
          <6> HIDE DEF S
          <6> QED
            BY <6>1 DEF Bucket
        <5>2. 99 \in Nat
          OBVIOUS
        <5> HIDE DEF S
        <5>3. IsFiniteSet(S)
          BY <5>1, <5>2, FS_BoundedSetOfNaturals
        <5> QED
          BY <5>3, FS_CardinalityType DEF S
      <4>2. r.variants[i].weight \in Int /\ Cumulative(r.variants)[Len(r.variants)] \in Int
        <5>1. /\ Len(r.variants) \in 0..Len(r.variants)
              /\ r.variants[i].weight \in Int
          BY <2>2 DEF Legal, Weighted
        <5>2. Cumulative(r.variants) \in [0..Len(r.variants) -> Int]
          BY <2>2, CumulativeWeights DEF Legal
        <5> QED
          BY <5>1, <5>2
      <4> QED
        BY <4>1, <4>2, ScaleIsPositive DEF Whole
    <3> HIDE DEF size, off
    <3>4. off \in Int
      BY <3>3 DEF off
    <3> QED
      BY <3>1, <3>2, <3>3, <3>4 DEF size
  <2> QED
    BY <2>3, <2>4
<1> QED
  BY <1>1, Invariance, PTL
=============================================================================
