-------------------------------- MODULE Rollout --------------------------------
(***************************************************************************)
(* evaluate/rollout.go and the bucket of evaluate/hash.go.                 *)
(*                                                                         *)
(* A percentage or a weight, a float64 in the code, is a number of 1/Scale *)
(* percent, so that the conversion int(percentage) loses something; a time *)
(* is a number of ticks.                                                   *)
(***************************************************************************)
EXTENDS Conditions, Sequences

CONSTANTS
  Scale,            \* units in a percent
  HashPercent(_, _) \* the bucket of a key and a salt

ASSUME ScaleIsPositive == Scale \in Nat \ {0}

Bucket == 0..99
Whole == 100 * Scale

\* What a rollout or an evaluation answers: a value and an error, "nil" if none.
Ok(v) == [value |-> v, err |-> "nil"]
Error(v, err) == [value |-> v, err |-> err]
-----------------------------------------------------------------------------
(***************************************************************************)
(* The bucketing key.  A flat context maps names to values; a name is a    *)
(* sequence of the parts that dots separate.                               *)
(***************************************************************************)
NoKey == <<>>

Has(attrs, name) == name \in DOMAIN attrs /\ attrs[name] # Nil

getStableRolloutKey(attrs) ==
  LET text(name) == toComparableString(attrs[name])
  IN  IF Has(attrs, <<"kind">>) /\ Has(attrs, <<"key">>)
      THEN <<text(<<"kind">>), text(<<"key">>)>>
      ELSE IF Has(attrs, <<"user_id">>) /\ text(<<"user_id">>) # ""
      THEN <<text(<<"user_id">>)>>
      ELSE NoKey
-----------------------------------------------------------------------------
(***************************************************************************)
(* Percentage rollouts                                                     *)
(***************************************************************************)
\* bucket < int(percentage).
BelowPercentage(bucket, pct) == bucket < pct \div Scale

\* Whether a user in the bucket is in a rollout of pct.
Enabled(bucket, pct) ==
  pct >= Whole \/ (pct > 0 /\ BelowPercentage(bucket, pct))

applyPercentageRollout(pct, salt, attrs, type, fallback) ==
  LET key == getStableRolloutKey(attrs)
  IN  IF type # "boolean"
      THEN Error(coerceType(fallback, type), "ErrPercentageNonBoolean")
      ELSE IF key = NoKey
      THEN Error(coerceType(fallback, type), "ErrMissingRolloutKey")
      ELSE Ok(Bool(Enabled(HashPercent(key, salt), pct)))
-----------------------------------------------------------------------------
(***************************************************************************)
(* Gradual rollouts: records with fields target, increment, interval,      *)
(* started (StartAt is set), start and salt                                *)
(***************************************************************************)
\* The percentage does not pass the target.  Mutated form: it does.
Uncapped(pct, target) == pct
Capped(pct, target) == IF pct > target THEN target ELSE pct

computeCurrentPercentage(r, now) ==
  IF ~r.started \/ now < r.start THEN 0
  ELSE IF r.interval <= 0 \/ r.increment <= 0 THEN r.target
  ELSE Capped(((now - r.start) \div r.interval) * r.increment, r.target)

applyGradualRollout(r, attrs, type, fallback, now) ==
  IF type # "boolean"
  THEN Error(coerceType(fallback, type), "ErrGradualNonBoolean")
  ELSE applyPercentageRollout(computeCurrentPercentage(r, now), r.salt, attrs, type, fallback)
-----------------------------------------------------------------------------
(***************************************************************************)
(* Variant rollouts: a sequence of records with fields variation, weight   *)
(***************************************************************************)
\* The weights of the first i variants, added up.
Cumulative(variants) ==
  LET sum[i \in 0..Len(variants)] ==
        IF i = 0 THEN 0 ELSE sum[i - 1] + variants[i].weight
  IN  sum

\* The weights add up to 100, give or take a thousandth.
AddUp(variants) ==
  LET off == Cumulative(variants)[Len(variants)] - Whole
  IN  -Scale <= 1000 * off /\ 1000 * off <= Scale

\* bucket < cumulative.  Mutated form: <=.
UpTo(bucket, sum) == bucket * Scale <= sum
Below(bucket, sum) == bucket * Scale < sum

\* The variants whose share the bucket is in: the first whose cumulative weight
\* is above it, or none.
Chosen(variants, bucket) ==
  LET sum == Cumulative(variants)
      above == {i \in 1..Len(variants) : Below(bucket, sum[i])}
  IN  {i \in above : \A j \in above : i <= j}

applyVariantRollout(r, attrs, variations, fallback) ==
  LET key == getStableRolloutKey(attrs)
      chosen == Chosen(r.variants, HashPercent(key, r.salt))
      id == r.variants[CHOOSE i \in chosen : TRUE].variation
  IN  IF r.variants = <<>> THEN Ok(fallback)
      ELSE IF ~AddUp(r.variants) THEN Error(fallback, "ErrInvalidVariantWeights")
      ELSE IF key = NoKey THEN Error(fallback, "ErrMissingRolloutKey")
      ELSE IF chosen = {} THEN Ok(fallback)
      ELSE IF id \notin DOMAIN variations THEN Error(fallback, "ErrMissingVariation")
      ELSE Ok(variations[id])
-----------------------------------------------------------------------------
applyRollout(r, attrs, type, variations, fallback, now) ==
  CASE r.strategy = "percentage" ->
         applyPercentageRollout(r.percentage, r.salt, attrs, type, fallback)
    [] r.strategy = "variant" -> applyVariantRollout(r, attrs, variations, fallback)
    [] r.strategy = "gradual" -> applyGradualRollout(r, attrs, type, fallback, now)
    [] OTHER                  -> Ok(coerceType(fallback, type))
=============================================================================
