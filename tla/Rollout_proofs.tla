----------------------------- MODULE Rollout_proofs -----------------------------
(***************************************************************************)
(* What the weights of a variant rollout make of the hundred buckets, for  *)
(* any number of variants and any Scale.                                   *)
(***************************************************************************)
EXTENDS Rollout, NaturalRecursion, FiniteSetTheorems, TLAPS

\* Variants whose weights are numbers, as a parsed configuration has them.
Weighted(variants) ==
  /\ Len(variants) \in Nat
  /\ \A i \in 1..Len(variants) : variants[i].weight \in Int

\* The cumulative weights begin with 0 and grow by one weight at a time.
LEMMA CumulativeWeights ==
  ASSUME NEW variants, Weighted(variants)
  PROVE  /\ Cumulative(variants) \in [0..Len(variants) -> Int]
         /\ Cumulative(variants)[0] = 0
         /\ \A i \in 1..Len(variants) :
              Cumulative(variants)[i] = Cumulative(variants)[i - 1] + variants[i].weight
<1> DEFINE n == Len(variants)
           Add == [p \in (1..n) \X Int |-> p[2] + variants[p[1]].weight]
           Sums(f) == f = [i \in 0..n |-> IF i = 0 THEN 0 ELSE f[i - 1] + variants[i].weight]
           c == Cumulative(variants)
<1>1. n \in Nat /\ \A i \in 1..n : variants[i].weight \in Int
  BY DEF Weighted
<1> HIDE DEF n
<1>2. Add \in [(1..n) \X Int -> Int]
  BY <1>1
<1>3. PICK f : Runs(f, n, Int, 0, Add)
  <2>1. n \in Nat /\ 0 \in Int
    BY <1>1
  <2> HIDE DEF Add
  <2> QED
    BY <1>2, <2>1, Recursion
<1>4. /\ f \in [0..n -> Int] /\ f[0] = 0
      /\ \A i \in 1..n : f[i] = f[i - 1] + variants[i].weight
  <2>1. f \in [0..n -> Int] /\ f[0] = 0
    BY <1>3 DEF Runs
  <2>2. ASSUME NEW i \in 1..n
        PROVE  f[i] = f[i - 1] + variants[i].weight
    <3>1. f[i - 1] \in Int
      BY <1>1, <2>1
    <3>2. f[i] = Add[<<i, f[i - 1]>>]
      <4> HIDE DEF Add
      <4> QED
        BY <1>3 DEF Runs
    <3> QED
      BY <3>1, <3>2
  <2> QED
    BY <2>1, <2>2
<1>5. Sums(f)
  BY <1>1, <1>4
<1>6. Sums(c)
  <2>1. c = CHOOSE g : Sums(g)
    BY DEF Cumulative, n
  <2> HIDE DEF Sums, c
  <2> QED
    BY <1>5, <2>1
<1> HIDE DEF c
<1>7. /\ c[0] = 0
      /\ \A i \in 1..n : c[i] = c[i - 1] + variants[i].weight
  BY <1>1, <1>6
<1>8. c = f
  <2> DEFINE S == {i \in 0..n : c[i] = f[i]}
  <2>1. 0 \in S
    BY <1>1, <1>4, <1>7
  <2>2. ASSUME NEW i \in 0..(n - 1), i \in S
        PROVE  i + 1 \in S
    <3>1. i + 1 \in 1..n /\ i + 1 \in 0..n /\ (i + 1) - 1 = i
      BY <1>1
    <3>2. /\ c[i + 1] = c[i] + variants[i + 1].weight
          /\ f[i + 1] = f[i] + variants[i + 1].weight
      BY <1>4, <1>7, <3>1
    <3> QED
      BY <2>2, <3>1, <3>2
  <2>3. \A i \in 0..n : i \in S
    <3> HIDE DEF S
    <3> QED
      BY <1>1, <2>1, <2>2, Upwards
  <2>4. c = [i \in 0..n |-> c[i]]
    BY <1>6
  <2> QED
    BY <1>4, <2>3, <2>4
<1> QED
  BY <1>4, <1>8 DEF c, n
-----------------------------------------------------------------------------
\* Legal weights are not negative.
Legal(variants) ==
  Weighted(variants) /\ \A i \in 1..Len(variants) : variants[i].weight >= 0

LEMMA CumulativeGrows ==
  ASSUME NEW variants, Legal(variants), NEW i \in 0..Len(variants), NEW j \in i..Len(variants)
  PROVE  Cumulative(variants)[i] <= Cumulative(variants)[j]
<1> DEFINE n == Len(variants)
           c == Cumulative(variants)
           S == {k \in 0..n : k < i \/ c[i] <= c[k]}
<1>1. /\ n \in Nat /\ \A k \in 1..n : variants[k].weight \in Int /\ variants[k].weight >= 0
      /\ c \in [0..n -> Int] /\ \A k \in 1..n : c[k] = c[k - 1] + variants[k].weight
  BY CumulativeWeights DEF Legal, Weighted
<1> HIDE DEF n, c
<1>2. i \in 0..n /\ j \in i..n
  BY DEF n
<1>3. 0 \in S
  BY <1>1, <1>2
<1>4. ASSUME NEW k \in 0..(n - 1), k \in S
      PROVE  k + 1 \in S
  <2>1. k + 1 \in 1..n /\ k + 1 \in 0..n /\ (k + 1) - 1 = k /\ k \in 0..n
    BY <1>1
  <2>2. c[k + 1] = c[k] + variants[k + 1].weight /\ variants[k + 1].weight >= 0
    BY <1>1, <2>1
  <2>3. c[k] \in Int /\ c[k + 1] \in Int /\ variants[k + 1].weight \in Int
    BY <1>1, <2>1
  <2>4. k + 1 < i \/ k + 1 = i \/ c[i] <= c[k]
    BY <1>2, <1>4
  <2>5. c[i] \in Int
    BY <1>1, <1>2
  <2> QED
    BY <2>1, <2>2, <2>3, <2>4, <2>5
<1>5. \A k \in 0..n : k \in S
  <2> HIDE DEF S
  <2> QED
    BY <1>1, <1>3, <1>4, Upwards
<1>6. j \in 0..n /\ ~(j < i)
  BY <1>1, <1>2
<1> QED
  BY <1>5, <1>6 DEF c

\* A bucket is in a variant's share when it lies between two cumulative weights.
LEMMA ChosenBetween ==
  ASSUME NEW variants, Legal(variants), NEW b \in Bucket, NEW i \in 1..Len(variants)
  PROVE  i \in Chosen(variants, b)
           <=> /\ Cumulative(variants)[i - 1] <= b * Scale
               /\ b * Scale < Cumulative(variants)[i]
<1> DEFINE n == Len(variants)
           c == Cumulative(variants)
           above == {k \in 1..n : Below(b, c[k])}
           x == b * Scale
<1>1. n \in Nat /\ c \in [0..n -> Int] /\ c[0] = 0
  BY CumulativeWeights DEF Legal, Weighted
<1>2. x \in Int /\ x >= 0
  BY ScaleIsPositive DEF Bucket
<1>3. \A k \in 0..n : \A m \in k..n : c[k] <= c[m]
  BY CumulativeGrows
<1>4. i \in Chosen(variants, b) <=> i \in above /\ \A k \in above : i <= k
  BY DEF Chosen
<1>5. \A k \in 1..n : k \in above <=> x < c[k]
  BY DEF Below
<1>6. i \in 1..n /\ i - 1 \in 0..n /\ c[i] \in Int /\ c[i - 1] \in Int
  BY <1>1
<1> HIDE DEF n, c, above, x
<1>7. ASSUME i \in above, \A k \in above : i <= k
      PROVE  c[i - 1] <= x
  <2>1. CASE i = 1
    BY <1>1, <1>2, <2>1
  <2>2. CASE i # 1
    <3>1. i - 1 \in 1..n /\ ~(i <= i - 1)
      BY <1>1, <1>6, <2>2
    <3>2. ~(x < c[i - 1])
      BY <1>5, <1>7, <3>1
    <3> QED
      BY <1>2, <1>6, <3>2
  <2> QED
    BY <2>1, <2>2
<1>8. ASSUME c[i - 1] <= x, NEW k \in above
      PROVE  i <= k
  <2>1. k \in 1..n /\ x < c[k] /\ c[k] \in Int
    BY <1>1, <1>5 DEF above
  <2>2. SUFFICES ASSUME k < i
                 PROVE  FALSE
    BY <1>6, <2>1
  <2>3. k \in 0..n /\ i - 1 \in k..n
    BY <1>1, <1>6, <2>1, <2>2
  <2>4. c[k] <= c[i - 1]
    BY <1>3, <2>3
  <2> QED
    BY <1>2, <1>6, <1>8, <2>1, <2>4
<1> QED
  BY <1>4, <1>5, <1>6, <1>7, <1>8 DEF c, x

\* Multiples of Scale are Scale apart.
LEMMA Multiples ==
  ASSUME NEW a \in Int, NEW b \in Int
  PROVE  /\ a * Scale \in Int
         /\ a <= b => a * Scale <= b * Scale
         /\ a < b => a * Scale + Scale <= b * Scale
BY ScaleIsPositive

\* The number of buckets below a weight x: x over Scale, rounded up.
LEMMA Ceiling ==
  ASSUME NEW x \in Nat
  PROVE  \E q \in Nat : /\ x <= q * Scale /\ q * Scale < x + Scale
                       /\ \A b \in Nat : x <= b * Scale <=> q <= b
<1> DEFINE T == {q \in Nat : x <= q * Scale}
<1>1. x \in T
  BY ScaleIsPositive
<1>2. PICK q \in T : \A p \in T : q <= p
  <2>1. T \in SUBSET Nat /\ T # {}
    BY <1>1
  <2> HIDE DEF T
  <2> QED
    BY <2>1, LeastNatural
<1>3. q \in Nat /\ x <= q * Scale
  OBVIOUS
<1>4. q * Scale < x + Scale
  <2>1. CASE q = 0
    BY <1>3, <2>1, ScaleIsPositive
  <2>2. CASE q # 0
    <3>1. q - 1 \in Nat /\ q - 1 \notin T
      BY <1>2, <1>3, <2>2
    <3>2. (q - 1) * Scale < x
      BY <3>1, Multiples
    <3>3. (q - 1) * Scale = q * Scale - Scale
      BY <1>3, ScaleIsPositive
    <3> QED
      BY <3>2, <3>3, Multiples, ScaleIsPositive
  <2> QED
    BY <2>1, <2>2
<1>5. ASSUME NEW b \in Nat
      PROVE  x <= b * Scale <=> q <= b
  <2>1. x <= b * Scale => q <= b
    BY <1>2
  <2>2. q <= b => x <= b * Scale
    BY <1>3, Multiples
  <2> QED
    BY <2>1, <2>2
<1> QED
  BY <1>3, <1>4, <1>5
-----------------------------------------------------------------------------
\* Weights that add up leave no bucket without a variant.
LEMMA EveryBucketIsChosen ==
  ASSUME NEW variants, Legal(variants), AddUp(variants), NEW b \in Bucket
  PROVE  \E i \in 1..Len(variants) : i \in Chosen(variants, b)
<1> DEFINE n == Len(variants)
           c == Cumulative(variants)
           x == b * Scale
           T == {k \in 1..n : x < c[k]}
<1>1. n \in Nat /\ c \in [0..n -> Int] /\ c[0] = 0
  BY CumulativeWeights DEF Legal, Weighted
<1>2. x \in Int /\ x >= 0 /\ x <= 99 * Scale
  BY Multiples, ScaleIsPositive DEF Bucket
<1>3. x < c[n]
  <2>1. -Scale <= 1000 * (c[n] - Whole)
    BY DEF AddUp
  <2> HIDE DEF c, n, x
  <2> QED
    BY <1>1, <1>2, <2>1, ScaleIsPositive DEF Whole
<1> HIDE DEF c, n, x
<1>4. n \in T
  BY <1>1, <1>2, <1>3
<1>5. PICK i \in T : \A k \in T : i <= k
  <2>1. T \in SUBSET Nat /\ T # {}
    BY <1>4
  <2> HIDE DEF T
  <2> QED
    BY <2>1, LeastNatural
<1>6. i \in Chosen(variants, b)
  BY <1>5 DEF Chosen, Below, c, x, n
<1> QED
  BY <1>6 DEF n

\* The buckets between two weights are an interval.
LEMMA ShareIsInterval ==
  ASSUME NEW variants, Legal(variants), NEW i \in 1..Len(variants),
         NEW low \in Nat, NEW high \in Nat, low <= high,
         \A b \in Nat : Cumulative(variants)[i - 1] <= b * Scale <=> low <= b,
         \A b \in Nat : Cumulative(variants)[i] <= b * Scale <=> high <= b
  PROVE  LET share == {b \in Bucket : i \in Chosen(variants, b)}
         IN  /\ IsFiniteSet(share)
             /\ Cardinality(share) = CASE high <= 100              -> high - low
                                       [] high > 100 /\ low <= 100 -> 100 - low
                                       [] OTHER                    -> 0
<1> DEFINE share == {b \in Bucket : i \in Chosen(variants, b)}
           top == IF high <= 100 THEN high ELSE 100
<1>1. /\ Cumulative(variants)[i - 1] \in Int /\ Cumulative(variants)[i] \in Int
      /\ \A b \in Bucket : b \in Nat /\ b * Scale \in Int
  <2>1. Len(variants) \in Nat /\ Cumulative(variants) \in [0..Len(variants) -> Int]
    BY CumulativeWeights DEF Legal, Weighted
  <2>2. i - 1 \in 0..Len(variants) /\ i \in 0..Len(variants)
    BY <2>1
  <2>3. \A b \in Bucket : b \in Nat /\ b * Scale \in Int
    BY Multiples, SMTT(30) DEF Bucket
  <2> QED
    BY <2>1, <2>2, <2>3
<1>2. \A b \in Bucket : i \in Chosen(variants, b) <=> low <= b /\ b < high
  <2> TAKE b \in Bucket
  <2>1. b \in Nat /\ b * Scale \in Int
    BY <1>1
  <2>2. b * Scale < Cumulative(variants)[i] <=> ~(high <= b)
    BY <1>1, <2>1
  <2> QED
    BY <2>1, <2>2, ChosenBetween
<1>3. share = low..(top - 1)
  <2>1. ASSUME NEW b \in share
        PROVE  b \in low..(top - 1)
    <3>1. b \in 0..99 /\ low <= b /\ b < high
      BY <1>2, <2>1 DEF Bucket
    <3> QED
      BY <3>1
  <2>2. ASSUME NEW b \in low..(top - 1)
        PROVE  b \in share
    <3>1. b \in Bucket /\ low <= b /\ b < high
      BY <2>2 DEF Bucket
    <3> QED
      BY <1>2, <3>1
  <2> HIDE DEF share
  <2> QED
    BY <2>1, <2>2
<1>4. low \in Int /\ top - 1 \in Int
  OBVIOUS
<1>5. /\ IsFiniteSet(share)
      /\ Cardinality(share) = IF low > top - 1 THEN 0 ELSE (top - 1) - low + 1
  <2> HIDE DEF share, top
  <2>1. /\ IsFiniteSet(low..(top - 1))
        /\ Cardinality(low..(top - 1)) = IF low > top - 1 THEN 0 ELSE (top - 1) - low + 1
    BY <1>4, FS_Interval
  <2> QED
    BY <1>3, <2>1
<1> HIDE DEF share
<1> QED
  BY <1>5 DEF share

\* A variant has as many buckets as its weight says, give or take one and what the
\* weights exceed 100 by.
LEMMA ShareSize ==
  ASSUME NEW variants, Legal(variants), NEW i \in 1..Len(variants)
  PROVE  LET error == Scale * Cardinality({b \in Bucket : i \in Chosen(variants, b)})
                        - variants[i].weight
             excess == Cumulative(variants)[Len(variants)] - Whole
         IN  /\ error < Scale
             /\ -Scale < error \/ -Scale < error + excess
<1> DEFINE n == Len(variants)
           c == Cumulative(variants)
           count == Cardinality({b \in Bucket : i \in Chosen(variants, b)})
           x == c[i - 1]
           y == c[i]
<1>1. /\ n \in Nat /\ c \in [0..n -> Int] /\ c[0] = 0
      /\ c[i] = c[i - 1] + variants[i].weight
      /\ variants[i].weight \in Int /\ variants[i].weight >= 0
  BY CumulativeWeights DEF Legal, Weighted
<1>2. x \in Nat /\ y \in Nat /\ x <= y /\ y <= c[n] /\ c[n] \in Int /\ variants[i].weight = y - x
  <2>1. 0 \in 0..n /\ i - 1 \in 0..n /\ i \in 0..n /\ n \in i..n
    BY <1>1
  <2>2. c[0] <= c[i - 1] /\ c[i] <= c[n]
    BY <2>1, CumulativeGrows DEF n
  <2> HIDE DEF c, n
  <2> QED
    BY <1>1, <2>1, <2>2
<1>3. PICK low \in Nat : /\ x <= low * Scale /\ low * Scale < x + Scale
                        /\ \A b \in Nat : x <= b * Scale <=> low <= b
  BY <1>2, Ceiling
<1>4. PICK high \in Nat : /\ y <= high * Scale /\ high * Scale < y + Scale
                         /\ \A b \in Nat : y <= b * Scale <=> high <= b
  BY <1>2, Ceiling
<1>5. low <= high
  <2>1. y <= high * Scale /\ high * Scale \in Int
    BY <1>4, Multiples
  <2>2. x <= high * Scale
    BY <1>2, <2>1
  <2> QED
    BY <1>3, <2>2
<1>6. count = CASE high <= 100              -> high - low
                [] high > 100 /\ low <= 100 -> 100 - low
                [] OTHER                    -> 0
  BY <1>3, <1>4, <1>5, ShareIsInterval
<1>7. /\ low * Scale \in Int /\ high * Scale \in Int
      /\ high > 100 => 100 * Scale < y
      /\ low > 100 => 100 * Scale < x
  <2>1. high > 100 => ~(y <= 100 * Scale)
    BY <1>4
  <2>2. low > 100 => ~(x <= 100 * Scale)
    BY <1>3
  <2> QED
    BY <1>2, <2>1, <2>2, Multiples, ScaleIsPositive
<1> DEFINE p == low * Scale
           q == high * Scale
           r == 100 * Scale
           size == Scale * count
<1>8. /\ p \in Int /\ q \in Int /\ r \in Int /\ Scale \in Int /\ Scale > 0
      /\ x <= p /\ p < x + Scale /\ y <= q /\ q < y + Scale
      /\ high > 100 => r < y
      /\ low > 100 => r < x
  BY <1>3, <1>4, <1>7, ScaleIsPositive
<1>9. /\ high <= 100 => size = q - p
      /\ high > 100 /\ low <= 100 => size = r - p
      /\ high > 100 /\ low > 100 => size = 0
  <2>1. /\ Scale * (high - low) = high * Scale - low * Scale
        /\ Scale * (100 - low) = 100 * Scale - low * Scale
        /\ Scale * 0 = 0
    BY ScaleIsPositive
  <2>2. /\ high <= 100 => count = high - low
        /\ high > 100 /\ low <= 100 => count = 100 - low
        /\ high > 100 /\ low > 100 => count = 0
    <3> HIDE DEF count
    <3> QED
      BY <1>6
  <2> HIDE DEF count
  <2> QED
    BY <2>1, <2>2
<1>10. /\ size - (y - x) < Scale
       /\ -Scale < size - (y - x) \/ -Scale < size - (y - x) + (c[n] - r)
  <2> HIDE DEF c, n, x, y, p, q, r, size
  <2>1. CASE high <= 100
    <3>1. size = q - p
      BY <1>9, <2>1
    <3> QED
      BY <1>2, <1>8, <3>1, SMTT(30)
  <2>2. CASE high > 100 /\ low <= 100
    <3>1. size = r - p /\ r < y
      BY <1>8, <1>9, <2>2
    <3> QED
      BY <1>2, <1>8, <3>1
  <2>3. CASE low > 100
    <3>1. size = 0 /\ r < x
      BY <1>5, <1>8, <1>9, <2>3
    <3> QED
      BY <1>2, <1>8, <3>1
  <2> QED
    BY <2>1, <2>2, <2>3
<1>11. variants[i].weight = y - x
  BY <1>2
<1> QED
  BY <1>10, <1>11 DEF Whole
=============================================================================
