---------------------------- MODULE NaturalRecursion ----------------------------
(***************************************************************************)
(* Induction and recursion over an interval of naturals, stated with sets  *)
(* and functions instead of operators, as the proofs about the recursive   *)
(* functions of Rollout and ClientOptions use them.                        *)
(***************************************************************************)
EXTENDS Integers, WellFoundedInduction, TLAPS

\* A set of naturals has a least element.
LEMMA LeastNatural ==
  ASSUME NEW T \in SUBSET Nat, T # {}
  PROVE  \E x \in T : \A y \in T : x <= y
<1> DEFINE R == {p \in Nat \X Nat : p[1] < p[2]}
<1>1. IsWellFoundedOn(R, Nat)
  BY NatLessThanWellFounded DEF OpToRel
<1>2. PICK x \in T : \A y \in T : ~(<<y, x>> \in R)
  <2> HIDE DEF R
  <2> QED
    BY <1>1, WFMin
<1>3. ASSUME NEW y \in T
      PROVE  x <= y
  <2>1. x \in Nat /\ y \in Nat
    OBVIOUS
  <2>2. <<y, x>> \in R <=> y < x
    BY <2>1
  <2>3. ~(y < x)
    BY <1>2, <2>2
  <2> QED
    BY <2>1, <2>3
<1> QED
  BY <1>3

\* A set that holds 0 and goes on upwards holds all of 0..n.
LEMMA Upwards ==
  ASSUME NEW n \in Nat, NEW S,
         0 \in S, \A i \in 0..(n - 1) : i \in S => i + 1 \in S
  PROVE  \A i \in 0..n : i \in S
<1> DEFINE Outside == {i \in 0..n : i \notin S}
<1> SUFFICES ASSUME Outside # {}
             PROVE  FALSE
  OBVIOUS
<1>1. PICK x \in Outside : \A y \in Outside : x <= y
  <2>1. Outside \in SUBSET Nat
    OBVIOUS
  <2> HIDE DEF Outside
  <2> QED
    BY <2>1, LeastNatural
<1>2. x # 0 /\ x - 1 \in 0..(n - 1) /\ x - 1 \in S
  BY <1>1
<1> QED
  BY <1>1, <1>2

\* f runs from e over 0..n by the steps of F, with values in V.
Runs(f, n, V, e, F) ==
  /\ f \in [0..n -> V]
  /\ f[0] = e
  /\ \A i \in 1..n : f[i] = F[<<i, f[i - 1]>>]

\* A function over 0..n may be defined by its first value and a step from each
\* value to the next.
LEMMA Recursion ==
  ASSUME NEW n \in Nat, NEW V, NEW e \in V, NEW F \in [(1..n) \X V -> V]
  PROVE  \E f : Runs(f, n, V, e, F)
<1> DEFINE Obeys(k, f) == Runs(f, k, V, e, F)
           S == {k \in 0..n : \E f : Obeys(k, f)}
<1> USE DEF Runs
<1>1. 0 \in S
  <2>1. [i \in 0..0 |-> e] \in [0..0 -> V] /\ [i \in 0..0 |-> e][0] = e
    OBVIOUS
  <2>2. \A i \in 1..0 : FALSE
    OBVIOUS
  <2>3. Obeys(0, [i \in 0..0 |-> e])
    BY <2>1, <2>2
  <2>4. 0 \in 0..n
    OBVIOUS
  <2> HIDE DEF Obeys
  <2> QED
    BY <2>3, <2>4
<1>2. ASSUME NEW k \in 0..(n - 1), k \in S
      PROVE  k + 1 \in S
  <2>1. PICK f : Obeys(k, f)
    BY <1>2
  <2> DEFINE next == F[<<k + 1, f[k]>>]
             g == [i \in 0..(k + 1) |-> IF i = k + 1 THEN next ELSE f[i]]
  <2>2. next \in V
    BY <2>1
  <2>3. \A i \in 0..k : g[i] = f[i]
    OBVIOUS
  <2>4. g \in [0..(k + 1) -> V] /\ g[0] = e /\ g[k + 1] = next
    <3> HIDE DEF next
    <3> QED
      BY <2>1, <2>2
  <2>5. ASSUME NEW i \in 1..(k + 1)
        PROVE  g[i] = F[<<i, g[i - 1]>>]
    <3>1. i - 1 \in 0..k /\ g[i - 1] = f[i - 1]
      BY <2>3
    <3>2. CASE i = k + 1
      <4>1. i - 1 = k /\ g[i] = next
        BY <3>2, <2>4
      <4> QED
        BY <4>1, <3>1, <3>2
    <3>3. CASE i # k + 1
      <4>1. i \in 1..k /\ i \in 0..k
        BY <3>3
      <4>2. g[i] = f[i] /\ f[i] = F[<<i, f[i - 1]>>]
        BY <4>1, <2>1, <2>3
      <4> QED
        BY <4>2, <3>1
    <3> QED
      BY <3>2, <3>3
  <2>6. k + 1 \in 0..n
    OBVIOUS
  <2>7. Obeys(k + 1, g)
    <3> HIDE DEF g
    <3> QED
      BY <2>4, <2>5
  <2> QED
    BY <2>6, <2>7
<1>3. n \in S
  <2> HIDE DEF S
  <2> QED
    BY <1>1, <1>2, Upwards
<1> QED
  BY <1>3
=============================================================================
