------------------------- MODULE ClientSessions_proofs -------------------------
(***************************************************************************)
(* Proofs about contexts, the cache and clients that share it, for any     *)
(* number of clients, keys, contexts, options and restarts.                *)
(***************************************************************************)
EXTENDS ClientSessions, NaturalRecursion, FiniteSetTheorems, TLAPS

(***************************************************************************)
(* Contexts                                                                *)
(***************************************************************************)
\* contextsEqual calls two contexts equal only when they are.
THEOREM EqualIsSound ==
  ASSUME NEW a, NEW b, IsFiniteSet(DOMAIN a), IsFiniteSet(DOMAIN b),
         a = [n \in DOMAIN a |-> a[n]], b = [n \in DOMAIN b |-> b[n]],
         "equal" \in contextsEqual(a, b)
  PROVE  a = b
<1>1. Cardinality(DOMAIN a) = Cardinality(DOMAIN b)
  BY DEF contextsEqual
<1>2. \A n \in DOMAIN a : ~PanicsAt(a, b, n) /\ ~DiffersAt(a, b, n)
  BY <1>1 DEF contextsEqual
<1>3. DOMAIN a \subseteq DOMAIN b /\ \A n \in DOMAIN a : a[n] = b[n]
  BY <1>2 DEF PanicsAt, DiffersAt
<1>4. DOMAIN a = DOMAIN b
  BY <1>1, <1>3, FS_Subset
<1> QED
  BY <1>3, <1>4

\* It panics only over a map or a list that both have under the same name.
THEOREM PanicNeedsNesting ==
  ASSUME NEW a, NEW b, "panic" \in contextsEqual(a, b)
  PROVE  \E n \in DOMAIN a \cap DOMAIN b : Uncomparable(a[n]) /\ Uncomparable(b[n])
<1>1. \E n \in DOMAIN a : PanicsAt(a, b, n)
  BY DEF contextsEqual
<1> QED
  BY <1>1 DEF PanicsAt, ComparePanics, Uncomparable

\* Comparing a context with itself panics as soon as it has a map or a list, as the
\* first FetchFlags does with a multi-context.
THEOREM NestedAlwaysPanics ==
  ASSUME NEW a, NEW n \in DOMAIN a, Uncomparable(a[n])
  PROVE  contextsEqual(a, a) = {"panic"}
<1>1. PanicsAt(a, a, n)
  BY DEF PanicsAt, ComparePanics
<1>2. \A m \in DOMAIN a : ~DiffersAt(a, a, m)
  BY DEF DiffersAt
<1> QED
  BY <1>1, <1>2 DEF contextsEqual

\* Local evaluation and the server see the same attributes of a context that has no
\* user or organization, has a key, and whose attributes avoid kind and key.
THEOREM LocalAndServerAgree ==
  ASSUME NEW ctx, ctx.user = {}, ctx.organization = {}, ctx.key # "",
         <<"kind">> \notin DOMAIN ctx.attributes, <<"key">> \notin DOMAIN ctx.attributes
  PROVE  MarshalJSON(ctx) = Flatten(ctx)
<1> DEFINE kind  == Entry(<<"kind">>, String(ctx.kind))
           key   == Entry(<<"key">>, String(ctx.key))
           attrs == ctx.attributes
<1>1. MarshalJSON(ctx) = Over(Over(Empty, Empty), Over(attrs, Over(kind, key)))
  BY DEF MarshalJSON, Nested, Top, UnlessEmpty
<1>2. Flatten(ctx) = Over(Over(Empty, Empty), Over(Over(kind, key), attrs))
  BY DEF Flatten, Flat, Entity
<1>3. DOMAIN Over(kind, key) = {<<"kind">>, <<"key">>}
  BY DEF Over, Entry
<1> HIDE DEF attrs, kind, key
<1>4. \A f, g : DOMAIN f \cap DOMAIN g = {} => Over(f, g) = Over(g, f)
  BY DEF Over
<1>5. DOMAIN attrs \cap DOMAIN Over(kind, key) = {}
  BY <1>3 DEF attrs
<1>6. Over(attrs, Over(kind, key)) = Over(Over(kind, key), attrs)
  BY <1>4, <1>5
<1> QED
  BY <1>1, <1>2, <1>6

-----------------------------------------------------------------------------
(***************************************************************************)
(* A context that is written as JSON and read back                         *)
(***************************************************************************)
\* Maps, without their definitions: h has the entries of f, and those of g beside them.
Merges(h, f, g) ==
  /\ DOMAIN h = DOMAIN f \cup DOMAIN g
  /\ \A n \in DOMAIN f : h[n] = f[n]
  /\ \A n \in DOMAIN g \ DOMAIN f : h[n] = g[n]

LEMMA OverMerges ==
  ASSUME NEW f, NEW g
  PROVE  Merges(Over(f, g), f, g)
BY DEF Over, Merges

LEMMA OneEntry ==
  ASSUME NEW n, NEW v
  PROVE  DOMAIN Entry(n, v) = {n} /\ Entry(n, v)[n] = v
BY DEF Entry

LEMMA EmptyIsEmpty == DOMAIN Empty = {}
BY DEF Empty

LEMMA EntryUnlessEmpty ==
  ASSUME NEW n, NEW t
  PROVE  IF t = "" THEN DOMAIN UnlessEmpty(n, t) = {}
         ELSE DOMAIN UnlessEmpty(n, t) = {n} /\ UnlessEmpty(n, t)[n] = String(t)
BY EmptyIsEmpty, OneEntry DEF UnlessEmpty

LEMMA Names ==
  /\ <<"kind">> # <<"key">> /\ <<"kind">> # <<"attributes">> /\ <<"key">> # <<"attributes">>
  /\ \A name \in {<<"kind">>, <<"key">>, <<"attributes">>} : name # <<"user">> /\ name # <<"organization">>
  /\ <<"user">> # <<"organization">>
OBVIOUS

LEMMA Constructors ==
  /\ \A t : Kind(String(t)) = "string" /\ String(t)[2] = t
  /\ \A m : Kind(Map(m)) = "map" /\ Map(m)[2] = m
  /\ \A t : ReadNumber(String(t)) = String(t) /\ ReadValue(String(t)) = String(t)
BY DEF Kind, String, Map, ReadNumber, ReadValue

\* An object whose kind and key are texts, or missing when empty, and that has no
\* member called attributes, is read as an entity with that kind and key.
Tells(obj, kind, key) ==
  /\ IF <<"kind">> \in DOMAIN obj THEN obj[<<"kind">>] = String(kind) ELSE kind = ""
  /\ IF <<"key">> \in DOMAIN obj THEN obj[<<"key">>] = String(key) ELSE key = ""
  /\ <<"attributes">> \notin DOMAIN obj

LEMMA ToldIsRead ==
  ASSUME NEW obj, NEW kind, NEW key, Tells(obj, kind, key)
  PROVE  /\ EntityFits(obj)
         /\ ReadString(obj, <<"kind">>) = kind /\ ReadString(obj, <<"key">>) = key
         /\ ReadMap(obj, <<"attributes">>) = Empty
BY Constructors DEF Tells, EntityFits, Fits, Holds, ReadString, ReadMap

LEMMA EntityTells ==
  ASSUME NEW e, Ordinary(e.attributes)
  PROVE  Tells([n \in DOMAIN MarshalEntity(e) |-> ReadNumber(MarshalEntity(e)[n])], e.kind, e.key)
<1> DEFINE M == MarshalEntity(e)
<1>1. /\ <<"key">> \in DOMAIN M /\ M[<<"key">>] = String(e.key)
      /\ IF <<"kind">> \in DOMAIN M THEN M[<<"kind">>] = String(e.kind) ELSE e.kind = ""
      /\ <<"attributes">> \notin DOMAIN M
  <2> DEFINE k == UnlessEmpty(<<"kind">>, e.kind)
             w == Entry(<<"key">>, String(e.key))
  <2>1. IF e.kind = "" THEN DOMAIN k = {} ELSE DOMAIN k = {<<"kind">>} /\ k[<<"kind">>] = String(e.kind)
    BY EntryUnlessEmpty
  <2>2. DOMAIN w = {<<"key">>} /\ w[<<"key">>] = String(e.key)
    BY OneEntry
  <2> HIDE DEF k, w
  <2>3. M = Over(e.attributes, Over(k, w))
    BY DEF MarshalEntity, k, w
  <2> HIDE DEF M
  <2> DEFINE a == e.attributes
             kw == Over(k, w)
  <2>4. Merges(kw, k, w)
    BY OverMerges
  <2>5. M = Over(a, kw)
    BY <2>3
  <2> HIDE DEF kw
  <2>a. Merges(Over(a, kw), a, kw)
    BY OverMerges
  <2>6. Merges(M, a, kw)
    BY <2>5, <2>a
  <2>7. <<"kind">> \notin DOMAIN a /\ <<"key">> \notin DOMAIN a /\ <<"attributes">> \notin DOMAIN a
    BY DEF Ordinary
  <2> HIDE DEF a
  <2>8. <<"key">> \notin DOMAIN k /\ <<"key">> \in DOMAIN kw /\ kw[<<"key">>] = String(e.key)
    BY <2>1, <2>2, <2>4, Names DEF Merges
  <2>9. IF <<"kind">> \in DOMAIN kw THEN kw[<<"kind">>] = String(e.kind) ELSE e.kind = ""
    BY <2>1, <2>2, <2>4, Names DEF Merges
  <2>10. <<"attributes">> \notin DOMAIN kw
    BY <2>1, <2>2, <2>4, Names DEF Merges
  <2> QED
    BY <2>6, <2>7, <2>8, <2>9, <2>10 DEF Merges
<1> HIDE DEF M
<1> QED
  BY <1>1, Constructors DEF Tells, M

\* What is left of an entity and of a context.
Bare(e) == [kind |-> e.kind, key |-> e.key, attributes |-> Empty]
Stripped(ctx) ==
  [kind |-> ctx.kind, key |-> ctx.key, attributes |-> Empty,
   user |-> {Bare(e) : e \in ctx.user}, organization |-> {Bare(e) : e \in ctx.organization}]

\* What a context's JSON has under user, or organization.
LEMMA PointerIsRead ==
  ASSUME NEW entities, NEW obj, NEW name, \A e, f \in entities : e = f,
         \A e \in entities : Ordinary(e.attributes),
         IF entities = {} THEN name \notin DOMAIN obj
         ELSE name \in DOMAIN obj /\ obj[name] = ReadValue(Map(MarshalEntity(The(entities))))
  PROVE  /\ Fits(obj, name, "map")
         /\ Holds(obj, name, "map") => EntityFits(obj[name][2])
         /\ ReadPointer(obj, name) = {Bare(e) : e \in entities}
<1>1. CASE entities = {}
  BY <1>1 DEF Fits, Holds, ReadPointer
<1>2. CASE entities # {}
  <2> DEFINE e == The(entities)
             o == [n \in DOMAIN MarshalEntity(e) |-> ReadNumber(MarshalEntity(e)[n])]
  <2>1. entities = {e}
    BY <1>2 DEF The
  <2>2. obj[name] = Map(o) /\ name \in DOMAIN obj
    BY <1>2, Constructors DEF ReadValue
  <2> HIDE DEF e
  <2>3. Tells(o, e.kind, e.key)
    BY <2>1, EntityTells
  <2> HIDE DEF o
  <2>4. /\ EntityFits(o) /\ ReadString(o, <<"kind">>) = e.kind /\ ReadString(o, <<"key">>) = e.key
        /\ ReadMap(o, <<"attributes">>) = Empty
    BY <2>3, ToldIsRead
  <2>5. ReadPointer(obj, name) = {ReadEntity(o)}
    BY <2>2, Constructors DEF ReadPointer, Holds
  <2>6. ReadEntity(o) = Bare(e)
    BY <2>4 DEF ReadEntity, Bare
  <2>7. ReadPointer(obj, name) = {Bare(d) : d \in entities}
    BY <2>1, <2>5, <2>6
  <2> QED
    BY <2>2, <2>4, <2>7, Constructors DEF Fits, Holds
<1> QED
  BY <1>1, <1>2

\* A context that is written as JSON and read back keeps whom it names and loses every
\* attribute, when none has the name of a field.
THEOREM RoundTripStrips ==
  ASSUME NEW ctx, Plain(ctx), \A e, f \in ctx.user : e = f, \A e, f \in ctx.organization : e = f
  PROVE  Unmarshal(evalContextToMap(ctx)) = {Stripped(ctx)}
<1> DEFINE M   == MarshalJSON(ctx)
           obj == [n \in DOMAIN M |-> ReadValue(M[n])]
<1> DEFINE t == Top(ctx)
           u == Nested("user", ctx.user)
           o == Nested("organization", ctx.organization)
<1>a. /\ <<"kind">> \in DOMAIN t /\ t[<<"kind">>] = String(ctx.kind)
      /\ IF <<"key">> \in DOMAIN t THEN t[<<"key">>] = String(ctx.key) ELSE ctx.key = ""
      /\ DOMAIN t \subseteq {<<"kind">>, <<"key">>}
  <2> DEFINE k == Entry(<<"kind">>, String(ctx.kind))
             w == UnlessEmpty(<<"key">>, ctx.key)
  <2>1. DOMAIN k = {<<"kind">>} /\ k[<<"kind">>] = String(ctx.kind)
    BY OneEntry
  <2>2. IF ctx.key = "" THEN DOMAIN w = {} ELSE DOMAIN w = {<<"key">>} /\ w[<<"key">>] = String(ctx.key)
    BY EntryUnlessEmpty
  <2> HIDE DEF k, w
  <2>3. t = Over(k, w)
    BY DEF Top, k, w
  <2> HIDE DEF t
  <2>4. Merges(Over(k, w), k, w)
    BY OverMerges
  <2> QED
    BY <2>1, <2>2, <2>3, <2>4, Names DEF Merges
<1>b. /\ IF ctx.user = {} THEN DOMAIN u = {}
         ELSE DOMAIN u = {<<"user">>} /\ u[<<"user">>] = Map(MarshalEntity(The(ctx.user)))
      /\ IF ctx.organization = {} THEN DOMAIN o = {}
         ELSE /\ DOMAIN o = {<<"organization">>}
              /\ o[<<"organization">>] = Map(MarshalEntity(The(ctx.organization)))
  BY EmptyIsEmpty, OneEntry DEF Nested
<1>c. Ordinary(ctx.attributes)
  BY DEF Plain
<1> HIDE DEF t, u, o
<1>d. M = Over(Over(u, o), Over(ctx.attributes, t))
  BY DEF MarshalJSON, t, u, o
<1> HIDE DEF M
<1> DEFINE uo == Over(u, o)
           at == Over(ctx.attributes, t)
<1>e. Merges(uo, u, o)
  BY OverMerges
<1>f. Merges(at, ctx.attributes, t)
  BY OverMerges
<1>g. Merges(M, uo, at)
  <2>1. M = Over(uo, at)
    BY <1>d
  <2> HIDE DEF uo, at
  <2>2. Merges(Over(uo, at), uo, at)
    BY OverMerges
  <2> QED
    BY <2>1, <2>2
<1>h. /\ <<"kind">> \notin DOMAIN ctx.attributes /\ <<"key">> \notin DOMAIN ctx.attributes
      /\ <<"attributes">> \notin DOMAIN ctx.attributes
      /\ <<"user">> \notin DOMAIN ctx.attributes /\ <<"organization">> \notin DOMAIN ctx.attributes
  BY <1>c DEF Ordinary
<1> HIDE DEF uo, at
<1>i. DOMAIN u \subseteq {<<"user">>} /\ DOMAIN o \subseteq {<<"organization">>}
  BY <1>b
<1>j. <<"kind">> \notin DOMAIN uo /\ <<"key">> \notin DOMAIN uo /\ <<"attributes">> \notin DOMAIN uo
  BY <1>e, <1>i, Names DEF Merges
<1>k. <<"user">> \notin DOMAIN at /\ <<"organization">> \notin DOMAIN at
  BY <1>a, <1>f, <1>h, Names DEF Merges
<1>1. /\ <<"kind">> \in DOMAIN M /\ M[<<"kind">>] = String(ctx.kind)
      /\ IF <<"key">> \in DOMAIN M THEN M[<<"key">>] = String(ctx.key) ELSE ctx.key = ""
      /\ <<"attributes">> \notin DOMAIN M
  <2>1. <<"attributes">> \notin DOMAIN t
    BY <1>a, Names
  <2> QED
    BY <2>1, <1>a, <1>f, <1>g, <1>h, <1>j DEF Merges
<1>2. IF ctx.user = {} THEN <<"user">> \notin DOMAIN M
      ELSE <<"user">> \in DOMAIN M /\ M[<<"user">>] = Map(MarshalEntity(The(ctx.user)))
  BY <1>b, <1>e, <1>g, <1>i, <1>k, Names DEF Merges
<1>3. IF ctx.organization = {} THEN <<"organization">> \notin DOMAIN M
      ELSE /\ <<"organization">> \in DOMAIN M
           /\ M[<<"organization">>] = Map(MarshalEntity(The(ctx.organization)))
  BY <1>b, <1>e, <1>g, <1>i, <1>k, Names DEF Merges
<1>4. evalContextToMap(ctx) = obj
  BY DEF evalContextToMap, M
<1>5. Tells(obj, ctx.kind, ctx.key)
  BY <1>1, Constructors DEF Tells
<1>6. IF ctx.user = {} THEN <<"user">> \notin DOMAIN obj
      ELSE <<"user">> \in DOMAIN obj /\ obj[<<"user">>] = ReadValue(Map(MarshalEntity(The(ctx.user))))
  BY <1>2
<1>7. IF ctx.organization = {} THEN <<"organization">> \notin DOMAIN obj
      ELSE /\ <<"organization">> \in DOMAIN obj
           /\ obj[<<"organization">>] = ReadValue(Map(MarshalEntity(The(ctx.organization))))
  BY <1>3
<1> HIDE DEF obj
<1>8. /\ EntityFits(obj)
      /\ ReadString(obj, <<"kind">>) = ctx.kind /\ ReadString(obj, <<"key">>) = ctx.key
      /\ ReadMap(obj, <<"attributes">>) = Empty
  BY <1>5, ToldIsRead
<1>9. /\ Fits(obj, <<"user">>, "map")
      /\ Holds(obj, <<"user">>, "map") => EntityFits(obj[<<"user">>][2])
      /\ ReadPointer(obj, <<"user">>) = {Bare(e) : e \in ctx.user}
  BY <1>6, PointerIsRead DEF Plain
<1>10. /\ Fits(obj, <<"organization">>, "map")
       /\ Holds(obj, <<"organization">>, "map") => EntityFits(obj[<<"organization">>][2])
       /\ ReadPointer(obj, <<"organization">>) = {Bare(e) : e \in ctx.organization}
  BY <1>7, PointerIsRead DEF Plain
<1>11. ContextFits(obj)
  BY <1>8, <1>9, <1>10 DEF ContextFits
<1> QED
  BY <1>4, <1>8, <1>9, <1>10, <1>11 DEF Unmarshal, Stripped

LEMMA StrippedIdentity ==
  ASSUME NEW ctx
  PROVE  Identity(Stripped(ctx)) = Identity(ctx)
<1>1. ASSUME NEW E
      PROVE  Keys({Bare(e) : e \in E}) = Keys(E)
  <2>1. \A e \in E : <<Bare(e).kind, Bare(e).key>> = <<e.kind, e.key>>
    BY DEF Bare
  <2>2. Keys({Bare(e) : e \in E}) = {<<Bare(e).kind, Bare(e).key>> : e \in E}
    BY Zenon DEF Keys
  <2> QED
    BY <2>1, <2>2 DEF Keys
<1> QED
  BY <1>1 DEF Identity, Stripped

\* JSON keeps whom a context names, when no attribute has the name of a field.
THEOREM IdentityRoundTrip ==
  ASSUME NEW ctx, Plain(ctx), \A e, f \in ctx.user : e = f, \A e, f \in ctx.organization : e = f
  PROVE  {Identity(d) : d \in Unmarshal(evalContextToMap(ctx))} = {Identity(ctx)}
<1>1. Unmarshal(evalContextToMap(ctx)) = {Stripped(ctx)}
  BY RoundTripStrips
<1> QED
  BY <1>1, StrippedIdentity

-----------------------------------------------------------------------------
(***************************************************************************)
(* Options, applied one after the other                                    *)
(***************************************************************************)
Listed(options) ==
  /\ Len(options) \in Nat /\ DOMAIN options = 1..Len(options)
  /\ \A i \in 1..Len(options) : options[i].opt \in WithFunctions

\* Config is the last of a sequence of configurations: the default one, and one
\* after each option.
LEMMA OptionByOption ==
  ASSUME NEW endpoints, NEW options, Len(options) \in Nat
  PROVE  \E f : /\ f[0] = defaultConfig(endpoints)
                /\ \A i \in 1..Len(options) : f[i] = Apply(f[i - 1], options[i])
                /\ Config(endpoints, options) = f[Len(options)]
<1> DEFINE n == Len(options)
           e == defaultConfig(endpoints)
           Folds(f, k) == f = [i \in 0..k |-> IF i = 0 THEN e ELSE Apply(f[i - 1], options[i])]
           S == {k \in 0..n : \E f : Folds(f, k)}
<1> HIDE DEF n, e
<1>0. n \in Nat
  BY DEF n
<1>1. 0 \in S
  <2>1. Folds([i \in 0..0 |-> e], 0)
    OBVIOUS
  <2>2. 0 \in 0..n
    BY <1>0
  <2> HIDE DEF Folds
  <2> QED
    BY <2>1, <2>2
<1>2. ASSUME NEW k \in 0..(n - 1), k \in S
      PROVE  k + 1 \in S
  <2>1. PICK f : Folds(f, k)
    BY <1>2
  <2> DEFINE next == Apply(f[k], options[k + 1])
             g == [i \in 0..(k + 1) |-> IF i = k + 1 THEN next ELSE f[i]]
  <2>2. k \in Nat /\ k + 1 \in 0..n
    BY <1>0
  <2>3. \A i \in 0..k : g[i] = f[i]
    BY <2>2
  <2>4. g[k + 1] = next
    BY <2>2
  <2>5. ASSUME NEW i \in 0..(k + 1)
        PROVE  g[i] = IF i = 0 THEN e ELSE Apply(g[i - 1], options[i])
    <3>1. CASE i = k + 1
      <4>1. i - 1 = k /\ i # 0 /\ k \in 0..k
        BY <2>2, <3>1
      <4>2. g[i - 1] = f[k]
        BY <2>3, <4>1
      <4> HIDE DEF g
      <4> QED
        BY <2>4, <3>1, <4>1, <4>2
    <3>2. CASE i # k + 1
      <4>1. i \in 0..k /\ (i # 0 => i - 1 \in 0..k)
        BY <2>2, <3>2
      <4>2. f[i] = IF i = 0 THEN e ELSE Apply(f[i - 1], options[i])
        BY <2>1, <4>1
      <4>3. g[i] = f[i] /\ (i # 0 => g[i - 1] = f[i - 1])
        BY <2>3, <4>1
      <4> HIDE DEF g, Folds
      <4> QED
        BY <4>2, <4>3
    <3> QED
      BY <3>1, <3>2
  <2>6. Folds(g, k + 1)
    <3>1. g = [i \in 0..(k + 1) |-> g[i]]
      OBVIOUS
    <3> HIDE DEF g
    <3> QED
      BY <2>5, <3>1
  <2> HIDE DEF Folds
  <2> QED
    BY <2>2, <2>6
<1>3. PICK f : Folds(f, n)
  <2>1. \A k \in 0..n : k \in S
    <3> HIDE DEF S
    <3> QED
      BY <1>0, <1>1, <1>2, Upwards
  <2>2. n \in S
    <3>1. n \in 0..n
      BY <1>0
    <3> HIDE DEF S
    <3> QED
      BY <2>1, <3>1
  <2> HIDE DEF Folds
  <2> QED
    BY <2>2
<1> DEFINE after == CHOOSE g : Folds(g, n)
<1>4. Folds(after, n)
  <2> HIDE DEF Folds
  <2> QED
    BY <1>3
<1>5. Config(endpoints, options) = after[n]
  BY DEF Config, n, e
<1> HIDE DEF after
<1>6. after[0] = e /\ \A i \in 1..n : after[i] = Apply(after[i - 1], options[i])
  BY <1>0, <1>4
<1> QED
  BY <1>5, <1>6 DEF n, e

\* The options with one of these names among the first k, the last of them.
LastBy(options, names, k) ==
  LET those == {i \in 1..k : options[i].opt \in names}
  IN  {options[i] : i \in {i \in those : \A j \in those : j <= i}}

LEMMA NoneYet ==
  ASSUME NEW options, NEW names
  PROVE  LastBy(options, names, 0) = {}
BY DEF LastBy

LEMMA NextLast ==
  ASSUME NEW options, NEW k \in Nat, NEW names
  PROVE  LastBy(options, names, k + 1) =
           IF options[k + 1].opt \in names THEN {options[k + 1]} ELSE LastBy(options, names, k)
<1> DEFINE those(m) == {i \in 1..m : options[i].opt \in names}
           last(m) == {i \in those(m) : \A j \in those(m) : j <= i}
<1>2. ASSUME options[k + 1].opt \in names
      PROVE  last(k + 1) = {k + 1}
  BY <1>2
<1>3. ASSUME options[k + 1].opt \notin names
      PROVE  last(k + 1) = last(k)
  <2>1. those(k + 1) = those(k)
    BY <1>3
  <2> HIDE DEF those
  <2> QED
    BY <2>1
<1>4. \A m : LastBy(options, names, m) = {options[i] : i \in last(m)}
  BY DEF LastBy
<1> HIDE DEF last
<1>5. CASE options[k + 1].opt \in names
  BY <1>2, <1>4, <1>5
<1>6. CASE options[k + 1].opt \notin names
  BY <1>3, <1>4, <1>6
<1> QED
  BY <1>5, <1>6

\* What the first k options have made of the default configuration.
Follows(cfg, endpoints, options, k) ==
  /\ DOMAIN cfg = DOMAIN defaultConfig(endpoints)
  /\ cfg.context = {o.context : o \in LastBy(options, {"WithContext"}, k)}
  /\ cfg.cacheAdapter = {o.adapter : o \in LastBy(options, {"WithCacheAdapter"}, k)}
  /\ cfg.enableCache <=>
       \E o \in LastBy(options, {"WithCache", "WithCacheAdapter"}, k) :
         ~(o.opt = "WithCache" /\ ~o.enabled)

LEMMA ApplyFollows ==
  ASSUME NEW endpoints, NEW options, NEW k \in Nat, NEW cfg,
         Follows(cfg, endpoints, options, k), options[k + 1].opt \in WithFunctions
  PROVE  Follows(Apply(cfg, options[k + 1]), endpoints, options, k + 1)
<1> DEFINE o == options[k + 1]
           L(names, m) == LastBy(options, names, m)
           new == Apply(cfg, o)
<1>1. \A names : L(names, k + 1) = IF o.opt \in names THEN {o} ELSE L(names, k)
  <2> TAKE names
  <2> HIDE DEF o, L
  <2>1. LastBy(options, names, k + 1) =
          IF options[k + 1].opt \in names THEN {options[k + 1]} ELSE LastBy(options, names, k)
    BY NextLast
  <2> QED
    BY <2>1, Zenon DEF o, L
<1>2. DOMAIN cfg = {"context", "mode", "enableCache", "cacheAdapter", "rest", "ws", "deferInit", "localEvaluation"}
  BY DEF Follows, defaultConfig
<1>3. /\ L({"WithContext"}, k + 1) = IF o.opt = "WithContext" THEN {o} ELSE L({"WithContext"}, k)
      /\ L({"WithCacheAdapter"}, k + 1) = IF o.opt = "WithCacheAdapter" THEN {o} ELSE L({"WithCacheAdapter"}, k)
      /\ L({"WithCache", "WithCacheAdapter"}, k + 1) =
           IF o.opt \in {"WithCache", "WithCacheAdapter"} THEN {o} ELSE L({"WithCache", "WithCacheAdapter"}, k)
  BY <1>1
<1> HIDE DEF o, L
<1>4. /\ DOMAIN cfg = DOMAIN defaultConfig(endpoints)
      /\ cfg.context = {d.context : d \in L({"WithContext"}, k)}
      /\ cfg.cacheAdapter = {d.adapter : d \in L({"WithCacheAdapter"}, k)}
      /\ cfg.enableCache <=>
           \E d \in L({"WithCache", "WithCacheAdapter"}, k) : ~(d.opt = "WithCache" /\ ~d.enabled)
  BY DEF Follows, L
<1> SUFFICES
      /\ DOMAIN new = DOMAIN cfg
      /\ new.context = {d.context : d \in L({"WithContext"}, k + 1)}
      /\ new.cacheAdapter = {d.adapter : d \in L({"WithCacheAdapter"}, k + 1)}
      /\ new.enableCache <=>
           \E d \in L({"WithCache", "WithCacheAdapter"}, k + 1) : ~(d.opt = "WithCache" /\ ~d.enabled)
  BY <1>4 DEF Follows, L, o
<1>5. o.opt \in WithFunctions
  BY DEF o
<1>6. CASE o.opt = "WithContext"
  BY <1>2, <1>3, <1>4, <1>6 DEF Apply
<1>7. CASE o.opt = "WithTransportMode"
  BY <1>2, <1>3, <1>4, <1>7 DEF Apply
<1>8. CASE o.opt = "WithCache"
  BY <1>2, <1>3, <1>4, <1>8 DEF Apply
<1>9. CASE o.opt = "WithCacheAdapter"
  <2>1. new = [cfg EXCEPT !.cacheAdapter = {o.adapter}, !.enableCache = TRUE]
    BY <1>9 DEF Apply, WithCacheAdapter
  <2>2. /\ DOMAIN new = DOMAIN cfg /\ new.context = cfg.context
        /\ new.cacheAdapter = {o.adapter} /\ new.enableCache = TRUE
    BY <1>2, <2>1
  <2> HIDE DEF new
  <2>3. /\ L({"WithContext"}, k + 1) = L({"WithContext"}, k)
        /\ L({"WithCacheAdapter"}, k + 1) = {o}
        /\ L({"WithCache", "WithCacheAdapter"}, k + 1) = {o}
    BY <1>3, <1>9
  <2> QED
    BY <1>4, <1>9, <2>2, <2>3
<1>10. CASE o.opt = "WithEndpoints"
  BY <1>2, <1>3, <1>4, <1>10 DEF Apply
<1>11. CASE o.opt = "WithDeferInit"
  BY <1>2, <1>3, <1>4, <1>11 DEF Apply
<1>12. CASE o.opt = "WithLocalEvaluation"
  BY <1>2, <1>3, <1>4, <1>12 DEF Apply
<1> QED
  BY <1>5, <1>6, <1>7, <1>8, <1>9, <1>10, <1>11, <1>12 DEF WithFunctions

\* A configuration is what its options say, last ones first.
LEMMA OptionsFollowed ==
  ASSUME NEW endpoints, NEW options, Listed(options)
  PROVE  Follows(Config(endpoints, options), endpoints, options, Len(options))
<1> DEFINE n == Len(options)
<1>1. n \in Nat /\ \A i \in 1..n : options[i].opt \in WithFunctions
  BY DEF Listed
<1>2. PICK f : /\ f[0] = defaultConfig(endpoints)
               /\ \A i \in 1..n : f[i] = Apply(f[i - 1], options[i])
               /\ Config(endpoints, options) = f[n]
  BY <1>1, OptionByOption
<1> DEFINE S == {k \in 0..n : Follows(f[k], endpoints, options, k)}
<1> HIDE DEF n
<1>3. 0 \in S
  <2>1. \A names : LastBy(options, names, 0) = {}
    BY NoneYet
  <2>2. Follows(f[0], endpoints, options, 0)
    BY <1>2, <2>1 DEF Follows, defaultConfig
  <2> QED
    BY <1>1, <2>2
<1>4. ASSUME NEW k \in 0..(n - 1), k \in S
      PROVE  k + 1 \in S
  <2>1. k \in Nat /\ k + 1 \in 1..n /\ k + 1 \in 0..n /\ (k + 1) - 1 = k
    BY <1>1
  <2>2. f[k + 1] = Apply(f[k], options[k + 1]) /\ options[k + 1].opt \in WithFunctions
    BY <1>1, <1>2, <2>1
  <2>3. Follows(Apply(f[k], options[k + 1]), endpoints, options, k + 1)
    BY <1>4, <2>1, <2>2, ApplyFollows
  <2> QED
    BY <2>1, <2>2, <2>3
<1>5. n \in S
  <2>1. \A k \in 0..n : k \in S
    <3> HIDE DEF S
    <3> QED
      BY <1>1, <1>3, <1>4, Upwards
  <2>2. n \in 0..n
    BY <1>1
  <2> HIDE DEF S
  <2> QED
    BY <2>1, <2>2
<1> QED
  BY <1>2, <1>5 DEF n

-----------------------------------------------------------------------------
(***************************************************************************)
(* The invariant                                                           *)
(***************************************************************************)
Shape(r) ==
  r = [field \in {"start", "pc", "context", "last", "link", "flags", "waiting", "held", "saving"}
         |-> r[field]]

\* Flags of key k, at time t no older than their restores and their ways explain.
EntryInv(k, flags, t) ==
  /\ flags \in Flags /\ flags.key = k
  /\ t \in Nat /\ flags.born <= t
  /\ TTL > 0 => t - flags.born <= flags.lives * TTL + flags.waited

\* The same of flags that have been on their way since an earlier time.
UpdateInv(k, u, t) == EntryInv(k, u.flags, u.since) /\ u.since <= t

ClientInv(r, t) ==
  /\ Shape(r) /\ ClientOK(r)
  /\ \A f \in r.flags : f.key = r.start.key
  /\ \A u \in r.held \cup r.saving : UpdateInv(r.start.key, u, t)

ClientsInv(cs, t) ==
  /\ cs = [c \in Client |-> cs[c]]
  /\ \A c \in Client : \A r, q \in cs[c] : r = q /\ ClientInv(r, t)

StoreInv(st, t) ==
  /\ st = [adapter |-> st.adapter, flags |-> st.flags, contexts |-> st.contexts]
  /\ st.adapter \in Adapter
  /\ st.flags = [k \in Key |-> st.flags[k]] /\ st.contexts = [k \in Key |-> st.contexts[k]]
  /\ \A k \in Key : \A e \in st.flags[k] : EntryInv(k, e.flags, e.storedAt) /\ e.storedAt <= t

\* The contexts in the store are those that were told, in the way of the adapter.
Kept(st, td, k) ==
  /\ td[k] \subseteq Context
  /\ \A a, b \in td[k] : a = b
  /\ st.contexts[k] = {Encode(st.adapter, ctx) : ctx \in td[k]}
ToldInv(st, td) ==
  /\ td = [k \in Key |-> td[k]]
  /\ \A k \in Key : Kept(st, td, k)

CountersInv == now \in 0..MaxTime /\ starts \in 0..MaxStarts /\ updates \in 0..MaxUpdates

IInv ==
  /\ ClientsInv(client, now)
  /\ StoreInv(store, now)
  /\ ToldInv(store, told)
  /\ CountersInv

USE BoundsAreNumbers

\* What the steps do to the clients.
LEMMA NobodyIsLeft == \A t : ClientsInv([c \in Client |-> {}], t)
BY DEF ClientsInv

LEMMA OneBecomes ==
  ASSUME NEW t, ClientsInv(client, t), NEW c \in Client, NEW r, ClientInv(r, t), Become(c, r)
  PROVE  ClientsInv(client', t)
<1>1. client' = [client EXCEPT ![c] = {}] \/ client' = [client EXCEPT ![c] = {r}]
  BY DEF Become
<1>2. client' = [d \in Client |-> client'[d]] /\ client'[c] \subseteq {r}
  BY <1>1 DEF ClientsInv
<1>3. \A d \in Client \ {c} : client'[d] = client[d]
  BY <1>1 DEF ClientsInv
<1> QED
  BY <1>2, <1>3 DEF ClientsInv

LEMMA TheClient ==
  ASSUME ClientsInv(client, now), NEW c \in Client, client[c] # {}
  PROVE  /\ The(client[c]) \in client[c] /\ ClientInv(The(client[c]), now)
         /\ \A pc : At(c, pc) => The(client[c]).pc = pc
BY DEF ClientsInv, The, At

\* What they do to the store.
LEMMA NewStoreInv ==
  ASSUME NEW a \in Adapter, NEW t
  PROVE  StoreInv(NewStore(a, Key), t) /\ ToldInv(NewStore(a, Key), NoTells)
BY DEF NewStore, StoreInv, ToldInv, Kept, NoTells

LEMMA StoreFields ==
  \A a, f, c : DOMAIN [adapter |-> a, flags |-> f, contexts |-> c] = {"adapter", "flags", "contexts"}
OBVIOUS

LEMMA SaveFlagsInv ==
  ASSUME NEW st, NEW t \in Nat, StoreInv(st, t), NEW td, ToldInv(st, td),
         NEW k \in Key, NEW flags, EntryInv(k, flags, t)
  PROVE  StoreInv(SaveFlags(st, k, flags, t), t) /\ ToldInv(SaveFlags(st, k, flags, t), td)
<1>1. CASE st.adapter = "nop"
  BY <1>1 DEF SaveFlags
<1>2. CASE st.adapter # "nop"
  <2> DEFINE new == [st EXCEPT !.flags[k] = {[flags |-> flags, storedAt |-> t]}]
  <2>1. SaveFlags(st, k, flags, t) = new
    BY <1>2 DEF SaveFlags
  <2>2. DOMAIN st = {"adapter", "flags", "contexts"}
    BY StoreFields DEF StoreInv
  <2>3. /\ new = [adapter |-> new.adapter, flags |-> new.flags, contexts |-> new.contexts]
        /\ new.adapter = st.adapter /\ new.contexts = st.contexts
        /\ new.flags = [st.flags EXCEPT ![k] = {[flags |-> flags, storedAt |-> t]}]
    BY <2>2
  <2> HIDE DEF new
  <2>4. ToldInv(new, td)
    BY <2>3 DEF ToldInv, Kept
  <2>5. \A i \in Key : \A e \in new.flags[i] : EntryInv(i, e.flags, e.storedAt) /\ e.storedAt <= t
    BY <2>3 DEF StoreInv
  <2>6. StoreInv(new, t)
    BY <2>3, <2>5 DEF StoreInv
  <2> QED
    BY <2>1, <2>4, <2>6
<1> QED
  BY <1>1, <1>2

LEMMA SaveContextInv ==
  ASSUME NEW st, NEW t, StoreInv(st, t), NEW td, ToldInv(st, td), st.adapter # "nop",
         NEW k \in Key, NEW ctx \in Context
  PROVE  StoreInv(SaveContext(st, k, ctx), t) /\ ToldInv(SaveContext(st, k, ctx), [td EXCEPT ![k] = {ctx}])
<1> DEFINE new == [st EXCEPT !.contexts[k] = {Encode(st.adapter, ctx)}]
<1>1. SaveContext(st, k, ctx) = new
  BY DEF SaveContext
<1>2. DOMAIN st = {"adapter", "flags", "contexts"}
  BY StoreFields DEF StoreInv
<1>3. /\ new = [adapter |-> new.adapter, flags |-> new.flags, contexts |-> new.contexts]
      /\ new.adapter = st.adapter /\ new.flags = st.flags
      /\ new.contexts = [st.contexts EXCEPT ![k] = {Encode(st.adapter, ctx)}]
  BY <1>2
<1> HIDE DEF new
<1>4. StoreInv(new, t)
  BY <1>3 DEF StoreInv
<1>5. ToldInv(new, [td EXCEPT ![k] = {ctx}])
  <2> DEFINE tell == [td EXCEPT ![k] = {ctx}]
  <2>1. /\ tell = [i \in Key |-> tell[i]] /\ tell[k] = {ctx}
        /\ \A i \in Key \ {k} : tell[i] = td[i]
    BY DEF ToldInv
  <2> HIDE DEF tell
  <2>2. /\ new.contexts[k] = {Encode(new.adapter, ctx)}
        /\ \A i \in Key \ {k} : new.contexts[i] = st.contexts[i]
    BY <1>3 DEF StoreInv
  <2>3. \A i \in Key \ {k} : Kept(new, tell, i)
    BY <1>3, <2>1, <2>2 DEF ToldInv, Kept
  <2>4. Kept(new, tell, k)
    BY <2>1, <2>2 DEF Kept
  <2>5. ToldInv(new, tell)
    BY <2>1, <2>3, <2>4 DEF ToldInv
  <2> QED
    BY <2>5 DEF tell
<1> QED
  BY <1>1, <1>4, <1>5

\* What is loaded was saved for the key, and is as old as its restores explain even
\* when it is saved once more.
LEMMA LoadedAgain ==
  ASSUME NEW st, NEW t \in 0..MaxTime, StoreInv(st, t), NEW k \in Key,
         NEW f \in LoadFlags(st, k, TTL, t)
  PROVE  EntryInv(k, [f EXCEPT !.lives = @ + 1], t)
<1>1. PICK e \in st.flags[k] : f = e.flags /\ ~Expired(st, e, TTL, t)
  BY DEF LoadFlags
<1>2. EntryInv(k, f, e.storedAt) /\ e.storedAt <= t
  BY <1>1 DEF StoreInv
<1>3. f \in Flags /\ f.key = k /\ f.lives \in Nat /\ f.born \in 0..MaxTime /\ f.waited \in Nat
  BY <1>2 DEF EntryInv, Flags
<1>4. TTL > 0 => t - e.storedAt <= TTL
  BY <1>1, <1>2 DEF Expired, EntryInv
<1> DEFINE g == [f EXCEPT !.lives = @ + 1]
<1>5. /\ g \in Flags /\ g.key = k /\ g.born = f.born /\ g.lives = f.lives + 1
      /\ g.waited = f.waited
  BY <1>3 DEF Flags
<1>6. g.lives * TTL = f.lives * TTL + TTL
  <2>1. \A l, m \in Nat : (l + 1) * m = l * m + m
    OBVIOUS
  <2> QED
    BY <2>1, <1>3, <1>5
<1>7. f.lives * TTL \in Nat
  BY <1>3
<1> HIDE DEF g
<1>8. ASSUME TTL > 0
      PROVE  t - g.born <= g.lives * TTL + g.waited
  <2> DEFINE l == f.lives * TTL
  <2>1. e.storedAt \in Nat /\ e.storedAt - f.born <= l + f.waited /\ t - e.storedAt <= TTL /\ l \in Nat
    BY <1>2, <1>4, <1>7, <1>8 DEF EntryInv
  <2>2. g.lives * TTL = l + TTL
    BY <1>6
  <2> HIDE DEF l
  <2>3. t - f.born <= l + TTL + f.waited
    BY <2>1, <1>3
  <2> QED
    BY <2>1, <2>2, <2>3, <1>3, <1>5
<1>9. t \in Nat /\ g.born <= t
  BY <1>2, <1>3, <1>5 DEF EntryInv
<1>10. EntryInv(k, g, t)
  BY <1>5, <1>8, <1>9 DEF EntryInv
<1> QED
  BY <1>10 DEF g

\* What is saved is as old as that and its way to the adapter.
LEMMA SavedLater ==
  ASSUME NEW k, NEW u, now \in Nat, UpdateInv(k, u, now)
  PROVE  EntryInv(k, Saved(u), now)
<1> DEFINE f == u.flags
           g == Saved(u)
           way == now - u.since
<1>1. f \in Flags /\ f.key = k /\ u.since \in Nat /\ f.born <= u.since /\ u.since <= now
  BY DEF UpdateInv, EntryInv
<1>2. f.lives \in Nat /\ f.born \in Nat /\ f.waited \in Nat /\ way \in Nat
  BY <1>1 DEF Flags
<1>3. /\ g \in Flags /\ g.key = k /\ g.born = f.born /\ g.lives = f.lives
      /\ g.waited = f.waited + way
  <2>1. g = [f EXCEPT !.waited = @ + way]
    BY DEF Saved
  <2> HIDE DEF f, g, way
  <2> QED
    BY <2>1, <1>1, <1>2 DEF Flags
<1>4. ASSUME TTL > 0
      PROVE  now - g.born <= g.lives * TTL + g.waited
  <2> DEFINE l == f.lives * TTL
  <2>1. u.since - f.born <= l + f.waited
    BY <1>4 DEF UpdateInv, EntryInv
  <2>2. l \in Nat
    BY <1>2
  <2>3. g.lives * TTL = l
    BY <1>3
  <2> HIDE DEF l, f, g
  <2> QED
    BY <2>1, <2>2, <2>3, <1>1, <1>2, <1>3
<1> HIDE DEF g
<1>5. EntryInv(k, g, now)
  BY <1>1, <1>2, <1>3, <1>4 DEF EntryInv
<1> QED
  BY <1>5 DEF g

LEMMA LoadedContexts ==
  ASSUME NEW st, NEW td, ToldInv(st, td), NEW t, StoreInv(st, t), NEW k \in Key
  PROVE  LoadContext(st, k) \subseteq Restorable
BY DEF ToldInv, Kept, StoreInv, LoadContext, Restorable

LEMMA EndOfProcess ==
  ASSUME IInv, NEW compared, ProcessEnds(compared), starts' \in 0..MaxStarts
  PROVE  IInv'
<1>1. StoreInv(store', now') /\ ToldInv(store', told')
  <2>1. CASE store.adapter = "redis"
    BY <2>1 DEF IInv, ProcessEnds
  <2>2. CASE store.adapter # "redis"
    <3>1. store' = NewStore(store.adapter, Key) /\ told' = NoTells /\ store.adapter \in Adapter
      BY <2>2 DEF IInv, StoreInv, ProcessEnds
    <3> QED
      BY <3>1, NewStoreInv
  <2> QED
    BY <2>1, <2>2
<1>2. ClientsInv(client', now')
  BY NobodyIsLeft DEF ProcessEnds
<1> QED
  BY <1>1, <1>2 DEF IInv, CountersInv, ProcessEnds

-----------------------------------------------------------------------------
(***************************************************************************)
(* The steps of one client                                                 *)
(***************************************************************************)
\* A step that only changes what the client is.
LEMMA OnlyTheClient ==
  ASSUME IInv, NEW c \in Client, NEW r, ClientInv(r, now), Become(c, r),
         UNCHANGED <<store, now, updates, told>>, starts' \in 0..MaxStarts
  PROVE  IInv'
<1>1. ClientsInv(client', now')
  BY OneBecomes DEF IInv
<1> QED
  BY <1>1 DEF IInv, CountersInv

LEMMA ClientFields ==
  ASSUME NEW r, Shape(r)
  PROVE  DOMAIN r = {"start", "pc", "context", "last", "link", "flags", "waiting", "held", "saving"}
BY DEF Shape

LEMMA OneMoreStart ==
  ASSUME IInv, starts < MaxStarts, starts' = starts + 1
  PROVE  starts' \in 0..MaxStarts
BY DEF IInv, CountersInv

LEMMA NewClientStep ==
  ASSUME IInv, NEW c \in Client, NEW s \in Start, NewClient(c, s)
  PROVE  IInv'
<1> DEFINE pc == IF ConfigOf(s).deferInit THEN "deferred" ELSE "restoreContext"
           r == [start |-> s, pc |-> pc,
                 context |-> ConfigOf(s).context, last |-> Empty, link |-> "none",
                 flags |-> {}, waiting |-> {}, held |-> {}, saving |-> {}]
<1>1. s \in Runnable /\ s.key \in Key /\ Become(c, r)
  BY StartsAreTyped DEF NewClient, Become
<1>2. ConfigOf(s).context \subseteq Given
  BY <1>1 DEF Given
<1>3. ClientInv(r, now)
  BY <1>1, <1>2 DEF ClientInv, Shape, ClientOK, Idle
<1>4. starts' \in 0..MaxStarts
  BY OneMoreStart DEF NewClient
<1> HIDE DEF r
<1> QED
  BY <1>1, <1>3, <1>4, OnlyTheClient DEF NewClient

LEMMA NewClientRefusesStep ==
  ASSUME IInv, NEW c \in Client, NEW s \in Start, NewClientRefuses(c, s)
  PROVE  IInv'
<1>1. starts' \in 0..MaxStarts
  BY OneMoreStart DEF NewClientRefuses
<1>2. UNCHANGED <<client, store, now, updates, told>>
  BY DEF NewClientRefuses
<1> QED
  BY <1>1, <1>2 DEF IInv, CountersInv

LEMMA NewClientPanicsStep ==
  ASSUME IInv, NEW c \in Client, NEW s \in Start, NewClientPanics(c, s)
  PROVE  IInv'
<1>1. starts' \in 0..MaxStarts
  BY OneMoreStart DEF NewClientPanics
<1> QED
  BY <1>1, EndOfProcess DEF NewClientPanics

LEMMA ReadyStep ==
  ASSUME IInv, NEW c \in Client, Ready(c)
  PROVE  IInv'
<1> DEFINE q == The(client[c])
           r == [q EXCEPT !.pc = "restoreContext"]
<1>1. ClientInv(q, now) /\ q.pc = "deferred"
  BY TheClient DEF Ready, At, IInv
<1>2. Become(c, r)
  BY DEF Ready
<1> HIDE DEF q
<1>3. ClientInv(r, now)
  BY <1>1 DEF ClientInv, Shape, ClientOK, Idle
<1> HIDE DEF r
<1> QED
  BY <1>2, <1>3, OnlyTheClient DEF Ready, IInv, CountersInv

LEMMA RestoreContextStep ==
  ASSUME IInv, NEW c \in Client, RestoreContext(c)
  PROVE  IInv'
<1> DEFINE q == The(client[c])
           new == IF q.context # {} THEN q.context ELSE Restored(q)
           r == [q EXCEPT !.pc = "restoreFlags", !.context = new]
<1>1. ClientInv(q, now) /\ q.pc = "restoreContext"
  BY TheClient DEF RestoreContext, At, IInv
<1>2. Become(c, r)
  BY DEF RestoreContext
<1> HIDE DEF q
<1>3. q.start.key \in Key
  BY <1>1 DEF ClientInv, ClientOK
<1>4. new \subseteq Given \cup Restorable
  <2>1. Restored(q) \subseteq Restorable
    BY <1>3, LoadedContexts DEF Restored, IInv
  <2> QED
    BY <2>1, <1>1 DEF ClientInv, ClientOK, Idle
<1> HIDE DEF new
<1>5. ClientInv(r, now)
  <2>1. /\ Shape(r) /\ r.start = q.start /\ r.flags = q.flags /\ r.waiting = q.waiting
        /\ r.held = q.held /\ r.saving = q.saving
    BY <1>1, ClientFields DEF ClientInv, Shape
  <2>2. r.pc = "restoreFlags" /\ r.context = new /\ r.link = q.link
    BY <1>1, ClientFields DEF ClientInv
  <2> HIDE DEF r
  <2> QED
    BY <2>1, <2>2, <1>1, <1>4 DEF ClientInv, ClientOK, Idle
<1> HIDE DEF r
<1> QED
  BY <1>2, <1>5, OnlyTheClient DEF RestoreContext, IInv, CountersInv

LEMMA UpdateStoresStep ==
  ASSUME IInv, NEW c \in Client, UpdateStores(c)
  PROVE  IInv'
<1>1. PICK q \in client[c] : /\ q.held # {}
         /\ Become(c, [q EXCEPT !.flags = {u.flags : u \in q.held}, !.held = {},
                              !.saving = IF Shares(q) THEN q.held ELSE {}])
  BY DEF UpdateStores
<1> DEFINE stored == {u.flags : u \in q.held}
           rest == IF Shares(q) THEN q.held ELSE {}
           r == [q EXCEPT !.flags = stored, !.held = {}, !.saving = rest]
<1>2. ClientInv(q, now) /\ q.held # {} /\ Become(c, r)
  BY <1>1 DEF IInv, ClientsInv
<1>3. rest \subseteq q.held
  OBVIOUS
<1>4. \A u \in q.held : UpdateInv(q.start.key, u, now) /\ u.flags \in Flags /\ u.flags.key = q.start.key
  BY <1>2 DEF ClientInv, UpdateInv, EntryInv
<1>5. stored # {} /\ stored \subseteq Flags /\ \A f \in stored : f.key = q.start.key
  BY <1>2, <1>4
<1> HIDE DEF stored, rest
<1>6. ClientInv(r, now)
  <2>1. /\ Shape(r) /\ r.start = q.start /\ r.flags = stored /\ r.waiting = q.waiting
        /\ r.held = {} /\ r.saving = rest
    BY <1>2, ClientFields DEF ClientInv, Shape
  <2>2. r.pc = q.pc /\ r.context = q.context /\ r.link = q.link
    BY <1>2, ClientFields DEF ClientInv
  <2>3. q.pc \in {"connect", "live", "closed"}
    BY <1>2 DEF ClientInv, ClientOK, Idle
  <2> HIDE DEF r
  <2>4. ClientOK(r)
    BY <2>1, <2>2, <2>3, <1>2, <1>3, <1>5 DEF ClientInv, ClientOK
  <2> QED
    BY <2>1, <2>4, <1>3, <1>4, <1>5 DEF ClientInv
<1> HIDE DEF r
<1> QED
  BY <1>2, <1>6, OnlyTheClient DEF UpdateStores, IInv, CountersInv

LEMMA UpdateSavesStep ==
  ASSUME IInv, NEW c \in Client, UpdateSaves(c)
  PROVE  IInv'
<1>0. PICK q \in client[c] : \E u \in q.saving :
        /\ Become(c, [q EXCEPT !.saving = {}])
        /\ store' = SaveFlags(store, q.start.key, Saved(u), now)
  BY DEF UpdateSaves
<1>1. PICK u \in q.saving :
        /\ Become(c, [q EXCEPT !.saving = {}])
        /\ store' = SaveFlags(store, q.start.key, Saved(u), now)
  BY <1>0
<1> DEFINE r == [q EXCEPT !.saving = {}]
<1>2. ClientInv(q, now) /\ Become(c, r)
  BY <1>1 DEF IInv, ClientsInv
<1>3. ClientInv(r, now)
  <2>1. /\ Shape(r) /\ r.start = q.start /\ r.flags = q.flags /\ r.waiting = q.waiting
        /\ r.held = q.held /\ r.saving = {}
    BY <1>2, ClientFields DEF ClientInv, Shape
  <2>2. r.pc = q.pc /\ r.context = q.context /\ r.link = q.link
    BY <1>2, ClientFields DEF ClientInv
  <2> HIDE DEF r
  <2> QED
    BY <2>1, <2>2, <1>2 DEF ClientInv, ClientOK, Idle
<1> HIDE DEF r
<1>4. q.start.key \in Key /\ UpdateInv(q.start.key, u, now) /\ now \in Nat
  BY <1>2 DEF ClientInv, ClientOK, IInv, CountersInv
<1>5. EntryInv(q.start.key, Saved(u), now)
  BY <1>4, SavedLater
<1>6. StoreInv(store', now) /\ ToldInv(store', told)
  BY <1>1, <1>4, <1>5, SaveFlagsInv DEF IInv
<1>7. ClientsInv(client', now)
  BY <1>2, <1>3, OneBecomes DEF IInv
<1> QED
  BY <1>6, <1>7 DEF UpdateSaves, IInv, CountersInv

LEMMA RestoreFlagsStep ==
  ASSUME IInv, NEW c \in Client, RestoreFlags(c)
  PROVE  IInv'
<1> DEFINE q == The(client[c])
           loaded == {[flags |-> [f EXCEPT !.lives = @ + 1], since |-> now] : f \in Loaded(q)}
           r == [q EXCEPT !.pc = "connect", !.held = loaded]
<1>1. ClientInv(q, now) /\ q.pc = "restoreFlags"
  BY TheClient DEF RestoreFlags, At, IInv
<1>2. Become(c, r)
  BY DEF RestoreFlags
<1> HIDE DEF q
<1>3. q.start.key \in Key /\ now \in 0..MaxTime
  BY <1>1 DEF ClientInv, ClientOK, IInv, CountersInv
<1>4. \A u \in loaded : u \in Updates /\ UpdateInv(q.start.key, u, now)
  <2>1. ASSUME NEW f \in Loaded(q)
        PROVE  EntryInv(q.start.key, [f EXCEPT !.lives = @ + 1], now)
    BY <2>1, <1>3, LoadedAgain DEF Loaded, IInv
  <2>2. \A g : EntryInv(q.start.key, g, now) =>
          LET u == [flags |-> g, since |-> now]
          IN  u \in Updates /\ UpdateInv(q.start.key, u, now)
    BY <1>3 DEF EntryInv, UpdateInv, Updates
  <2> QED
    BY <2>1, <2>2
<1> HIDE DEF loaded
<1>5. ClientInv(r, now)
  <2>1. /\ Shape(r) /\ r.start = q.start /\ r.flags = q.flags /\ r.waiting = q.waiting
        /\ r.held = loaded /\ r.saving = q.saving
    BY <1>1, ClientFields DEF ClientInv, Shape
  <2>2. r.pc = "connect" /\ r.context = q.context /\ r.link = q.link
    BY <1>1, ClientFields DEF ClientInv
  <2>3. q.held = {} /\ q.saving = {}
    BY <1>1 DEF ClientInv, ClientOK, Idle
  <2> HIDE DEF r
  <2>4. ClientOK(r)
    BY <2>1, <2>2, <2>3, <1>1, <1>4 DEF ClientInv, ClientOK
  <2> QED
    BY <2>1, <2>3, <2>4, <1>1, <1>4 DEF ClientInv
<1> HIDE DEF r
<1> QED
  BY <1>2, <1>5, OnlyTheClient DEF RestoreFlags, IInv, CountersInv

LEMMA ConnectStep ==
  ASSUME IInv, NEW c \in Client, NEW link \in {"ws", "http"}, Connect(c, link)
  PROVE  IInv'
<1> DEFINE q == The(client[c])
           r == [q EXCEPT !.pc = "fetch", !.link = link, !.last = LastSent(link, ContextOf(q))]
<1>1. ClientInv(q, now) /\ q.pc = "connect" /\ Idle(q)
  BY TheClient DEF Connect, At, IInv
<1>2. Become(c, r)
  BY DEF Connect
<1> HIDE DEF q
<1>3. ClientInv(r, now)
  <2>1. /\ Shape(r) /\ r.start = q.start /\ r.flags = q.flags /\ r.waiting = q.waiting
        /\ r.held = q.held /\ r.saving = q.saving
    BY <1>1, ClientFields DEF ClientInv, Shape
  <2>2. r.pc = "fetch" /\ r.context = q.context /\ r.link = link
    BY <1>1, ClientFields DEF ClientInv
  <2> HIDE DEF r
  <2> QED
    BY <2>1, <2>2, <1>1 DEF ClientInv, ClientOK, Idle
<1> HIDE DEF r
<1> QED
  BY <1>2, <1>3, OnlyTheClient DEF Connect, IInv, CountersInv

LEMMA ConnectFailsStep ==
  ASSUME IInv, NEW c \in Client, ConnectFails(c)
  PROVE  IInv'
<1> DEFINE q == The(client[c])
           r == [q EXCEPT !.pc = AfterFailure(q)]
<1>1. ClientInv(q, now) /\ q.pc = "connect" /\ Idle(q)
  BY TheClient DEF ConnectFails, At, IInv
<1>2. Become(c, r)
  BY DEF ConnectFails
<1> HIDE DEF q
<1>3. ClientInv(r, now)
  <2>1. /\ Shape(r) /\ r.start = q.start /\ r.flags = q.flags /\ r.waiting = q.waiting
        /\ r.held = q.held /\ r.saving = q.saving
    BY <1>1, ClientFields DEF ClientInv, Shape
  <2>2. r.pc = AfterFailure(q) /\ r.context = q.context /\ r.link = q.link
    BY <1>1, ClientFields DEF ClientInv
  <2> HIDE DEF r
  <2> QED
    BY <2>1, <2>2, <1>1 DEF ClientInv, ClientOK, Idle, AfterFailure
<1> HIDE DEF r
<1> QED
  BY <1>2, <1>3, OnlyTheClient DEF ConnectFails, IInv, CountersInv

\* Flags from the server.
LEMMA ReceiveStep ==
  ASSUME IInv, NEW c \in Client, NEW q, ClientInv(q, now), q.pc = "live", Idle(q), Receive(c, q),
         UNCHANGED <<store, now, starts, updates, exit, told>>
  PROVE  IInv'
<1> DEFINE f == [key |-> q.start.key, born |-> now, lives |-> 0, waited |-> 0]
           u == [flags |-> f, since |-> now]
           r == [q EXCEPT !.held = {u}]
<1>1. Become(c, r)
  BY DEF Receive
<1>2. q.start.key \in Key /\ now \in 0..MaxTime
  BY DEF ClientInv, ClientOK, IInv, CountersInv
<1>3. u \in Updates /\ UpdateInv(q.start.key, u, now)
  <2>1. f \in Flags /\ f.key = q.start.key /\ f.born = now /\ f.lives = 0 /\ f.waited = 0
    BY <1>2 DEF Flags
  <2>2. now \in Nat /\ now - now = 0 /\ 0 * TTL = 0
    BY <1>2
  <2> HIDE DEF f
  <2>3. EntryInv(q.start.key, f, now)
    BY <2>1, <2>2 DEF EntryInv
  <2>4. u \in Updates
    BY <2>1, <1>2 DEF Updates
  <2>5. UpdateInv(q.start.key, u, now)
    BY <2>2, <2>3 DEF UpdateInv
  <2> QED
    BY <2>4, <2>5
<1> HIDE DEF u
<1>4. ClientInv(r, now)
  <2>1. /\ Shape(r) /\ r.start = q.start /\ r.flags = q.flags /\ r.waiting = q.waiting
        /\ r.held = {u} /\ r.saving = {}
    BY ClientFields DEF ClientInv, Shape, Idle
  <2>2. r.pc = "live" /\ r.context = q.context /\ r.link = q.link
    BY ClientFields DEF ClientInv
  <2> HIDE DEF r
  <2>3. ClientOK(r)
    BY <2>1, <2>2, <1>3 DEF ClientInv, ClientOK
  <2> QED
    BY <2>1, <2>3, <1>3 DEF ClientInv
<1> HIDE DEF r
<1> QED
  BY <1>1, <1>4, OnlyTheClient DEF IInv, CountersInv

LEMMA FetchFlagsStep ==
  ASSUME IInv, NEW c \in Client, NEW ctx, NEW after, ClientInv(after, now), after.pc = "live",
         Idle(after), FetchFlags(c, ctx, after)
  PROVE  IInv'
<1> DEFINE r == [after EXCEPT !.last = LastSent(after.link, ctx)]
<1>1. ClientInv(r, now) /\ r.pc = "live" /\ Idle(r)
  <2>1. /\ Shape(r) /\ r.start = after.start /\ r.flags = after.flags /\ r.waiting = after.waiting
        /\ r.held = {} /\ r.saving = {}
    BY ClientFields DEF ClientInv, Shape, Idle
  <2>2. r.pc = "live" /\ r.context = after.context /\ r.link = after.link
    BY ClientFields DEF ClientInv
  <2> HIDE DEF r
  <2> QED
    BY <2>1, <2>2 DEF ClientInv, ClientOK, Idle
<1>2. \/ Receive(c, r) /\ UNCHANGED <<store, now, starts, updates, exit, told>>
      \/ Become(c, r) /\ UNCHANGED <<store, now, starts, updates, exit, told>>
      \/ ProcessEnds({after.last, r.last}) /\ UNCHANGED starts
  BY DEF FetchFlags
<1> HIDE DEF r
<1>3. CASE Receive(c, r) /\ UNCHANGED <<store, now, starts, updates, exit, told>>
  BY <1>1, <1>3, ReceiveStep
<1>4. CASE Become(c, r) /\ UNCHANGED <<store, now, starts, updates, exit, told>>
  BY <1>1, <1>4, OnlyTheClient DEF IInv, CountersInv
<1>5. CASE ProcessEnds({after.last, r.last}) /\ UNCHANGED starts
  BY <1>5, EndOfProcess DEF IInv, CountersInv
<1> QED
  BY <1>2, <1>3, <1>4, <1>5

LEMMA FirstFetchStep ==
  ASSUME IInv, NEW c \in Client, FirstFetch(c)
  PROVE  IInv'
<1> DEFINE q == The(client[c])
           after == [q EXCEPT !.pc = "live"]
<1>1. ClientInv(q, now) /\ q.pc = "fetch"
  BY TheClient DEF FirstFetch, At, IInv
<1>2. FetchFlags(c, ContextOf(q), after)
  BY DEF FirstFetch
<1> HIDE DEF q
<1>3. ClientInv(after, now) /\ after.pc = "live" /\ Idle(after)
  BY <1>1 DEF ClientInv, Shape, ClientOK, Idle
<1> HIDE DEF after
<1> QED
  BY <1>2, <1>3, FetchFlagsStep

LEMMA RefetchStep ==
  ASSUME IInv, NEW c \in Client, NEW ctx \in Context, Refetch(c, ctx)
  PROVE  IInv'
<1> DEFINE q == The(client[c])
           after == [q EXCEPT !.waiting = @ \ {ctx}]
<1>1. ClientInv(q, now) /\ q.pc = "live" /\ Idle(q)
  BY TheClient DEF Refetch, At, IInv
<1>2. FetchFlags(c, ctx, after)
  BY DEF Refetch
<1> HIDE DEF q
<1>3. ClientInv(after, now) /\ after.pc = "live" /\ Idle(after)
  BY <1>1 DEF ClientInv, Shape, ClientOK, Idle
<1> HIDE DEF after
<1> QED
  BY <1>2, <1>3, FetchFlagsStep

LEMMA RefetchFailsStep ==
  ASSUME IInv, NEW c \in Client, RefetchFails(c)
  PROVE  IInv'
<1> DEFINE q == The(client[c])
           r == [q EXCEPT !.waiting = {}]
<1>1. ClientInv(q, now)
  BY TheClient DEF RefetchFails, At, IInv
<1>2. Become(c, r)
  BY DEF RefetchFails
<1> HIDE DEF q
<1>3. ClientInv(r, now)
  BY <1>1 DEF ClientInv, Shape, ClientOK, Idle
<1> HIDE DEF r
<1> QED
  BY <1>2, <1>3, OnlyTheClient DEF RefetchFails, IInv, CountersInv

LEMMA PushStep ==
  ASSUME IInv, NEW c \in Client, Push(c)
  PROVE  IInv'
<1>1. /\ ClientInv(The(client[c]), now) /\ The(client[c]).pc = "live"
      /\ Idle(The(client[c]))
  BY TheClient DEF Push, At, IInv
<1> QED
  BY <1>1, ReceiveStep DEF Push

LEMMA UpdateContextStep ==
  ASSUME IInv, NEW c \in Client, NEW ctx \in Context, UpdateContext(c, ctx)
  PROVE  IInv'
<1> DEFINE q == The(client[c])
           r == [q EXCEPT !.context = {ctx}, !.waiting = @ \cup {ctx}]
           cached == Shares(q) /\ store.adapter # "nop"
<1>1. ClientInv(q, now)
  BY TheClient DEF UpdateContext, IInv
<1>2. /\ Become(c, r)
      /\ store' = IF cached THEN SaveContext(store, q.start.key, ctx) ELSE store
      /\ told' = IF cached THEN [told EXCEPT ![q.start.key] = {ctx}] ELSE told
  BY DEF UpdateContext
<1> HIDE DEF q
<1>3. ClientInv(r, now)
  <2>1. /\ Shape(r) /\ r.start = q.start /\ r.flags = q.flags /\ r.waiting = q.waiting \cup {ctx}
        /\ r.held = q.held /\ r.saving = q.saving
    BY <1>1, ClientFields DEF ClientInv, Shape
  <2>2. r.pc = q.pc /\ r.context = {ctx} /\ r.link = q.link
    BY <1>1, ClientFields DEF ClientInv
  <2>3. ctx \in Given
    BY DEF Given
  <2> HIDE DEF r
  <2> QED
    BY <2>1, <2>2, <2>3, <1>1 DEF ClientInv, ClientOK, Idle
<1> HIDE DEF r
<1>4. q.start.key \in Key
  BY <1>1 DEF ClientInv, ClientOK
<1>5. StoreInv(store', now) /\ ToldInv(store', told')
  BY <1>2, <1>4, SaveContextInv DEF IInv
<1>6. ClientsInv(client', now)
  BY <1>2, <1>3, OneBecomes DEF IInv
<1>7. now' = now /\ starts' = starts /\ exit' = exit /\ updates' \in 0..MaxUpdates
  BY DEF UpdateContext, IInv, CountersInv
<1> QED
  BY <1>5, <1>6, <1>7 DEF IInv, CountersInv

LEMMA CloseStep ==
  ASSUME IInv, NEW c \in Client, Close(c)
  PROVE  IInv'
<1> DEFINE q == The(client[c])
           r == [q EXCEPT !.pc = "closed", !.last = Empty, !.link = "none", !.waiting = {}]
<1>1. ClientInv(q, now)
  BY TheClient DEF Close, At, IInv
<1>2. Become(c, r)
  BY DEF Close
<1> HIDE DEF q
<1>3. ClientInv(r, now)
  <2>1. /\ Shape(r) /\ r.start = q.start /\ r.flags = q.flags /\ r.waiting = {}
        /\ r.held = q.held /\ r.saving = q.saving
    BY <1>1, ClientFields DEF ClientInv, Shape
  <2>2. r.pc = "closed" /\ r.context = q.context /\ r.link = "none"
    BY <1>1, ClientFields DEF ClientInv
  <2> HIDE DEF r
  <2> QED
    BY <2>1, <2>2, <1>1 DEF ClientInv, ClientOK
<1> HIDE DEF r
<1> QED
  BY <1>2, <1>3, OnlyTheClient DEF Close, IInv, CountersInv

LEMMA TickStep ==
  ASSUME IInv, Tick
  PROVE  IInv'
<1>1. now \in Nat /\ now' = now + 1 /\ now' \in 0..MaxTime
  BY DEF Tick, IInv, CountersInv
<1>2. StoreInv(store, now')
  BY <1>1 DEF IInv, StoreInv, EntryInv
<1>3. ClientsInv(client, now')
  <2>1. \A k, u : UpdateInv(k, u, now) => UpdateInv(k, u, now')
    BY <1>1 DEF UpdateInv, EntryInv
  <2>2. \A r : ClientInv(r, now) => ClientInv(r, now')
    BY <2>1 DEF ClientInv
  <2> QED
    BY <2>2 DEF IInv, ClientsInv
<1> QED
  BY <1>1, <1>2, <1>3 DEF Tick, IInv, CountersInv

-----------------------------------------------------------------------------
LEMMA Initially == Init => IInv
<1> SUFFICES ASSUME Init PROVE IInv
  OBVIOUS
<1>1. StoreInv(store, now) /\ ToldInv(store, told)
  BY NewStoreInv DEF Init
<1> QED
  BY <1>1, NobodyIsLeft DEF Init, IInv, CountersInv

LEMMA Inductive == IInv /\ [Next]_vars => IInv'
<1> SUFFICES ASSUME IInv, [Next]_vars PROVE IInv'
  OBVIOUS
<1>1. CASE Tick
  BY <1>1, TickStep
<1>2. CASE Crash
  BY <1>2, EndOfProcess DEF Crash, IInv, CountersInv
<1>3. ASSUME NEW c \in Client, NEW s \in Start, NewClient(c, s) \/ NewClientRefuses(c, s) \/ NewClientPanics(c, s)
      PROVE  IInv'
  BY <1>3, NewClientStep, NewClientRefusesStep, NewClientPanicsStep
<1>4. ASSUME NEW c \in Client, NEW link \in {"ws", "http"}, Connect(c, link)
      PROVE  IInv'
  BY <1>4, ConnectStep
<1>5. ASSUME NEW c \in Client, Ready(c) \/ RestoreContext(c) \/ RestoreFlags(c) \/ ConnectFails(c)
      PROVE  IInv'
  BY <1>5, ReadyStep, RestoreContextStep, RestoreFlagsStep, ConnectFailsStep
<1>6. ASSUME NEW c \in Client, FirstFetch(c) \/ RefetchFails(c) \/ Push(c) \/ Close(c)
      PROVE  IInv'
  BY <1>6, FirstFetchStep, RefetchFailsStep, PushStep, CloseStep
<1>7. ASSUME NEW c \in Client, NEW ctx \in Context, Refetch(c, ctx) \/ UpdateContext(c, ctx)
      PROVE  IInv'
  BY <1>7, RefetchStep, UpdateContextStep
<1>8. ASSUME NEW c \in Client, UpdateStores(c) \/ UpdateSaves(c)
      PROVE  IInv'
  BY <1>8, UpdateStoresStep, UpdateSavesStep
<1>9. CASE UNCHANGED vars
  BY <1>9 DEF vars, IInv, CountersInv
<1> QED
  BY <1>1, <1>2, <1>3, <1>4, <1>5, <1>6, <1>7, <1>8, <1>9 DEF Next

LEMMA Invariance == Spec => []IInv
BY Initially, Inductive, PTL DEF Spec
-----------------------------------------------------------------------------
(***************************************************************************)
(* The properties, for any clients, keys, contexts, options and adapters   *)
(***************************************************************************)
\* Flags and contexts are where start-up, degraded mode and Close leave them.
THEOREM TypeCorrect == Spec => []TypeOK
<1>1. IInv => TypeOK
  BY DEF IInv, ClientsInv, ClientInv, CountersInv, StoreInv, EntryInv, TypeOK, Flags
<1> QED
  BY <1>1, Invariance, PTL

\* An API key never gets the flags of another through a shared adapter.
THEOREM KeysIsolated == Spec => []KeysAreIsolated
<1>1. IInv => KeysAreIsolated
  BY DEF IInv, ClientsInv, ClientInv, StoreInv, UpdateInv, EntryInv, KeysAreIsolated
<1> QED
  BY <1>1, Invariance, PTL

\* The age of what is stored is within one TTL for every time it was restored, and the
\* time it took to be saved.
THEOREM AgeIsBounded == Spec => []AgeBoundedByRestores
<1>1. IInv => AgeBoundedByRestores
  BY DEF IInv, StoreInv, EntryInv, AgeBoundedByRestores
<1> QED
  BY <1>1, Invariance, PTL

\* Whom the last context named is whom the next client restores.
THEOREM IdentityIsKept == Spec => []IdentitySurvives
<1>1. IInv => IdentitySurvives
  <2> SUFFICES ASSUME IInv, NEW k \in Key, NEW ctx \in told[k], Plain(ctx)
               PROVE  {Identity(d) : d \in LoadContext(store, k)} = {Identity(ctx)}
    BY DEF IdentitySurvives
  <2>1. ctx \in Context /\ store.contexts[k] = {Encode(store.adapter, ctx)}
    BY DEF IInv, ToldInv, Kept
  <2>2. LoadContext(store, k) = Decode(store.adapter, Encode(store.adapter, ctx))
    BY <2>1 DEF LoadContext
  <2>3. CASE store.adapter = "redis"
    <3>1. LoadContext(store, k) = Unmarshal(evalContextToMap(ctx))
      BY <2>2, <2>3 DEF Encode, Decode
    <3>2. (\A e, f \in ctx.user : e = f) /\ (\A e, f \in ctx.organization : e = f)
      BY <2>1, StartsAreTyped
    <3> QED
      BY <3>1, <3>2, IdentityRoundTrip
  <2>4. CASE store.adapter # "redis"
    BY <2>2, <2>4 DEF Encode, Decode
  <2> QED
    BY <2>3, <2>4
<1> QED
  BY <1>1, Invariance, PTL

\* Without Redis, or when contexts are plain and have no attributes to lose, the
\* context that is restored is the one that was saved.
THEOREM RestoreIsFaithful ==
  ASSUME "redis" \in Adapter => \A ctx \in Context : Plain(ctx) /\ Stripped(ctx) = ctx
  PROVE  Spec => []RestoredContextIsSaved
<1>1. \A ctx \in Context, a \in Adapter : Decode(a, Encode(a, ctx)) = {ctx}
  <2> SUFFICES ASSUME NEW ctx \in Context, NEW a \in Adapter
               PROVE  Decode(a, Encode(a, ctx)) = {ctx}
    OBVIOUS
  <2>1. CASE a = "redis"
    <3>1. (\A e, f \in ctx.user : e = f) /\ (\A e, f \in ctx.organization : e = f)
      BY StartsAreTyped
    <3>2. Unmarshal(evalContextToMap(ctx)) = {ctx}
      BY <2>1, <3>1, RoundTripStrips
    <3> QED
      BY <2>1, <3>2 DEF Encode, Decode
  <2>2. CASE a # "redis"
    BY <2>2 DEF Encode, Decode
  <2> QED
    BY <2>1, <2>2
<1>2. IInv => RestoredContextIsSaved
  <2> SUFFICES ASSUME IInv, NEW k \in Key
               PROVE  LoadContext(store, k) = told[k]
    BY DEF RestoredContextIsSaved
  <2>1. store.adapter \in Adapter
    BY DEF IInv, StoreInv
  <2>2. /\ told[k] \subseteq Context /\ \A a, b \in told[k] : a = b
        /\ store.contexts[k] = {Encode(store.adapter, ctx) : ctx \in told[k]}
    BY DEF IInv, ToldInv, Kept
  <2>3. CASE told[k] = {}
    BY <2>2, <2>3 DEF LoadContext
  <2>4. CASE told[k] # {}
    <3>1. PICK ctx \in Context : told[k] = {ctx}
      BY <2>2, <2>4
    <3>2. store.contexts[k] = {Encode(store.adapter, ctx)}
      BY <2>2, <3>1
    <3>3. LoadContext(store, k) = Decode(store.adapter, Encode(store.adapter, ctx))
      BY <3>2 DEF LoadContext
    <3> QED
      BY <1>1, <2>1, <3>1, <3>3
  <2> QED
    BY <2>3, <2>4
<1> QED
  BY <1>2, Invariance, PTL

\* A client is configured as its options say, whatever they are and in any order: the
\* last one of a kind counts, and a cache that was switched on keeps its adapter.
THEOREM OptionsAreFollowed == Spec => []ConfigFollowsOptions
<1>1. IInv => ConfigFollowsOptions
  <2> SUFFICES ASSUME IInv, NEW c \in Client, NEW r \in client[c]
               PROVE  LET cfg == ConfigOf(r.start)
                      IN  Promised(r.start) = [context |-> cfg.context, cache |-> CacheOf(cfg)]
    BY DEF ConfigFollowsOptions
  <2> DEFINE s == r.start
             o == s.options
             endpoints == The(EndpointsOf(s))
             cfg == ConfigOf(s)
             L(names) == LastOf(o, names)
  <2>1. s \in Runnable /\ s \in Start
    BY DEF IInv, ClientsInv, ClientInv, ClientOK, Runnable
  <2>2. cfg = Config(endpoints, o)
    BY <2>1 DEF ConfigOf, Configs
  <2>3. Listed(o)
    BY <2>1, OptionsAreTyped DEF Listed
  <2>4. Follows(cfg, endpoints, o, Len(o))
    BY <2>2, <2>3, OptionsFollowed
  <2>5. \A names : LastBy(o, names, Len(o)) = L(names)
    BY <2>3 DEF LastBy, LastOf, Listed
  <2>6. /\ cfg.context = {d.context : d \in L({"WithContext"})}
        /\ cfg.cacheAdapter = {d.adapter : d \in L({"WithCacheAdapter"})}
        /\ cfg.enableCache <=>
             \E d \in L({"WithCache", "WithCacheAdapter"}) : ~(d.opt = "WithCache" /\ ~d.enabled)
    BY <2>4, <2>5 DEF Follows
  <2>7. \A d, e \in L({"WithCacheAdapter"}) : d = e
    <3>1. DOMAIN o = 1..Len(o) /\ Len(o) \in Nat
      BY <2>3 DEF Listed
    <3> HIDE DEF o
    <3> QED
      BY <3>1 DEF LastOf
  <2>8. Promised(s).cache = CacheOf(cfg) /\ Promised(s).context = cfg.context
    <3> DEFINE given == L({"WithCacheAdapter"})
               switch == L({"WithCache", "WithCacheAdapter"})
    <3>1. /\ Promised(s).context = {d.context : d \in L({"WithContext"})}
          /\ Promised(s).cache =
               IF \A d \in switch : d.opt = "WithCache" /\ ~d.enabled THEN "none"
               ELSE IF given = {} THEN "own" ELSE The(given).adapter
      BY DEF Promised
    <3>2. ASSUME given # {}
          PROVE  The(given).adapter = The(cfg.cacheAdapter) /\ cfg.cacheAdapter # {}
      <4>1. PICK d : given = {d}
        BY <2>7, <3>2
      <4>2. cfg.cacheAdapter = {d.adapter}
        BY <4>1, <2>6
      <4> QED
        BY <4>1, <4>2 DEF The
    <3>3. given = {} => cfg.cacheAdapter = {}
      BY <2>6
    <3> HIDE DEF s, cfg, L
    <3> QED
      BY <2>6, <3>1, <3>2, <3>3 DEF CacheOf
  <2>9. Promised(s) = [context |-> cfg.context, cache |-> CacheOf(cfg)]
    BY <2>8 DEF Promised
  <2> QED
    BY <2>9
<1> QED
  BY <1>1, Invariance, PTL

-----------------------------------------------------------------------------
(***************************************************************************)
(* Contexts that do not nest                                               *)
(***************************************************************************)
ScalarMap(m) == \A n \in DOMAIN m : ~Uncomparable(m[n])

\* Neither a multi-context nor one with a map or a list among its attributes.
FlatContext(ctx) == ctx.user = {} /\ ctx.organization = {} /\ ScalarMap(ctx.attributes)

LEMMA ScalarsMerge ==
  ASSUME NEW f, NEW g, ScalarMap(f), ScalarMap(g)
  PROVE  ScalarMap(Over(f, g))
<1> DEFINE h == Over(f, g)
<1>1. Merges(h, f, g)
  BY OverMerges
<1> HIDE DEF h
<1>2. ScalarMap(h)
  BY <1>1 DEF Merges, ScalarMap
<1> QED
  BY <1>2 DEF h

LEMMA Scalars ==
  /\ ScalarMap(Empty)
  /\ \A n, t : ScalarMap(Entry(n, String(t))) /\ ScalarMap(UnlessEmpty(n, t))
<1>1. \A t : ~Uncomparable(String(t))
  BY DEF Uncomparable, Kind, String
<1>2. ScalarMap(Empty)
  BY EmptyIsEmpty DEF ScalarMap
<1>3. ASSUME NEW n, NEW t
      PROVE  ScalarMap(Entry(n, String(t)))
  <2> DEFINE v == String(t)
  <2>1. ~Uncomparable(v)
    BY <1>1
  <2> HIDE DEF v
  <2>2. DOMAIN Entry(n, v) = {n} /\ Entry(n, v)[n] = v
    BY OneEntry
  <2>3. ScalarMap(Entry(n, v))
    BY <2>1, <2>2 DEF ScalarMap
  <2> QED
    BY <2>3 DEF v
<1>4. ASSUME NEW n, NEW t
      PROVE  ScalarMap(UnlessEmpty(n, t))
  <2>1. UnlessEmpty(n, t) = IF t = "" THEN Empty ELSE Entry(n, String(t))
    BY DEF UnlessEmpty
  <2>2. ScalarMap(Entry(n, String(t)))
    BY <1>3
  <2> QED
    BY <1>2, <2>1, <2>2
<1> QED
  BY <1>2, <1>3, <1>4

\* Their JSON does not nest either, and it is read back as such a context.
LEMMA FlatJSON ==
  ASSUME NEW ctx, FlatContext(ctx)
  PROVE  ScalarMap(evalContextToMap(ctx))
<1> DEFINE M == MarshalJSON(ctx)
<1>1. ScalarMap(M)
  <2>1. ScalarMap(Top(ctx))
    BY Scalars, ScalarsMerge DEF Top
  <2>2. ScalarMap(Over(ctx.attributes, Top(ctx)))
    BY <2>1, ScalarsMerge DEF FlatContext
  <2>3. Nested("user", ctx.user) = Empty /\ Nested("organization", ctx.organization) = Empty
    BY DEF FlatContext, Nested
  <2>4. ScalarMap(Over(Empty, Empty))
    BY Scalars, ScalarsMerge
  <2> QED
    BY <2>2, <2>3, <2>4, ScalarsMerge DEF MarshalJSON
<1> HIDE DEF M
<1>2. \A v : ~Uncomparable(v) => ~Uncomparable(ReadValue(v))
  BY DEF Uncomparable, ReadValue, ReadNumber, Kind, Float
<1>3. evalContextToMap(ctx) = [n \in DOMAIN M |-> ReadValue(M[n])]
  BY DEF evalContextToMap, M
<1> QED
  BY <1>1, <1>2, <1>3 DEF ScalarMap

LEMMA FlatIsReadFlat ==
  ASSUME NEW obj, ScalarMap(obj), NEW ctx \in Unmarshal(obj)
  PROVE  FlatContext(ctx)
<1>1. \A name : ~Holds(obj, name, "map")
  BY DEF ScalarMap, Holds, Uncomparable
<1>2. ReadMap(obj, <<"attributes">>) = Empty /\ \A name : ReadPointer(obj, name) = {}
  BY <1>1 DEF ReadMap, ReadPointer
<1>3. ctx.user = {} /\ ctx.organization = {} /\ ctx.attributes = Empty
  BY <1>2 DEF Unmarshal
<1> QED
  BY <1>3, Scalars DEF FlatContext

\* Nothing has been sent that a comparison could panic over, and none has.
SentIsFlat(cs) == \A c \in Client : \A r \in cs[c] : ScalarMap(r.last)
Calm == exit = {} /\ SentIsFlat(client)

LEMMA FlatIsSent ==
  ASSUME NEW link, NEW ctx, FlatContext(ctx)
  PROVE  ScalarMap(LastSent(link, ctx))
BY FlatJSON, Scalars DEF LastSent

LEMMA CalmBecomes ==
  ASSUME IInv, SentIsFlat(client), NEW c \in Client, NEW r, ScalarMap(r.last), Become(c, r)
  PROVE  SentIsFlat(client')
BY DEF IInv, ClientsInv, SentIsFlat, Become

\* A step after which the client has sent what it had.
LEMMA SameSent ==
  ASSUME IInv, Calm, NEW c \in Client, client[c] # {}, NEW r, r.last = The(client[c]).last, Become(c, r)
  PROVE  SentIsFlat(client')
<1>1. ScalarMap(r.last)
  BY TheClient DEF Calm, SentIsFlat, IInv
<1> QED
  BY <1>1, CalmBecomes DEF Calm

LEMMA CalmEnd == SentIsFlat([c \in Client |-> {}])
BY DEF SentIsFlat

LEMMA CalmFetch ==
  ASSUME IInv, Calm, NEW c \in Client, NEW ctx, FlatContext(ctx),
         NEW after, ClientInv(after, now), ScalarMap(after.last), FetchFlags(c, ctx, after)
  PROVE  Calm'
<1> DEFINE r == [after EXCEPT !.last = LastSent(after.link, ctx)]
<1>1. Shape(r) /\ ScalarMap(r.last) /\ r.last = LastSent(after.link, ctx)
  <2>1. Shape(r) /\ r.last = LastSent(after.link, ctx)
    BY ClientFields DEF ClientInv, Shape
  <2>2. ScalarMap(LastSent(after.link, ctx))
    BY FlatIsSent
  <2> HIDE DEF r
  <2> QED
    BY <2>1, <2>2
<1>2. \/ Receive(c, r) /\ exit' = exit
      \/ Become(c, r) /\ exit' = exit
      \/ "panic" \in Outcomes(after, ctx)
  BY DEF FetchFlags
<1> HIDE DEF r
<1>3. CASE Receive(c, r) /\ exit' = exit
  <2> DEFINE held == {[flags |-> [key |-> r.start.key, born |-> now, lives |-> 0, waited |-> 0], since |-> now]}
             n == [r EXCEPT !.held = held]
  <2>1. Become(c, n)
    BY <1>3 DEF Receive
  <2> HIDE DEF held
  <2>2. n.last = r.last
    BY <1>1, ClientFields
  <2> HIDE DEF n
  <2>3. SentIsFlat(client')
    BY <1>1, <2>1, <2>2, CalmBecomes DEF Calm
  <2> QED
    BY <1>3, <2>3 DEF Calm
<1>4. CASE Become(c, r) /\ exit' = exit
  BY <1>1, <1>4, CalmBecomes DEF Calm
<1>5. CASE "panic" \in Outcomes(after, ctx)
  <2>1. "panic" \in contextsEqual(after.last, evalContextToMap(ctx))
    BY <1>5 DEF Outcomes
  <2>2. PICK n \in DOMAIN after.last : Uncomparable(after.last[n])
    BY <2>1, PanicNeedsNesting
  <2> QED
    BY <2>2 DEF ScalarMap
<1> QED
  BY <1>2, <1>3, <1>4, <1>5

\* The process never ends over a comparison when the program gives no context that
\* nests, whatever the adapter restores.
THEOREM FlatContextsNeverPanic ==
  ASSUME \A ctx \in Given : FlatContext(ctx)
  PROVE  Spec => []NeverPanics
<1>1. \A ctx \in Restorable : FlatContext(ctx)
  <2> SUFFICES ASSUME NEW a \in Adapter, NEW given \in Context, NEW ctx \in Decode(a, Encode(a, given))
               PROVE  FlatContext(ctx)
    BY DEF Restorable
  <2>1. FlatContext(given)
    BY DEF Given
  <2>2. CASE a = "redis"
    BY <2>1, <2>2, FlatJSON, FlatIsReadFlat DEF Encode, Decode
  <2>3. CASE a # "redis"
    BY <2>1, <2>3 DEF Encode, Decode
  <2> QED
    BY <2>2, <2>3
<1>2. \A r : ClientInv(r, now) => FlatContext(ContextOf(r))
  <2>1. FlatContext(EmptyCtx)
    BY Scalars DEF FlatContext, EmptyCtx
  <2>2. ASSUME NEW r, ClientInv(r, now), r.context # {}
        PROVE  The(r.context) \in Given \cup Restorable
    BY <2>2 DEF ClientInv, ClientOK, The
  <2> QED
    BY <1>1, <2>1, <2>2 DEF ContextOf
<1>3. Init => Calm
  BY CalmEnd DEF Init, Calm
<1>4. IInv /\ Calm /\ [Next]_vars => Calm'
  <2> SUFFICES ASSUME IInv, Calm, [Next]_vars PROVE Calm'
    OBVIOUS
  <2> DEFINE q(c) == The(client[c])
  <2>1. \A c \in Client : client[c] # {} => ClientInv(q(c), now) /\ q(c) \in client[c] /\ ScalarMap(q(c).last)
    BY TheClient DEF IInv, Calm, SentIsFlat
  <2>2. ASSUME ProcessEnds({}) PROVE Calm'
    BY <2>2, CalmEnd DEF ProcessEnds, Calm
  <2>3. ASSUME NEW c \in Client, NEW r, client[c] # {}, r.last = q(c).last, Become(c, r), exit' = exit
        PROVE  Calm'
    BY <2>3, SameSent DEF Calm
  <2>4. \A r : ClientInv(r, now) => DOMAIN r = {"start", "pc", "context", "last", "link", "flags", "waiting",
                                         "held", "saving"}
    BY ClientFields DEF ClientInv
  <2>5. \A c \in Client : \A pc : At(c, pc) => client[c] # {}
    BY DEF At
  <2>6. CASE Tick
    BY <2>6 DEF Tick, Calm
  <2>7. CASE Crash
    BY <2>7, <2>2 DEF Crash
  <2>8. ASSUME NEW c \in Client, NEW s \in Start, NewClient(c, s)
        PROVE  Calm'
    <3> DEFINE pc == IF ConfigOf(s).deferInit THEN "deferred" ELSE "restoreContext"
               r == [start |-> s, pc |-> pc,
                     context |-> ConfigOf(s).context, last |-> Empty, link |-> "none",
                     flags |-> {}, waiting |-> {}, held |-> {}, saving |-> {}]
    <3>1. Become(c, r) /\ exit' = {}
      BY <2>8 DEF NewClient, Become
    <3>2. r.last = Empty
      OBVIOUS
    <3> HIDE DEF r
    <3> QED
      BY <3>1, <3>2, Scalars, CalmBecomes DEF Calm
  <2>9. ASSUME NEW c \in Client, NEW s \in Start, NewClientRefuses(c, s) \/ NewClientPanics(c, s)
        PROVE  Calm'
    BY <2>9, <2>2 DEF NewClientRefuses, NewClientPanics, Calm
  <2>10. ASSUME NEW c \in Client, Ready(c)
         PROVE  Calm'
    <3> DEFINE r == [q(c) EXCEPT !.pc = "restoreContext"]
    <3>1. Become(c, r) /\ exit' = exit /\ client[c] # {}
      BY <2>5, <2>10 DEF Ready
    <3> HIDE DEF q
    <3>2. r.last = q(c).last
      BY <2>1, <2>4, <3>1
    <3> HIDE DEF r
    <3> QED
      BY <2>3, <3>1, <3>2
  <2>11. ASSUME NEW c \in Client, RestoreContext(c)
         PROVE  Calm'
    <3> DEFINE new == IF q(c).context # {} THEN q(c).context ELSE Restored(q(c))
               r == [q(c) EXCEPT !.pc = "restoreFlags", !.context = new]
    <3>1. Become(c, r) /\ exit' = exit /\ client[c] # {}
      BY <2>5, <2>11 DEF RestoreContext
    <3> HIDE DEF q, new
    <3>2. r.last = q(c).last
      BY <2>1, <2>4, <3>1
    <3> HIDE DEF r
    <3> QED
      BY <2>3, <3>1, <3>2
  <2>12. ASSUME NEW c \in Client, RestoreFlags(c)
         PROVE  Calm'
    <3> DEFINE loaded == {[flags |-> [f EXCEPT !.lives = @ + 1], since |-> now] : f \in Loaded(q(c))}
               r == [q(c) EXCEPT !.pc = "connect", !.held = loaded]
    <3>1. Become(c, r) /\ exit' = exit /\ client[c] # {}
      BY <2>5, <2>12 DEF RestoreFlags
    <3> HIDE DEF q, loaded
    <3>2. r.last = q(c).last
      BY <2>1, <2>4, <3>1
    <3> HIDE DEF r
    <3> QED
      BY <2>3, <3>1, <3>2
  <2>13. ASSUME NEW c \in Client, NEW link \in {"ws", "http"}, Connect(c, link)
         PROVE  Calm'
    <3> DEFINE sent == LastSent(link, ContextOf(q(c)))
               r == [q(c) EXCEPT !.pc = "fetch", !.link = link, !.last = sent]
    <3>1. Become(c, r) /\ exit' = exit /\ client[c] # {}
      BY <2>5, <2>13 DEF Connect
    <3>2. ScalarMap(sent)
      BY <1>2, <2>1, <3>1, FlatIsSent
    <3> HIDE DEF q, sent
    <3>3. r.last = sent
      BY <2>1, <2>4, <3>1
    <3> HIDE DEF r
    <3> QED
      BY <3>1, <3>2, <3>3, CalmBecomes DEF Calm
  <2>14. ASSUME NEW c \in Client, ConnectFails(c)
         PROVE  Calm'
    <3> DEFINE r == [q(c) EXCEPT !.pc = AfterFailure(q(c))]
    <3>1. Become(c, r) /\ exit' = exit /\ client[c] # {}
      BY <2>5, <2>14 DEF ConnectFails
    <3> HIDE DEF q
    <3>2. r.last = q(c).last
      BY <2>1, <2>4, <3>1
    <3> HIDE DEF r
    <3> QED
      BY <2>3, <3>1, <3>2
  <2>15. ASSUME NEW c \in Client, FirstFetch(c)
         PROVE  Calm'
    <3> DEFINE after == [q(c) EXCEPT !.pc = "live"]
    <3>1. FetchFlags(c, ContextOf(q(c)), after) /\ At(c, "fetch") /\ client[c] # {}
      BY <2>5, <2>15 DEF FirstFetch
    <3>2. FlatContext(ContextOf(q(c))) /\ q(c).pc = "fetch"
      BY <1>2, <2>1, <3>1, TheClient DEF IInv
    <3>3. ClientInv(q(c), now) /\ ScalarMap(q(c).last)
      BY <2>1, <3>1
    <3> HIDE DEF q
    <3>4. ClientInv(after, now)
      BY <3>2, <3>3 DEF ClientInv, Shape, ClientOK, Idle
    <3>5. after.last = q(c).last
      BY <2>4, <3>3
    <3> HIDE DEF after
    <3> QED
      BY <3>1, <3>2, <3>3, <3>4, <3>5, CalmFetch
  <2>16. ASSUME NEW c \in Client, NEW ctx \in Context, Refetch(c, ctx)
         PROVE  Calm'
    <3> DEFINE after == [q(c) EXCEPT !.waiting = @ \ {ctx}]
    <3>1. FetchFlags(c, ctx, after) /\ client[c] # {}
      BY <2>5, <2>16 DEF Refetch
    <3>2. FlatContext(ctx)
      BY DEF Given
    <3>3. ClientInv(q(c), now) /\ ScalarMap(q(c).last)
      BY <2>1, <3>1
    <3> HIDE DEF q
    <3>4. ClientInv(after, now)
      BY <3>3 DEF ClientInv, Shape, ClientOK, Idle
    <3>5. after.last = q(c).last
      BY <2>4, <3>3
    <3> HIDE DEF after
    <3> QED
      BY <3>1, <3>2, <3>3, <3>4, <3>5, CalmFetch
  <2>17. ASSUME NEW c \in Client, RefetchFails(c)
         PROVE  Calm'
    <3> DEFINE r == [q(c) EXCEPT !.waiting = {}]
    <3>1. Become(c, r) /\ exit' = exit /\ client[c] # {}
      BY <2>5, <2>17 DEF RefetchFails
    <3> HIDE DEF q
    <3>2. r.last = q(c).last
      BY <2>1, <2>4, <3>1
    <3> HIDE DEF r
    <3> QED
      BY <2>3, <3>1, <3>2
  <2>18. ASSUME NEW c \in Client, Push(c)
         PROVE  Calm'
    <3> DEFINE held == {[flags |-> [key |-> q(c).start.key, born |-> now, lives |-> 0, waited |-> 0], since |-> now]}
               r == [q(c) EXCEPT !.held = held]
    <3>1. Become(c, r) /\ exit' = exit /\ client[c] # {}
      BY <2>5, <2>18 DEF Push, Receive
    <3> HIDE DEF q, held
    <3>2. r.last = q(c).last
      BY <2>1, <2>4, <3>1
    <3> HIDE DEF r
    <3> QED
      BY <2>3, <3>1, <3>2
  <2>19. ASSUME NEW c \in Client, NEW ctx \in Context, UpdateContext(c, ctx)
         PROVE  Calm'
    <3> DEFINE r == [q(c) EXCEPT !.context = {ctx}, !.waiting = @ \cup {ctx}]
    <3>1. Become(c, r) /\ exit' = exit /\ client[c] # {}
      BY <2>19 DEF UpdateContext
    <3> HIDE DEF q
    <3>2. r.last = q(c).last
      BY <2>1, <2>4, <3>1
    <3> HIDE DEF r
    <3> QED
      BY <2>3, <3>1, <3>2
  <2>20. ASSUME NEW c \in Client, Close(c)
         PROVE  Calm'
    <3> DEFINE r == [q(c) EXCEPT !.pc = "closed", !.last = Empty, !.link = "none", !.waiting = {}]
    <3>1. Become(c, r) /\ exit' = exit /\ client[c] # {}
      BY <2>5, <2>20 DEF Close
    <3> HIDE DEF q
    <3>2. r.last = Empty
      BY <2>1, <2>4, <3>1
    <3> HIDE DEF r
    <3> QED
      BY <3>1, <3>2, Scalars, CalmBecomes DEF Calm
  <2>21. ASSUME NEW c \in Client, UpdateStores(c)
         PROVE  Calm'
    <3>1. PICK p \in client[c] : Become(c, [p EXCEPT !.flags = {u.flags : u \in p.held}, !.held = {},
                                      !.saving = IF Shares(p) THEN p.held ELSE {}])
      BY <2>21 DEF UpdateStores
    <3> DEFINE stored == {u.flags : u \in p.held}
               rest == IF Shares(p) THEN p.held ELSE {}
               r == [p EXCEPT !.flags = stored, !.held = {}, !.saving = rest]
    <3>2. Become(c, r) /\ ClientInv(p, now) /\ ScalarMap(p.last)
      BY <3>1 DEF IInv, ClientsInv, Calm, SentIsFlat
    <3> HIDE DEF stored, rest
    <3>3. r.last = p.last
      BY <3>2, <2>4
    <3> HIDE DEF r
    <3>4. exit' = exit
      BY <2>21 DEF UpdateStores
    <3> QED
      BY <3>2, <3>3, <3>4, CalmBecomes DEF Calm
  <2>22. ASSUME NEW c \in Client, UpdateSaves(c)
         PROVE  Calm'
    <3>1. PICK p \in client[c] : Become(c, [p EXCEPT !.saving = {}])
      BY <2>22 DEF UpdateSaves
    <3> DEFINE r == [p EXCEPT !.saving = {}]
    <3>2. Become(c, r) /\ ClientInv(p, now) /\ ScalarMap(p.last)
      BY <3>1 DEF IInv, ClientsInv, Calm, SentIsFlat
    <3>3. r.last = p.last
      BY <3>2, <2>4
    <3> HIDE DEF r
    <3>4. exit' = exit
      BY <2>22 DEF UpdateSaves
    <3> QED
      BY <3>2, <3>3, <3>4, CalmBecomes DEF Calm
  <2>23. CASE UNCHANGED vars
    BY <2>23 DEF vars, Calm
  <2> QED
    BY <2>6, <2>7, <2>8, <2>9, <2>10, <2>11, <2>12, <2>13, <2>14, <2>15, <2>16, <2>17, <2>18,
       <2>19, <2>20, <2>21, <2>22, <2>23 DEF Next
<1>5. Calm => NeverPanics
  BY DEF Calm, NeverPanics
<1> QED
  BY <1>3, <1>4, <1>5, Invariance, PTL DEF Spec
=============================================================================
