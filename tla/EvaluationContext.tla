--------------------------- MODULE EvaluationContext ---------------------------
(***************************************************************************)
(* types.go and context.go: an evaluation context, the flat form the local *)
(* evaluator reads, and the JSON form that servers and cache adapters get; *)
(* and transport/websocket.go: how two contexts are compared.              *)
(*                                                                         *)
(* A context is a record with fields kind, key, attributes, user and       *)
(* organization, the last two pointers to entities, which are records with *)
(* fields kind, key and attributes.  JSON is the object it denotes.        *)
(* Attributes are at most one level deep, and names that differ only in    *)
(* case are one name, as they are for encoding/json.                       *)
(***************************************************************************)
EXTENDS GoValues, FiniteSets, Sequences

EmptyCtx == [kind |-> "", key |-> "", attributes |-> Empty, user |-> {}, organization |-> {}]
-----------------------------------------------------------------------------
(***************************************************************************)
(* EvaluationContext.Flatten.  Attributes cannot replace the kind and the  *)
(* key of the context, but they replace the key of a user or an            *)
(* organization.  Mutated form: an empty key is left out, as MarshalJSON   *)
(* does.                                                                   *)
(***************************************************************************)
Under(part, attrs) ==
  [name \in {<<part>> \o n : n \in DOMAIN attrs} |->
     attrs[CHOOSE n \in DOMAIN attrs : name = <<part>> \o n]]

Entity(part, entities) ==
  LET e == The(entities)
  IN  IF entities = {} THEN Empty
      ELSE Under(part, Over(e.attributes, Entry(<<"key">>, String(e.key))))

Flat(ctx, key) ==
  Over(Over(Entity("organization", ctx.organization), Entity("user", ctx.user)),
       Over(Over(Entry(<<"kind">>, String(ctx.kind)), key), ctx.attributes))

UnlessEmpty(name, text) == IF text = "" THEN Empty ELSE Entry(name, String(text))

FlattenLikeJSON(ctx) == Flat(ctx, UnlessEmpty(<<"key">>, ctx.key))
Flatten(ctx) == Flat(ctx, Entry(<<"key">>, String(ctx.key)))
-----------------------------------------------------------------------------
(***************************************************************************)
(* MarshalJSON, of an entity and of a context.  Attributes replace the     *)
(* kind and the key of both; a user and an organization are objects of     *)
(* their own and replace attributes.  Mutated form: the key of an entity   *)
(* is left out.                                                            *)
(***************************************************************************)
MarshalWithoutKey(e) == Over(e.attributes, UnlessEmpty(<<"kind">>, e.kind))
MarshalEntity(e) ==
  Over(e.attributes, Over(UnlessEmpty(<<"kind">>, e.kind), Entry(<<"key">>, String(e.key))))

Nested(part, entities) ==
  IF entities = {} THEN Empty ELSE Entry(<<part>>, Map(MarshalEntity(The(entities))))

Top(ctx) == Over(Entry(<<"kind">>, String(ctx.kind)), UnlessEmpty(<<"key">>, ctx.key))

MarshalJSON(ctx) ==
  Over(Over(Nested("user", ctx.user), Nested("organization", ctx.organization)),
       Over(ctx.attributes, Top(ctx)))

\* Reading JSON back: every number is a float64.
ReadNumber(v) == IF Kind(v) = "int" THEN Float(v[2]) ELSE v
ReadValue(v) ==
  IF Kind(v) = "map" THEN Map([n \in DOMAIN v[2] |-> ReadNumber(v[2][n])]) ELSE ReadNumber(v)

evalContextToMap(ctx) == [n \in DOMAIN MarshalJSON(ctx) |-> ReadValue(MarshalJSON(ctx)[n])]
-----------------------------------------------------------------------------
(***************************************************************************)
(* json.Unmarshal into the struct, which has no UnmarshalJSON: only the    *)
(* fields' own names are read, so attributes come from a member of that    *)
(* name.  The result is empty when a member has another type than its      *)
(* field; null leaves the field alone.                                     *)
(***************************************************************************)
Holds(obj, name, type) == name \in DOMAIN obj /\ Kind(obj[name]) = type
Fits(obj, name, type) == name \in DOMAIN obj => Kind(obj[name]) \in {"nil", type}

ReadString(obj, name) == IF Holds(obj, name, "string") THEN obj[name][2] ELSE ""
ReadMap(obj, name) == IF Holds(obj, name, "map") THEN obj[name][2] ELSE Empty

EntityFits(obj) ==
  Fits(obj, <<"kind">>, "string") /\ Fits(obj, <<"key">>, "string") /\ Fits(obj, <<"attributes">>, "map")

ReadEntity(obj) ==
  [kind |-> ReadString(obj, <<"kind">>), key |-> ReadString(obj, <<"key">>),
   attributes |-> ReadMap(obj, <<"attributes">>)]

ReadPointer(obj, name) == IF Holds(obj, name, "map") THEN {ReadEntity(obj[name][2])} ELSE {}

ContextFits(obj) ==
  /\ EntityFits(obj)
  /\ \A name \in {<<"user">>, <<"organization">>} :
       Fits(obj, name, "map") /\ (Holds(obj, name, "map") => EntityFits(obj[name][2]))

Unmarshal(obj) ==
  IF ~ContextFits(obj) THEN {}
  ELSE {[kind |-> ReadString(obj, <<"kind">>), key |-> ReadString(obj, <<"key">>),
         attributes |-> ReadMap(obj, <<"attributes">>),
         user |-> ReadPointer(obj, <<"user">>),
         organization |-> ReadPointer(obj, <<"organization">>)]}
-----------------------------------------------------------------------------
(***************************************************************************)
(* contextsEqual compares the entries of two maps with != .  Two values of *)
(* one type that has no equality, a map or a list, make it panic; in which *)
(* order the entries come is not known, and the first that differs ends    *)
(* the comparison.                                                         *)
(***************************************************************************)
Uncomparable(v) == Kind(v) \in {"map", "list"}
ComparePanics(v, w) == Kind(v) = Kind(w) /\ Uncomparable(v)

PanicsAt(a, b, n) == n \in DOMAIN b /\ ComparePanics(a[n], b[n])
DiffersAt(a, b, n) == n \notin DOMAIN b \/ (~ComparePanics(a[n], b[n]) /\ a[n] # b[n])

contextsEqual(a, b) ==
  IF Cardinality(DOMAIN a) # Cardinality(DOMAIN b) THEN {"different"}
  ELSE LET ends == {"panic" : n \in {n \in DOMAIN a : PanicsAt(a, b, n)}}
                     \cup {"different" : n \in {n \in DOMAIN a : DiffersAt(a, b, n)}}
       IN  IF ends = {} THEN {"equal"} ELSE ends
=============================================================================
