------------------------------ MODULE Conditions ------------------------------
(***************************************************************************)
(* evaluate/rules.go and evaluate/coerce.go: attribute values, their       *)
(* coercions, and the conditions of targeting rules and segments.          *)
(*                                                                         *)
(* A coercion returns a set: the result, or nothing when it is an error.   *)
(* What strconv and strings do to a text is given by constant tables; a    *)
(* text that parses to NaN compares like one that does not parse.          *)
(***************************************************************************)
EXTENDS Integers, GoValues

CONSTANTS
  Number,      \* the float64 and int values that occur
  Text,        \* the strings that occur
  FormatFloat, \* [Number -> Text]
  ParseFloat,  \* [Text -> sets of at most one Number]
  ParseBool,   \* [Text -> sets of at most one BOOLEAN]
  PartOf,      \* the pairs <<s, t>> with strings.Contains(t, s)
  PrefixOf,    \* the pairs <<s, t>> with strings.HasPrefix(t, s)
  SuffixOf,    \* the pairs <<s, t>> with strings.HasSuffix(t, s)
  Sprint       \* what %v prints of a list or a map; no condition compares two

ASSUME TablesAreTyped ==
  /\ Number \subseteq Int
  /\ {"", "true", "false", Sprint} \subseteq Text
  /\ FormatFloat \in [Number -> Text]
  /\ ParseFloat \in [Text -> SUBSET Number]
  /\ ParseBool \in [Text -> SUBSET BOOLEAN]
  /\ PartOf \cup PrefixOf \cup SuffixOf \subseteq Text \X Text

\* A text has one value, and a formatted number reads back as the same number.
ASSUME TablesAreFunctional ==
  /\ \A t \in Text : \A n, k \in ParseFloat[t] : n = k
  /\ \A t \in Text : \A a, b \in ParseBool[t] : a = b
  /\ \A n \in Number : ParseFloat[FormatFloat[n]] = {n}
  /\ ParseFloat["true"] = {} /\ ParseFloat["false"] = {}

\* The values an attribute can have; a list among them is opaque.
Value == {Nil, List({})} \cup {Bool(b) : b \in BOOLEAN} \cup {String(t) : t \in Text}
           \cup {Float(n) : n \in Number} \cup {IntVal(n) : n \in Number}
-----------------------------------------------------------------------------
(***************************************************************************)
(* Coercions                                                               *)
(***************************************************************************)
Word(b) == IF b THEN "true" ELSE "false"

toComparableString(v) ==
  CASE Kind(v) = "nil"               -> ""
    [] Kind(v) = "string"            -> v[2]
    [] Kind(v) = "bool"              -> Word(v[2])
    [] Kind(v) \in {"float64", "int"} -> FormatFloat[v[2]]
    [] OTHER                         -> Sprint

CoerceString(v) ==
  IF Kind(v) \in {"string", "bool", "float64", "int"}
  THEN {toComparableString(v)} ELSE {}

CoerceBool(v) ==
  CASE Kind(v) = "bool"    -> {v[2]}
    [] Kind(v) = "string"  -> ParseBool[v[2]]
    [] Kind(v) = "float64" -> {v[2] # 0}
    [] OTHER               -> {}

CoerceFloat64(v) ==
  CASE Kind(v) \in {"float64", "int"} -> {v[2]}
    [] Kind(v) = "string"             -> ParseFloat[v[2]]
    [] Kind(v) = "bool"               -> {IF v[2] THEN 1 ELSE 0}
    [] OTHER                          -> {}

\* A value that cannot be coerced is returned unchanged.
coerceType(v, type) ==
  LET coerced ==
        CASE type = "boolean" -> {Bool(b) : b \in CoerceBool(v)}
          [] type = "string"  -> {String(t) : t \in CoerceString(v)}
          [] type = "number"  -> {Float(n) : n \in CoerceFloat64(v)}
          [] OTHER            -> {}
  IN  IF coerced = {} THEN v ELSE CHOOSE c \in coerced : TRUE
-----------------------------------------------------------------------------
(***************************************************************************)
(* Conditions: records with fields attribute, operator and value           *)
(***************************************************************************)
matchEq(attr, val) ==
  LET numeric == Kind(attr) \in {"float64", "int"} /\ Kind(val) = "string"
  IN  IF numeric /\ ParseFloat[val[2]] # {}
      THEN ParseFloat[val[2]] = {attr[2]}
      ELSE toComparableString(attr) = toComparableString(val)

\* Operators gt and lt.  Mutated form of gt: it takes equal numbers too.
AtLeast(v, w) == \E a \in CoerceFloat64(v), b \in CoerceFloat64(w) : a >= b
Greater(v, w) == \E a \in CoerceFloat64(v), b \in CoerceFloat64(w) : a > b

Less(v, w) == \E a \in CoerceFloat64(v), b \in CoerceFloat64(w) : a < b

\* Operator in; any value but a list has no members.
isMember(v, list) ==
  /\ Kind(list) = "list"
  /\ \E w \in list[2] : toComparableString(w) = toComparableString(v)

\* Every operator but exists and not_exists, on an attribute that is present.
Compare(op, v, w) ==
  LET texts == <<toComparableString(w), toComparableString(v)>>
  IN  CASE op = "eq"           -> matchEq(v, w)
        [] op = "neq"          -> ~matchEq(v, w)
        [] op = "contains"     -> texts \in PartOf
        [] op = "not_contains" -> texts \notin PartOf
        [] op = "startsWith"   -> texts \in PrefixOf
        [] op = "endsWith"     -> texts \in SuffixOf
        [] op = "gt"           -> Greater(v, w)
        [] op = "lt"           -> Less(v, w)
        [] op = "in"           -> isMember(v, w)
        [] op = "nin"          -> ~isMember(v, w)
        [] OTHER               -> FALSE

Match(cond, attrs) ==
  LET present == cond.attribute \in DOMAIN attrs
      exists  == present /\ attrs[cond.attribute] # Nil
  IN  CASE cond.operator = "exists"     -> exists
        [] cond.operator = "not_exists" -> ~exists
        [] OTHER -> present /\ Compare(cond.operator, attrs[cond.attribute], cond.value)

evaluateConditions(conds, logicalOp, attrs) ==
  CASE logicalOp = "OR"  -> \E c \in conds : Match(c, attrs)
    [] logicalOp = "NOT" -> \A c \in conds : ~Match(c, attrs)
    [] OTHER             -> \A c \in conds : Match(c, attrs)
=============================================================================
