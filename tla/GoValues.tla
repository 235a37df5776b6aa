------------------------------- MODULE GoValues -------------------------------
(***************************************************************************)
(* What the client's data is made of: values of type any, and maps from    *)
(* names to them.  A value is a pair of its dynamic type and its content.  *)
(* A name is a sequence of parts, "user.key" being <<"user", "key">>.      *)
(***************************************************************************)
Nil        == <<"nil", 0>>
Bool(b)    == <<"bool", b>>
String(t)  == <<"string", t>>
Float(n)   == <<"float64", n>>
IntVal(n)  == <<"int", n>>
List(vals) == <<"list", vals>>
Map(m)     == <<"map", m>>

Kind(v) == v[1]

Empty == <<>> \* the map without entries
Entry(name, v) == [n \in {name} |-> v]
Over(f, g) == [n \in DOMAIN f \cup DOMAIN g |-> IF n \in DOMAIN f THEN f[n] ELSE g[n]]

\* A pointer is a set of at most one element.
The(pointer) == CHOOSE x \in pointer : TRUE
=============================================================================
