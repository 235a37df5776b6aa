----------------------------- MODULE ClientOptions -----------------------------
(***************************************************************************)
(* client_options.go, and what NewClient makes of the options.             *)
(*                                                                         *)
(* An option is a record whose field opt names its With function.  An      *)
(* environment gives the values of FLAGMINT_REST_ENDPOINT,                 *)
(* FLAGMINT_WS_ENDPOINT and FLAGMINT_ENV, a variable that is not set being *)
(* empty.  A URL is the sequence of its parts: a scheme, a host and, where *)
(* it has one, a path.  The scheme "short" stands for a text of less than  *)
(* eight bytes.                                                            *)
(***************************************************************************)
EXTENDS GoValues, Integers, Sequences

NoURL == <<>>

envEndpoints(env) ==
  CASE env = "local"   -> <<<<"http", "localhost", "evaluator/evaluate">>, <<"ws", "localhost">>>>
    [] env = "staging" -> <<<<"https", "staging-api">>, <<"wss", "staging-api">>>>
    [] env = "prod"    -> <<<<"https", "api">>, <<"wss", "api">>>>

\* "wss://" + rest[8:] takes eight bytes off whatever the scheme is, the first letter of
\* the host with them after "http"; a URL shorter than that makes the slice panic, the
\* result then being empty.
DeriveWS(rest) ==
  CASE rest[1] = "short" -> {}
    [] rest[1] = "https" -> {<<"wss">> \o Tail(rest)}
    [] OTHER             -> {<<"wss", "cut">> \o Tail(rest)}

getEndpoints(e) ==
  IF e.rest # NoURL
  THEN {<<e.rest, ws>> : ws \in IF e.ws = NoURL THEN DeriveWS(e.rest) ELSE {e.ws}}
  ELSE {envEndpoints(IF e.env \in {"local", "staging", "prod"} THEN e.env ELSE "local")}

defaultConfig(endpoints) ==
  [context |-> {}, mode |-> "auto", enableCache |-> FALSE, cacheAdapter |-> {},
   rest |-> endpoints[1], ws |-> endpoints[2], deferInit |-> FALSE, localEvaluation |-> FALSE]

WithFunctions == {"WithContext", "WithTransportMode", "WithCache", "WithCacheAdapter",
                  "WithEndpoints", "WithDeferInit", "WithLocalEvaluation"}

\* Mutated form: the cache is not enabled.
WithCacheAdapterOnly(cfg, adapter) == [cfg EXCEPT !.cacheAdapter = {adapter}]
WithCacheAdapter(cfg, adapter) == [cfg EXCEPT !.cacheAdapter = {adapter}, !.enableCache = TRUE]

Apply(cfg, o) ==
  CASE o.opt = "WithContext"         -> [cfg EXCEPT !.context = {o.context}]
    [] o.opt = "WithTransportMode"   -> [cfg EXCEPT !.mode = o.mode]
    [] o.opt = "WithCache"           -> [cfg EXCEPT !.enableCache = o.enabled]
    [] o.opt = "WithCacheAdapter"    -> WithCacheAdapter(cfg, o.adapter)
    [] o.opt = "WithEndpoints"       -> [cfg EXCEPT !.rest = o.rest, !.ws = o.ws]
    [] o.opt = "WithDeferInit"       -> [cfg EXCEPT !.deferInit = TRUE]
    [] o.opt = "WithLocalEvaluation" -> [cfg EXCEPT !.localEvaluation = TRUE]

Config(endpoints, options) ==
  LET after[n \in 0..Len(options)] ==
        IF n = 0 THEN defaultConfig(endpoints) ELSE Apply(after[n - 1], options[n])
  IN  after[Len(options)]

\* The cache NewClient gives the client: "own" is the MemoryCache it makes itself.
CacheOf(cfg) ==
  IF ~cfg.enableCache THEN "none"
  ELSE IF cfg.cacheAdapter # {} THEN The(cfg.cacheAdapter) ELSE "own"
=============================================================================
