------------------------------- MODULE FlagCache -------------------------------
(***************************************************************************)
(* The cache adapters: MemoryCache of cache/memory.go and its twin in      *)
(* cache_adapter.go ("memory"), NopCache ("nop") and the Redis adapter of  *)
(* examples/custom-cache ("redis"), which keeps JSON.                      *)
(*                                                                         *)
(* A store holds for every API key a pointer to a flag entry and one to a  *)
(* context, in the way of its adapter.  Time is counted in ticks.          *)
(***************************************************************************)
EXTENDS EvaluationContext, Integers

NewStore(adapter, keys) ==
  [adapter |-> adapter, flags |-> [k \in keys |-> {}], contexts |-> [k \in keys |-> {}]]

\* Redis drops an entry when its time is over, MemoryCache stops loading it after;
\* a TTL of zero is none.  Mutated form: the TTL is not looked at.
NeverExpired(store, entry, ttl, now) == FALSE
Expired(store, entry, ttl, now) ==
  LET age == now - entry.storedAt
  IN  ttl > 0 /\ IF store.adapter = "redis" THEN age >= ttl ELSE age > ttl

LoadFlags(store, key, ttl, now) ==
  {e.flags : e \in {e \in store.flags[key] : ~Expired(store, e, ttl, now)}}

\* Mutated form: one entry for all keys, as with a constant Redis key.
SaveFlagsForAll(store, key, flags, now) ==
  [store EXCEPT !.flags = [k \in DOMAIN store.flags |-> {[flags |-> flags, storedAt |-> now]}]]
SaveFlags(store, key, flags, now) ==
  IF store.adapter = "nop" THEN store
  ELSE [store EXCEPT !.flags[key] = {[flags |-> flags, storedAt |-> now]}]

\* MemoryCache keeps the context itself and Redis its JSON.
Encode(adapter, ctx) == IF adapter = "redis" THEN evalContextToMap(ctx) ELSE ctx
Decode(adapter, stored) == IF adapter = "redis" THEN Unmarshal(stored) ELSE {stored}

LoadContext(store, key) == UNION {Decode(store.adapter, s) : s \in store.contexts[key]}

SaveContext(store, key, ctx) ==
  IF store.adapter = "nop" THEN store
  ELSE [store EXCEPT !.contexts[key] = {Encode(store.adapter, ctx)}]
=============================================================================
