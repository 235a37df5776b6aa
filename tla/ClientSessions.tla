---------------------------- MODULE ClientSessions ----------------------------
(***************************************************************************)
(* Clients that come and go in processes that are started again and again, *)
(* all with one cache adapter: NewClient with its options, the restore at  *)
(* start-up, degraded mode, and what the adapter hands from one client to  *)
(* the next.  client.go, client_options.go, cache/, cache_adapter.go,      *)
(* types.go, and FetchFlags of transport/websocket.go as far as it         *)
(* compares contexts.                                                      *)
(*                                                                         *)
(* The goroutines of one client are the subject of FlagClient.  Here each  *)
(* of their cache calls is a step of its own, so that time passes and the  *)
(* other clients of the adapter act between a load, what is stored and     *)
(* what is saved.  The bound on a client: one updateFlags at a time.       *)
(***************************************************************************)
EXTENDS FlagCache, ClientOptions

CONSTANTS
  Client,     \* the clients a process has room for
  Key,        \* API keys
  Start,      \* how clients are started: records of key, environment and options
  Context,    \* the contexts of UpdateContext calls
  Adapter,    \* the adapters the program may be built with: "memory", "redis", "nop"
  TTL,        \* their TTL
  MaxTime,    \* the last tick of the clock
  MaxStarts,  \* bound on NewClient calls
  MaxUpdates  \* bound on UpdateContext calls

EndpointsOf(s) == getEndpoints(s.environment)
Runnable == {s \in Start : EndpointsOf(s) # {}}
Configs == [s \in Runnable |-> Config(The(EndpointsOf(s)), s.options)]
ConfigOf(s) == Configs[s]

\* The contexts a client may have: given to it, or saved and restored.
Given == Context \cup UNION {ConfigOf(s).context : s \in Runnable}
Restorable == UNION {Decode(a, Encode(a, ctx)) : a \in Adapter, ctx \in Context}

ASSUME BoundsAreNumbers ==
  TTL \in Nat /\ MaxTime \in Nat /\ MaxStarts \in Nat /\ MaxUpdates \in Nat

ASSUME StartsAreTyped ==
  /\ Adapter \subseteq {"memory", "redis", "nop"}
  /\ \A ctx \in Context : \A pointer \in {ctx.user, ctx.organization} : \A e, f \in pointer : e = f
  /\ "" \notin Key /\ \A s \in Start : s.key \in Key \cup {""}
  /\ \A s \in Runnable : /\ ConfigOf(s).mode \in {"auto", "websocket", "long-polling"}
                         /\ ConfigOf(s).cacheAdapter \subseteq {"shared"}

\* Options are lists of what the With functions of client_options.go return.
ASSUME OptionsAreTyped ==
  \A s \in Start :
    /\ Len(s.options) \in Nat /\ DOMAIN s.options = 1..Len(s.options)
    /\ \A i \in 1..Len(s.options) : s.options[i].opt \in WithFunctions

VARIABLES
  client,  \* the clients of the process: a set of at most one record each
  store,   \* the adapter of the program and what it holds
  now,     \* the clock
  starts,  \* NewClient calls so far
  updates, \* UpdateContext calls so far
  exit,    \* the contexts whose comparison has just ended the process
  told     \* told[k]: the context given to UpdateContext last, for what store holds

vars == <<client, store, now, starts, updates, exit, told>>

\* Flags are labelled with the key they were evaluated for, the time the server sent
\* them, how often they have been restored since, and how long they took, from the
\* server or from the adapter, until they were saved.
Flags == [key : Key, born : 0..MaxTime, lives : Nat, waited : Nat]

\* What an updateFlags has yet to do: store the flags in held, save those in saving.
Updates == [flags : Flags, since : 0..MaxTime]
Idle(r) == r.held = {} /\ r.saving = {}

NoTells == [k \in Key |-> {}]

Init ==
  /\ client = [c \in Client |-> {}]
  /\ \E a \in Adapter : store = NewStore(a, Key)
  /\ now = 0
  /\ starts = 0
  /\ updates = 0
  /\ exit = {}
  /\ told = NoTells
-----------------------------------------------------------------------------
(***************************************************************************)
(* The process                                                             *)
(***************************************************************************)
\* Redis outlives the process, a MemoryCache does not.
ProcessEnds(compared) ==
  /\ client' = [c \in Client |-> {}]
  /\ store' = IF store.adapter = "redis" THEN store ELSE NewStore(store.adapter, Key)
  /\ told' = IF store.adapter = "redis" THEN told ELSE NoTells
  /\ exit' = compared
  /\ UNCHANGED <<now, updates>>

Crash ==
  /\ \E c \in Client : client[c] # {}
  /\ ProcessEnds({})
  /\ UNCHANGED starts

Tick ==
  /\ now < MaxTime
  /\ now' = now + 1
  /\ UNCHANGED <<client, store, starts, updates, exit, told>>
-----------------------------------------------------------------------------
(***************************************************************************)
(* Starting a client.  pc is "deferred" before the first Ready of a client *)
(* with WithDeferInit, and "closed" while a closed client has an update to *)
(* finish.                                                                 *)
(***************************************************************************)
NewClient(c, s) ==
  /\ client[c] = {}
  /\ starts < MaxStarts
  /\ s \in Runnable /\ s.key # ""
  /\ client' = [client EXCEPT ![c] =
       {[start |-> s, pc |-> IF ConfigOf(s).deferInit THEN "deferred" ELSE "restoreContext",
         context |-> ConfigOf(s).context, last |-> Empty, link |-> "none",
         flags |-> {}, waiting |-> {}, held |-> {}, saving |-> {}]}]
  /\ starts' = starts + 1
  /\ exit' = {}
  /\ UNCHANGED <<store, now, updates, told>>

\* An empty key is refused before anything else is looked at.
NewClientRefuses(c, s) ==
  /\ client[c] = {}
  /\ starts < MaxStarts
  /\ s.key = ""
  /\ starts' = starts + 1
  /\ UNCHANGED <<client, store, now, updates, exit, told>>

\* getEndpoints cuts eight bytes off a shorter text.
NewClientPanics(c, s) ==
  /\ client[c] = {}
  /\ starts < MaxStarts
  /\ s \in Start \ Runnable /\ s.key # ""
  /\ ProcessEnds({})
  /\ starts' = starts + 1

At(c, pc) == \E r \in client[c] : r.pc = pc
Shares(r) == CacheOf(ConfigOf(r.start)) = "shared"

\* What becomes of a client: a closed one that has nothing left to do is gone.
Become(c, r) ==
  client' = [client EXCEPT ![c] = IF r.pc = "closed" /\ Idle(r) THEN {} ELSE {r}]

\* Ready or Initialize.
Ready(c) ==
  /\ At(c, "deferred")
  /\ Become(c, [The(client[c]) EXCEPT !.pc = "restoreContext"])
  /\ UNCHANGED <<store, now, starts, updates, exit, told>>

\* A client with a context keeps it.  The client's own MemoryCache is as new as the
\* client and has nothing to restore; nothing reads what is saved in it later.
Restored(r) ==
  IF Shares(r) THEN LoadContext(store, r.start.key) ELSE {}
RestoreContext(c) ==
  /\ At(c, "restoreContext")
  /\ LET r == The(client[c])
     IN  Become(c, [r EXCEPT !.pc = "restoreFlags",
                             !.context = IF r.context # {} THEN r.context ELSE Restored(r)])
  /\ UNCHANGED <<store, now, starts, updates, exit, told>>

\* updateFlags, to which restored flags go like any others: the client gets the flags,
\* and then the adapter, if the cache is not the client's own.
Saved(u) == [u.flags EXCEPT !.waited = @ + (now - u.since)]

UpdateStores(c) ==
  /\ \E r \in client[c] :
       /\ r.held # {}
       /\ Become(c, [r EXCEPT !.flags = {u.flags : u \in r.held}, !.held = {},
                              !.saving = IF Shares(r) THEN r.held ELSE {}])
  /\ UNCHANGED <<store, now, starts, updates, exit, told>>

UpdateSaves(c) ==
  /\ \E r \in client[c] : \E u \in r.saving :
       /\ Become(c, [r EXCEPT !.saving = {}])
       /\ store' = SaveFlags(store, r.start.key, Saved(u), now)
  /\ UNCHANGED <<now, starts, updates, exit, told>>

Loaded(r) ==
  IF Shares(r) THEN LoadFlags(store, r.start.key, TTL, now) ELSE {}

RestoreFlags(c) ==
  /\ At(c, "restoreFlags")
  /\ LET r == The(client[c])
     IN  Become(c, [r EXCEPT !.pc = "connect",
           !.held = {[flags |-> [f EXCEPT !.lives = @ + 1], since |-> now] : f \in Loaded(r)}])
  /\ UNCHANGED <<store, now, starts, updates, exit, told>>

ContextOf(r) == IF r.context = {} THEN EmptyCtx ELSE The(r.context)

\* lastEvalCtx of the WebSocket transport.
LastSent(link, ctx) == IF link = "ws" THEN evalContextToMap(ctx) ELSE Empty

Connect(c, link) ==
  /\ At(c, "connect")
  /\ LET r == The(client[c])
     IN  /\ Idle(r)
         /\ <<link, ConfigOf(r.start).mode>> \in
              {<<"ws", "websocket">>, <<"ws", "auto">>, <<"http", "auto">>, <<"http", "long-polling">>}
         /\ Become(c, [r EXCEPT !.pc = "fetch", !.link = link, !.last = LastSent(link, ContextOf(r))])
  /\ UNCHANGED <<store, now, starts, updates, exit, told>>

\* Without restored flags, readyErr is set and the client never has any.  Mutated
\* form: what was restored does not matter.
AlwaysDegraded(r) == "degraded"
AfterFailure(r) == IF r.flags = {} THEN "failed" ELSE "degraded"
ConnectFails(c) ==
  /\ At(c, "connect") /\ Idle(The(client[c]))
  /\ Become(c, [The(client[c]) EXCEPT !.pc = AfterFailure(The(client[c]))])
  /\ UNCHANGED <<store, now, starts, updates, exit, told>>
-----------------------------------------------------------------------------
(***************************************************************************)
(* Fetching.  Over WebSocket, FetchFlags compares the context with the     *)
(* last one, unless the connection is down and it fails at once; HTTP does *)
(* not compare.  However the call is answered or fails, flags may arrive.  *)
(***************************************************************************)
Outcomes(r, ctx) ==
  IF r.link = "ws" THEN contextsEqual(r.last, evalContextToMap(ctx)) ELSE {"different"}

\* The server sends flags, which are the client's to store and to save.
Receive(c, r) ==
  Become(c, [r EXCEPT !.held =
    {[flags |-> [key |-> r.start.key, born |-> now, lives |-> 0, waited |-> 0], since |-> now]}])

FetchFlags(c, ctx, after) ==
  LET r == [after EXCEPT !.last = LastSent(after.link, ctx)]
  IN  \/ /\ Outcomes(after, ctx) # {"panic"}
         /\ Receive(c, r)
         /\ UNCHANGED <<store, now, starts, updates, exit, told>>
      \/ /\ Become(c, r)
         /\ UNCHANGED <<store, now, starts, updates, exit, told>>
      \/ /\ "panic" \in Outcomes(after, ctx)
         /\ ProcessEnds({after.last, r.last})
         /\ UNCHANGED starts

FirstFetch(c) ==
  /\ At(c, "fetch")
  /\ LET r == The(client[c])
     IN  FetchFlags(c, ContextOf(r), [r EXCEPT !.pc = "live"])

\* The goroutines of UpdateContext calls wait until the client is ready; in
\* degraded mode the transport has no connection and they fail.
Refetch(c, ctx) ==
  /\ At(c, "live") /\ Idle(The(client[c]))
  /\ ctx \in The(client[c]).waiting
  /\ LET r == The(client[c])
     IN  FetchFlags(c, ctx, [r EXCEPT !.waiting = @ \ {ctx}])

RefetchFails(c) ==
  /\ At(c, "degraded") \/ At(c, "failed")
  /\ The(client[c]).waiting # {}
  /\ Become(c, [The(client[c]) EXCEPT !.waiting = {}])
  /\ UNCHANGED <<store, now, starts, updates, exit, told>>

\* A push or a poll.
Push(c) ==
  /\ At(c, "live") /\ Idle(The(client[c]))
  /\ Receive(c, The(client[c]))
  /\ UNCHANGED <<store, now, starts, updates, exit, told>>

UpdateContext(c, ctx) ==
  /\ client[c] # {} /\ ~At(c, "closed")
  /\ updates < MaxUpdates
  /\ LET r == The(client[c])
         cached == Shares(r) /\ store.adapter # "nop"
     IN  /\ Become(c, [r EXCEPT !.context = {ctx}, !.waiting = @ \cup {ctx}])
         /\ store' = IF cached THEN SaveContext(store, r.start.key, ctx) ELSE store
         /\ told' = IF cached THEN [told EXCEPT ![r.start.key] = {ctx}] ELSE told
  /\ updates' = updates + 1
  /\ UNCHANGED <<now, starts, exit>>

\* Close after start-up; for a Close during initialize see FlagClient.  Nobody waits
\* for an update that has begun, nor calls the client any more.
Close(c) ==
  /\ At(c, "deferred") \/ At(c, "live") \/ At(c, "degraded") \/ At(c, "failed")
  /\ Become(c, [The(client[c]) EXCEPT !.pc = "closed", !.last = Empty, !.link = "none",
                                      !.waiting = {}])
  /\ UNCHANGED <<store, now, starts, updates, exit, told>>

Next ==
  \/ Tick \/ Crash
  \/ \E c \in Client :
       \/ \E s \in Start : NewClient(c, s) \/ NewClientRefuses(c, s) \/ NewClientPanics(c, s)
       \/ Ready(c) \/ RestoreContext(c) \/ RestoreFlags(c) \/ ConnectFails(c)
       \/ UpdateStores(c) \/ UpdateSaves(c)
       \/ \E link \in {"ws", "http"} : Connect(c, link)
       \/ FirstFetch(c) \/ RefetchFails(c) \/ Push(c) \/ Close(c)
       \/ \E ctx \in Context : Refetch(c, ctx) \/ UpdateContext(c, ctx)

Spec == Init /\ [][Next]_vars
-----------------------------------------------------------------------------
(***************************************************************************)
(* Properties                                                              *)
(***************************************************************************)
\* Flags are in a client only after its start-up got that far, a client in degraded
\* mode has some and one that failed has none, and nothing is on its way to either
\* during a connection attempt.  No client has an empty key.
ClientOK(r) ==
  /\ r.start \in Runnable /\ r.start.key \in Key
  /\ r.pc \in {"deferred", "restoreContext", "restoreFlags", "connect", "fetch",
               "live", "degraded", "failed", "closed"}
  /\ r.context \subseteq Given \cup Restorable
  /\ r.waiting \subseteq Context
  /\ r.flags \subseteq Flags
  /\ r.held \cup r.saving \subseteq Updates
  /\ r.held = {} \/ r.saving = {}
  /\ r.link \in IF r.pc \in {"fetch", "live"} THEN {"ws", "http"} ELSE {"none"}
  /\ r.pc \in {"deferred", "restoreContext", "restoreFlags", "failed"} => r.flags = {}
  /\ r.pc = "degraded" => r.flags # {}
  /\ r.pc \notin {"connect", "live", "closed"} => Idle(r)

TypeOK ==
  /\ \A c \in Client : \A r, q \in client[c] : r = q /\ ClientOK(r)
  /\ now \in 0..MaxTime
  /\ starts \in 0..MaxStarts
  /\ updates \in 0..MaxUpdates
  /\ \A k \in Key : \A e \in store.flags[k] : e.flags \in Flags /\ e.storedAt \in e.flags.born..now

\* "Clients with different API keys can share an adapter without collision": what is
\* stored for a key, and what a client with that key serves or is about to store or
\* save, was evaluated for it.
KeysAreIsolated ==
  /\ \A k \in Key : \A e \in store.flags[k] : e.flags.key = k
  /\ \A c \in Client : \A r \in client[c] :
       /\ \A f \in r.flags : f.key = r.start.key
       /\ \A u \in r.held \cup r.saving : u.flags.key = r.start.key

\* Start-up saves the flags it has restored, with a new TTL, so the TTL bounds the age
\* of what the cache holds only together with the number of restores, and with the time
\* the flags spent between a load or an answer and the save: they may be expired by then.
AgeBoundedByRestores ==
  TTL > 0 => \A k \in Key : \A e \in store.flags[k] :
    e.storedAt - e.flags.born <= e.flags.lives * TTL + e.flags.waited

\* Comparing two contexts never ends the process.
NeverPanics == exit = {}

\* The context a client restores is the one that was saved.
RestoredContextIsSaved == \A k \in Key : LoadContext(store, k) = told[k]

\* Attributes do not have the name of a field.
Ordinary(m) ==
  DOMAIN m \cap {<<"kind">>, <<"key">>, <<"attributes">>, <<"user">>, <<"organization">>} = {}
Plain(ctx) ==
  Ordinary(ctx.attributes) /\ \A e \in ctx.user \cup ctx.organization : Ordinary(e.attributes)

Keys(entities) == {<<e.kind, e.key>> : e \in entities}
Identity(ctx) == <<ctx.kind, ctx.key, Keys(ctx.user), Keys(ctx.organization)>>

\* Whoever the context given to UpdateContext last named is whom the next client of
\* the key restores, through crashes, panics, restarts and the TTL of the flags.
IdentitySurvives ==
  \A k \in Key : \A ctx \in told[k] : Plain(ctx) =>
    {Identity(d) : d \in LoadContext(store, k)} = {Identity(ctx)}

\* The last option of each kind counts, but WithCache(true) after WithCacheAdapter
\* keeps the adapter.
LastOf(options, names) ==
  LET those == {i \in DOMAIN options : options[i].opt \in names}
  IN  {options[i] : i \in {i \in those : \A j \in those : j <= i}}
Promised(s) ==
  LET switch == LastOf(s.options, {"WithCache", "WithCacheAdapter"})
      given  == LastOf(s.options, {"WithCacheAdapter"})
  IN  [context |-> {o.context : o \in LastOf(s.options, {"WithContext"})},
       cache   |-> IF \A o \in switch : o.opt = "WithCache" /\ ~o.enabled THEN "none"
                   ELSE IF given = {} THEN "own" ELSE (The(given)).adapter]
ConfigFollowsOptions ==
  \A c \in Client : \A r \in client[c] :
    LET cfg == ConfigOf(r.start)
    IN  Promised(r.start) = [context |-> cfg.context, cache |-> CacheOf(cfg)]
=============================================================================
