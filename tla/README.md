# A TLA+ model of flagmint-go

flagmint-go is the Go SDK of a feature-flag service. A `FlagClient` keeps the
flag values of one evaluation context in memory, gets them from a backend over a
transport, saves them in an optional cache, and calls its subscribers when they
change. Flags can also be evaluated in the process, from configurations the
program hands over. This directory holds TLA+ modules for the client, its options,
its transports, its cache and the local evaluator, the TLC configurations that
check them and TLAPS proofs about them.

Every definition follows the source; comments next to the definitions and the
`map` of `PROJECT.json` give the lines.

## 1. The system

### Parts, state, operations

| part | source | state | operations |
|------|--------|-------|------------|
| FlagClient | `client.go` | flag values and context behind `RWValue`s, `readyCh`/`readyErr`, `internalCtx`, `subscribers` under `subMu` | `NewClient`, `Ready`/`Initialize`, `initialize`, `UpdateContext`, `Subscribe`/unsubscribe, `Close`, getters; internally `updateFlags`, `doFetchFlags`, `onFlagsReceived` |
| Transport | `transport/transport.go` | none, an interface | `Connect`, `FetchFlags`, `OnFlagsUpdated`, `Close` |
| WebSocketTransport | `transport/websocket.go` | `conn`, `lastEvalCtx`, `pendingCh` under `mu`; `innerCtx`, `innerCancel`, `closeOnce`, `wg` | the interface; `readLoop`, `reconnect`, `deliverFlags` |
| HTTPTransport | `transport/http.go` | last context, last flags, `innerCancel`, `closeOnce`, `wg` | the interface; `pollLoop`, `postEvaluate`, `notifyUpdated` |
| AutoTransport | `transport/auto.go` | `active` | tries WebSocket, falls back to HTTP, then delegates |
| Cache | `cache_adapter.go`, `cache/`, `examples/custom-cache` | flags with the time they were stored, contexts | `LoadFlags`, `SaveFlags`, `LoadContext`, `SaveContext` |
| Evaluator | `evaluate/` | none | `Evaluate`: flag switch, targeting rules, segments, rollouts, operators with coercion, stable hashing |
| Context and values | `context.go`, `types.go` | none | `Flatten`, `MarshalJSON`, `FeatureFlags`, typed getters |
| Back-off | `internal/backoff` | `attempt` | `Next`, `Reset` |
| RWValue | `internal/syncutil` | one value behind an `RWMutex` | `Load`, `Store` |
| Options | `client_options.go` | configuration | `With...`, endpoint choice |

### How they interact

`NewClient` or the first `Ready` starts one goroutine that runs `initialize`: it
restores the cached context and flags, calls `Transport.Connect`, fetches the
first flags and closes `readyCh`. `UpdateContext` stores a context and starts a
goroutine that waits for `readyCh` (or for the client's cancellation) and
fetches. The transport runs one reader goroutine (`readLoop` or `pollLoop`) that
calls `onFlagsReceived` for what the server pushes. All three kinds of goroutine
end in `updateFlags`: store the value, save it in the cache, call every callback
under the read lock of `subMu`. `Close` cancels `internalCtx`, empties
`subscribers` under the write lock and calls `Transport.Close`, which cancels the
reader and waits for it.

### What is hard

* Any number of `updateFlags` run at once, and their three steps interleave.
* Refetches of successive contexts answer in any order.
* Callbacks run under a read lock while `Subscribe`, unsubscribe and `Close` want
  the write lock; the first call of `Subscribe` is made outside it.
* `Close` may come at every moment: before `Connect`, between two assignments of
  `Connect`, during a redial, during a callback.
* In the WebSocket transport all `FetchFlags` calls share one reply channel, the
  reader redials while calls come and go, and a call with a new context dials a
  connection of its own.
* `Connect` can fail with and without restored flags, the first fetch can fail
  after `Connect` succeeded, the cache adapter can fail.
* `AutoTransport` publishes its choice in a field that `Close` reads without a lock,
  and starts HTTP beside what is left of the WebSocket attempt.
* An adapter outlives clients and, when it is external, processes: what one client
  saved another restores, after a crash, past its time, or under another key.
* A context has four forms, the struct, the flat map of the local evaluator, the JSON
  of the server, and the struct read back from that JSON. They are compared with `!=`
  on `any`, which panics for maps and lists.

`PROJECT.json` lists these and the others one by one as `hazards`, with the line
and the properties that cover it.

### What makes each part correct

* **FlagClient**: no fetch before `Connect` has returned; degraded mode has flags to
  serve; a callback hears of updates only while registered and of each one
  registered for; restored flags never displace live ones, nor initialize's first
  fetch a refetch; at rest the cache lags behind memory by updates that overlapped and
  by nothing else; `Close` returns, waits for deliveries and lets every goroutine end.
* **WebSocketTransport**: `t.conn` is the reader's connection or nil; a waiting
  call keeps its channel until it is answered, ends or a newer call comes; one
  connection at a time, announced with the right context; after `Close` the
  reader ends and every call returns.
* **HTTPTransport**: what the poll loop remembers has reached the client; the loop
  comes to know the current flags, however many requests fail, and so does the client;
  after `Close` the loop ends and every call returns.
* **Evaluator**: a flag that is off has its off value; the first rule that matches
  and leads somewhere decides, whatever rules before it fail; equality and order of
  values of different types do not contradict each other; an error gives the caller its
  fallback, and only a nil segment or rollout that decides makes `GetFlag` panic.
* **Rollouts**: variants share the buckets 0..99 as their weights say; a gradual
  rollout stays below its target and never takes a user out again.
* **AutoTransport**: one transport at a time; `Connect` ends whatever the first attempt
  left behind; the two behave as one transport.
* **Cache**: API keys do not mix; the age of what is stored is bounded by the restores
  and the delays it has been through; whoever a saved context names is whom the next client restores.
* **Contexts**: what a comparison calls equal is equal, and no comparison ends the
  process; the local evaluator and the server see the same attributes.
* **Options**: the last option of a kind counts.

## 2. The modules

| module | what it is |
|--------|------------|
| `FlagClient` | `client.go`, with the transport as far as the client sees it |
| `FlagBroadcast` | abstract: registrations change and updates are published in one step each, to exactly the registered callbacks |
| `WebSocketTransport` | `transport/websocket.go` and the server it talks to |
| `HTTPTransport` | `transport/http.go` and the server it polls |
| `Transport` | abstract: the lifecycle of a transport, phases of `Connect`, one reader, `Close` |
| `AutoTransport` | `transport/auto.go`: `Transport` instantiated twice, composed, and again a `Transport` |
| `GoValues` | values of type `any` and maps of them |
| `EvaluationContext` | `context.go`, the contexts of `types.go`, and `contextsEqual`; extends `GoValues` |
| `FlagCache` | the cache adapters; extends `EvaluationContext` |
| `ClientOptions` | `client_options.go` and what `NewClient` makes of it; extends `GoValues` |
| `ClientSessions` | clients that come and go over one adapter; extends `FlagCache` and `ClientOptions` |
| `Conditions` | `evaluate/rules.go` and `evaluate/coerce.go`: values, coercions, conditions |
| `Rollout` | `evaluate/rollout.go`: bucketing keys and the three strategies |
| `Evaluator` | `evaluate/evaluator.go` as `GetFlag` calls it; extends `EvaluationContext` and `Rollout`, which extends `Conditions` |
| `MCFlagClient`, `MCWebSocketTransport`, `MCHTTPTransport`, `MCAutoTransport`, `MCClientSessions`, `MCEvaluator` | values of the constants for TLC |
| `FlagClient_proofs`, `WebSocketTransport_proofs`, `HTTPTransport_proofs`, `AutoTransport_proofs`, `ClientSessions_proofs`, `Evaluator_proofs` | theorems and their proofs |
| `Rollout_proofs` | lemmas about cumulative weights and the buckets between them, for `Evaluator_proofs` |
| `NaturalRecursion` | induction and recursion over an interval, for `Rollout_proofs` and `ClientSessions_proofs` |

### FlagClient

A flag set in the client is always the work of one run of `updateFlags`, so a
flag set is named after its update: `CacheRestore`, `InitFetch`, one `Fetcher` per
`UpdateContext` call (which also names its context), one `Push` per pushed
payload. `upd[u]` is the program counter of update `u` over
`saveCtx, wait, fetching, answered, store, save, lock, notify`; `initPc` is that of
`initialize`, `callPc`, `subPc` and `closePc` are those of `Ready`, `Subscribe` and
`Close` calls. Each `RWValue` access, cache call and lock region is a step.
`WriterMayLock` is the writer side of `subMu`; the reader side is `NotifyBegin`.
Writer preference of `RWMutex` orders only readers that arrive after a writer has
called `Lock`; a reader may still arrive before that call, so the model lets
readers in whenever no writer holds the lock. The callbacks of the
model take no lock themselves.

`link`, `closeOnce`, `stop` and `reading` are the transport: how far `Connect` is,
whether `closeOnce` is used, whether the reader has been cancelled and whether it
counts in `wg`. `kind` says what carries the flags. Over HTTP a fetch has the response to
its own request. Over a WebSocket the reader hands one message to the fetches that wait
(`answered`) and then to `onFlagsReceived`, so every answer is a push as well, the two
run `updateFlags` side by side, and an answer that is in the channel is taken even
after the reader has ended. Which context that message is of is a question for
`WebSocketTransport`; here a flag set tells who brought it in. `before[u]` is a history
variable, the updates that had returned when `u` ran its `Store`. Calls of `onError` are
left out: it is nil unless the program gives one, and changes nothing in the client.
`Mode` is `"websocket"` for `WithTransportMode` and `"auto"` for the
default; they differ in what `Close` does before `active` is set, in whether
`Connect` listens to the client's context and in whether `Connect` itself may
deliver (HTTP's first request).

Reads of `active` and `innerCancel` in `Close` are not synchronised with the writes
in `Connect`; a read sees the old or the new value, and both are covered by the
order of the steps.

### WebSocketTransport

`connectPc`, `readerPc`, `fetchPc` and `closePc` are the program counters of
`Connect`, `readLoop`, the `FetchFlags` calls and the `Close` calls; `conn`, `lastCtx`,
`pending`, `inner` and `once` are the fields. A connection is a number with the
state of its wire, the context its handshake announced, and the messages sent and
not read. Flags are named after the context the server evaluated them for, the
one of the handshake, because no message ever carries a context.
`slot` is the channel `deliverFlags` has taken from `pendingCh` and not yet
sent to. Back-off delays are abstracted: a redial may succeed at any time or
never. A read whose context is done may leave the connection open or close it,
the library decides.

`UpdateContext` stores its context although its comment says it merges; the
model follows the code.

### HTTPTransport

`connectPc` and `pollPc` are the program counters of `Connect` and `pollLoop`, whose
callbacks never overlap, because the loop starts after `Connect`'s first request; so
they share `got`, the response in hand. A flag set is a pair: the context of its
request and the state of the server's configuration (`config`, which `ServerChanges`
edits at any moment). `lastFlags` is what the loop compares a response with;
`client` is what the client above the transport stored last, from the callback or
from a `FetchFlags` that returned. An answer is made by the server in one step
(`PollAnswered`) and may still be lost on its way (`PollFails`). The lengths of
sleeps and back-off are left out: a timer may fire at any time.

### Transport

The contract has no fetches and no connections: the phase of `Connect`, whether
`closeOnce` is used, whether the reader runs, is told to stop or is inside the
callback, and where each `Close` is. The transport steps of `FlagClient` are the
steps of this contract with the client's own conditions added, and
`WebSocketTransport`, `HTTPTransport` and `AutoTransport` implement it under the mappings
at the end of those modules.

### AutoTransport

The two transports are two instances of the contract, `WS` and `HTTP`, with six
variables each; nothing else is assumed of them, so what is shown holds for every
transport that keeps it. `TryWS`, `WSConnects`, `CloseWS`, `FallBack`, `HTTPConnects` and
`HTTPFails` are the course of `Connect`; `Cleanup` is the `Close` that `Connect` itself
calls on a WebSocket transport that failed. `active` is an interface value, two
words, written without a lock: it is `"half"` between the two writes, and a
`Close` that reads it then may see nil (`CloseNothing`) or call a method of half a
transport (`ClosePanics`), after which `dead` stops the program. The mapping to one
transport makes the WebSocket attempt and closing it part of connecting, and a
transport that is up but not yet published one whose `Connect` has not returned.

### GoValues, EvaluationContext

A Go value of type `any` is a pair of its dynamic type and its content. A context is a
record, its user and organization sets of at most one entity. JSON is the object it
denotes, a map whose numbers are all `float64` (`ReadNumber`). `Flatten` and `MarshalJSON`
differ in what wins when an attribute is called `kind` or `key`, and in how a user and
an organization appear; both are written with `Over`, whose first argument wins.
`Unmarshal` is `json.Unmarshal` into the struct, which reads the fields' own names and so
drops flattened attributes. `contextsEqual` is the set of its possible ends, `"equal"`,
`"different"` and `"panic"`, because the loop takes the entries of a map in any order.
Attributes are one level deep and names that differ in case only are one name.

### FlagCache, ClientOptions

A store has an entry of flags and a context for every API key, in the way of its
adapter: `"memory"` keeps values, `"redis"` JSON, `"nop"` nothing. Time is counted in ticks.
The default cache of `WithCache(true)`, `internalMemoryCache`, is as new as its client and
misses at start-up; nothing reads it later, so it has no store.

An option is a record with the name of its `With` function, applied in order by
`Config`. A URL is the sequence of its scheme, host and path; `DeriveWS` is the text surgery of
`"wss://" + rest[8:]`, empty when the slice panics. An endpoint that is not https is cut
in the wrong place, which the model calls `"cut"`. `FLAGMINT_WS_ENDPOINT` alone is not
looked at, as in the code; an unknown `FLAGMINT_ENV` gives the local endpoints, as the
code does and its comment ("Default to production") does not.

### ClientSessions

A process has room for some clients; `client[c]` is the record of a client or empty.
`NewClient` takes one of the ways to start in `Start` (key, environment, options);
an empty key is refused (`NewClientRefuses`), a short endpoint ends the process.
`RestoreContext`, `RestoreFlags`, `Connect`, `ConnectFails` and `FirstFetch` are `initialize`,
one cache or transport call per step; `Refetch` is the goroutine of an `UpdateContext`,
`Push` a delivery. The flags of a load or an answer are `held` until `UpdateStores` and
`saving` until `UpdateSaves`, and between these steps the clock ticks, other clients of the
key load and save, and the process may end. A client that is closed meanwhile finishes
(`"closed"`). `Crash` ends the process at any step:
a MemoryCache is lost with it, Redis is not. A `FetchFlags` over WebSocket compares the
context with the last one sent and may end the process (`exit` holds the two). Flags are
labelled with the key they were evaluated for, the time the server sent them, how
often they have been restored and how long they were on their way from a load or an
answer to the save. `told` is a history variable: the context last given to
`UpdateContext` for what the store holds. One client has one `updateFlags` at a time: several at once are left to `FlagClient`, as
are adapters that fail. `UpdateContext` stores and saves in one step.

### Conditions, Rollout, Evaluator

A coercion yields the set of its result, empty when it is an error. What `strconv` and
`strings` do to a text is given by constant tables, of which the proofs assume
that a text has one reading, that a number reads back as itself and that `true`
and `false` are not numbers. A name in a flat context is a sequence of parts,
`user.key` being `<<"user", "key">>`, and so is a bucketing key: kinds are taken to
contain no dot, so that `kind + "." + key` can be taken apart. A percentage is a whole number of `1/Scale`
percent, so that `int(percentage)` loses something; the hash is an arbitrary
function to the buckets 0..99. The conditions of a rule are a set, because neither
AND, OR nor NOT depends on their order; a pointer is a set of at most one element.
A rule whose segment is missing, an error that skips it, is a rule that does not
match. The maps of a configuration may have nil for a segment or a rollout, written as
the empty set; using it is the outcome `Panic`.

`Evaluator` has one `GetFlag` call at a time: calls share only what they read.
`GetFlag` finds some configuration, or none or a nil one (`NoFlag`), `LoadContext` some context or none, at two moments
between which other goroutines may have replaced either; then come the kill switch,
the shortcut of a boolean flag without rules, or the loop over the rules, one step
each (`SkipRule`, `ApplyRule`), and `Return`, which gives the caller the value, its own
fallback where there was an error, or the panic. `sort.Slice` leaves rules with equal order indices in
any order, so the loop may take any rule with the least one. `now` is the wall
clock, which a gradual rollout reads when its rule is applied; it is assumed not to
be set back.

## 3. Runs

Runs that end in a violation check something a comment or document of the
repository says and the code does not do; `findings` in `PROJECT.json` quotes it.

| run | instance | checks |
|-----|----------|--------|
| `client_lifecycle` | 1 `UpdateContext` with its refetch, 1 push, 1 callback, 1 `Close`, cache with every initial content, default transport over WebSocket and HTTP | `TypeOK`, `FetchAfterConnect`, `DegradedModeHasFlags`, `CacheLagsOnlyByOverlap`, `CacheNeverOverwritesLive`, `FirstFetchIsNeverLate`, `CallbackOnlyWhileRegistered`, `ImplementsBroadcast` |
| `client_shutdown` | 2 `Close`, refetch, push, `Ready`, default transport, fairness | `CloseWaitsForPushes`, `CloseReturns`, `ShutdownDrains` |
| `ws_transport` | 2 fetches, 2 `Close`, 2 connections, 1 message each, one context or none, fairness | `TypeOK`, `ReaderOwnsConn`, `SteadyContext`, `OnlyANewerCallTakesTheSlot`, `ImplementsTransport`, `ShutdownEnds` |
| `http_transport` | 1 fetch, 2 `Close`, 2 contexts, a configuration that changes twice, failing requests, fairness | `TypeOK`, `StoredFlagsWereDelivered`, `PollsKeepUp`, `ShutdownEnds`, `ImplementsTransport` |
| `auto_transport` | 3 `Close`, fairness | `TypeOK`, `OneTransport`, `ConnectEnds`, `ImplementsTransport` |
| `client_sessions` | 2 clients, 2 keys, 7 ways to start, 2 starts, 1 `UpdateContext`, memory and Redis adapter, TTL 1, 2 ticks of the clock | `TypeOK`, `KeysAreIsolated`, `AgeBoundedByRestores`, `IdentitySurvives`, `ConfigFollowsOptions` |
| `evaluator` | 614 configurations: every pair of 14 rules with and without a tie, two types, six rollouts and a nil one, a nil segment, flags without rules; 4 contexts or none; 3 ticks | `TypeOK`, `FirstMatchWins`, `RampNeverRetracts`, `BucketsMatchWeights`, `OneComparisonHolds` |
| `subscriber_stale` | `Subscribe` against one update | `SubscribersSeeCurrentFlags` is violated: the first call comes late with older flags |
| `close_during_connect` | default transport | `CloseStopsTransport` is violated: `Close` finds `active` nil and the connection made later stays |
| `foreign_flags` | 2 fetches, 2 contexts, 3 connections | `FetchReturnsItsContext` is violated: the connection dialled for the new context is never read |
| `multi_context_panics` | the starts of `client_sessions`, `NopCache` | `NeverPanics` is violated: the first fetch of a client with a multi-context compares it with itself |
| `stale_polls` | 1 fetch, 1 context, no `Close`, a configuration that changes twice, fairness | `PollsConverge` is violated: after a fetch, the polls answer with what `lastFlags` still holds and the client keeps the fetch's older flags |

Weaknesses the models have without a run of their own:

* A `Close` of the WebSocket transport before `innerCancel` is set uses `closeOnce` up and
  then waits for a reader that nobody stops (the contract's `CloseNothing`).
* `Ready` answers nil when `Connect` succeeded and the first fetch failed, and the client
  has no flags then, although `client.go:125` says "Returns nil if flags are available" and
  the quickstart "Blocks until flags are fetched". `DegradedModeHasFlags` speaks only of
  the other way to a nil, without a connection.
* The cached context can overwrite one given to `UpdateContext` during start-up
  (`InitCheckContext`, `InitStoreContext`).
* Two refetches that overlap can finish in the other order and leave the flags of the
  older context in memory; so can a refetch and a newer push. Two updates that overlap
  can store in one order and save in the other, so that a restart serves other flags than
  those last in memory. `CacheLagsOnlyByOverlap` allows exactly this.
* A restore can overwrite what another client of the key saved between its load and its
  save, with older flags under a new TTL (`RestoreFlags`, `UpdateSaves`).
* A multi-context is bucketed by its own key, which the documented examples leave empty,
  so all its users share one bucket; a context without a key is bucketed by its kind, and
  `user_id` is never looked at, since a flattened context always has a kind and a key
  (theorem `BucketingKey`). `docs/sdk/go/local-evaluation.mdx:137-138` promises the user's key,
  `evaluate/rollout.go:31-33` and `evaluate/errors.go:9-11` a fallback to `user_id`.
* A nil segment or rollout in a configuration makes `GetFlag` panic (`Panic`), although
  `evaluate/evaluator.go:34` says "Evaluation never panics." `FirstMatchWins` allows it
  where the first rule that decides needs the nil entry.
* A context read back from the Redis adapter has lost its attributes: `MarshalJSON` moves
  them to the top level and nothing moves them back (theorem `RoundTripStrips`).
* The default endpoints are the local ones. `client_options.go:81`,
  `client_options_test.go:171` and `186`, `docs/sdk/go/transport.mdx:51-56` and
  `docs/sdk/go/configuration.mdx:113` say production. The local REST endpoint already ends in
  the path that every request appends (`client_options.go:29`, `transport/http.go:220`).
* The weights of a variant rollout are accepted when they add up to 100 within 0.001, so
  they may exceed 100; the last variants then lose a bucket (`Excess`, rollout `"over"`).
* Restored flags are saved again with a new TTL: `AgeBoundedByRestores` is the bound that
  is left. The default cache never restores anything. Clients of one API key share
  flags, whatever their contexts.
* A multi-context saved in an external cache repeats the panic at every restart.

**Bounds.** The hazards of the client need two updates in flight: initialize's own beside
a refetch, a refetch beside the push of the same message, either beside restored flags. They
need a callback that comes and goes, and a `Close` against all of them. The runs have exactly
those, with no constraint on how they overlap, and the safety properties are proved for any
number, for both modes and with a failing cache. With the default transport degraded mode
follows a `Close` during `Connect`; the refused dial of `WithTransportMode(websocket)` is in the
theorem. Two connections cover a drop and a redial, and one that
`FetchFlags` dials beside the reader's; the properties of that run that speak of
safety are proved without the bound. `MaxSends` is 1, so that a connection can be
silent, answer once and stay silent; a second message would meet an empty slot
and be one more callback. Symmetry is used for the clients of `client_sessions` only, a run without liveness, where
they differ in nothing but their name. Three `Close`
calls cover one that finds nothing, one that closes and one that waits beside it. In
`client_sessions` two starts are two clients at once, of one key or of two, or a restart;
with a TTL of one tick and two ticks flags expire, expire between load and save, and are
renewed past their time; the
two contexts of `UpdateContext` are one with a nested attribute and one with entities,
and those of the options are a plain one and a multi-context; the starts set every
option, some twice and in both orders, and every way to an endpoint, the panic
included, and one has an empty key. `NopCache` is not in that run, since nothing comes back from it. One `FetchFlags` beside the polls is enough for each order of a
fetch and a poll, and two changes of the configuration for one that goes back to an
earlier state. Two rules are enough for a tie, for a failing rule before a deciding
one and the reverse; any number is proved. The rollouts of `MCRollouts` put weights,
steps and targets on both sides of a bucket's boundary, with half percents and
sums on both sides of 100 within the tolerance (`Scale` is 1000, a thousandth of a
percent); all 100 buckets are enumerated. Deadlock is not checked in the client's and the
transports' runs: a client may be left alone for ever.

**Fairness.** Goroutines that can run do: weak fairness per goroutine. Callbacks and
cache adapters return. A cancelled context makes `Connect`, `FetchFlags` and redials
return, because each selects on it. Timers fire. A request of the HTTP transport
ends, by `http.Client`'s timeout at the latest, and strong fairness of
`PollAnswered` and `PollCompares` says that the server answers a poll now and then:
without it nothing could converge. The fallback's `Connect`, once called, goes on
(strong fairness of `Connects`): each of the attempts ends, by its time-out at the latest,
and a transport that has started its reader does not deliver for ever before its
own `Connect` has returned. Otherwise nothing is assumed of users, of the
server or of an uncancelled fetch or dial. The evaluator and the sessions have no liveness property.

**Mutated forms.** A few definitions have a second form in the module, named in the
comment above it, that makes one mistake the code does not make (a guard
dropped, a stale context, a missing cancellation). For each property of a passing
run `PROJECT.json` names the replacement under which TLC refutes it.

## 4. Proofs

All for arbitrary sets of calls, callbacks, pushes, connections and contexts, from
the named assumptions of the modules: distinct actors and sentinels, positive
bounds, a legal configuration.

*FlagClient.* `IInv` is the conjunction of the type invariant and of parts the
properties are not inductive without: `PhaseInv` ties `initPc` to `link`
(`FetchAfterConnect` follows because a refetch starts only once `readyCh` is closed
without an error); `InitUpdatesInv` says that initialize's two updates are made
once, in their turn, so that the restored flags are stored before anything live
exists; the remaining parts say what degraded mode, the read lock and the reader
depend on. Every action preserves each part. The theorems `FetchIsAfterConnect`,
`DegradedModeServes` and `CloseWaits` follow state by state, `CallbacksAreRegistered` and
`CacheStaysBehind` step by step. `Refinement` maps each step to `FlagBroadcast`: an
update takes effect when its `notifySubscribers` releases the read lock; until then
registrations cannot change, so the callbacks it has called are exactly those
registered.

`FirstFetchComesFirst` is a step property too: while initialize's own fetch stores and
saves, every refetch still waits for `readyCh`, so it has stored and saved nothing.
`CacheFollowsFlags` rests on a second invariant, `HistoryInv`: the flags in memory are never
those of a run of `updateFlags` that had returned when another, which has stored since,
began, and the same of the cache and of saves. At rest both are the work of runs that have
returned; if they differ, neither run can have returned before the other began. It holds
for any number of refetches and pushes in any order, and no constraint is needed.

`CloseIsFinal` says under which use of the client `Close` is final, where the code alone
does not see to it: `Spec /\ []ClosedWhenReady => []CloseStopsTransport`, with `ClosedWhenReady`
that nobody calls `Close` before `initialize` has ended. The run `close_during_connect` shows
what happens otherwise; `ClosedInv` is the invariant, that the reader of a client that is ready
does not come back.

*WebSocketTransport.* `IInv` adds to the types that `Connect` sets its fields in order
(`PhaseInv`) and that `t.conn` is the reader's connection (`ReaderOwnsConn`, nearly
inductive by itself). `SlotOwnership` is a step property. `OneSteadyConnection` needs
`SteadyInv`: as long as every call used Connect's context, `lastEvalCtx` is that
context, no call dials, a reader that redials has seen its connection closed, and
so the reader's is the only open connection; that the hypothesis held before
a step if it holds after it is `SteadyBefore`. In
`SteadyCallsAreAnswered` the same invariant says of the answers that each is of that
context, since the reader's connection announced it; so a call without a new context keeps
the promise that `foreign_flags` refutes for calls with one. `Contract` maps each step to
`Transport`; the interesting one is `Close`, which stops the reader exactly when
`innerCancel` is set.

*HTTPTransport.* `PhaseInv` says that `innerCtx` is set before the loop starts and
that the loop starts last; with it `HandInv` says that `Connect` and the loop
never hold a response at once, so that the one in `got` belongs to the callback that
is about to run. `StoredFlagsWereDelivered` is inductive beside them: outside a
callback the client holds `lastFlags` unless a fetch has stored something later.
`Contract` is the same refinement as for WebSocket, with `Connect`'s own delivery.

*AutoTransport.* `IInv` says of each transport what the contract gives (`Quiet`: no reader
before `Connect` has armed one or after it failed), that nobody but `Connect` closes a
transport that is not the active one (`Apart`), and where the two are while `Connect`
goes on (`Stages`: HTTP is new until the WebSocket attempt has failed). `OneTransport` follows. `Contract` maps every step of the two instances to a
step of the third: those of the transport that is current map to themselves, the
others to stuttering; that the failed attempt is closed, and so does nothing more,
is what makes its steps invisible.

*ClientSessions.* Four parts. `ClientsInv`: a client is at most one record, its context
is one that was given or restored, its flags have its key, it has flags when it is
degraded, and what it is about to store or save was within its bound when it set out
(`UpdateInv`). `StoreInv`: flags are stored under the key they were evaluated for, not before
they were sent, and no later after it than one TTL per restore and the time the flags were on their way;
the bound is inductive because `LoadFlags` does not answer with an entry older than the TTL,
and because a save adds the time since its load (`SavedLater`). `ToldInv`: the
context stored is the one told, as the adapter encodes it; with `IdentityRoundTrip`, that
kind, key and entities survive JSON and the struct, it gives `IdentitySurvives`; with
`RoundTripStrips`, that nothing else does, `RestoreIsFaithful`: the context restored is the one saved for every adapter but Redis, and
for Redis when contexts have no attributes to lose. `CountersInv` is the clock
and the bounds. `FlatContextsNeverPanic` rests on `PanicNeedsNesting` and adds that what was sent last
does not nest (`Calm`): a program whose contexts are no multi-contexts and have no map or
list among their attributes never meets the panic of `multi_context_panics`, since such
contexts stay so through JSON and the cache. `OptionsAreFollowed` is about lists of options of
any length: `OptionByOption` finds the configurations after each option, `ApplyFollows`
says what one more option does to the last of each kind. Beside these are facts about
the data alone: `EqualIsSound`, `NestedAlwaysPanics` and `LocalAndServerAgree`. That contexts
are plain, or flat, is assumed of the constants `Context` and `Start`, which stand for what the
program passes in.

*Evaluator.* `LoopInv` is what the loop knows: the flag is on and no rule it has
passed decides. With it the rule applied is first among all that decide, since it
is first among those left (`FirstMatch`). `OneComparison` rests on the lemma
`Trichotomy`, by cases on the two dynamic types; it needs that a formatted number
reads back as itself. `FirstMatch` is a property of the step `Return`.
`BucketingKey` needs that no attribute, user or organization replaces the kind and
the key in `Flatten`. `RampHolds` rests on the monotony of integer division, of
`computeCurrentPercentage` in time and of `Enabled` in the percentage.
`BucketsMatch` is for variants of any number and weight: the variant `i` has the buckets from
the ceiling of one cumulative weight to that of the next (`ShareIsInterval`), whose number
differs from the weight by less than one (`ShareSize`), and the tolerance of `AddUp` is
not enough to leave the last bucket out (`EveryBucketIsChosen`).

*Induction over data.* `Cumulative` and `Config` are recursive functions over a list of any
length. The library's induction theorems take an operator, which the provers cannot
instantiate; `NaturalRecursion` derives from `WFMin`, which takes a set and a relation, that a set
of naturals that holds 0 and goes on upwards holds an interval (`Upwards`), and that a
function may be defined step by step over one (`Recursion`). What a `CHOOSE` of a recursive
function yields then follows from there being one.

Model-checked only: what holds under fairness (`CloseReturns`, `ShutdownDrains`, the two
`ShutdownEnds`, `PollsKeepUp`, `ConnectEnds`), since liveness and `ENABLED` are beyond the
prover. Every invariant and every step property of a passing run is proved.

## 5. Not modelled, and the plan

Left for later, in this order:

1. `FlagClient` composed with `WebSocketTransport`, so that the context a message was
   evaluated for is seen in the client; flag sets with more than one flag, for the
   single-flag map a `flag_update` delivers.
2. `Backoff` (growth to the maximum, `Reset`), which the transports abstract to "at
   any time"; the 32-bit arithmetic of `StringHash`, of which only the range is used.
3. `SetFlagConfigs` and `FeatureFlags` with its typed getters: pure writes and reads.
4. A callback that calls `Close` and waits for its own read lock.

Not planned: `RWValue` (its accesses are single steps), logging, JSON syntax, HTTP headers,
the examples other than the Redis adapter.
