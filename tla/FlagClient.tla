----------------------------- MODULE FlagClient -----------------------------
(***************************************************************************)
(* client.go: the goroutines that share one FlagClient and the order in    *)
(* which each of them touches the client's state.                          *)
(*                                                                         *)
(* Every flag set the client can hold is the work of one run of            *)
(* updateFlags, so a flag set is named after the update that brought it    *)
(* in.  An update is one of: the flags initialize restores from the cache, *)
(* the flags it fetches, the flags the refetch of one UpdateContext call   *)
(* returns, one payload the transport pushes.  An UpdateContext call also  *)
(* names the evaluation context it passes.                                 *)
(*                                                                         *)
(* The transport appears as what the client sees of it: when Connect,      *)
(* FetchFlags and Close may return, and which goroutine pushes.  Over a    *)
(* WebSocket one message both answers a fetch and is pushed, and it is of  *)
(* the connection's context: which one that is, is WebSocketTransport's    *)
(* subject, not this module's.  Calls of onError are left out: the client  *)
(* makes them only if it was given one, and they change none of its state. *)
(***************************************************************************)
EXTENDS FiniteSets

CONSTANTS
  Fetcher,        \* UpdateContext calls, each with its own context
  Push,           \* payloads the transport hands to onFlagsReceived
  Sub,            \* Subscribe calls
  Caller,         \* Ready calls
  Closer,         \* Close calls
  CacheRestore,   \* the update that restores the cached flags
  InitFetch,      \* the update that fetches the first flags
  NoFlags,        \* the zero FeatureFlags
  NoContext,      \* a nil *EvaluationContext
  EmptyContext,   \* EvaluationContext{}
  GivenContext,   \* the context passed to NewClient
  SavedContext,   \* the context an earlier run left in the cache
  Unmarshalable,  \* contexts json.Marshal rejects
  StartContexts,  \* what NewClient may be given: GivenContext or NoContext
  CacheEnabled,   \* WithCache(true) or WithCacheAdapter
  CacheFaults,    \* the cache adapter may return errors
  Mode            \* "auto", the default, or "websocket"

Updater == {CacheRestore, InitFetch} \cup Fetcher \cup Push
Flags   == Updater \cup {NoFlags}
Context == {EmptyContext, GivenContext, SavedContext} \cup Fetcher

ASSUME ActorsAreDistinct ==
  /\ CacheRestore # InitFetch
  /\ {CacheRestore, InitFetch} \cap (Fetcher \cup Push) = {}
  /\ Fetcher \cap Push = {}
ASSUME SentinelsAreNotValues ==
  /\ NoFlags \notin Updater
  /\ NoContext \notin Context
ASSUME ConfigurationIsLegal ==
  /\ StartContexts \subseteq {NoContext, GivenContext}
  /\ CacheEnabled \in BOOLEAN
  /\ CacheFaults \in BOOLEAN
  /\ Mode \in {"auto", "websocket"}

VARIABLES
  flags,       \* c.flags
  evalCtx,     \* c.evalCtx
  cacheFlags,  \* the flags the cache holds
  cacheCtx,    \* the context the cache holds
  initPc,      \* where initialize is; "ready" once readyCh is closed
  initCtx,     \* the context local to initialize
  readyErr,    \* c.readyErr is not nil
  cancelled,   \* internalCtx is done
  subscribers, \* the keys of c.subscribers
  link,        \* how far the transport's Connect has got
  closeOnce,   \* the transport's closeOnce has been used
  stop,        \* the transport's innerCtx is done
  reading,     \* its reader counts in wg: the read loop or the poll loop
  kind,        \* what carries the flags: a WebSocket or polling over HTTP
  upd,         \* upd[u]: where update u is
  pending,     \* pending[u]: callbacks u has still to call under its RLock
  before,      \* history: before[u] had run updateFlags when u began to
  subPc,       \* subPc[s]: where Subscribe call s is
  arg,         \* arg[s]: the flags Subscribe has read for its first call
  last,        \* last[s]: the flags callback s was last called with
  got,         \* got[s]: the updates callback s was called with
  callPc,      \* callPc[c]: where Ready call c is, or what it returned
  closePc      \* closePc[x]: where Close call x is

cacheVars == <<cacheFlags, cacheCtx>>
initVars  == <<initPc, initCtx, readyErr>>
linkVars  == <<link, closeOnce, stop, reading, kind>>
updVars   == <<upd, pending, before>>
subVars   == <<subPc, arg, last, got>>
vars == <<flags, evalCtx, cacheVars, initVars, cancelled, subscribers,
          linkVars, updVars, subVars, callPc, closePc>>
-----------------------------------------------------------------------------
InitPc   == {"unstarted", "checkCtx", "loadCtx", "storeCtx", "loadFlags",
             "connect", "connecting", "fetch", "finish", "ready"}
LinkPc   == {"new", "connecting", "dialled", "armed", "linked", "up", "failed"}
UpdPc    == {"idle", "saveCtx", "wait", "fetching", "answered", "store", "save",
             "lock", "notify", "done", "failed", "skipped"}
SubPc    == {"idle", "loading", "delivering", "active", "gone"}
CallPc   == {"idle", "waiting", "nil", "error", "timeout", "cancelled"}
ClosePc  == {"idle", "clear", "transport", "waiting", "returned", "noop"}

\* Every variable keeps to the values its Go field or its program counter can
\* take; in particular initialize never hands a nil context to the transport.
TypeOK ==
  /\ flags \in Flags
  /\ evalCtx \in Context \cup {NoContext}
  /\ cacheFlags \in Flags
  /\ cacheCtx \in Context \cup {NoContext}
  /\ initPc \in InitPc
  /\ initCtx \in Context
  /\ readyErr \in BOOLEAN
  /\ cancelled \in BOOLEAN
  /\ subscribers \subseteq Sub
  /\ link \in LinkPc
  /\ closeOnce \in BOOLEAN
  /\ stop \in BOOLEAN
  /\ reading \in BOOLEAN
  /\ kind \in {"ws", "http"}
  /\ upd \in [Updater -> UpdPc]
  /\ pending \in [Updater -> SUBSET Sub]
  /\ before \in [Updater -> SUBSET Updater]
  /\ subPc \in [Sub -> SubPc]
  /\ arg \in [Sub -> Flags]
  /\ last \in [Sub -> Flags]
  /\ got \in [Sub -> SUBSET Updater]
  /\ callPc \in [Caller -> CallPc]
  /\ closePc \in [Closer -> ClosePc]
-----------------------------------------------------------------------------
\* NewClient.  Without WithDeferInit it starts initialize itself; the cache
\* may hold what an earlier run of the program saved.  The default transport
\* polls over HTTP when its WebSocket attempt fails.
FirstStep == IF CacheEnabled THEN "checkCtx" ELSE "connect"

Init ==
  /\ flags = NoFlags
  /\ evalCtx \in StartContexts
  /\ cacheFlags \in {NoFlags} \cup (IF CacheEnabled THEN {CacheRestore} ELSE {})
  /\ cacheCtx \in {NoContext} \cup (IF CacheEnabled THEN {SavedContext} ELSE {})
  /\ initPc \in {"unstarted", FirstStep}
  /\ initCtx = EmptyContext
  /\ readyErr = FALSE
  /\ cancelled = FALSE
  /\ subscribers = {}
  /\ link = "new"
  /\ closeOnce = FALSE
  /\ stop = FALSE
  /\ reading = FALSE
  /\ kind \in {"ws"} \cup (IF Mode = "auto" THEN {"http"} ELSE {})
  /\ upd = [u \in Updater |-> "idle"]
  /\ pending = [u \in Updater |-> {}]
  /\ before = [u \in Updater |-> {}]
  /\ subPc = [s \in Sub |-> "idle"]
  /\ arg = [s \in Sub |-> NoFlags]
  /\ last = [s \in Sub |-> NoFlags]
  /\ got = [s \in Sub |-> {}]
  /\ callPc = [c \in Caller |-> "idle"]
  /\ closePc = [x \in Closer |-> "idle"]

\* What the cache holds after a write: the adapter may refuse it, in which
\* case the client only logs a warning.  Mutated form: what is there stays.
WrittenIfEmpty(old, new) == IF old \in {NoFlags, NoContext} THEN {new} ELSE {old}
Written(old, new) == IF CacheFaults THEN {old, new} ELSE {new}

\* Some definitions come with a mutated form next to them, a mistake the code
\* does not make; the properties below are shown to notice it.  This one stands
\* for a guard that is missing.
NoGuard == TRUE

\* subMu: the write lock is free once no goroutine is inside notifySubscribers.
\* A writer that has called Lock may not have announced itself yet, so a reader
\* can still enter ahead of it and only the moment of acquisition matters.
WriterMayLock == \A u \in Updater : upd[u] # "notify"

\* readyCh is closed and readyErr is nil.
ConnectionReady == initPc = "ready" /\ ~readyErr

\* hasCachedFlags of initialize.  Mutated form: set whenever a cache is in use.
CacheIsOn == CacheEnabled
HasCachedFlags == upd[CacheRestore] = "done"

\* initialize is past the synchronous updateFlags of the cached flags.
RestoreFinished == upd[CacheRestore] \in {"idle", "done"}

\* initialize never passes a nil context on.  Mutated form: it does.
ContextAsLoaded(c) == c
ContextOrEmpty(c) == IF c = NoContext THEN EmptyContext ELSE c

Pipeline == {"store", "save", "lock", "notify"}

\* The goroutine that delivers pushes runs one at a time.
PusherBusy == \E p \in Push : upd[p] \in Pipeline

-----------------------------------------------------------------------------
(***************************************************************************)
(* updateFlags: store, persist, notify.  Any number of goroutines run it   *)
(* at once, each somewhere else in it.                                     *)
(***************************************************************************)
StoreFlags(u) ==
  /\ upd[u] = "store"
  /\ flags' = u
  /\ before' = [before EXCEPT ![u] = {v \in Updater : upd[v] = "done"}]
  /\ upd' = [upd EXCEPT ![u] = IF CacheEnabled THEN "save" ELSE "lock"]
  /\ UNCHANGED <<evalCtx, cacheVars, initVars, cancelled, subscribers,
                 linkVars, pending, subVars, callPc, closePc>>

SaveFlags(u) ==
  /\ upd[u] = "save"
  /\ cacheFlags' \in Written(cacheFlags, u)
  /\ upd' = [upd EXCEPT ![u] = "lock"]
  /\ UNCHANGED <<flags, evalCtx, cacheCtx, initVars, cancelled, subscribers,
                 linkVars, pending, before, subVars, callPc, closePc>>

\* notifySubscribers takes the read lock, which other readers may share, and
\* keeps it over every callback.
NotifyBegin(u) ==
  /\ upd[u] = "lock"
  /\ upd' = [upd EXCEPT ![u] = "notify"]
  /\ pending' = [pending EXCEPT ![u] = subscribers]
  /\ UNCHANGED <<flags, evalCtx, cacheVars, initVars, cancelled, subscribers,
                 linkVars, before, subVars, callPc, closePc>>

\* Map iteration calls the callbacks in any order.
NotifyOne(u, s) ==
  /\ upd[u] = "notify"
  /\ s \in pending[u]
  /\ pending' = [pending EXCEPT ![u] = @ \ {s}]
  /\ last' = [last EXCEPT ![s] = u]
  /\ got' = [got EXCEPT ![s] = @ \cup {u}]
  /\ UNCHANGED <<flags, evalCtx, cacheVars, initVars, cancelled, subscribers,
                 linkVars, upd, before, subPc, arg, callPc, closePc>>

\* Mutated form: the loop gives up before the last callback.
NotifyEndEarly(u) ==
  /\ upd[u] = "notify"
  /\ pending' = [pending EXCEPT ![u] = {}]
  /\ upd' = [upd EXCEPT ![u] = "done"]
  /\ UNCHANGED <<flags, evalCtx, cacheVars, initVars, cancelled, subscribers,
                 linkVars, before, subVars, callPc, closePc>>

NotifyEnd(u) ==
  /\ upd[u] = "notify"
  /\ pending[u] = {}
  /\ upd' = [upd EXCEPT ![u] = "done"]
  /\ UNCHANGED <<flags, evalCtx, cacheVars, initVars, cancelled, subscribers,
                 linkVars, pending, before, subVars, callPc, closePc>>
-----------------------------------------------------------------------------
(***************************************************************************)
(* UpdateContext runs in its caller; the refetch it starts waits in a      *)
(* goroutine of its own for readyCh or for the client's cancellation.      *)
(***************************************************************************)
UpdateContext(f) ==
  /\ upd[f] = "idle"
  /\ evalCtx' = f
  /\ upd' = [upd EXCEPT ![f] = IF CacheEnabled THEN "saveCtx" ELSE "wait"]
  /\ UNCHANGED <<flags, cacheVars, initVars, cancelled, subscribers, linkVars,
                 pending, before, subVars, callPc, closePc>>

SaveContext(f) ==
  /\ upd[f] = "saveCtx"
  /\ cacheCtx' \in Written(cacheCtx, f)
  /\ upd' = [upd EXCEPT ![f] = "wait"]
  /\ UNCHANGED <<flags, evalCtx, cacheFlags, initVars, cancelled, subscribers,
                 linkVars, pending, before, subVars, callPc, closePc>>

\* doFetchFlags as far as the call of FetchFlags: a context that does not
\* marshal is an error and nothing is fetched.
DoFetchFlags(u, ctx) ==
  upd' = [upd EXCEPT ![u] = IF ctx \in Unmarshalable THEN "failed" ELSE "fetching"]

FetchStart(f) ==
  /\ upd[f] = "wait"
  /\ ConnectionReady
  /\ DoFetchFlags(f, f)
  /\ UNCHANGED <<flags, evalCtx, cacheVars, initVars, cancelled, subscribers,
                 linkVars, pending, before, subVars, callPc, closePc>>

\* Mutated form: the refetch listens to readyCh only, not to internalCtx.
FetchSkipOnError(f) ==
  /\ upd[f] = "wait"
  /\ initPc = "ready" /\ readyErr
  /\ upd' = [upd EXCEPT ![f] = "skipped"]
  /\ UNCHANGED <<flags, evalCtx, cacheVars, initVars, cancelled, subscribers,
                 linkVars, pending, before, subVars, callPc, closePc>>

FetchSkip(f) ==
  /\ upd[f] = "wait"
  /\ cancelled \/ (initPc = "ready" /\ readyErr)
  /\ upd' = [upd EXCEPT ![f] = "skipped"]
  /\ UNCHANGED <<flags, evalCtx, cacheVars, initVars, cancelled, subscribers,
                 linkVars, pending, before, subVars, callPc, closePc>>

\* A request over HTTP has its response; a WebSocket call has in its channel what
\* the reader put there, and takes it even after the reader has ended.
FetchOk(u) ==
  /\ upd[u] = "answered" \/ (kind = "http" /\ upd[u] = "fetching")
  /\ upd' = [upd EXCEPT ![u] = "store"]
  /\ UNCHANGED <<flags, evalCtx, cacheVars, initVars, cancelled, subscribers,
                 linkVars, pending, before, subVars, callPc, closePc>>

\* A request fails, a wait times out or the client is closed, which select may
\* see first although there is an answer.
FetchFails(u) ==
  /\ upd[u] \in {"fetching", "answered"}
  /\ upd' = [upd EXCEPT ![u] = "failed"]
  /\ UNCHANGED <<flags, evalCtx, cacheVars, initVars, cancelled, subscribers,
                 linkVars, pending, before, subVars, callPc, closePc>>

FetchReturns(u) == FetchOk(u) \/ FetchFails(u)

\* onFlagsReceived, called by the transport's reader, which may run before
\* Connect has returned and may still have one payload in hand after Close has
\* cancelled it; the HTTP transport also calls from within Connect.  A WebSocket
\* reader first gives what it has read to a call that waits, if there is one.
PushBegin(p) ==
  /\ upd[p] = "idle"
  /\ reading \/ (kind = "http" /\ link = "armed")
  /\ ~PusherBusy
  /\ \/ upd' = [upd EXCEPT ![p] = "store"]
     \/ /\ kind = "ws"
        /\ \E u \in Updater : /\ upd[u] = "fetching"
                              /\ upd' = [upd EXCEPT ![p] = "store", ![u] = "answered"]
  /\ UNCHANGED <<flags, evalCtx, cacheVars, initVars, cancelled, subscribers,
                 linkVars, pending, before, subVars, callPc, closePc>>
-----------------------------------------------------------------------------
(***************************************************************************)
(* initialize, started once by NewClient or by the first Ready.            *)
(***************************************************************************)
InitCheckContext ==
  /\ initPc = "checkCtx"
  /\ initPc' = IF evalCtx = NoContext THEN "loadCtx" ELSE "loadFlags"
  /\ UNCHANGED <<flags, evalCtx, cacheVars, initCtx, readyErr, cancelled,
                 subscribers, linkVars, updVars, subVars, callPc, closePc>>

InitLoadContext ==
  /\ initPc = "loadCtx"
  /\ \/ /\ cacheCtx # NoContext
        /\ initCtx' = cacheCtx
        /\ initPc' = "storeCtx"
     \/ /\ cacheCtx = NoContext \/ CacheFaults
        /\ initPc' = "loadFlags"
        /\ UNCHANGED initCtx
  /\ UNCHANGED <<flags, evalCtx, cacheVars, readyErr, cancelled, subscribers,
                 linkVars, updVars, subVars, callPc, closePc>>

\* The context is stored although the check that found none may be out of date.
InitStoreContext ==
  /\ initPc = "storeCtx"
  /\ evalCtx' = initCtx
  /\ initPc' = "loadFlags"
  /\ UNCHANGED <<flags, cacheVars, initCtx, readyErr, cancelled, subscribers,
                 linkVars, updVars, subVars, callPc, closePc>>

InitLoadFlags ==
  /\ initPc = "loadFlags"
  /\ initPc' = "connect"
  /\ \/ /\ cacheFlags # NoFlags
        /\ upd' = [upd EXCEPT ![CacheRestore] = "store"]
     \/ /\ cacheFlags = NoFlags \/ CacheFaults
        /\ UNCHANGED upd
  /\ UNCHANGED <<flags, evalCtx, cacheVars, initCtx, readyErr, cancelled,
                 subscribers, linkVars, pending, before, subVars, callPc, closePc>>

InitConnect ==
  /\ initPc = "connect"
  /\ RestoreFinished
  /\ LET c == ContextOrEmpty(evalCtx)
     IN  initCtx' = IF c \in Unmarshalable THEN EmptyContext ELSE c
  /\ initPc' = "connecting"
  /\ link' = "connecting"
  /\ UNCHANGED <<flags, evalCtx, cacheVars, readyErr, cancelled, subscribers,
                 closeOnce, stop, reading, kind, updVars, subVars, callPc, closePc>>

\* The dial or the first request succeeds, or HTTP goes on without.  The default
\* transport gives its WebSocket attempt a context of its own, so it can succeed
\* after Close.
LinkUp ==
  /\ link = "connecting"
  /\ (Mode = "auto" /\ kind = "ws") \/ ~cancelled
  /\ link' = "dialled"
  /\ UNCHANGED <<flags, evalCtx, cacheVars, initVars, cancelled, subscribers,
                 closeOnce, stop, reading, kind, updVars, subVars, callPc, closePc>>

\* The transport has set innerCtx and innerCancel.
LinkArmed ==
  /\ link = "dialled"
  /\ link' = "armed"
  /\ UNCHANGED <<flags, evalCtx, cacheVars, initVars, cancelled, subscribers,
                 closeOnce, stop, reading, kind, updVars, subVars, callPc, closePc>>

\* wg.Add and the start of the reader, after whatever Connect delivers itself.
LinkReads ==
  /\ link = "armed"
  /\ ~PusherBusy
  /\ link' = "linked"
  /\ reading' = TRUE
  /\ UNCHANGED <<flags, evalCtx, cacheVars, initVars, cancelled, subscribers,
                 closeOnce, stop, kind, updVars, subVars, callPc, closePc>>

ConnectOk ==
  /\ initPc = "connecting"
  /\ link = "linked"
  /\ link' = "up"
  /\ initPc' = "fetch"
  /\ UNCHANGED <<flags, evalCtx, cacheVars, initCtx, readyErr, cancelled,
                 subscribers, closeOnce, stop, reading, kind, updVars, subVars,
                 callPc, closePc>>

\* The dial fails; over HTTP Connect fails only once the client is closed.  With
\* cached flags the client goes on in degraded mode.
ConnectFails ==
  /\ initPc = "connecting"
  /\ link = "connecting"
  /\ Mode = "websocket" \/ (kind = "http" /\ cancelled)
  /\ link' = "failed"
  /\ initPc' = "finish"
  /\ readyErr' = ~HasCachedFlags
  /\ UNCHANGED <<flags, evalCtx, cacheVars, initCtx, cancelled, subscribers,
                 closeOnce, stop, reading, kind, updVars, subVars, callPc, closePc>>

InitFetchStart ==
  /\ initPc = "fetch"
  /\ LET c == ContextOrEmpty(evalCtx)
     IN  initCtx' = c /\ DoFetchFlags(InitFetch, c)
  /\ initPc' = "finish"
  /\ UNCHANGED <<flags, evalCtx, cacheVars, readyErr, cancelled, subscribers,
                 linkVars, pending, before, subVars, callPc, closePc>>

\* close(readyCh), after updateFlags of the first fetch has returned.
InitDone ==
  /\ initPc = "finish"
  /\ upd[InitFetch] \in {"idle", "failed", "done"}
  /\ initPc' = "ready"
  /\ UNCHANGED <<flags, evalCtx, cacheVars, initCtx, readyErr, cancelled,
                 subscribers, linkVars, updVars, subVars, callPc, closePc>>
-----------------------------------------------------------------------------
(***************************************************************************)
(* Ready.  When several of its three channels are ready, select takes any. *)
(***************************************************************************)
ReadyCall(c) ==
  /\ callPc[c] = "idle"
  /\ callPc' = [callPc EXCEPT ![c] = "waiting"]
  /\ initPc' = IF initPc = "unstarted" THEN FirstStep ELSE initPc
  /\ UNCHANGED <<flags, evalCtx, cacheVars, initCtx, readyErr, cancelled,
                 subscribers, linkVars, updVars, subVars, closePc>>

ReadyReturn(c) ==
  /\ callPc[c] = "waiting"
  /\ \/ /\ initPc = "ready"
        /\ callPc' = [callPc EXCEPT ![c] = IF readyErr THEN "error" ELSE "nil"]
     \/ /\ cancelled
        /\ callPc' = [callPc EXCEPT ![c] = "cancelled"]
  /\ UNCHANGED <<flags, evalCtx, cacheVars, initVars, cancelled, subscribers,
                 linkVars, updVars, subVars, closePc>>

\* The caller's own context ends first.
ReadyTimeout(c) ==
  /\ callPc[c] = "waiting"
  /\ callPc' = [callPc EXCEPT ![c] = "timeout"]
  /\ UNCHANGED <<flags, evalCtx, cacheVars, initVars, cancelled, subscribers,
                 linkVars, updVars, subVars, closePc>>
-----------------------------------------------------------------------------
(***************************************************************************)
(* Subscribe registers under the lock and makes the first call outside it. *)
(***************************************************************************)
SubRegister(s) ==
  /\ subPc[s] = "idle"
  /\ WriterMayLock
  /\ subscribers' = subscribers \cup {s}
  /\ subPc' = [subPc EXCEPT ![s] = "loading"]
  /\ UNCHANGED <<flags, evalCtx, cacheVars, initVars, cancelled, linkVars,
                 updVars, arg, last, got, callPc, closePc>>

SubLoad(s) ==
  /\ subPc[s] = "loading"
  /\ arg' = [arg EXCEPT ![s] = flags]
  /\ subPc' = [subPc EXCEPT ![s] = "delivering"]
  /\ UNCHANGED <<flags, evalCtx, cacheVars, initVars, cancelled, subscribers,
                 linkVars, updVars, last, got, callPc, closePc>>

SubDeliver(s) ==
  /\ subPc[s] = "delivering"
  /\ last' = [last EXCEPT ![s] = arg[s]]
  /\ subPc' = [subPc EXCEPT ![s] = "active"]
  /\ UNCHANGED <<flags, evalCtx, cacheVars, initVars, cancelled, subscribers,
                 linkVars, updVars, arg, got, callPc, closePc>>

Unsubscribe(s) ==
  /\ subPc[s] = "active"
  /\ WriterMayLock
  /\ subscribers' = subscribers \ {s}
  /\ subPc' = [subPc EXCEPT ![s] = "gone"]
  /\ UNCHANGED <<flags, evalCtx, cacheVars, initVars, cancelled, linkVars,
                 updVars, arg, last, got, callPc, closePc>>
-----------------------------------------------------------------------------
(***************************************************************************)
(* Close: cancel, drop the registrations, close the transport.             *)
(***************************************************************************)
CloseCancel(x) ==
  /\ closePc[x] = "idle"
  /\ cancelled' = TRUE
  /\ closePc' = [closePc EXCEPT ![x] = "clear"]
  /\ UNCHANGED <<flags, evalCtx, cacheVars, initVars, subscribers, linkVars,
                 updVars, subVars, callPc>>

CloseClear(x) ==
  /\ closePc[x] = "clear"
  /\ WriterMayLock
  /\ subscribers' = {}
  /\ closePc' = [closePc EXCEPT ![x] = "transport"]
  /\ UNCHANGED <<flags, evalCtx, cacheVars, initVars, cancelled, linkVars,
                 updVars, subVars, callPc>>

\* AutoTransport sets active after the chosen transport's Connect.
NoActive == Mode = "auto" /\ link # "up"

CloseNoActive(x) ==
  /\ closePc[x] = "transport"
  /\ NoActive
  /\ closePc' = [closePc EXCEPT ![x] = "noop"]
  /\ UNCHANGED <<flags, evalCtx, cacheVars, initVars, cancelled, subscribers,
                 linkVars, updVars, subVars, callPc>>

\* closeOnce.Do: the first caller cancels innerCtx, if Connect has set it.
\* Mutated form: it never does.
CancelsNothing == FALSE
CancelsReader == link \in {"armed", "linked", "up"}

CloseTransport(x) ==
  /\ closePc[x] = "transport"
  /\ ~NoActive
  /\ closeOnce' = TRUE
  /\ stop' = (stop \/ (~closeOnce /\ CancelsReader))
  /\ closePc' = [closePc EXCEPT ![x] = "waiting"]
  /\ UNCHANGED <<flags, evalCtx, cacheVars, initVars, cancelled, subscribers,
                 link, reading, kind, updVars, subVars, callPc>>

\* wg.Wait.
ReaderIsGone == ~reading

CloseWait(x) ==
  /\ closePc[x] = "waiting"
  /\ ReaderIsGone
  /\ closePc' = [closePc EXCEPT ![x] = "returned"]
  /\ UNCHANGED <<flags, evalCtx, cacheVars, initVars, cancelled, subscribers,
                 linkVars, updVars, subVars, callPc>>

\* A cancelled reader ends between two payloads, never inside a callback.
ReadLoopExits ==
  /\ reading /\ stop
  /\ ~PusherBusy
  /\ reading' = FALSE
  /\ UNCHANGED <<flags, evalCtx, cacheVars, initVars, cancelled, subscribers,
                 link, closeOnce, stop, kind, updVars, subVars, callPc, closePc>>
-----------------------------------------------------------------------------
InitStep == \/ InitCheckContext \/ InitLoadContext \/ InitStoreContext
            \/ InitLoadFlags \/ InitConnect \/ ConnectOk \/ InitFetchStart
            \/ InitDone

LinkStep == LinkUp \/ LinkArmed \/ LinkReads \/ ConnectFails

RefetchStep(f) == SaveContext(f) \/ FetchStart(f) \/ FetchSkip(f)

UpdateStep(u) == \/ StoreFlags(u) \/ SaveFlags(u) \/ NotifyBegin(u)
                 \/ \E s \in Sub : NotifyOne(u, s)
                 \/ NotifyEnd(u)

ReadyStep(c) == ReadyCall(c) \/ ReadyReturn(c) \/ ReadyTimeout(c)

FirstCall(s) == SubLoad(s) \/ SubDeliver(s)

CloseStep(x) == \/ CloseClear(x) \/ CloseNoActive(x)
                \/ CloseTransport(x) \/ CloseWait(x)

Next ==
  \/ InitStep \/ LinkStep \/ ReadLoopExits
  \/ \E f \in Fetcher : UpdateContext(f) \/ RefetchStep(f)
  \/ \E u \in Fetcher \cup {InitFetch} : FetchReturns(u)
  \/ \E p \in Push : PushBegin(p)
  \/ \E u \in Updater : UpdateStep(u)
  \/ \E c \in Caller : ReadyStep(c)
  \/ \E s \in Sub : SubRegister(s) \/ FirstCall(s) \/ Unsubscribe(s)
  \/ \E x \in Closer : CloseCancel(x) \/ CloseStep(x)

Spec == Init /\ [][Next]_vars

\* Goroutines that can run do, callbacks and cache adapters return, and a
\* cancelled context makes Connect and FetchFlags return.  Nothing obliges a
\* user to call anything, the server to push or a fetch to end before Close.
Fairness ==
  /\ WF_vars(InitStep)
  /\ WF_vars(cancelled /\ (LinkUp \/ ConnectFails))
  /\ WF_vars(LinkArmed \/ LinkReads)
  /\ WF_vars(ReadLoopExits)
  /\ \A f \in Fetcher : WF_vars(RefetchStep(f))
  /\ \A u \in Fetcher \cup {InitFetch} : WF_vars(cancelled /\ FetchReturns(u))
  /\ \A u \in Updater : WF_vars(UpdateStep(u))
  /\ \A c \in Caller : WF_vars(ReadyReturn(c))
  /\ \A s \in Sub : WF_vars(FirstCall(s))
  /\ \A x \in Closer : WF_vars(CloseStep(x))

FairSpec == Spec /\ Fairness
-----------------------------------------------------------------------------
(***************************************************************************)
(* Safety                                                                  *)
(***************************************************************************)
Finished == {"idle", "done", "failed", "skipped"}
Quiet == \A u \in Updater : upd[u] \in Finished

\* A callback hears of an update only while it is registered: once unsubscribe
\* or Close has dropped it, no update that is still being delivered reaches it
\* (notifySubscribers keeps the read lock over the whole loop).
CallbackOnlyWhileRegistered ==
  [][\A s \in Sub : got'[s] # got[s] => s \in subscribers]_vars

\* No FetchFlags is under way before the transport's Connect has returned
\* (Transport: "safe for concurrent use after Connect() returns").
FetchAfterConnect ==
  link \in {"new", "connecting", "dialled", "armed", "linked"} =>
    \A u \in Updater : upd[u] \notin {"fetching", "answered"}

\* Degraded mode has something to serve: when initialize ends without a connection
\* and without an error, which Ready then answers with nil, the client has flags.
\* (With a connection it need not: Ready answers nil too when the first fetch failed.)
DegradedModeHasFlags ==
  (initPc = "ready" /\ ~readyErr /\ link = "failed") => flags # NoFlags

\* The flags an earlier run left in the cache never replace flags of this run,
\* neither in memory nor in the cache.
CacheNeverOverwritesLive ==
  [][/\ flags' = CacheRestore => flags \in {NoFlags, CacheRestore}
     /\ cacheFlags' = CacheRestore => cacheFlags = CacheRestore]_vars

\* With the default transport, a Close that waited for the reader returns with
\* none of its deliveries still running and none to come.
CloseWaitsForPushes ==
  (Mode = "auto" /\ \E x \in Closer : closePc[x] = "returned")
    => ~reading /\ ~PusherBusy

\* The answer to initialize's own fetch, which may be older than any UpdateContext
\* made meanwhile, never replaces the answer to a refetch, neither in memory nor in
\* the cache: refetches wait until initialize has stored, saved and delivered its own.
FirstFetchIsNeverLate ==
  [][/\ flags' = InitFetch => flags \notin Fetcher
     /\ cacheFlags' = InitFetch => cacheFlags \notin Fetcher]_vars

\* Neither run of updateFlags had returned when the other began.
Overlapped(u, v) == u \notin before[v] /\ v \notin before[u]

\* At rest, when the cache refused nothing, it holds the flags in memory, which a
\* restart then serves, or those of a run of updateFlags that overlapped with the one
\* that brought them in.  Two runs that overlap may store in one order and save in
\* the other; runs that follow one another, pushes and refetches alike, never leave
\* the cache behind or ahead.
CacheLagsOnlyByOverlap ==
  (Quiet /\ CacheEnabled /\ ~CacheFaults /\ flags # NoFlags) =>
    /\ cacheFlags # NoFlags
    /\ cacheFlags = flags \/ Overlapped(cacheFlags, flags)

\* At rest every registered callback was last called with the current flags.
SubscribersSeeCurrentFlags ==
  (Quiet /\ \A s \in subscribers : subPc[s] = "active") =>
    \A s \in subscribers : last[s] = flags

\* Nobody calls Close before initialize has ended.
ClosedWhenReady == cancelled => initPc = "ready"

\* After Close has returned and initialize has ended the transport's reader is
\* not running.
CloseStopsTransport ==
  (initPc = "ready" /\ \E x \in Closer : closePc[x] \in {"returned", "noop"})
    => ~reading
-----------------------------------------------------------------------------
(***************************************************************************)
(* Liveness, under FairSpec                                                *)
(***************************************************************************)
\* Every Close call returns.
CloseReturns == \A x \in Closer : closePc[x] # "idle" ~> closePc[x] \in {"returned", "noop"}

\* Cancelling the client lets every goroutine it started finish and every
\* waiting Ready return.
ShutdownDrains ==
  cancelled ~> /\ initPc \in {"unstarted", "ready"}
               /\ Quiet
               /\ \A c \in Caller : callPc[c] # "waiting"

-----------------------------------------------------------------------------
\* Seen from the subscribers the client is the indivisible broadcast: an update
\* takes effect when its notifySubscribers releases the read lock.
Published == {u \in Updater : upd[u] = "done"}
Broadcast == INSTANCE FlagBroadcast
  WITH members   <- subscribers,
       published <- Published,
       received  <- [s \in Sub |-> {u \in got[s] : upd[u] = "done"}]
ImplementsBroadcast == Broadcast!Spec
=============================================================================
