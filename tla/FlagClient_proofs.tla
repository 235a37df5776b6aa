------------------------- MODULE FlagClient_proofs -------------------------
(***************************************************************************)
(* Proofs about FlagClient, for every number of calls, callbacks, pushes   *)
(* and updates, both transports, with and without a cache.                 *)
(***************************************************************************)
EXTENDS FlagClient, TLAPS

USE DEF cacheVars, initVars, linkVars, updVars, subVars

LEMMA Members ==
  /\ CacheRestore \in Updater /\ InitFetch \in Updater
  /\ Fetcher \subseteq Updater /\ Push \subseteq Updater
  /\ Updater \subseteq Flags /\ NoFlags \in Flags
  /\ Fetcher \subseteq Context
  /\ {EmptyContext, GivenContext, SavedContext} \subseteq Context
BY DEF Updater, Flags, Context

\* What the client starts with is of the right type.
LEMMA InitType == Init => TypeOK
<1> SUFFICES ASSUME Init PROVE TypeOK
  OBVIOUS
<1>1. evalCtx \in Context \cup {NoContext}
  BY Members, ConfigurationIsLegal DEF Init
<1>2. cacheFlags \in Flags /\ cacheCtx \in Context \cup {NoContext}
  BY Members DEF Init
<1>3. initPc \in InitPc
  BY DEF Init, InitPc, FirstStep
<1> QED
  BY <1>1, <1>2, <1>3, Members
  DEF Init, TypeOK, LinkPc, UpdPc, SubPc, CallPc, ClosePc

\* The steps of initialize.
LEMMA InitStepType == TypeOK /\ (InitStep \/ LinkStep \/ ReadLoopExits) => TypeOK'
<1> SUFFICES ASSUME TypeOK, InitStep \/ LinkStep \/ ReadLoopExits
             PROVE  TypeOK'
  OBVIOUS
<1> USE Members DEF TypeOK, InitPc, LinkPc, UpdPc
<1>1. CASE InitCheckContext
  BY <1>1 DEF InitCheckContext
<1>2. CASE InitLoadContext
  BY <1>2 DEF InitLoadContext
<1>3. CASE InitStoreContext
  BY <1>3 DEF InitStoreContext
<1>4. CASE InitLoadFlags
  BY <1>4 DEF InitLoadFlags
<1>5. CASE InitConnect
  BY <1>5 DEF InitConnect, ContextOrEmpty
<1>6. CASE ConnectOk
  BY <1>6 DEF ConnectOk
<1>7. CASE InitFetchStart
  BY <1>7 DEF InitFetchStart, DoFetchFlags, ContextOrEmpty
<1>8. CASE InitDone
  BY <1>8 DEF InitDone
<1>9. CASE LinkUp
  BY <1>9 DEF LinkUp
<1>10. CASE LinkReads
  BY <1>10 DEF LinkReads
<1>11. CASE ConnectFails
  BY <1>11 DEF ConnectFails, HasCachedFlags
<1>12. CASE ReadLoopExits
  <2> HIDE DEF InitPc, LinkPc, UpdPc
  <2>1. reading' \in BOOLEAN
    BY <1>12, Zenon DEF ReadLoopExits
  <2> QED
    BY <1>12, <2>1 DEF ReadLoopExits, cacheVars, initVars, updVars, subVars
<1>13. CASE LinkArmed
  BY <1>13 DEF LinkArmed
<1> QED
  BY <1>1, <1>2, <1>3, <1>4, <1>5, <1>6, <1>7, <1>8, <1>9, <1>10, <1>11, <1>12, <1>13
  DEF InitStep, LinkStep

\* The steps of updateFlags and of whatever leads up to it.
LEMMA UpdateStepType ==
  ASSUME TypeOK, NEW u \in Updater,
         \/ UpdateStep(u)
         \/ u \in Fetcher /\ (UpdateContext(u) \/ RefetchStep(u))
         \/ FetchReturns(u)
         \/ PushBegin(u)
  PROVE  TypeOK'
<1> USE Members DEF TypeOK, UpdPc
<1>1. CASE StoreFlags(u)
  BY <1>1 DEF StoreFlags
<1>2. CASE SaveFlags(u)
  BY <1>2 DEF SaveFlags, Written
<1>3. CASE NotifyBegin(u)
  BY <1>3 DEF NotifyBegin
<1>4. ASSUME NEW s \in Sub, NotifyOne(u, s) PROVE TypeOK'
  BY <1>4 DEF NotifyOne
<1>5. CASE NotifyEnd(u)
  BY <1>5 DEF NotifyEnd
<1>6. CASE u \in Fetcher /\ UpdateContext(u)
  BY <1>6 DEF UpdateContext
<1>7. CASE u \in Fetcher /\ SaveContext(u)
  BY <1>7 DEF SaveContext, Written
<1>8. CASE u \in Fetcher /\ FetchStart(u)
  BY <1>8 DEF FetchStart, DoFetchFlags
<1>9. CASE u \in Fetcher /\ FetchSkip(u)
  BY <1>9 DEF FetchSkip
<1>10. CASE FetchOk(u)
  BY <1>10 DEF FetchOk
<1>11. CASE FetchFails(u)
  BY <1>11 DEF FetchFails
<1>12. CASE PushBegin(u)
  BY <1>12 DEF PushBegin
<1> QED
  BY <1>1, <1>2, <1>3, <1>4, <1>5, <1>6, <1>7, <1>8, <1>9, <1>10, <1>11, <1>12
  DEF UpdateStep, RefetchStep, FetchReturns

\* The steps of Ready and Subscribe.
LEMMA ReadyStepType ==
  ASSUME TypeOK, NEW c \in Caller, ReadyStep(c)
  PROVE  TypeOK'
<1> USE DEF TypeOK, CallPc, InitPc
<1>1. CASE ReadyCall(c)
  BY <1>1 DEF ReadyCall, FirstStep
<1>2. CASE ReadyReturn(c)
  BY <1>2 DEF ReadyReturn
<1>3. CASE ReadyTimeout(c)
  BY <1>3 DEF ReadyTimeout
<1> QED
  BY <1>1, <1>2, <1>3 DEF ReadyStep

LEMMA SubscribeStepType ==
  ASSUME TypeOK, NEW s \in Sub, SubRegister(s) \/ FirstCall(s) \/ Unsubscribe(s)
  PROVE  TypeOK'
<1> USE DEF TypeOK, SubPc
<1>1. CASE SubRegister(s)
  BY <1>1 DEF SubRegister
<1>2. CASE SubLoad(s)
  BY <1>2 DEF SubLoad
<1>3. CASE SubDeliver(s)
  BY <1>3 DEF SubDeliver
<1>4. CASE Unsubscribe(s)
  BY <1>4 DEF Unsubscribe
<1> QED
  BY <1>1, <1>2, <1>3, <1>4 DEF FirstCall

\* The steps of Close.
LEMMA CloseStepType ==
  ASSUME TypeOK, NEW x \in Closer, CloseCancel(x) \/ CloseStep(x)
  PROVE  TypeOK'
<1> USE Members DEF TypeOK, ClosePc, LinkPc
<1>1. CASE CloseCancel(x)
  BY <1>1 DEF CloseCancel
<1>2. CASE CloseClear(x)
  BY <1>2 DEF CloseClear
<1>3. CASE CloseNoActive(x)
  BY <1>3 DEF CloseNoActive
<1>4. CASE CloseTransport(x)
  BY <1>4 DEF CloseTransport, CancelsReader
<1>5. CASE CloseWait(x)
  BY <1>5 DEF CloseWait
<1> QED
  BY <1>1, <1>2, <1>3, <1>4, <1>5 DEF CloseStep

LEMMA NextType == TypeOK /\ [Next]_vars => TypeOK'
<1> SUFFICES ASSUME TypeOK, [Next]_vars PROVE TypeOK'
  OBVIOUS
<1>1. CASE InitStep \/ LinkStep \/ ReadLoopExits
  BY <1>1, InitStepType
<1>2. ASSUME NEW u \in Updater,
             \/ UpdateStep(u)
             \/ u \in Fetcher /\ (UpdateContext(u) \/ RefetchStep(u))
             \/ FetchReturns(u)
             \/ PushBegin(u)
      PROVE  TypeOK'
  BY <1>2, UpdateStepType
<1>3. ASSUME NEW c \in Caller, ReadyStep(c) PROVE TypeOK'
  BY <1>3, ReadyStepType
<1>4. ASSUME NEW s \in Sub, SubRegister(s) \/ FirstCall(s) \/ Unsubscribe(s)
      PROVE  TypeOK'
  BY <1>4, SubscribeStepType
<1>5. ASSUME NEW x \in Closer, CloseCancel(x) \/ CloseStep(x) PROVE TypeOK'
  BY <1>5, CloseStepType
<1>6. CASE UNCHANGED vars
  BY <1>6 DEF vars, TypeOK
<1> QED
  BY <1>1, <1>2, <1>3, <1>4, <1>5, <1>6, Members DEF Next

\* Every variable keeps its type: in particular the context initialize passes
\* on is never nil.
THEOREM TypeCorrect == Spec => []TypeOK
<1> QED
  BY InitType, NextType, PTL DEF Spec
-----------------------------------------------------------------------------
(***************************************************************************)
(* The inductive invariant                                                 *)
(***************************************************************************)
BeforeConnect == {"unstarted", "checkCtx", "loadCtx", "storeCtx", "loadFlags",
                  "connect"}

\* initialize and the transport advance together.
PhaseInv ==
  /\ initPc \in BeforeConnect <=> link = "new"
  /\ initPc = "connecting" => link \in {"connecting", "dialled", "armed", "linked"}
  /\ initPc = "fetch" => link = "up"
  /\ initPc \in {"finish", "ready"} => link \in {"up", "failed"}
  /\ reading => link \in {"linked", "up"}

\* The two updates initialize makes are made once, in their turn.
InitUpdatesInv ==
  /\ initPc \in BeforeConnect \ {"connect"} => upd[CacheRestore] = "idle"
  /\ link # "new" => upd[CacheRestore] \in {"idle", "done"}
  /\ initPc \in BeforeConnect \cup {"connecting", "fetch"} =>
       upd[InitFetch] = "idle"
  /\ initPc = "ready" => upd[InitFetch] \in {"idle", "failed", "done"}

\* A fetch under way has been asked for after Connect returned.
FetchInv == \A u \in Updater : upd[u] \in {"fetching", "answered"} => initPc \in {"finish", "ready"}

\* A refetch or a push goes no further than its wait before the link exists.
QuietStart ==
  link = "new" =>
    /\ \A u \in Updater \ {CacheRestore} : upd[u] \in {"idle", "saveCtx", "wait", "skipped"}
    /\ flags \in {NoFlags, CacheRestore}
    /\ cacheFlags \in {NoFlags, CacheRestore}
    /\ upd[CacheRestore] # "idle" => cacheFlags = CacheRestore

\* Success without a connection is degraded mode, in which there are flags.
ReadyInv ==
  /\ link = "failed" /\ ~readyErr => upd[CacheRestore] = "done"
  /\ \A u \in Updater : upd[u] \in {"save", "lock", "notify", "done"} => flags # NoFlags
  /\ \A c \in Caller : callPc[c] = "nil" => initPc = "ready" /\ ~readyErr

\* The read lock freezes the registrations: what an update still has to call
\* and what it has called make up the registered callbacks.
LockInv ==
  /\ \A u \in Updater : upd[u] = "notify" =>
       /\ pending[u] \subseteq subscribers
       /\ \A s \in Sub : u \in got[s] <=> s \in subscribers \ pending[u]
  /\ \A u \in Updater : upd[u] \notin {"notify", "done"} =>
       \A s \in Sub : u \notin got[s]
  /\ \A s \in Sub : subPc[s] = "idle" => s \notin subscribers

\* Nothing is delivered once the reader is gone.  The default transport's Close
\* waits only for a reader it has cancelled, after Connect has returned.
CloseInv ==
  /\ link \in {"linked", "up"} /\ ~reading => ~PusherBusy
  /\ Mode = "auto" => \A x \in Closer :
       /\ closePc[x] \in {"waiting", "returned"} => link = "up"
       /\ closePc[x] = "returned" => ~reading

\* Parts is what IInv adds to TypeOK; TypeOK alone is inductive, Parts is
\* inductive together with it.
Parts == /\ PhaseInv /\ InitUpdatesInv /\ FetchInv /\ QuietStart
         /\ ReadyInv /\ LockInv /\ CloseInv
IInv == TypeOK /\ Parts

LEMMA InitInv == Init => IInv
<1> SUFFICES ASSUME Init PROVE IInv
  OBVIOUS
<1>1. TypeOK
  BY InitType
<1>2. PhaseInv /\ InitUpdatesInv /\ FetchInv /\ QuietStart
  BY Members DEF Init, FirstStep, BeforeConnect, PhaseInv, InitUpdatesInv,
                 FetchInv, QuietStart
<1>3. ReadyInv /\ LockInv /\ CloseInv
  BY Members DEF Init, ReadyInv, LockInv, CloseInv, PusherBusy, Pipeline
<1> QED
  BY <1>1, <1>2, <1>3 DEF IInv, Parts

\* initialize and the transport move together; each of initialize's two updates
\* starts from idle.
LEMMA InitStepInv ==
  ASSUME IInv, InitStep \/ LinkStep \/ ReadLoopExits
  PROVE  Parts'
<1> USE Members, ActorsAreDistinct
    DEF IInv, TypeOK, Parts, PhaseInv, InitUpdatesInv, FetchInv, QuietStart,
        ReadyInv, LockInv, CloseInv, BeforeConnect, PusherBusy, Pipeline
<1>1. CASE InitCheckContext
  BY <1>1 DEF InitCheckContext
<1>2. CASE InitLoadContext
  BY <1>2 DEF InitLoadContext
<1>3. CASE InitStoreContext
  BY <1>3 DEF InitStoreContext
<1>4. CASE InitLoadFlags
  BY <1>4 DEF InitLoadFlags
<1>5. CASE InitConnect
  BY <1>5 DEF InitConnect, RestoreFinished
<1>6. CASE ConnectOk
  BY <1>6 DEF ConnectOk
<1>7. CASE InitFetchStart
  BY <1>7 DEF InitFetchStart, DoFetchFlags
<1>8. CASE InitDone
  BY <1>8 DEF InitDone
<1>9. CASE LinkUp
  BY <1>9 DEF LinkUp
<1>10. CASE LinkReads
  BY <1>10 DEF LinkReads
<1>11. CASE ConnectFails
  BY <1>11 DEF ConnectFails, HasCachedFlags
<1>12. CASE ReadLoopExits
  BY <1>12 DEF ReadLoopExits
<1>13. CASE LinkArmed
  BY <1>13 DEF LinkArmed
<1> QED
  BY <1>1, <1>2, <1>3, <1>4, <1>5, <1>6, <1>7, <1>8, <1>9, <1>10, <1>11, <1>12, <1>13
  DEF InitStep, LinkStep

\* updateFlags: the lock part is what changes, the registrations do not.
LEMMA UpdateStepInv ==
  ASSUME IInv, NEW u \in Updater, UpdateStep(u)
  PROVE  Parts'
<1> USE Members, ActorsAreDistinct, SentinelsAreNotValues
    DEF IInv, TypeOK, Parts, PhaseInv, InitUpdatesInv, FetchInv, QuietStart,
        ReadyInv, LockInv, CloseInv, BeforeConnect, PusherBusy, Pipeline
<1>1. CASE StoreFlags(u)
  BY <1>1 DEF StoreFlags
<1>2. CASE SaveFlags(u)
  BY <1>2 DEF SaveFlags, Written
<1>3. CASE NotifyBegin(u)
  BY <1>3 DEF NotifyBegin
<1>4. ASSUME NEW s \in Sub, NotifyOne(u, s) PROVE Parts'
  BY <1>4 DEF NotifyOne
<1>5. CASE NotifyEnd(u)
  BY <1>5 DEF NotifyEnd
<1> QED
  BY <1>1, <1>2, <1>3, <1>4, <1>5 DEF UpdateStep

\* A refetch leaves its wait only when initialize has ended.
LEMMA RefetchInv ==
  ASSUME IInv, NEW f \in Fetcher, UpdateContext(f) \/ RefetchStep(f)
  PROVE  Parts'
<1> USE Members, ActorsAreDistinct
    DEF IInv, TypeOK, Parts, PhaseInv, InitUpdatesInv, FetchInv, QuietStart,
        ReadyInv, LockInv, CloseInv, BeforeConnect, PusherBusy, Pipeline
<1>1. CASE UpdateContext(f)
  BY <1>1 DEF UpdateContext
<1>2. CASE SaveContext(f)
  BY <1>2 DEF SaveContext
<1>3. CASE FetchStart(f)
  BY <1>3 DEF FetchStart, ConnectionReady, DoFetchFlags
<1>4. CASE FetchSkip(f)
  BY <1>4 DEF FetchSkip
<1> QED
  BY <1>1, <1>2, <1>3, <1>4 DEF RefetchStep

\* An answer can arrive only for a fetch that was under way.
LEMMA FetchReturnsInv ==
  ASSUME IInv, NEW u \in Fetcher \cup {InitFetch}, FetchReturns(u)
  PROVE  Parts'
<1> USE Members, ActorsAreDistinct
    DEF IInv, TypeOK, Parts, PhaseInv, InitUpdatesInv, FetchInv, QuietStart,
        ReadyInv, LockInv, CloseInv, BeforeConnect, PusherBusy, Pipeline
<1>1. CASE FetchOk(u)
  BY <1>1 DEF FetchOk
<1>2. CASE FetchFails(u)
  BY <1>2 DEF FetchFails
<1> QED
  BY <1>1, <1>2 DEF FetchReturns

\* A push starts only over a link that is open.
LEMMA PushInv ==
  ASSUME IInv, NEW p \in Push, PushBegin(p)
  PROVE  Parts'
<1> USE Members, ActorsAreDistinct
    DEF IInv, TypeOK, Parts, PhaseInv, InitUpdatesInv, FetchInv, QuietStart,
        ReadyInv, LockInv, CloseInv, BeforeConnect, PusherBusy, Pipeline
<1>1. CASE PushBegin(p)
  BY <1>1 DEF PushBegin
<1> QED
  BY <1>1

\* Ready starts initialize at most once and answers from readyErr.
LEMMA ReadyStepInv ==
  ASSUME IInv, NEW c \in Caller, ReadyStep(c)
  PROVE  Parts'
<1> USE Members, ActorsAreDistinct
    DEF IInv, TypeOK, Parts, PhaseInv, InitUpdatesInv, FetchInv, QuietStart,
        ReadyInv, LockInv, CloseInv, BeforeConnect, PusherBusy, Pipeline
<1>1. CASE ReadyCall(c)
  BY <1>1 DEF ReadyCall, FirstStep
<1>2. CASE ReadyReturn(c)
  BY <1>2 DEF ReadyReturn
<1>3. CASE ReadyTimeout(c)
  BY <1>3 DEF ReadyTimeout
<1> QED
  BY <1>1, <1>2, <1>3 DEF ReadyStep

\* Registrations change only while no update holds the read lock.
LEMMA SubscribeInv ==
  ASSUME IInv, NEW s \in Sub, SubRegister(s) \/ FirstCall(s) \/ Unsubscribe(s)
  PROVE  Parts'
<1> USE Members, ActorsAreDistinct
    DEF IInv, TypeOK, Parts, PhaseInv, InitUpdatesInv, FetchInv, QuietStart,
        ReadyInv, LockInv, CloseInv, BeforeConnect, PusherBusy, Pipeline
<1>1. CASE SubRegister(s)
  BY <1>1 DEF SubRegister, WriterMayLock
<1>2. CASE SubLoad(s)
  BY <1>2 DEF SubLoad
<1>3. CASE SubDeliver(s)
  BY <1>3 DEF SubDeliver
<1>4. CASE Unsubscribe(s)
  BY <1>4 DEF Unsubscribe, WriterMayLock
<1> QED
  BY <1>1, <1>2, <1>3, <1>4 DEF FirstCall

\* Close clears the registrations under the lock and waits for a stopped link.
LEMMA CloseStepInv ==
  ASSUME IInv, NEW x \in Closer, CloseCancel(x) \/ CloseStep(x)
  PROVE  Parts'
<1> USE Members, ActorsAreDistinct
    DEF IInv, TypeOK, Parts, PhaseInv, InitUpdatesInv, FetchInv, QuietStart,
        ReadyInv, LockInv, CloseInv, BeforeConnect, PusherBusy, Pipeline
<1>1. CASE CloseCancel(x)
  BY <1>1 DEF CloseCancel
<1>2. CASE CloseClear(x)
  BY <1>2 DEF CloseClear, WriterMayLock
<1>3. CASE CloseNoActive(x)
  BY <1>3 DEF CloseNoActive
<1>4. CASE CloseTransport(x)
  BY <1>4 DEF CloseTransport, NoActive, CancelsReader
<1>5. CASE CloseWait(x)
  BY <1>5 DEF CloseWait, ReaderIsGone
<1> QED
  BY <1>1, <1>2, <1>3, <1>4, <1>5 DEF CloseStep

LEMMA NextInv == IInv /\ [Next]_vars => IInv'
<1> SUFFICES ASSUME IInv, [Next]_vars PROVE IInv'
  OBVIOUS
<1>1. TypeOK'
  BY NextType DEF IInv
<1>2. Parts'
  <2>1. CASE InitStep \/ LinkStep \/ ReadLoopExits
    BY <2>1, InitStepInv
  <2>2. ASSUME NEW u \in Updater, UpdateStep(u) PROVE Parts'
    BY <2>2, UpdateStepInv
  <2>3. ASSUME NEW f \in Fetcher, UpdateContext(f) \/ RefetchStep(f) PROVE Parts'
    BY <2>3, RefetchInv
  <2>4. ASSUME NEW u \in Fetcher \cup {InitFetch}, FetchReturns(u) PROVE Parts'
    BY <2>4, FetchReturnsInv
  <2>5. ASSUME NEW p \in Push, PushBegin(p) PROVE Parts'
    BY <2>5, PushInv
  <2>6. ASSUME NEW c \in Caller, ReadyStep(c) PROVE Parts'
    BY <2>6, ReadyStepInv
  <2>7. ASSUME NEW s \in Sub, SubRegister(s) \/ FirstCall(s) \/ Unsubscribe(s)
        PROVE  Parts'
    BY <2>7, SubscribeInv
  <2>8. ASSUME NEW x \in Closer, CloseCancel(x) \/ CloseStep(x) PROVE Parts'
    BY <2>8, CloseStepInv
  <2>9. CASE UNCHANGED vars
    BY <2>9 DEF vars, IInv, Parts, PhaseInv, InitUpdatesInv, FetchInv, QuietStart,
                ReadyInv, LockInv, CloseInv, PusherBusy
  <2> QED
    BY <2>1, <2>2, <2>3, <2>4, <2>5, <2>6, <2>7, <2>8, <2>9 DEF Next
<1> QED
  BY <1>1, <1>2 DEF IInv

\* The inductive invariant holds in every reachable state.
THEOREM Invariance == Spec => []IInv
<1> QED
  BY InitInv, NextInv, PTL DEF Spec
-----------------------------------------------------------------------------
\* No goroutine calls FetchFlags before Connect has returned.
THEOREM FetchIsAfterConnect == Spec => []FetchAfterConnect
<1>1. IInv => FetchAfterConnect
  BY DEF IInv, Parts, FetchInv, PhaseInv, BeforeConnect, FetchAfterConnect
<1> QED
  BY <1>1, Invariance, PTL

\* A nil from Ready without a connection stands for flags from the cache.
THEOREM DegradedModeServes == Spec => []DegradedModeHasFlags
<1>1. IInv => DegradedModeHasFlags
  BY Members DEF IInv, Parts, ReadyInv, DegradedModeHasFlags
<1> QED
  BY <1>1, Invariance, PTL

\* A Close that waited leaves no delivery behind.
THEOREM CloseWaits == Spec => []CloseWaitsForPushes
<1>1. IInv => CloseWaitsForPushes
  BY DEF IInv, Parts, CloseInv, CloseWaitsForPushes
<1> QED
  BY <1>1, Invariance, PTL

\* No update reaches a callback that unsubscribe or Close has dropped.
THEOREM CallbacksAreRegistered == Spec => CallbackOnlyWhileRegistered
<1>1. ASSUME IInv, [Next]_vars, NEW s \in Sub, got'[s] # got[s]
      PROVE  s \in subscribers
  <2>1. PICK u \in Updater, r \in Sub : NotifyOne(u, r)
    BY <1>1 DEF Next, InitStep, RefetchStep, FetchReturns, UpdateStep, ReadyStep,
         LinkStep, FirstCall, CloseStep, CloseTransport, vars, InitCheckContext,
         InitLoadContext, InitStoreContext, InitLoadFlags, InitConnect, LinkUp,
         LinkArmed, LinkReads, ConnectOk, ConnectFails, InitFetchStart, InitDone,
         ReadLoopExits, UpdateContext, SaveContext, FetchStart, FetchSkip, FetchOk,
         FetchFails, PushBegin, StoreFlags, SaveFlags, NotifyBegin, NotifyEnd,
         ReadyCall, ReadyReturn, ReadyTimeout, SubRegister, SubLoad, SubDeliver,
         Unsubscribe, CloseCancel, CloseClear, CloseNoActive, CloseWait
  <2>2. r = s
    BY <1>1, <2>1 DEF NotifyOne, IInv, TypeOK
  <2> QED
    BY <1>1, <2>1, <2>2 DEF NotifyOne, IInv, Parts, LockInv
<1>2. IInv /\ [Next]_vars =>
        [\A s \in Sub : got'[s] # got[s] => s \in subscribers]_vars
  BY <1>1
<1> QED
  BY <1>2, Invariance, PTL DEF Spec, CallbackOnlyWhileRegistered

\* Only updateFlags writes the flags, in memory and in the cache.
LEMMA StoringSteps ==
  ASSUME [Next]_vars, flags' # flags
  PROVE  \E u \in Updater : StoreFlags(u)
BY DEF Next, InitStep, RefetchStep, FetchReturns, UpdateStep, ReadyStep,
       LinkStep, FirstCall, CloseStep, CloseTransport, SaveFlags,
       NotifyBegin, NotifyOne, NotifyEnd, SubRegister, Unsubscribe, CloseClear,
       vars, InitCheckContext, InitLoadContext,
       InitStoreContext, InitLoadFlags, InitConnect, LinkUp, LinkArmed, LinkReads, ConnectOk,
       ConnectFails, InitFetchStart, InitDone, ReadLoopExits, UpdateContext,
       SaveContext, FetchStart, FetchSkip, FetchOk, FetchFails, PushBegin,
       ReadyCall, ReadyReturn, ReadyTimeout, SubLoad, SubDeliver, CloseCancel,
       CloseNoActive, CloseWait

LEMMA SavingSteps ==
  ASSUME [Next]_vars, cacheFlags' # cacheFlags
  PROVE  \E u \in Updater : SaveFlags(u)
BY DEF Next, InitStep, RefetchStep, FetchReturns, UpdateStep, ReadyStep,
       LinkStep, FirstCall, CloseStep, CloseTransport, StoreFlags,
       NotifyBegin, NotifyOne, NotifyEnd, SubRegister, Unsubscribe, CloseClear,
       vars, InitCheckContext, InitLoadContext,
       InitStoreContext, InitLoadFlags, InitConnect, LinkUp, LinkArmed, LinkReads, ConnectOk,
       ConnectFails, InitFetchStart, InitDone, ReadLoopExits, UpdateContext,
       SaveContext, FetchStart, FetchSkip, FetchOk, FetchFails, PushBegin,
       ReadyCall, ReadyReturn, ReadyTimeout, SubLoad, SubDeliver, CloseCancel,
       CloseNoActive, CloseWait

\* The flags of an earlier run replace nothing of this one: while the cached
\* flags are being restored no other update has got beyond its wait.
THEOREM CacheStaysBehind == Spec => CacheNeverOverwritesLive
<1>1. ASSUME IInv, [Next]_vars, flags' = CacheRestore, flags # CacheRestore
      PROVE  flags = NoFlags
  <2>1. PICK u \in Updater : StoreFlags(u)
    BY <1>1, StoringSteps
  <2>2. upd[CacheRestore] = "store"
    BY <1>1, <2>1 DEF StoreFlags
  <2>3. link = "new"
    BY <1>1, <2>2 DEF IInv, Parts, InitUpdatesInv
  <2> QED
    BY <1>1, <2>3 DEF IInv, Parts, QuietStart
<1>2. ASSUME IInv, [Next]_vars, cacheFlags' = CacheRestore
      PROVE  cacheFlags = CacheRestore
  <2> SUFFICES ASSUME cacheFlags # CacheRestore PROVE FALSE
    OBVIOUS
  <2>1. PICK u \in Updater : SaveFlags(u)
    BY <1>2, SavingSteps
  <2>2. upd[CacheRestore] = "save"
    BY <1>2, <2>1 DEF SaveFlags, Written
  <2>3. link = "new"
    BY <1>2, <2>2 DEF IInv, Parts, InitUpdatesInv
  <2> QED
    BY <1>2, <2>2, <2>3 DEF IInv, Parts, QuietStart
<1>3. IInv /\ [Next]_vars =>
        [/\ flags' = CacheRestore => flags \in {NoFlags, CacheRestore}
         /\ cacheFlags' = CacheRestore => cacheFlags = CacheRestore]_vars
  BY <1>1, <1>2
<1> QED
  BY <1>3, Invariance, PTL DEF Spec, CacheNeverOverwritesLive
-----------------------------------------------------------------------------
\* The answer to initialize's own fetch replaces no refetch's: initialize is not ready
\* until that update is done, and refetches wait for it.
RefetchesWait ==
  initPc # "ready" =>
    /\ \A f \in Fetcher : upd[f] \in {"idle", "saveCtx", "wait", "skipped"}
    /\ flags \notin Fetcher
    /\ cacheFlags \notin Fetcher

LEMMA InitWait == Init => RefetchesWait
BY Members, ActorsAreDistinct, SentinelsAreNotValues DEF Init, RefetchesWait

LEMMA NextWait == IInv /\ RefetchesWait /\ [Next]_vars => RefetchesWait'
<1> SUFFICES ASSUME IInv, RefetchesWait, [Next]_vars, initPc' # "ready" PROVE RefetchesWait'
  BY DEF RefetchesWait
<1> USE Members, ActorsAreDistinct DEF IInv, TypeOK, RefetchesWait
<1>1. CASE InitStep
  BY <1>1 DEF InitStep, InitCheckContext, InitLoadContext, InitStoreContext, InitLoadFlags,
              InitConnect, ConnectOk, InitFetchStart, DoFetchFlags, InitDone
<1>2. CASE LinkStep \/ ReadLoopExits
  BY <1>2 DEF LinkStep, LinkUp, LinkArmed, LinkReads, ConnectFails, ReadLoopExits
<1>3. ASSUME NEW u \in Updater, UpdateStep(u) PROVE RefetchesWait'
  BY <1>3 DEF UpdateStep, StoreFlags, SaveFlags, Written, NotifyBegin, NotifyOne, NotifyEnd
<1>4. ASSUME NEW f \in Fetcher, UpdateContext(f) \/ RefetchStep(f) PROVE RefetchesWait'
  BY <1>4 DEF UpdateContext, RefetchStep, SaveContext, FetchStart, ConnectionReady, FetchSkip
<1>5. ASSUME NEW u \in Fetcher \cup {InitFetch}, FetchReturns(u) PROVE RefetchesWait'
  BY <1>5 DEF FetchReturns, FetchOk, FetchFails
<1>6. ASSUME NEW p \in Push, PushBegin(p) PROVE RefetchesWait'
  BY <1>6 DEF PushBegin
<1>7. ASSUME UNCHANGED <<flags, cacheFlags, upd>>, initPc' = "ready" <=> initPc = "ready"
      PROVE  RefetchesWait'
  BY <1>7
<1>8. ASSUME NEW c \in Caller, ReadyStep(c) PROVE RefetchesWait'
  BY <1>7, <1>8 DEF ReadyStep, ReadyCall, ReadyReturn, ReadyTimeout, FirstStep
<1>9. ASSUME NEW s \in Sub, SubRegister(s) \/ FirstCall(s) \/ Unsubscribe(s) PROVE RefetchesWait'
  BY <1>7, <1>9 DEF SubRegister, FirstCall, SubLoad, SubDeliver, Unsubscribe
<1>10. ASSUME NEW x \in Closer, CloseCancel(x) \/ CloseStep(x) PROVE RefetchesWait'
  BY <1>7, <1>10 DEF CloseCancel, CloseStep, CloseClear, CloseNoActive, CloseTransport, CloseWait
<1>11. CASE UNCHANGED vars
  BY <1>7, <1>11 DEF vars
<1> QED
  BY <1>1, <1>2, <1>3, <1>4, <1>5, <1>6, <1>8, <1>9, <1>10, <1>11 DEF Next

\* The first fetch comes before every refetch, whenever UpdateContext is called.
THEOREM FirstFetchComesFirst == Spec => FirstFetchIsNeverLate
<1>1. ASSUME IInv, RefetchesWait, [Next]_vars, flags' = InitFetch, flags # InitFetch
      PROVE  flags \notin Fetcher
  <2>1. PICK u \in Updater : StoreFlags(u)
    BY <1>1, StoringSteps
  <2>2. upd[InitFetch] = "store"
    BY <1>1, <2>1 DEF StoreFlags
  <2>3. initPc # "ready"
    BY <1>1, <2>2 DEF IInv, Parts, InitUpdatesInv
  <2> QED
    BY <1>1, <2>3 DEF RefetchesWait
<1>2. ASSUME IInv, RefetchesWait, [Next]_vars, cacheFlags' = InitFetch, cacheFlags # InitFetch
      PROVE  cacheFlags \notin Fetcher
  <2>1. PICK u \in Updater : SaveFlags(u)
    BY <1>2, SavingSteps
  <2>2. upd[InitFetch] = "save"
    BY <1>2, <2>1 DEF SaveFlags, Written
  <2>3. initPc # "ready"
    BY <1>2, <2>2 DEF IInv, Parts, InitUpdatesInv
  <2> QED
    BY <1>2, <2>3 DEF RefetchesWait
<1>3. IInv /\ RefetchesWait /\ [Next]_vars =>
        [/\ flags' = InitFetch => flags \notin Fetcher
         /\ cacheFlags' = InitFetch => cacheFlags \notin Fetcher]_vars
  BY <1>1, <1>2, ActorsAreDistinct
<1> QED
  BY <1>3, InitInv, NextInv, InitWait, NextWait, PTL DEF Spec, FirstFetchIsNeverLate
-----------------------------------------------------------------------------
(***************************************************************************)
(* What the cache may lag behind                                           *)
(***************************************************************************)
\* No run of updateFlags leaves memory, or the cache, with flags of a run that had
\* returned before it began: whoever stores or saves last began after that run did.
Stored == {"save", "lock", "notify", "done"}
Saved  == {"lock", "notify", "done"}
HistoryInv ==
  /\ \A u \in Updater : before[u] \subseteq {v \in Updater : upd[v] = "done"}
  /\ \A u \in Updater : upd[u] \notin Stored => before[u] = {}
  /\ flags = NoFlags \/ (flags \in Updater /\ upd[flags] \in Stored)
  /\ \A u \in Updater : upd[u] \in Stored => flags \notin before[u]
  /\ CacheEnabled /\ ~CacheFaults =>
       \A u \in Updater : upd[u] \in Saved => cacheFlags \in Updater \ before[u]

LEMMA InitHistory == Init => HistoryInv
BY DEF Init, HistoryInv, Stored, Saved

\* Elsewhere an update moves, if any does, before it has stored anything.
LEMMA OtherStepHistory ==
  ASSUME HistoryInv, UNCHANGED <<flags, cacheFlags, before>>,
         \A u \in Updater : upd'[u] = upd[u] \/ (upd[u] \notin Stored /\ upd'[u] \notin Stored)
  PROVE  HistoryInv'
BY DEF HistoryInv, Stored, Saved

LEMMA UpdateStepHistory ==
  ASSUME IInv, HistoryInv, NEW u \in Updater, UpdateStep(u)
  PROVE  HistoryInv'
<1> USE SentinelsAreNotValues DEF IInv, TypeOK, HistoryInv, Stored, Saved
<1>1. CASE StoreFlags(u)
  <2>1. /\ upd[u] = "store" /\ flags' = u /\ cacheFlags' = cacheFlags
        /\ upd'[u] \in {"save", "lock"} /\ (CacheEnabled => upd'[u] = "save")
        /\ \A v \in Updater \ {u} : upd'[v] = upd[v] /\ before'[v] = before[v]
        /\ before'[u] = {v \in Updater : upd[v] = "done"}
    BY <1>1 DEF StoreFlags
  <2>2. u \notin before'[u] /\ \A v \in Updater : u \notin before[v]
    BY <2>1
  <2> QED
    BY <2>1, <2>2
<1>2. CASE SaveFlags(u)
  <2>1. /\ upd[u] = "save" /\ upd'[u] = "lock" /\ flags' = flags /\ before' = before
        /\ (~CacheFaults => cacheFlags' = u)
        /\ \A v \in Updater \ {u} : upd'[v] = upd[v]
    BY <1>2 DEF SaveFlags, Written
  <2>2. \A v \in Updater : u \notin before[v]
    BY <2>1
  <2> QED
    BY <2>1, <2>2
<1>3. CASE NotifyBegin(u)
  BY <1>3 DEF NotifyBegin
<1>4. ASSUME NEW s \in Sub, NotifyOne(u, s) PROVE HistoryInv'
  BY <1>4 DEF NotifyOne
<1>5. CASE NotifyEnd(u)
  BY <1>5 DEF NotifyEnd
<1> QED
  BY <1>1, <1>2, <1>3, <1>4, <1>5 DEF UpdateStep

LEMMA NextHistory == IInv /\ HistoryInv /\ [Next]_vars => HistoryInv'
<1> SUFFICES ASSUME IInv, HistoryInv, [Next]_vars PROVE HistoryInv'
  OBVIOUS
<1> DEFINE Same == UNCHANGED <<flags, cacheFlags, before>>
           Early == \A u \in Updater : upd'[u] = upd[u] \/ (upd[u] \notin Stored /\ upd'[u] \notin Stored)
<1>1. ASSUME NEW u \in Updater, UpdateStep(u) PROVE HistoryInv'
  BY <1>1, UpdateStepHistory
<1>2. CASE InitStep
  <2>1. Same
    BY <1>2 DEF InitStep, InitCheckContext, InitLoadContext, InitStoreContext, InitLoadFlags,
                InitConnect, ConnectOk, InitFetchStart, InitDone
  <2>2. ASSUME InitLoadFlags PROVE Early
    BY <2>2, Members DEF InitLoadFlags, IInv, TypeOK, Parts, InitUpdatesInv, BeforeConnect, Stored
  <2>3. ASSUME InitFetchStart PROVE Early
    BY <2>3, Members DEF InitFetchStart, DoFetchFlags, IInv, TypeOK, Parts, InitUpdatesInv,
                         BeforeConnect, Stored
  <2>4. Early
    BY <1>2, <2>2, <2>3 DEF InitStep, InitCheckContext, InitLoadContext, InitStoreContext,
                            InitConnect, ConnectOk, InitDone
  <2> QED
    BY <2>1, <2>4, OtherStepHistory
<1>3. CASE LinkStep \/ ReadLoopExits
  <2>1. Same /\ UNCHANGED upd
    BY <1>3 DEF LinkStep, LinkUp, LinkArmed, LinkReads, ConnectFails, ReadLoopExits
  <2> QED
    BY <2>1, OtherStepHistory
<1>4. ASSUME NEW u \in Updater,
             \/ u \in Fetcher /\ (UpdateContext(u) \/ RefetchStep(u))
             \/ FetchReturns(u) \/ PushBegin(u)
      PROVE  HistoryInv'
  <2>1. Same
    BY <1>4 DEF UpdateContext, RefetchStep, SaveContext, FetchStart, FetchSkip, FetchReturns, FetchOk,
                FetchFails, PushBegin
  <2>2. Early
    BY <1>4 DEF UpdateContext, RefetchStep, SaveContext, FetchStart, DoFetchFlags, FetchSkip, FetchReturns,
                FetchOk, FetchFails, PushBegin, IInv, TypeOK, Stored
  <2> QED
    BY <2>1, <2>2, OtherStepHistory
<1>5. ASSUME NEW c \in Caller, ReadyStep(c) PROVE HistoryInv'
  <2>1. Same /\ UNCHANGED upd
    BY <1>5 DEF ReadyStep, ReadyCall, ReadyReturn, ReadyTimeout
  <2> QED
    BY <2>1, OtherStepHistory
<1>6. ASSUME NEW s \in Sub, SubRegister(s) \/ FirstCall(s) \/ Unsubscribe(s) PROVE HistoryInv'
  <2>1. Same /\ UNCHANGED upd
    BY <1>6 DEF SubRegister, FirstCall, SubLoad, SubDeliver, Unsubscribe
  <2> QED
    BY <2>1, OtherStepHistory
<1>7. ASSUME NEW x \in Closer, CloseCancel(x) \/ CloseStep(x) PROVE HistoryInv'
  <2>1. Same /\ UNCHANGED upd
    BY <1>7 DEF CloseCancel, CloseStep, CloseClear, CloseNoActive, CloseTransport, CloseWait
  <2> QED
    BY <2>1, OtherStepHistory
<1>8. CASE UNCHANGED vars
  BY <1>8, OtherStepHistory DEF vars
<1> QED
  BY <1>1, <1>2, <1>3, <1>4, <1>5, <1>6, <1>7, <1>8, Members DEF Next

\* At rest the cache holds the flags in memory, or those of a run of updateFlags that
\* overlapped with theirs; pushes, refetches and initialize's own updates alike.
THEOREM CacheFollowsFlags == Spec => []CacheLagsOnlyByOverlap
<1>1. IInv /\ HistoryInv => CacheLagsOnlyByOverlap
  <2> SUFFICES ASSUME IInv, HistoryInv, Quiet, CacheEnabled, ~CacheFaults, flags # NoFlags
               PROVE  cacheFlags # NoFlags /\ Overlapped(cacheFlags, flags)
    BY DEF CacheLagsOnlyByOverlap
  <2>1. flags \in Updater /\ upd[flags] = "done"
    BY DEF HistoryInv, Stored, Quiet, Finished
  <2>2. cacheFlags \in Updater \ before[flags]
    BY <2>1 DEF HistoryInv, Saved
  <2>3. flags \notin before[cacheFlags]
    BY <2>2 DEF HistoryInv
  <2> QED
    BY <2>2, <2>3, SentinelsAreNotValues DEF Overlapped
<1> QED
  BY <1>1, InitInv, NextInv, InitHistory, NextHistory, PTL DEF Spec
-----------------------------------------------------------------------------
(***************************************************************************)
(* What Close may rely on                                                  *)
(***************************************************************************)
\* The reader of a client that is ready does not come back.
ClosedInv ==
  /\ \A x \in Closer : closePc[x] # "idle" => cancelled
  /\ (\E x \in Closer : closePc[x] \in {"returned", "noop"}) => ~reading

LEMMA NextClosed == IInv /\ ClosedInv /\ ClosedWhenReady /\ [Next]_vars => ClosedInv'
<1> SUFFICES ASSUME IInv, ClosedInv, ClosedWhenReady, [Next]_vars PROVE ClosedInv'
  OBVIOUS
<1>1. ASSUME UNCHANGED closePc, cancelled => cancelled', reading' => reading PROVE ClosedInv'
  BY <1>1 DEF ClosedInv
<1>2. CASE LinkReads
  <2>1. ~cancelled
    BY <1>2 DEF LinkReads, ClosedWhenReady, IInv, Parts, PhaseInv
  <2> QED
    BY <1>2, <2>1 DEF LinkReads, ClosedInv
<1>3. ASSUME NEW x \in Closer, CloseCancel(x) \/ CloseStep(x) PROVE ClosedInv'
  <2> USE DEF IInv, TypeOK, ClosedInv
  <2>1. CASE CloseCancel(x)
    BY <2>1 DEF CloseCancel
  <2>2. CASE CloseClear(x)
    BY <2>2 DEF CloseClear
  <2>3. CASE CloseNoActive(x)
    BY <2>3 DEF CloseNoActive, NoActive, ClosedWhenReady, Parts, PhaseInv
  <2>4. CASE CloseTransport(x)
    BY <2>4 DEF CloseTransport
  <2>5. CASE CloseWait(x)
    BY <2>5 DEF CloseWait, ReaderIsGone
  <2> QED
    BY <1>3, <2>1, <2>2, <2>3, <2>4, <2>5 DEF CloseStep
<1>4. CASE InitStep \/ LinkUp \/ LinkArmed \/ ConnectFails \/ ReadLoopExits
  BY <1>1, <1>4 DEF InitStep, InitCheckContext, InitLoadContext, InitStoreContext, InitLoadFlags,
     InitConnect, ConnectOk, InitFetchStart, InitDone, LinkUp, LinkArmed, ConnectFails, ReadLoopExits
<1>5. ASSUME NEW u \in Updater, UpdateStep(u) PROVE ClosedInv'
  BY <1>1, <1>5 DEF UpdateStep, StoreFlags, SaveFlags, NotifyBegin, NotifyOne, NotifyEnd
<1>6. ASSUME NEW u \in Updater,
             UpdateContext(u) \/ RefetchStep(u) \/ FetchReturns(u) \/ PushBegin(u)
      PROVE  ClosedInv'
  BY <1>1, <1>6 DEF UpdateContext, RefetchStep, SaveContext, FetchStart, FetchSkip, FetchReturns, FetchOk,
     FetchFails, PushBegin
<1>7. ASSUME NEW c \in Caller, ReadyStep(c) PROVE ClosedInv'
  BY <1>1, <1>7 DEF ReadyStep, ReadyCall, ReadyReturn, ReadyTimeout
<1>8. ASSUME NEW s \in Sub, SubRegister(s) \/ FirstCall(s) \/ Unsubscribe(s) PROVE ClosedInv'
  BY <1>1, <1>8 DEF SubRegister, FirstCall, SubLoad, SubDeliver, Unsubscribe
<1>9. CASE UNCHANGED vars
  BY <1>1, <1>9 DEF vars
<1> QED
  BY <1>2, <1>3, <1>4, <1>5, <1>6, <1>7, <1>8, <1>9, Members DEF Next, LinkStep

\* A Close that comes once the client is ready stops the transport for good.
THEOREM CloseIsFinal == Spec /\ []ClosedWhenReady => []CloseStopsTransport
<1>1. Init => ClosedInv
  BY DEF Init, ClosedInv
<1>2. ClosedInv => CloseStopsTransport
  BY DEF ClosedInv, CloseStopsTransport
<1> QED
  BY <1>1, <1>2, NextClosed, InitInv, NextInv, PTL DEF Spec
-----------------------------------------------------------------------------
(***************************************************************************)
(* The client implements FlagBroadcast                                     *)
(***************************************************************************)
Received == [s \in Sub |-> {u \in got[s] : upd[u] = "done"}]

\* A finished update stays finished, an unfinished one finishes in NotifyEnd,
\* and only the steps named here touch the registrations or a callback.
LEMMA StepKinds ==
  ASSUME IInv, [Next]_vars
  PROVE  \/ UNCHANGED <<subscribers, got, Published>>
         \/ \E u \in Updater, s \in Sub : NotifyOne(u, s)
         \/ \E u \in Updater : NotifyEnd(u)
         \/ \E s \in Sub : SubRegister(s) \/ Unsubscribe(s)
         \/ \E x \in Closer : CloseClear(x)
<1> SUFFICES ASSUME ~ \E u \in Updater, s \in Sub : NotifyOne(u, s),
                    ~ \E u \in Updater : NotifyEnd(u),
                    ~ \E s \in Sub : SubRegister(s) \/ Unsubscribe(s),
                    ~ \E x \in Closer : CloseClear(x)
             PROVE  UNCHANGED <<subscribers, got, Published>>
  OBVIOUS
<1>1. UNCHANGED <<subscribers, got>>
  BY DEF Next, InitStep, RefetchStep, FetchReturns, UpdateStep, ReadyStep,
         LinkStep, FirstCall, CloseStep, CloseTransport, StoreFlags, SaveFlags,
         NotifyBegin, vars, InitCheckContext, InitLoadContext,
         InitStoreContext, InitLoadFlags, InitConnect, LinkUp, LinkArmed, LinkReads, ConnectOk,
         ConnectFails, InitFetchStart, InitDone, ReadLoopExits, UpdateContext,
         SaveContext, FetchStart, FetchSkip, FetchOk, FetchFails, PushBegin,
         ReadyCall, ReadyReturn, ReadyTimeout, SubLoad, SubDeliver, CloseCancel,
         CloseNoActive, CloseWait
<1>2. \A u \in Updater : upd'[u] = "done" <=> upd[u] = "done"
  <2> USE DEF IInv, TypeOK
  <2>1. CASE UNCHANGED upd
    BY <2>1
  <2>2. CASE InitLoadFlags \/ InitFetchStart
    BY <2>2, Members DEF Parts, InitUpdatesInv, BeforeConnect, InitLoadFlags,
                         InitFetchStart, DoFetchFlags
  <2>3. ASSUME NEW v \in Updater,
               \/ StoreFlags(v) \/ SaveFlags(v) \/ NotifyBegin(v)
               \/ UpdateContext(v) \/ SaveContext(v) \/ FetchStart(v)
               \/ FetchSkip(v) \/ FetchOk(v) \/ FetchFails(v) \/ PushBegin(v)
        PROVE  \A u \in Updater : upd'[u] = "done" <=> upd[u] = "done"
    BY <2>3 DEF StoreFlags, SaveFlags, NotifyBegin, UpdateContext, SaveContext,
                FetchStart, DoFetchFlags, FetchSkip, FetchOk, FetchFails, PushBegin
  <2> QED
    BY <2>1, <2>2, <2>3, Members
    DEF Next, InitStep, RefetchStep, FetchReturns, UpdateStep, ReadyStep,
        LinkStep, FirstCall, CloseStep, CloseTransport, vars, InitCheckContext,
        InitLoadContext, InitStoreContext, InitConnect, LinkUp, LinkArmed, LinkReads,
        ConnectOk, ConnectFails, InitDone, ReadLoopExits, ReadyCall, ReadyReturn,
        ReadyTimeout, SubLoad, SubDeliver, CloseCancel, CloseNoActive, CloseWait
<1> QED
  BY <1>1, <1>2 DEF Published

LEMMA InitMaps == Init => Broadcast!Init
BY Members DEF Init, Broadcast!Init, Published

\* Every step of the client is a step of the broadcast or leaves what the
\* broadcast sees alone; NotifyEnd is the moment of publication.
LEMMA StepMaps == IInv /\ [Next]_vars => [Broadcast!Next]_(Broadcast!vars)
<1> SUFFICES ASSUME IInv, [Next]_vars PROVE [Broadcast!Next]_(Broadcast!vars)
  OBVIOUS
<1> USE DEF IInv, TypeOK
<1>0. \A s \in Sub : got[s] \subseteq Updater
  OBVIOUS
<1>1. CASE UNCHANGED <<subscribers, got, Published>>
  <2>1. \A u \in Updater : upd'[u] = "done" <=> upd[u] = "done"
    BY <1>1 DEF Published
  <2>2. Received' = Received
    BY <1>1, <1>0, <2>1 DEF Received
  <2> QED
    BY <1>1, <2>2 DEF Broadcast!vars, Received
<1>2. ASSUME NEW u \in Updater, NEW s \in Sub, NotifyOne(u, s)
      PROVE  UNCHANGED Broadcast!vars
  <2>1. UNCHANGED <<subscribers, upd>> /\ upd[u] # "done"
    BY <1>2 DEF NotifyOne
  <2>2. \A r \in Sub : got'[r] \subseteq got[r] \cup {u} /\ got[r] \subseteq got'[r]
    BY <1>2 DEF NotifyOne
  <2>3. Received' = Received
    BY <2>1, <2>2 DEF Received
  <2> QED
    BY <2>1, <2>3 DEF Broadcast!vars, Received, Published
<1>3. ASSUME NEW u \in Updater, NotifyEnd(u)
      PROVE  Broadcast!Publish(u)
  <2>1. /\ UNCHANGED <<subscribers, got>>
        /\ upd' = [upd EXCEPT ![u] = "done"]
        /\ upd[u] = "notify" /\ pending[u] = {}
    BY <1>3 DEF NotifyEnd
  <2>2. \A s \in Sub : u \in got[s] <=> s \in subscribers
    BY <2>1 DEF Parts, LockInv
  <2>3. u \notin Published /\ Published' = Published \cup {u}
    BY <2>1 DEF Published
  <2>4. \A s \in Sub : {v \in got'[s] : upd'[v] = "done"} =
          IF s \in subscribers THEN {v \in got[s] : upd[v] = "done"} \cup {u}
                               ELSE {v \in got[s] : upd[v] = "done"}
    BY <1>0, <2>1, <2>2
  <2>5. Received' = [s \in Sub |-> IF s \in subscribers THEN Received[s] \cup {u}
                                                        ELSE Received[s]]
    BY <2>4 DEF Received
  <2> QED
    BY <2>1, <2>3, <2>5 DEF Broadcast!Publish, Received
<1>4. ASSUME NEW s \in Sub, SubRegister(s) PROVE Broadcast!Join(s)
  BY <1>4 DEF SubRegister, Broadcast!Join, Published, Parts, LockInv
<1>5. ASSUME NEW s \in Sub, Unsubscribe(s) PROVE Broadcast!Leave(s)
  BY <1>5 DEF Unsubscribe, Broadcast!Leave, Published
<1>6. ASSUME NEW x \in Closer, CloseClear(x) PROVE Broadcast!Clear
  BY <1>6 DEF CloseClear, Broadcast!Clear, Published
<1> QED
  BY StepKinds, <1>1, <1>2, <1>3, <1>4, <1>5, <1>6 DEF Broadcast!Next

\* Subscribers see the client as an indivisible broadcast.
THEOREM Refinement == Spec => ImplementsBroadcast
<1> QED
  BY InitMaps, StepMaps, Invariance, PTL
  DEF Spec, ImplementsBroadcast, Broadcast!Spec
=============================================================================
