---------------------------- MODULE HTTPTransport ----------------------------
(***************************************************************************)
(* transport/http.go: Connect makes a first request and starts a goroutine *)
(* that polls; FetchFlags calls make requests of their own.                *)
(*                                                                         *)
(* A flag set is named by the context it was evaluated for and the state   *)
(* of the server's configuration it was evaluated in.  The client above    *)
(* the transport is the flags it stored last: those the callback passed it *)
(* or those a FetchFlags call returned.                                    *)
(***************************************************************************)
EXTENDS Naturals

CONSTANTS
  Fetch,      \* FetchFlags calls
  Closer,     \* Close calls
  Context,    \* evaluation contexts with at least one attribute
  Config,     \* states of the server's configuration
  MaxChanges, \* changes of it at most
  NoContext,  \* a nil or empty context map
  NoFlags     \* a nil flag map

MaybeContext == Context \cup {NoContext}
Flags == MaybeContext \X Config

ASSUME ChangesAreCounted == MaxChanges \in Nat
ASSUME NoFlagsIsNoFlagSet == NoFlags \notin Flags

VARIABLES
  connectPc, \* where Connect is
  startCtx,  \* the context Connect was called with
  pollPc,    \* where pollLoop is
  pollCtx,   \* the context pollLoop's request carries
  got,       \* the response Connect or pollLoop holds
  lastCtx,   \* t.lastEvalCtx
  lastFlags, \* t.lastFlags
  inner,     \* t.innerCtx
  once,      \* t.closeOnce has been used
  fetchPc,   \* where FetchFlags call f is, or how it ended
  fetchCtx,  \* the context it was called with
  reply,     \* the response it holds
  closePc,   \* where Close call x is
  cancelled, \* the client's internalCtx is done
  client,    \* the flags the client stored last
  config,    \* the server's configuration
  changes    \* how often it has changed

connectVars == <<connectPc, startCtx>>
pollVars    == <<pollPc, pollCtx, got>>
fetchVars   == <<fetchPc, fetchCtx, reply>>
closeVars   == <<once, closePc, cancelled>>
serverVars  == <<config, changes>>
vars == <<connectVars, pollVars, lastCtx, lastFlags, inner, fetchVars,
          closeVars, client, serverVars>>

ConnectPc == {"idle", "called", "request", "answered", "callback", "ready",
              "started", "returned", "failed"}
PollPc    == {"none", "sleep", "request", "answered", "callback", "exited"}
FetchPc   == {"idle", "request", "answered", "ok", "failed"}
ClosePc   == {"idle", "waiting", "returned"}

\* Every variable keeps to the values its Go field or program counter can take;
\* the callback never gets the nil flags of a failed request.
TypeOK ==
  /\ connectPc \in ConnectPc
  /\ startCtx \in MaybeContext
  /\ pollPc \in PollPc
  /\ pollCtx \in MaybeContext
  /\ got \in Flags \cup {NoFlags}
  /\ "callback" \in {connectPc, pollPc} => got \in Flags
  /\ lastCtx \in MaybeContext
  /\ lastFlags \in Flags \cup {NoFlags}
  /\ inner \in {"unset", "live", "done"}
  /\ once \in BOOLEAN
  /\ fetchPc \in [Fetch -> FetchPc]
  /\ fetchCtx \in [Fetch -> MaybeContext]
  /\ reply \in [Fetch -> Flags \cup {NoFlags}]
  /\ closePc \in [Closer -> ClosePc]
  /\ cancelled \in BOOLEAN
  /\ client \in Flags \cup {NoFlags}
  /\ config \in Config
  /\ changes \in 0..MaxChanges

Init ==
  /\ connectPc = "idle"
  /\ startCtx = NoContext
  /\ pollPc = "none"
  /\ pollCtx = NoContext
  /\ got = NoFlags
  /\ lastCtx = NoContext
  /\ lastFlags = NoFlags
  /\ inner = "unset"
  /\ once = FALSE
  /\ fetchPc = [f \in Fetch |-> "idle"]
  /\ fetchCtx = [f \in Fetch |-> NoContext]
  /\ reply = [f \in Fetch |-> NoFlags]
  /\ closePc = [x \in Closer |-> "idle"]
  /\ cancelled = FALSE
  /\ client = NoFlags
  /\ config \in Config
  /\ changes = 0
-----------------------------------------------------------------------------
\* Some definitions come with a mutated form next to them, a mistake the code
\* does not make; the properties below are shown to notice it.

InnerDone == inner = "done"

\* mapsEqual.  Mutated form: it sees no difference.
NothingChanged(flags) == FALSE
Changed(flags) == lastFlags # flags

\* Flags that were stored are delivered.  Mutated form: not while closing.
SilentWhileClosing == IF cancelled THEN "sleep" ELSE "callback"
AfterStore == "callback"

\* After a failed poll.  Mutated forms: the error is overlooked; the loop goes
\* on without a look at its context.
ErrorOverlooked == "callback"
ErrorRetried == "sleep"
AfterError == IF InnerDone THEN "exited" ELSE "sleep"

\* wg counts the poll loop.  Mutated form: it does not.
NoLoopCounted == TRUE
LoopIsGone == pollPc \in {"none", "exited"}
-----------------------------------------------------------------------------
(***************************************************************************)
(* Connect                                                                 *)
(***************************************************************************)
ConnectCall(ctx) ==
  /\ connectPc = "idle"
  /\ connectPc' = "called"
  /\ startCtx' = ctx
  /\ UNCHANGED <<pollVars, lastCtx, lastFlags, inner, fetchVars, closeVars,
                 client, serverVars>>

\* innerCtx, innerCancel and lastEvalCtx; no call can see them one by one.
SetInner ==
  /\ connectPc = "called"
  /\ inner' = "live"
  /\ lastCtx' = IF startCtx = NoContext THEN lastCtx ELSE startCtx
  /\ connectPc' = "request"
  /\ UNCHANGED <<startCtx, pollVars, lastFlags, fetchVars, closeVars, client,
                 serverVars>>

ConnectAnswered ==
  /\ connectPc = "request"
  /\ got' = <<startCtx, config>>
  /\ connectPc' = "answered"
  /\ UNCHANGED <<startCtx, pollPc, pollCtx, lastCtx, lastFlags, inner,
                 fetchVars, closeVars, client, serverVars>>

\* A failed first request is not fatal unless the client has been closed.
ConnectError ==
  /\ connectPc \in {"request", "answered"}
  /\ got' = NoFlags
  /\ \/ /\ cancelled
        /\ inner' = "done"
        /\ connectPc' = "failed"
     \/ /\ ~cancelled
        /\ connectPc' = "ready"
        /\ UNCHANGED inner
  /\ UNCHANGED <<startCtx, pollPc, pollCtx, lastCtx, lastFlags, fetchVars,
                 closeVars, client, serverVars>>

ConnectStores ==
  /\ connectPc = "answered"
  /\ lastFlags' = got
  /\ connectPc' = "callback"
  /\ UNCHANGED <<startCtx, pollVars, lastCtx, inner, fetchVars, closeVars,
                 client, serverVars>>

ConnectNotifies ==
  /\ connectPc = "callback"
  /\ client' = got
  /\ got' = NoFlags
  /\ connectPc' = "ready"
  /\ UNCHANGED <<startCtx, pollPc, pollCtx, lastCtx, lastFlags, inner,
                 fetchVars, closeVars, serverVars>>

ConnectStarts ==
  /\ connectPc = "ready"
  /\ pollPc' = "sleep"
  /\ connectPc' = "started"
  /\ UNCHANGED <<startCtx, pollCtx, got, lastCtx, lastFlags, inner, fetchVars,
                 closeVars, client, serverVars>>

ConnectReturns ==
  /\ connectPc = "started"
  /\ connectPc' = "returned"
  /\ UNCHANGED <<startCtx, pollVars, lastCtx, lastFlags, inner, fetchVars,
                 closeVars, client, serverVars>>
-----------------------------------------------------------------------------
(***************************************************************************)
(* pollLoop.  When the timer has fired and the context is done, select     *)
(* takes either.                                                           *)
(***************************************************************************)
PollStops ==
  /\ pollPc = "sleep"
  /\ InnerDone
  /\ pollPc' = "exited"
  /\ UNCHANGED <<connectVars, pollCtx, got, lastCtx, lastFlags, inner,
                 fetchVars, closeVars, client, serverVars>>

PollTimer ==
  /\ pollPc = "sleep"
  /\ pollCtx' = lastCtx
  /\ pollPc' = "request"
  /\ UNCHANGED <<connectVars, got, lastCtx, lastFlags, inner, fetchVars,
                 closeVars, client, serverVars>>

PollAnswered ==
  /\ pollPc = "request"
  /\ ~InnerDone
  /\ got' = <<pollCtx, config>>
  /\ pollPc' = "answered"
  /\ UNCHANGED <<connectVars, pollCtx, lastCtx, lastFlags, inner, fetchVars,
                 closeVars, client, serverVars>>

\* The request fails or times out; the back-off only shortens the next sleep.
PollFails ==
  /\ pollPc \in {"request", "answered"}
  /\ got' = NoFlags
  /\ pollPc' = AfterError
  /\ UNCHANGED <<connectVars, pollCtx, lastCtx, lastFlags, inner, fetchVars,
                 closeVars, client, serverVars>>

PollCompares ==
  /\ pollPc = "answered"
  /\ \/ /\ Changed(got)
        /\ lastFlags' = got
        /\ pollPc' = AfterStore
        /\ UNCHANGED got
     \/ /\ ~Changed(got)
        /\ pollPc' = "sleep"
        /\ got' = NoFlags
        /\ UNCHANGED lastFlags
  /\ UNCHANGED <<connectVars, pollCtx, lastCtx, inner, fetchVars, closeVars,
                 client, serverVars>>

PollNotifies ==
  /\ pollPc = "callback"
  /\ client' = got
  /\ got' = NoFlags
  /\ pollPc' = "sleep"
  /\ UNCHANGED <<connectVars, pollCtx, lastCtx, lastFlags, inner, fetchVars,
                 closeVars, serverVars>>
-----------------------------------------------------------------------------
(***************************************************************************)
(* FetchFlags, and the store its caller makes of what it returns           *)
(***************************************************************************)
FetchBegin(f, ctx) ==
  /\ fetchPc[f] = "idle"
  /\ connectPc = "returned"
  /\ fetchCtx' = [fetchCtx EXCEPT ![f] = ctx]
  /\ lastCtx' = ctx
  /\ fetchPc' = [fetchPc EXCEPT ![f] = "request"]
  /\ UNCHANGED <<connectVars, pollVars, lastFlags, inner, reply, closeVars,
                 client, serverVars>>

FetchAnswered(f) ==
  /\ fetchPc[f] = "request"
  /\ ~cancelled
  /\ reply' = [reply EXCEPT ![f] = <<fetchCtx[f], config>>]
  /\ fetchPc' = [fetchPc EXCEPT ![f] = "answered"]
  /\ UNCHANGED <<connectVars, pollVars, lastCtx, lastFlags, inner, fetchCtx,
                 closeVars, client, serverVars>>

FetchOk(f) ==
  /\ fetchPc[f] = "answered"
  /\ client' = reply[f]
  /\ fetchPc' = [fetchPc EXCEPT ![f] = "ok"]
  /\ UNCHANGED <<connectVars, pollVars, lastCtx, lastFlags, inner, fetchCtx,
                 reply, closeVars, serverVars>>

FetchFails(f) ==
  /\ fetchPc[f] \in {"request", "answered"}
  /\ fetchPc' = [fetchPc EXCEPT ![f] = "failed"]
  /\ UNCHANGED <<connectVars, pollVars, lastCtx, lastFlags, inner, fetchCtx,
                 reply, closeVars, client, serverVars>>
-----------------------------------------------------------------------------
(***************************************************************************)
(* Close, which the client calls after it has cancelled internalCtx        *)
(***************************************************************************)
Cancel ==
  /\ ~cancelled
  /\ cancelled' = TRUE
  /\ UNCHANGED <<connectVars, pollVars, lastCtx, lastFlags, inner, fetchVars,
                 once, closePc, client, serverVars>>

CloseOnce(x) ==
  /\ closePc[x] = "idle"
  /\ cancelled
  /\ inner' = IF ~once /\ inner = "live" THEN "done" ELSE inner
  /\ once' = TRUE
  /\ closePc' = [closePc EXCEPT ![x] = "waiting"]
  /\ UNCHANGED <<connectVars, pollVars, lastCtx, lastFlags, fetchVars,
                 cancelled, client, serverVars>>

CloseWait(x) ==
  /\ closePc[x] = "waiting"
  /\ LoopIsGone
  /\ closePc' = [closePc EXCEPT ![x] = "returned"]
  /\ UNCHANGED <<connectVars, pollVars, lastCtx, lastFlags, inner, fetchVars,
                 once, cancelled, client, serverVars>>

\* Somebody edits flags or rules on the server.
ServerChanges ==
  /\ changes < MaxChanges
  /\ config' \in Config \ {config}
  /\ changes' = changes + 1
  /\ UNCHANGED <<connectVars, pollVars, lastCtx, lastFlags, inner, fetchVars,
                 closeVars, client>>
-----------------------------------------------------------------------------
ConnectStep == \/ SetInner \/ ConnectAnswered \/ ConnectError \/ ConnectStores
               \/ ConnectNotifies \/ ConnectStarts \/ ConnectReturns

PollStep == \/ PollStops \/ PollTimer \/ PollAnswered \/ PollFails
            \/ PollCompares \/ PollNotifies

FetchStep(f) == FetchAnswered(f) \/ FetchOk(f) \/ FetchFails(f)

Next ==
  \/ \E ctx \in MaybeContext : ConnectCall(ctx)
  \/ ConnectStep \/ PollStep
  \/ \E f \in Fetch : FetchStep(f) \/ \E ctx \in MaybeContext : FetchBegin(f, ctx)
  \/ Cancel
  \/ \E x \in Closer : CloseOnce(x) \/ CloseWait(x)
  \/ ServerChanges

Spec == Init /\ [][Next]_vars

\* Goroutines that can run do, timers fire and requests end, by http.Client's
\* timeout at the latest.  The server answers a poll now and then.
Fairness ==
  /\ WF_vars(ConnectStep)
  /\ WF_vars(PollStep)
  /\ SF_vars(PollAnswered) /\ SF_vars(PollCompares)
  /\ \A f \in Fetch : WF_vars(FetchStep(f))
  /\ \A x \in Closer : WF_vars(CloseWait(x))

FairSpec == Spec /\ Fairness
-----------------------------------------------------------------------------
(***************************************************************************)
(* Properties                                                              *)
(***************************************************************************)
Current == <<lastCtx, config>>

\* The flags the transport compares the next poll with are flags the client has
\* been given: outside a callback the client holds them or the answer of a
\* FetchFlags call, never a set that was stored and not delivered.
StoredFlagsWereDelivered ==
  "callback" \notin {connectPc, pollPc} =>
    client = lastFlags \/ \E f \in Fetch : fetchPc[f] = "ok" /\ client = reply[f]

\* However many requests fail, and whatever FetchFlags calls change the context
\* meanwhile, the poll loop comes to know the flags that the server's current
\* configuration gives the context sent last.
PollsKeepUp == pollPc # "none" ~> lastFlags = Current \/ cancelled

\* What the loop comes to know reaches the client: in the end it holds the current
\* flags, after a FetchFlags of its own too ("poll results with changes",
\* OnFlagsUpdated).
PollsConverge == pollPc # "none" ~> client = Current \/ cancelled

\* Once Close has cancelled the poll loop it ends, every Close call returns and
\* every FetchFlags call gets an answer.
ShutdownEnds ==
  inner = "done" ~> /\ LoopIsGone
                    /\ \A x \in Closer : closePc[x] \in {"idle", "returned"}
                    /\ \A f \in Fetch : fetchPc[f] \in {"idle", "ok", "failed"}
-----------------------------------------------------------------------------
\* The lifecycle is the one FlagClient relies on.
Phase == CASE connectPc = "idle"   -> "new"
           [] connectPc = "called" -> "connecting"
           [] connectPc \in {"request", "answered", "callback", "ready"} -> "armed"
           [] connectPc = "started"  -> "linked"
           [] connectPc = "returned" -> "up"
           [] OTHER                  -> connectPc
Lifecycle == INSTANCE Transport
  WITH phase      <- Phase,
       once       <- once,
       stop       <- InnerDone,
       reading    <- ~LoopIsGone,
       delivering <- "callback" \in {connectPc, pollPc},
       closing    <- closePc
ImplementsTransport == Lifecycle!Spec
=============================================================================
