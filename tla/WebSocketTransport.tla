------------------------- MODULE WebSocketTransport -------------------------
(***************************************************************************)
(* transport/websocket.go: one goroutine reads the connection and redials  *)
(* it when it breaks, any number of FetchFlags calls wait for the next     *)
(* message through one shared slot, and Close may come at any moment.      *)
(*                                                                         *)
(* Flags are named after the context the server evaluated them for, which  *)
(* is the context its connection was dialled with.  Messages that leave    *)
(* the transport's state alone (ping, connection.status) are left out.     *)
(***************************************************************************)
EXTENDS Naturals, FiniteSets

CONSTANTS
  Fetch,     \* FetchFlags calls
  Closer,    \* Close calls
  MaxConn,   \* connections dialled at most
  MaxSends,  \* messages the server sends over one connection at most
  Context,   \* evaluation contexts with at least one attribute
  NoContext, \* a nil or empty context map
  NoConn,    \* a nil *websocket.Conn
  NoFetch,   \* a nil pendingCh
  NoFlags    \* an empty reply channel

Conn == 1..MaxConn
MaybeContext == Context \cup {NoContext}

ASSUME BoundsArePositive == MaxConn \in Nat \ {0} /\ MaxSends \in Nat \ {0}
ASSUME SentinelsAreNoValues ==
  /\ NoContext \notin Context
  /\ NoConn \notin Conn
  /\ NoFetch \notin Fetch
  /\ NoFlags \notin MaybeContext

VARIABLES
  connectPc, \* where Connect is
  startCtx,  \* the context Connect was called with
  conn,      \* t.conn
  lastCtx,   \* t.lastEvalCtx
  pending,   \* t.pendingCh, as the FetchFlags call that made it
  inner,     \* t.innerCtx
  once,      \* t.closeOnce
  wire,      \* wire[c]: the state of connection c
  dialCtx,   \* dialCtx[c]: the context in c's handshake header
  sent,      \* sent[c]: messages the server has sent over c
  inbox,     \* inbox[c]: messages of c not read yet
  readerPc,  \* where readLoop is
  readConn,  \* the connection readLoop reads
  readCtx,   \* the context readLoop redials with
  slot,      \* the channel deliverFlags has taken
  fetchPc,   \* where FetchFlags call f is, or how it ended
  fetchCtx,  \* the context it was called with
  reply,     \* reply[f]: what its channel holds
  closePc,   \* where Close call x is
  cancelled  \* the client's internalCtx is done

connectVars == <<connectPc, startCtx>>
wireVars    == <<wire, dialCtx, sent, inbox>>
readVars    == <<readerPc, readConn, readCtx, slot>>
fetchVars   == <<fetchPc, fetchCtx, reply>>
closeVars   == <<once, closePc, cancelled>>
vars == <<connectVars, conn, lastCtx, pending, inner, wireVars, readVars,
          fetchVars, closeVars>>

ConnectPc == {"idle", "dialling", "dialled", "armed", "published", "started",
              "returned", "failed"}
ReaderPc  == {"none", "read", "taken", "reply", "callback", "lost", "backoff",
              "redialled", "exited"}
Ended     == {"ok", "timeout", "cancelled", "notConnected"}
FetchPc   == {"idle", "reconnecting", "waiting"} \cup Ended
ClosePc   == {"idle", "closing", "waiting", "returned"}

\* Every variable keeps to the values its Go field or program counter can take;
\* readLoop reads no more messages than were sent.
TypeOK ==
  /\ connectPc \in ConnectPc
  /\ startCtx \in MaybeContext
  /\ conn \in Conn \cup {NoConn}
  /\ lastCtx \in MaybeContext
  /\ pending \in Fetch \cup {NoFetch}
  /\ inner \in {"unset", "live", "done"}
  /\ once \in {"unused", "running", "done"}
  /\ wire \in [Conn -> {"unused", "open", "closed"}]
  /\ dialCtx \in [Conn -> MaybeContext]
  /\ sent \in [Conn -> 0..MaxSends]
  /\ inbox \in [Conn -> Nat] /\ \A c \in Conn : inbox[c] <= sent[c]
  /\ readerPc \in ReaderPc
  /\ readConn \in Conn \cup {NoConn}
  /\ readCtx \in MaybeContext
  /\ slot \in Fetch \cup {NoFetch}
  /\ fetchPc \in [Fetch -> FetchPc]
  /\ fetchCtx \in [Fetch -> MaybeContext]
  /\ reply \in [Fetch -> MaybeContext \cup {NoFlags}]
  /\ closePc \in [Closer -> ClosePc]
  /\ cancelled \in BOOLEAN

Init ==
  /\ connectPc = "idle"
  /\ startCtx = NoContext
  /\ conn = NoConn
  /\ lastCtx = NoContext
  /\ pending = NoFetch
  /\ inner = "unset"
  /\ once = "unused"
  /\ wire = [c \in Conn |-> "unused"]
  /\ dialCtx = [c \in Conn |-> NoContext]
  /\ sent = [c \in Conn |-> 0]
  /\ inbox = [c \in Conn |-> 0]
  /\ readerPc = "none"
  /\ readConn = NoConn
  /\ readCtx = NoContext
  /\ slot = NoFetch
  /\ fetchPc = [f \in Fetch |-> "idle"]
  /\ fetchCtx = [f \in Fetch |-> NoContext]
  /\ reply = [f \in Fetch |-> NoFlags]
  /\ closePc = [x \in Closer |-> "idle"]
  /\ cancelled = FALSE
-----------------------------------------------------------------------------
\* Some definitions come with a mutated form next to them, a mistake the code
\* does not make; the properties below are shown to notice it.

\* dial: the context, when there is one, travels in the handshake.
Dial(c, ctx) ==
  /\ wire[c] = "unused"
  /\ \A d \in Conn : d < c => wire[d] # "unused"
  /\ wire' = [wire EXCEPT ![c] = "open"]
  /\ dialCtx' = [dialCtx EXCEPT ![c] = ctx]
  /\ UNCHANGED <<sent, inbox>>

\* The reader's context is done.  Mutated form: nobody looks.
NeverDone == FALSE
InnerDone == inner = "done"

\* A message has arrived on c.  Mutated form: none needs to.
NoWait(c) == TRUE
HasMessage(c) == inbox[c] > 0

\* What a redial of the reader announces.  Mutated form: no context.
ForgottenContext == NoContext
LatestContext == lastCtx

\* A call that gives up clears its own channel.  Mutated form: any.
ClearAnySlot(f) == NoFetch
ClearSlot(f) == IF pending = f THEN NoFetch ELSE pending

\* wg counts the reader.  Mutated form: it does not.
NoReaderCounted == TRUE
ReaderIsGone == readerPc \in {"none", "exited"}
-----------------------------------------------------------------------------
(***************************************************************************)
(* Connect, called once.  OnFlagsUpdated has been called before it.        *)
(***************************************************************************)
ConnectCall(ctx) ==
  /\ connectPc = "idle"
  /\ connectPc' = "dialling"
  /\ startCtx' = ctx
  /\ UNCHANGED <<conn, lastCtx, pending, inner, wireVars, readVars, fetchVars,
                 closeVars>>

\* The new connection is a local variable of Connect, handed to readLoop.
ConnectDial ==
  /\ connectPc = "dialling"
  /\ ~cancelled
  /\ \E c \in Conn : Dial(c, startCtx) /\ readConn' = c
  /\ connectPc' = "dialled"
  /\ UNCHANGED <<startCtx, conn, lastCtx, pending, inner, readerPc, readCtx,
                 slot, fetchVars, closeVars>>

ConnectFails ==
  /\ connectPc = "dialling"
  /\ connectPc' = "failed"
  /\ UNCHANGED <<startCtx, conn, lastCtx, pending, inner, wireVars, readVars,
                 fetchVars, closeVars>>

\* innerCtx and innerCancel are set under no lock.
SetInner ==
  /\ connectPc = "dialled"
  /\ inner' = "live"
  /\ connectPc' = "armed"
  /\ UNCHANGED <<startCtx, conn, lastCtx, pending, wireVars, readVars,
                 fetchVars, closeVars>>

PublishConn ==
  /\ connectPc = "armed"
  /\ conn' = readConn
  /\ lastCtx' = IF startCtx = NoContext THEN lastCtx ELSE startCtx
  /\ connectPc' = "published"
  /\ UNCHANGED <<startCtx, pending, inner, wireVars, readVars, fetchVars,
                 closeVars>>

StartReader ==
  /\ connectPc = "published"
  /\ readerPc' = "read"
  /\ connectPc' = "started"
  /\ UNCHANGED <<startCtx, conn, lastCtx, pending, inner, wireVars, readConn,
                 readCtx, slot, fetchVars, closeVars>>

ConnectReturns ==
  /\ connectPc = "started"
  /\ connectPc' = "returned"
  /\ UNCHANGED <<startCtx, conn, lastCtx, pending, inner, wireVars, readVars,
                 fetchVars, closeVars>>
-----------------------------------------------------------------------------
(***************************************************************************)
(* readLoop.  Flag messages go through deliverFlags; a failed read either  *)
(* ends the loop or sends it through reconnect.                            *)
(***************************************************************************)
ReadMessage ==
  /\ readerPc = "read"
  /\ HasMessage(readConn)
  /\ inbox' = [inbox EXCEPT ![readConn] = @ - 1]
  /\ readerPc' = "taken"
  /\ UNCHANGED <<connectVars, conn, lastCtx, pending, inner, wire, dialCtx,
                 sent, readConn, readCtx, slot, fetchVars, closeVars>>

\* deliverFlags takes the pending channel under mu ...
TakePending ==
  /\ readerPc = "taken"
  /\ slot' = pending
  /\ pending' = NoFetch
  /\ readerPc' = "reply"
  /\ UNCHANGED <<connectVars, conn, lastCtx, inner, wireVars, readConn,
                 readCtx, fetchVars, closeVars>>

\* ... and sends to it outside mu, unless its buffer of one is full.
Reply ==
  /\ readerPc = "reply"
  /\ reply' = [f \in Fetch |-> IF f = slot /\ reply[f] = NoFlags
                               THEN dialCtx[readConn] ELSE reply[f]]
  /\ readerPc' = "callback"
  /\ UNCHANGED <<connectVars, conn, lastCtx, pending, inner, wireVars, readConn,
                 readCtx, slot, fetchPc, fetchCtx, closeVars>>

CallbackReturns ==
  /\ readerPc = "callback"
  /\ readerPc' = "read"
  /\ slot' = NoFetch
  /\ UNCHANGED <<connectVars, conn, lastCtx, pending, inner, wireVars, readConn,
                 readCtx, fetchVars, closeVars>>

\* A read fails when the connection is closed, or when its context is done, in
\* which case the library may close the connection.
ReadFails ==
  /\ readerPc = "read"
  /\ \/ /\ InnerDone
        /\ readerPc' = "exited"
        /\ wire' \in {wire, [wire EXCEPT ![readConn] = "closed"]}
        /\ UNCHANGED conn
     \/ /\ ~InnerDone
        /\ wire[readConn] = "closed"
        /\ readerPc' = "lost"
        /\ conn' = NoConn
        /\ UNCHANGED wire
  /\ UNCHANGED <<connectVars, lastCtx, pending, inner, dialCtx, sent, inbox,
                 readConn, readCtx, slot, fetchVars, closeVars>>

CaptureContext ==
  /\ readerPc = "lost"
  /\ readCtx' = LatestContext
  /\ readerPc' = "backoff"
  /\ UNCHANGED <<connectVars, conn, lastCtx, pending, inner, wireVars, readConn,
                 slot, fetchVars, closeVars>>

\* reconnect waits and dials until a dial succeeds or its context is done.
Redial ==
  /\ readerPc = "backoff"
  /\ ~InnerDone
  /\ \E c \in Conn : Dial(c, readCtx) /\ readConn' = c
  /\ readerPc' = "redialled"
  /\ UNCHANGED <<connectVars, conn, lastCtx, pending, inner, readCtx, slot,
                 fetchVars, closeVars>>

RedialStops ==
  /\ readerPc = "backoff"
  /\ InnerDone
  /\ readerPc' = "exited"
  /\ UNCHANGED <<connectVars, conn, lastCtx, pending, inner, wireVars, readConn,
                 readCtx, slot, fetchVars, closeVars>>

SetConn ==
  /\ readerPc = "redialled"
  /\ conn' = readConn
  /\ readCtx' = NoContext
  /\ readerPc' = "read"
  /\ UNCHANGED <<connectVars, lastCtx, pending, inner, wireVars, readConn,
                 slot, fetchVars, closeVars>>
-----------------------------------------------------------------------------
(***************************************************************************)
(* FetchFlags, safe for concurrent use once Connect has returned.          *)
(***************************************************************************)
FetchBegin(f, ctx) ==
  /\ fetchPc[f] = "idle"
  /\ connectPc = "returned"
  /\ fetchCtx' = [fetchCtx EXCEPT ![f] = ctx]
  /\ lastCtx' = ctx
  /\ pending' = f
  /\ fetchPc' = [fetchPc EXCEPT ![f] =
       IF conn = NoConn THEN "notConnected"
       ELSE IF ctx \notin {lastCtx, NoContext} THEN "reconnecting"
       ELSE "waiting"]
  /\ UNCHANGED <<connectVars, conn, inner, wireVars, readVars, reply, closeVars>>

\* The connection dialled here stays in a local variable nobody reads from.
\* Mutated form: it becomes the transport's connection.
FetchRedialStores(f) ==
  /\ fetchPc[f] = "reconnecting"
  /\ ~cancelled
  /\ \E c \in Conn : Dial(c, fetchCtx[f]) /\ conn' = c
  /\ fetchPc' = [fetchPc EXCEPT ![f] = "waiting"]
  /\ UNCHANGED <<connectVars, lastCtx, pending, inner, readVars, fetchCtx,
                 reply, closeVars>>

FetchRedial(f) ==
  /\ fetchPc[f] = "reconnecting"
  /\ ~cancelled
  /\ \E c \in Conn : Dial(c, fetchCtx[f])
  /\ fetchPc' = [fetchPc EXCEPT ![f] = "waiting"]
  /\ UNCHANGED <<connectVars, conn, lastCtx, pending, inner, readVars, fetchCtx,
                 reply, closeVars>>

FetchRedialStops(f) ==
  /\ fetchPc[f] = "reconnecting"
  /\ cancelled
  /\ pending' = ClearSlot(f)
  /\ fetchPc' = [fetchPc EXCEPT ![f] = "cancelled"]
  /\ UNCHANGED <<connectVars, conn, lastCtx, inner, wireVars, readVars,
                 fetchCtx, reply, closeVars>>

FetchReply(f) ==
  /\ fetchPc[f] = "waiting"
  /\ reply[f] # NoFlags
  /\ fetchPc' = [fetchPc EXCEPT ![f] = "ok"]
  /\ UNCHANGED <<connectVars, conn, lastCtx, pending, inner, wireVars, readVars,
                 fetchCtx, reply, closeVars>>

\* The deadline passes or the client's context is done.
FetchTimeout(f) ==
  /\ fetchPc[f] = "waiting"
  /\ pending' = ClearSlot(f)
  /\ fetchPc' = [fetchPc EXCEPT ![f] = "timeout"]
  /\ UNCHANGED <<connectVars, conn, lastCtx, inner, wireVars, readVars,
                 fetchCtx, reply, closeVars>>
-----------------------------------------------------------------------------
(***************************************************************************)
(* Close.  A second call waits inside closeOnce.Do for the first.  Close   *)
(* of the client cancels internalCtx before it calls this one.             *)
(***************************************************************************)
Cancel ==
  /\ ~cancelled
  /\ cancelled' = TRUE
  /\ UNCHANGED <<connectVars, conn, lastCtx, pending, inner, wireVars, readVars,
                 fetchVars, once, closePc>>

CloseOnce(x) ==
  /\ closePc[x] = "idle"
  /\ cancelled
  /\ once = "unused"
  /\ once' = "running"
  /\ inner' = IF inner = "live" THEN "done" ELSE inner
  /\ closePc' = [closePc EXCEPT ![x] = "closing"]
  /\ UNCHANGED <<connectVars, conn, lastCtx, pending, wireVars, readVars,
                 fetchVars, cancelled>>

CloseConn(x) ==
  /\ closePc[x] = "closing"
  /\ wire' = [c \in Conn |-> IF c = conn THEN "closed" ELSE wire[c]]
  /\ once' = "done"
  /\ closePc' = [closePc EXCEPT ![x] = "waiting"]
  /\ UNCHANGED <<connectVars, conn, lastCtx, pending, inner, dialCtx, sent,
                 inbox, readVars, fetchVars, cancelled>>

CloseJoin(x) ==
  /\ closePc[x] = "idle"
  /\ cancelled
  /\ once = "done"
  /\ closePc' = [closePc EXCEPT ![x] = "waiting"]
  /\ UNCHANGED <<connectVars, conn, lastCtx, pending, inner, wireVars, readVars,
                 fetchVars, once, cancelled>>

CloseWait(x) ==
  /\ closePc[x] = "waiting"
  /\ ReaderIsGone
  /\ closePc' = [closePc EXCEPT ![x] = "returned"]
  /\ UNCHANGED <<connectVars, conn, lastCtx, pending, inner, wireVars, readVars,
                 fetchVars, once, cancelled>>
-----------------------------------------------------------------------------
(***************************************************************************)
(* The server: it sends flags when a connection opens and when they change *)
(* and may drop a connection.                                              *)
(***************************************************************************)
ServerSend(c) ==
  /\ wire[c] = "open"
  /\ sent[c] < MaxSends
  /\ sent' = [sent EXCEPT ![c] = @ + 1]
  /\ inbox' = [inbox EXCEPT ![c] = @ + 1]
  /\ UNCHANGED <<connectVars, conn, lastCtx, pending, inner, wire, dialCtx,
                 readVars, fetchVars, closeVars>>

ServerDrops(c) ==
  /\ wire[c] = "open"
  /\ wire' = [wire EXCEPT ![c] = "closed"]
  /\ UNCHANGED <<connectVars, conn, lastCtx, pending, inner, dialCtx, sent,
                 inbox, readVars, fetchVars, closeVars>>
-----------------------------------------------------------------------------
ConnectStep == \/ ConnectDial \/ ConnectFails \/ SetInner \/ PublishConn
               \/ StartReader \/ ConnectReturns

ReaderStep == \/ ReadMessage \/ TakePending \/ Reply \/ CallbackReturns
              \/ ReadFails \/ CaptureContext \/ Redial \/ RedialStops \/ SetConn

FetchStep(f) == \/ FetchRedial(f) \/ FetchRedialStops(f)
                \/ FetchReply(f) \/ FetchTimeout(f)

CloseStep(x) == CloseConn(x) \/ CloseWait(x)

Next ==
  \/ \E ctx \in MaybeContext : ConnectCall(ctx)
  \/ ConnectStep \/ ReaderStep
  \/ \E f \in Fetch : FetchStep(f) \/ \E ctx \in MaybeContext : FetchBegin(f, ctx)
  \/ Cancel
  \/ \E x \in Closer : CloseOnce(x) \/ CloseJoin(x) \/ CloseStep(x)
  \/ \E c \in Conn : ServerSend(c) \/ ServerDrops(c)

Spec == Init /\ [][Next]_vars

\* Goroutines that can run do, callbacks return, timers fire and a cancelled
\* context ends a dial.  Nothing obliges a user to call anything, the server to
\* send or to stay, or a dial to succeed.
Fairness ==
  /\ WF_vars(ConnectStep)
  /\ WF_vars(ReaderStep)
  /\ \A f \in Fetch : WF_vars(FetchRedialStops(f) \/ FetchReply(f) \/ FetchTimeout(f))
  /\ \A x \in Closer : WF_vars(CloseStep(x)) /\ WF_vars(CloseJoin(x))

FairSpec == Spec /\ Fairness
-----------------------------------------------------------------------------
(***************************************************************************)
(* Properties                                                              *)
(***************************************************************************)
\* t.conn is the connection readLoop reads, or nil while it has none: whatever
\* FetchFlags dials, Close finds the reader's connection there, so that it can
\* wake the reader.
ReaderOwnsConn ==
  conn # NoConn => conn = readConn /\ readerPc \notin {"lost", "backoff", "redialled"}

\* A FetchFlags call loses the channel it registered only to the reader that
\* answers it, to its own end or to a newer call; a call that gives up late
\* never throws away the channel of another one.
OnlyANewerCallTakesTheSlot ==
  [][\A f \in Fetch : pending = f /\ pending' # f =>
       \/ slot' = f
       \/ fetchPc'[f] \in Ended
       \/ \E g \in Fetch : pending' = g /\ fetchPc[g] = "idle"]_vars

\* While every call uses the context Connect was given, the transport keeps one
\* connection at most, and it was opened for that context, however often the
\* server dropped the one before.
SteadyContext ==
  (\A f \in Fetch : fetchPc[f] # "idle" => fetchCtx[f] = startCtx) =>
    /\ \A c, d \in Conn : wire[c] = "open" /\ wire[d] = "open" => c = d
    /\ \A c \in Conn : wire[c] = "open" => dialCtx[c] = startCtx

\* Once Close has cancelled the reader, wherever the reader is, it ends, every
\* Close call returns and every FetchFlags call gets an answer.
ShutdownEnds ==
  inner = "done" ~> /\ ReaderIsGone
                    /\ \A x \in Closer : closePc[x] \in {"idle", "returned"}
                    /\ \A f \in Fetch : fetchPc[f] \in {"idle"} \cup Ended

\* A FetchFlags call returns flags evaluated for the context it was given.
FetchReturnsItsContext ==
  \A f \in Fetch : fetchPc[f] = "ok" => reply[f] = fetchCtx[f]
-----------------------------------------------------------------------------
\* The lifecycle is the one FlagClient relies on.
Phase == CASE connectPc = "idle"      -> "new"
           [] connectPc = "dialling"  -> "connecting"
           [] connectPc = "published" -> "armed"
           [] connectPc = "started"   -> "linked"
           [] connectPc = "returned"  -> "up"
           [] OTHER                   -> connectPc
Lifecycle == INSTANCE Transport
  WITH phase      <- Phase,
       once       <- once # "unused",
       stop       <- inner = "done",
       reading    <- readerPc \notin {"none", "exited"},
       delivering <- readerPc \in {"taken", "reply", "callback"},
       closing    <- [x \in Closer |->
                        IF closePc[x] = "closing" THEN "waiting" ELSE closePc[x]]
ImplementsTransport == Lifecycle!Spec
=============================================================================
