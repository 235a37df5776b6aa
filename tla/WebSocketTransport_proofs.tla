---------------------- MODULE WebSocketTransport_proofs ----------------------
(***************************************************************************)
(* Proofs about WebSocketTransport, for any number of FetchFlags and Close *)
(* calls, connections, messages and contexts.                              *)
(***************************************************************************)
EXTENDS WebSocketTransport, TLAPS

USE DEF connectVars, wireVars, readVars, fetchVars, closeVars

\* What Connect, a FetchFlags call, a Close call and the server can do.
ConnectAct == \/ \E ctx \in MaybeContext : ConnectCall(ctx)
              \/ ConnectStep
FetchAct(f) == FetchStep(f) \/ \E ctx \in MaybeContext : FetchBegin(f, ctx)
CloseAct(x) == CloseOnce(x) \/ CloseJoin(x) \/ CloseStep(x)
ServerAct == \E c \in Conn : ServerSend(c) \/ ServerDrops(c)

LEMMA NextSplit ==
  Next <=> \/ ConnectAct \/ ReaderStep \/ Cancel \/ ServerAct
           \/ \E f \in Fetch : FetchAct(f)
           \/ \E x \in Closer : CloseAct(x)
BY DEF Next, ConnectAct, FetchAct, CloseAct, ServerAct
-----------------------------------------------------------------------------
(***************************************************************************)
(* The inductive invariant                                                 *)
(***************************************************************************)
NotDialled == {"idle", "dialling", "failed"}

\* Connect sets the fields in order and starts readLoop last.
PhaseInv ==
  /\ connectPc \in NotDialled =>
       readConn = NoConn /\ \A c \in Conn : wire[c] = "unused"
  /\ connectPc \notin NotDialled => readConn \in Conn
  /\ inner = "unset" <=> connectPc \in NotDialled \cup {"dialled"}
  /\ readerPc = "none" <=> connectPc \notin {"started", "returned"}
  /\ connectPc # "returned" => \A f \in Fetch : fetchPc[f] = "idle"
  /\ once = "unused" => inner # "done" /\ \A x \in Closer : closePc[x] = "idle"

IInv == TypeOK /\ PhaseInv /\ ReaderOwnsConn
-----------------------------------------------------------------------------
(***************************************************************************)
(* Types                                                                   *)
(***************************************************************************)
LEMMA InitType == Init => TypeOK
<1> SUFFICES ASSUME Init PROVE TypeOK
  OBVIOUS
<1>1. NoContext \in MaybeContext
  BY DEF MaybeContext
<1>2. 0 \in 0..MaxSends
  BY BoundsArePositive
<1>3. /\ sent \in [Conn -> 0..MaxSends]
      /\ inbox \in [Conn -> Nat] /\ \A c \in Conn : inbox[c] <= sent[c]
  BY <1>2 DEF Init
<1> QED
  BY <1>1, <1>3 DEF Init, TypeOK, ConnectPc, ReaderPc, FetchPc, ClosePc

LEMMA ConnectType == TypeOK /\ ConnectAct => TypeOK'
<1> SUFFICES ASSUME TypeOK, ConnectAct PROVE TypeOK'
  OBVIOUS
<1> USE DEF TypeOK, ConnectPc, ReaderPc
<1>1. ASSUME NEW ctx \in MaybeContext, ConnectCall(ctx) PROVE TypeOK'
  BY <1>1 DEF ConnectCall
<1>2. CASE ConnectDial
  BY <1>2 DEF ConnectDial, Dial
<1>3. CASE ConnectFails
  BY <1>3 DEF ConnectFails
<1>4. CASE SetInner
  BY <1>4 DEF SetInner
<1>5. CASE PublishConn
  BY <1>5 DEF PublishConn
<1>6. CASE StartReader
  BY <1>6 DEF StartReader
<1>7. CASE ConnectReturns
  BY <1>7 DEF ConnectReturns
<1> QED
  BY <1>1, <1>2, <1>3, <1>4, <1>5, <1>6, <1>7 DEF ConnectAct, ConnectStep

LEMMA ReaderType == TypeOK /\ PhaseInv /\ ReaderStep => TypeOK'
<1> SUFFICES ASSUME TypeOK, PhaseInv, ReaderStep PROVE TypeOK'
  OBVIOUS
<1> USE DEF TypeOK, ReaderPc
<1>1. CASE ReadMessage
  <2>1. ASSUME NEW c \in Conn
        PROVE  inbox'[c] \in Nat /\ inbox'[c] <= sent[c]
    <3>1. inbox[c] \in Nat /\ sent[c] \in Nat /\ inbox[c] <= sent[c]
      OBVIOUS
    <3>2. inbox'[c] = IF c = readConn THEN inbox[c] - 1 ELSE inbox[c]
      BY <1>1 DEF ReadMessage
    <3>3. c = readConn => inbox[c] > 0
      BY <1>1 DEF ReadMessage, HasMessage
    <3> QED
      BY <3>1, <3>2, <3>3
  <2>2. inbox' \in [Conn -> Nat] /\ \A c \in Conn : inbox'[c] <= sent'[c]
    BY <1>1, <2>1 DEF ReadMessage
  <2> QED
    BY <1>1, <2>2 DEF ReadMessage
<1>2. CASE TakePending
  BY <1>2 DEF TakePending
<1>3. CASE Reply
  <2>1. reply' \in [Fetch -> MaybeContext \cup {NoFlags}]
    <3> SUFFICES ASSUME NEW f \in Fetch, f = slot /\ reply[f] = NoFlags
                 PROVE  dialCtx[readConn] \in MaybeContext
      BY <1>3 DEF Reply
    <3>1. readConn \in Conn
      BY <1>3 DEF PhaseInv, Reply, NotDialled
    <3> QED
      BY <3>1
  <2> QED
    BY <1>3, <2>1 DEF Reply
<1>4. CASE CallbackReturns
  BY <1>4 DEF CallbackReturns
<1>5. CASE ReadFails
  BY <1>5 DEF ReadFails
<1>6. CASE CaptureContext
  BY <1>6 DEF CaptureContext, LatestContext
<1>7. CASE Redial
  BY <1>7 DEF Redial, Dial
<1>8. CASE RedialStops
  BY <1>8 DEF RedialStops
<1>9. CASE SetConn
  BY <1>9 DEF SetConn, MaybeContext
<1> QED
  BY <1>1, <1>2, <1>3, <1>4, <1>5, <1>6, <1>7, <1>8, <1>9 DEF ReaderStep

LEMMA FetchType ==
  ASSUME TypeOK, NEW f \in Fetch, FetchAct(f)
  PROVE  TypeOK'
<1> USE DEF TypeOK, FetchPc, Ended
<1>1. ASSUME NEW ctx \in MaybeContext, FetchBegin(f, ctx) PROVE TypeOK'
  BY <1>1 DEF FetchBegin
<1>2. CASE FetchRedial(f)
  BY <1>2 DEF FetchRedial, Dial
<1>3. CASE FetchRedialStops(f)
  BY <1>3 DEF FetchRedialStops, ClearSlot
<1>4. CASE FetchReply(f)
  BY <1>4 DEF FetchReply
<1>5. CASE FetchTimeout(f)
  BY <1>5 DEF FetchTimeout, ClearSlot
<1> QED
  BY <1>1, <1>2, <1>3, <1>4, <1>5 DEF FetchAct, FetchStep

LEMMA CloseType ==
  ASSUME TypeOK, NEW x \in Closer, CloseAct(x)
  PROVE  TypeOK'
<1> USE DEF TypeOK, ClosePc
<1>1. CASE CloseOnce(x)
  BY <1>1 DEF CloseOnce
<1>2. CASE CloseJoin(x)
  BY <1>2 DEF CloseJoin
<1>3. CASE CloseConn(x)
  BY <1>3 DEF CloseConn
<1>4. CASE CloseWait(x)
  BY <1>4 DEF CloseWait
<1> QED
  BY <1>1, <1>2, <1>3, <1>4 DEF CloseAct, CloseStep

LEMMA ServerType == TypeOK /\ ServerAct => TypeOK'
<1> SUFFICES ASSUME TypeOK, NEW c \in Conn, ServerSend(c) \/ ServerDrops(c)
             PROVE  TypeOK'
  BY DEF ServerAct
<1> USE DEF TypeOK
<1>1. CASE ServerSend(c)
  BY <1>1, BoundsArePositive DEF ServerSend
<1>2. CASE ServerDrops(c)
  BY <1>2 DEF ServerDrops
<1> QED
  BY <1>1, <1>2

LEMMA NextType == TypeOK /\ PhaseInv /\ [Next]_vars => TypeOK'
<1> SUFFICES ASSUME TypeOK, PhaseInv, [Next]_vars PROVE TypeOK'
  OBVIOUS
<1>1. CASE Cancel
  BY <1>1 DEF Cancel, TypeOK
<1>2. CASE UNCHANGED vars
  BY <1>2 DEF vars, TypeOK
<1> QED
  BY <1>1, <1>2, NextSplit, ConnectType, ReaderType, FetchType, CloseType, ServerType
-----------------------------------------------------------------------------
(***************************************************************************)
(* Phases, and the connection readLoop reads                               *)
(***************************************************************************)
LEMMA InitPhase == Init => PhaseInv /\ ReaderOwnsConn
BY DEF Init, PhaseInv, ReaderOwnsConn, NotDialled

LEMMA ConnectPhase == IInv /\ ConnectAct => PhaseInv' /\ ReaderOwnsConn'
<1> SUFFICES ASSUME IInv, ConnectAct PROVE PhaseInv' /\ ReaderOwnsConn'
  OBVIOUS
<1> USE SentinelsAreNoValues DEF IInv, TypeOK, PhaseInv, ReaderOwnsConn, NotDialled
<1>1. ASSUME NEW ctx \in MaybeContext, ConnectCall(ctx)
      PROVE  PhaseInv' /\ ReaderOwnsConn'
  BY <1>1 DEF ConnectCall
<1>2. CASE ConnectDial
  BY <1>2 DEF ConnectDial, Dial
<1>3. CASE ConnectFails
  BY <1>3 DEF ConnectFails
<1>4. CASE SetInner
  BY <1>4 DEF SetInner
<1>5. CASE PublishConn
  BY <1>5 DEF PublishConn
<1>6. CASE StartReader
  BY <1>6 DEF StartReader
<1>7. CASE ConnectReturns
  BY <1>7 DEF ConnectReturns
<1> QED
  BY <1>1, <1>2, <1>3, <1>4, <1>5, <1>6, <1>7 DEF ConnectAct, ConnectStep

LEMMA ReaderPhase == IInv /\ ReaderStep => PhaseInv' /\ ReaderOwnsConn'
<1> SUFFICES ASSUME IInv, ReaderStep PROVE PhaseInv' /\ ReaderOwnsConn'
  OBVIOUS
<1> USE SentinelsAreNoValues DEF IInv, TypeOK, PhaseInv, ReaderOwnsConn, NotDialled
<1>1. CASE ReadMessage
  BY <1>1 DEF ReadMessage
<1>2. CASE TakePending
  BY <1>2 DEF TakePending
<1>3. CASE Reply
  BY <1>3 DEF Reply
<1>4. CASE CallbackReturns
  BY <1>4 DEF CallbackReturns
<1>5. CASE ReadFails
  BY <1>5 DEF ReadFails
<1>6. CASE CaptureContext
  BY <1>6 DEF CaptureContext
<1>7. CASE Redial
  BY <1>7 DEF Redial, Dial
<1>8. CASE RedialStops
  BY <1>8 DEF RedialStops
<1>9. CASE SetConn
  BY <1>9 DEF SetConn
<1> QED
  BY <1>1, <1>2, <1>3, <1>4, <1>5, <1>6, <1>7, <1>8, <1>9 DEF ReaderStep

LEMMA FetchPhase ==
  ASSUME IInv, NEW f \in Fetch, FetchAct(f)
  PROVE  PhaseInv' /\ ReaderOwnsConn'
<1> USE DEF IInv, TypeOK, PhaseInv, ReaderOwnsConn, NotDialled
<1>1. ASSUME NEW ctx \in MaybeContext, FetchBegin(f, ctx)
      PROVE  PhaseInv' /\ ReaderOwnsConn'
  BY <1>1 DEF FetchBegin
<1>2. CASE FetchRedial(f)
  BY <1>2 DEF FetchRedial, Dial
<1>3. CASE FetchRedialStops(f)
  BY <1>3 DEF FetchRedialStops
<1>4. CASE FetchReply(f)
  BY <1>4 DEF FetchReply
<1>5. CASE FetchTimeout(f)
  BY <1>5 DEF FetchTimeout
<1> QED
  BY <1>1, <1>2, <1>3, <1>4, <1>5 DEF FetchAct, FetchStep

LEMMA ClosePhase ==
  ASSUME IInv, NEW x \in Closer, CloseAct(x)
  PROVE  PhaseInv' /\ ReaderOwnsConn'
<1> USE SentinelsAreNoValues DEF IInv, TypeOK, PhaseInv, ReaderOwnsConn, NotDialled
<1>1. CASE CloseOnce(x)
  BY <1>1 DEF CloseOnce
<1>2. CASE CloseJoin(x)
  BY <1>2 DEF CloseJoin
<1>3. CASE CloseConn(x)
  BY <1>3 DEF CloseConn
<1>4. CASE CloseWait(x)
  BY <1>4 DEF CloseWait
<1> QED
  BY <1>1, <1>2, <1>3, <1>4 DEF CloseAct, CloseStep

LEMMA ServerPhase == IInv /\ ServerAct => PhaseInv' /\ ReaderOwnsConn'
<1> SUFFICES ASSUME IInv, NEW c \in Conn, ServerSend(c) \/ ServerDrops(c)
             PROVE  PhaseInv' /\ ReaderOwnsConn'
  BY DEF ServerAct
<1> USE DEF IInv, TypeOK, PhaseInv, ReaderOwnsConn, NotDialled
<1>1. CASE ServerSend(c)
  BY <1>1 DEF ServerSend
<1>2. CASE ServerDrops(c)
  BY <1>2 DEF ServerDrops
<1> QED
  BY <1>1, <1>2

\* The inductive invariant is one.
LEMMA InitIInv == Init => IInv
BY InitType, InitPhase DEF IInv

LEMMA NextIInv == IInv /\ [Next]_vars => IInv'
<1> SUFFICES ASSUME IInv, [Next]_vars PROVE IInv'
  OBVIOUS
<1>1. TypeOK'
  BY NextType DEF IInv
<1>2. PhaseInv' /\ ReaderOwnsConn'
  <2>1. CASE Cancel
    BY <2>1 DEF Cancel, IInv, PhaseInv, ReaderOwnsConn
  <2>2. CASE UNCHANGED vars
    BY <2>2 DEF vars, IInv, PhaseInv, ReaderOwnsConn
  <2> QED
    BY <2>1, <2>2, NextSplit, ConnectPhase, ReaderPhase, FetchPhase, ClosePhase,
       ServerPhase
<1> QED
  BY <1>1, <1>2 DEF IInv

\* Connect's steps, readLoop and the fields they share agree in every state.
THEOREM Invariance == Spec => []IInv
<1> QED
  BY InitIInv, NextIInv, PTL DEF Spec

\* Every variable keeps its type: readLoop reads only messages that were sent.
THEOREM TypeCorrect == Spec => []TypeOK
<1>1. IInv => TypeOK
  BY DEF IInv
<1> QED
  BY <1>1, Invariance, PTL

\* t.conn is the connection readLoop reads, whatever FetchFlags dials.
THEOREM ReaderOwnership == Spec => []ReaderOwnsConn
<1>1. IInv => ReaderOwnsConn
  BY DEF IInv
<1> QED
  BY <1>1, Invariance, PTL
-----------------------------------------------------------------------------
(***************************************************************************)
(* The shared reply slot                                                   *)
(***************************************************************************)
SlotKept(f) == pending = f /\ pending' # f =>
                 \/ slot' = f
                 \/ fetchPc'[f] \in Ended
                 \/ \E g \in Fetch : pending' = g /\ fetchPc[g] = "idle"

LEMMA SlotStep == IInv /\ [Next]_vars => \A f \in Fetch : SlotKept(f)
<1> SUFFICES ASSUME IInv, [Next]_vars, NEW f \in Fetch PROVE SlotKept(f)
  OBVIOUS
<1> USE DEF SlotKept
<1>1. CASE ReaderStep
  <2>1. CASE TakePending
    BY <2>1 DEF TakePending
  <2>2. CASE ~TakePending
    BY <1>1, <2>2 DEF ReaderStep, ReadMessage, Reply, CallbackReturns, ReadFails,
       CaptureContext, Redial, RedialStops, SetConn
  <2> QED
    BY <2>1, <2>2
<1>2. ASSUME NEW g \in Fetch, FetchAct(g) PROVE SlotKept(f)
  <2>1. ASSUME NEW ctx \in MaybeContext, FetchBegin(g, ctx) PROVE SlotKept(f)
    BY <2>1 DEF FetchBegin
  <2>2. CASE FetchRedial(g) \/ FetchReply(g)
    BY <2>2 DEF FetchRedial, FetchReply
  <2>3. CASE FetchRedialStops(g)
    BY <2>3, SentinelsAreNoValues
       DEF FetchRedialStops, ClearSlot, Ended, IInv, TypeOK
  <2>4. CASE FetchTimeout(g)
    BY <2>4, SentinelsAreNoValues
       DEF FetchTimeout, ClearSlot, Ended, IInv, TypeOK
  <2> QED
    BY <1>2, <2>1, <2>2, <2>3, <2>4 DEF FetchAct, FetchStep
<1>3. CASE ConnectAct
  BY <1>3 DEF ConnectAct, ConnectCall, ConnectStep, ConnectDial, ConnectFails,
     SetInner, PublishConn, StartReader, ConnectReturns
<1>4. ASSUME NEW x \in Closer, CloseAct(x) PROVE SlotKept(f)
  BY <1>4 DEF CloseAct, CloseOnce, CloseJoin, CloseStep, CloseConn, CloseWait
<1>5. CASE ServerAct
  BY <1>5 DEF ServerAct, ServerSend, ServerDrops
<1>6. CASE Cancel \/ UNCHANGED vars
  BY <1>6 DEF Cancel, vars
<1> QED
  BY <1>1, <1>2, <1>3, <1>4, <1>5, <1>6, NextSplit

\* A FetchFlags call loses its reply channel only to the reader, to its own end
\* or to a newer call.
THEOREM SlotOwnership == Spec => OnlyANewerCallTakesTheSlot
<1>1. IInv /\ [Next]_vars =>
        [\A f \in Fetch : pending = f /\ pending' # f =>
           \/ slot' = f
           \/ fetchPc'[f] \in Ended
           \/ \E g \in Fetch : pending' = g /\ fetchPc[g] = "idle"]_vars
  BY SlotStep DEF SlotKept
<1> QED
  BY <1>1, Invariance, PTL DEF Spec, OnlyANewerCallTakesTheSlot
-----------------------------------------------------------------------------
(***************************************************************************)
(* One context, one connection                                             *)
(***************************************************************************)
\* Every call so far was given Connect's context.
Steady == \A f \in Fetch : fetchPc[f] # "idle" => fetchCtx[f] = startCtx

SteadyInv ==
  /\ lastCtx = IF connectPc \in {"published", "started", "returned"}
               THEN startCtx ELSE NoContext
  /\ \A f \in Fetch : fetchPc[f] # "reconnecting"
  /\ readerPc \in {"backoff", "redialled"} => readCtx = startCtx
  /\ readerPc \in {"lost", "backoff"} => wire[readConn] = "closed"
  /\ \A c \in Conn : wire[c] = "open" => c = readConn /\ dialCtx[c] = startCtx
  /\ IF connectPc \in NotDialled THEN \A f \in Fetch : reply[f] = NoFlags
                                ELSE dialCtx[readConn] = startCtx
  /\ \A f \in Fetch : reply[f] \in {NoFlags, startCtx} /\ (fetchPc[f] = "ok" => reply[f] # NoFlags)

LEMMA SteadyBefore == TypeOK /\ PhaseInv /\ [Next]_vars /\ Steady' => Steady
<1> SUFFICES ASSUME TypeOK, PhaseInv, [Next]_vars, Steady', NEW f \in Fetch,
                    fetchPc[f] # "idle"
             PROVE  fetchCtx[f] = startCtx
  BY DEF Steady
<1> USE DEF TypeOK, Steady
<1>1. ASSUME NEW g \in Fetch, FetchAct(g) PROVE fetchCtx[f] = startCtx
  BY <1>1 DEF FetchAct, FetchBegin, FetchStep, FetchRedial, FetchRedialStops,
     FetchReply, FetchTimeout
<1>2. CASE ConnectAct
  BY <1>2 DEF ConnectAct, ConnectCall, ConnectStep, ConnectDial, ConnectFails,
     SetInner, PublishConn, StartReader, ConnectReturns, PhaseInv
<1>3. CASE ReaderStep
  BY <1>3 DEF ReaderStep, ReadMessage, TakePending, Reply, CallbackReturns,
     ReadFails, CaptureContext, Redial, RedialStops, SetConn
<1>4. ASSUME NEW x \in Closer, CloseAct(x) PROVE fetchCtx[f] = startCtx
  BY <1>4 DEF CloseAct, CloseOnce, CloseJoin, CloseStep, CloseConn, CloseWait
<1>5. CASE ServerAct
  BY <1>5 DEF ServerAct, ServerSend, ServerDrops
<1>6. CASE Cancel \/ UNCHANGED vars
  BY <1>6 DEF Cancel, vars
<1> QED
  BY <1>1, <1>2, <1>3, <1>4, <1>5, <1>6, NextSplit

LEMMA SteadyStep ==
  ASSUME IInv, [Next]_vars, SteadyInv, Steady'
  PROVE  SteadyInv'
<1> USE DEF IInv, TypeOK, SteadyInv
<1>1. CASE ConnectAct
  <2> USE DEF PhaseInv, NotDialled
  <2>1. ASSUME NEW ctx \in MaybeContext, ConnectCall(ctx) PROVE SteadyInv'
    BY <2>1 DEF ConnectCall
  <2>2. CASE ConnectDial
    BY <2>2 DEF ConnectDial, Dial
  <2>3. CASE ConnectFails
    BY <2>3 DEF ConnectFails
  <2>4. CASE SetInner
    BY <2>4 DEF SetInner
  <2>5. CASE PublishConn
    BY <2>5 DEF PublishConn
  <2>6. CASE StartReader
    BY <2>6 DEF StartReader
  <2>7. CASE ConnectReturns
    BY <2>7 DEF ConnectReturns
  <2> QED
    BY <1>1, <2>1, <2>2, <2>3, <2>4, <2>5, <2>6, <2>7 DEF ConnectAct, ConnectStep
<1>2. CASE ReaderStep
  <2> USE DEF PhaseInv, NotDialled
  <2>1. CASE ReadMessage \/ TakePending \/ Reply \/ CallbackReturns
    BY <2>1 DEF ReadMessage, TakePending, Reply, CallbackReturns
  <2>2. CASE ReadFails
    BY <2>2 DEF ReadFails
  <2>3. CASE CaptureContext
    BY <2>3 DEF CaptureContext, LatestContext
  <2>4. CASE Redial
    BY <2>4 DEF Redial, Dial
  <2>5. CASE RedialStops
    BY <2>5 DEF RedialStops
  <2>6. CASE SetConn
    BY <2>6 DEF SetConn
  <2> QED
    BY <1>2, <2>1, <2>2, <2>3, <2>4, <2>5, <2>6 DEF ReaderStep
<1>3. ASSUME NEW f \in Fetch, FetchAct(f) PROVE SteadyInv'
  <2>1. ASSUME NEW ctx \in MaybeContext, FetchBegin(f, ctx) PROVE SteadyInv'
    <3>1. ctx = startCtx
      BY <2>1 DEF FetchBegin, Steady
    <3>2. lastCtx = startCtx
      BY <2>1 DEF FetchBegin
    <3> QED
      BY <2>1, <3>1, <3>2 DEF FetchBegin
  <2>2. CASE FetchStep(f)
    BY <2>2 DEF FetchStep, FetchRedial, FetchRedialStops, FetchReply, FetchTimeout
  <2> QED
    BY <1>3, <2>1, <2>2 DEF FetchAct
<1>4. ASSUME NEW x \in Closer, CloseAct(x) PROVE SteadyInv'
  <2>1. CASE CloseConn(x)
    BY <2>1 DEF CloseConn, PhaseInv, ReaderOwnsConn
  <2>2. CASE CloseOnce(x) \/ CloseJoin(x) \/ CloseWait(x)
    BY <2>2 DEF CloseOnce, CloseJoin, CloseWait
  <2> QED
    BY <1>4, <2>1, <2>2 DEF CloseAct, CloseStep
<1>5. CASE ServerAct
  BY <1>5 DEF ServerAct, ServerSend, ServerDrops, PhaseInv
<1>6. CASE Cancel \/ UNCHANGED vars
  BY <1>6 DEF Cancel, vars
<1> QED
  BY <1>1, <1>2, <1>3, <1>4, <1>5, <1>6, NextSplit

LEMMA SteadyAlways == Spec => [](IInv /\ (Steady => SteadyInv))
<1> DEFINE Inv == IInv /\ (Steady => SteadyInv)
<1>1. Init => Inv
  BY InitIInv DEF Init, SteadyInv, NotDialled
<1>2. Inv /\ [Next]_vars => Inv'
  <2> SUFFICES ASSUME Inv, [Next]_vars PROVE Inv'
    OBVIOUS
  <2>1. IInv'
    BY NextIInv
  <2>2. Steady' => SteadyInv'
    BY SteadyBefore, SteadyStep DEF IInv
  <2> QED
    BY <2>1, <2>2
<1> QED
  BY <1>1, <1>2, PTL DEF Spec

\* While every call uses the context of Connect there is one connection at most
\* and it announces that context, whatever the server drops.
THEOREM OneSteadyConnection == Spec => []SteadyContext
<1>1. IInv /\ (Steady => SteadyInv) => SteadyContext
  BY DEF Steady, SteadyInv, SteadyContext
<1> QED
  BY <1>1, SteadyAlways, PTL

\* Then a call also returns flags of its own context, even when it is answered by a
\* message another call had waited for.
THEOREM SteadyCallsAreAnswered == Spec => [](Steady => FetchReturnsItsContext)
<1>1. IInv /\ (Steady => SteadyInv) => (Steady => FetchReturnsItsContext)
  <2> SUFFICES ASSUME Steady, SteadyInv, NEW f \in Fetch, fetchPc[f] = "ok"
               PROVE  reply[f] = fetchCtx[f]
    BY DEF FetchReturnsItsContext
  <2>1. fetchCtx[f] = startCtx
    BY DEF Steady
  <2> QED
    BY <2>1 DEF SteadyInv
<1> QED
  BY <1>1, SteadyAlways, PTL
-----------------------------------------------------------------------------
(***************************************************************************)
(* The lifecycle contract                                                  *)
(***************************************************************************)
LEMMA InitContract == Init => Lifecycle!Init
BY DEF Init, Lifecycle!Init, Phase

LEMMA ConnectContract == IInv /\ ConnectAct => [Lifecycle!Next]_(Lifecycle!vars)
<1> SUFFICES ASSUME IInv, ConnectAct PROVE [Lifecycle!Next]_(Lifecycle!vars)
  OBVIOUS
<1> USE DEF IInv, PhaseInv, NotDialled, Phase, Lifecycle!vars, Lifecycle!Next,
            Lifecycle!Advance
<1>1. ASSUME NEW ctx \in MaybeContext, ConnectCall(ctx)
      PROVE  [Lifecycle!Next]_(Lifecycle!vars)
  BY <1>1 DEF ConnectCall
<1>2. CASE ConnectDial
  BY <1>2 DEF ConnectDial, Dial
<1>3. CASE ConnectFails
  BY <1>3 DEF ConnectFails
<1>4. CASE SetInner
  BY <1>4 DEF SetInner
<1>5. CASE PublishConn
  BY <1>5 DEF PublishConn
<1>6. CASE StartReader
  BY <1>6 DEF StartReader, Lifecycle!ReaderStarts
<1>7. CASE ConnectReturns
  BY <1>7 DEF ConnectReturns
<1> QED
  BY <1>1, <1>2, <1>3, <1>4, <1>5, <1>6, <1>7 DEF ConnectAct, ConnectStep

LEMMA ReaderContract == IInv /\ ReaderStep => [Lifecycle!Next]_(Lifecycle!vars)
<1> SUFFICES ASSUME IInv, ReaderStep PROVE [Lifecycle!Next]_(Lifecycle!vars)
  OBVIOUS
<1> USE DEF Phase, Lifecycle!vars, Lifecycle!Next
<1>1. CASE ReadMessage
  BY <1>1 DEF ReadMessage, Lifecycle!DeliverBegin
<1>2. CASE TakePending \/ Reply
  BY <1>2 DEF TakePending, Reply
<1>3. CASE CallbackReturns
  BY <1>3 DEF CallbackReturns, Lifecycle!DeliverEnd
<1>4. CASE ReadFails
  BY <1>4 DEF ReadFails, InnerDone, Lifecycle!ReaderExits
<1>5. CASE CaptureContext \/ Redial \/ SetConn
  BY <1>5 DEF CaptureContext, Redial, SetConn
<1>6. CASE RedialStops
  BY <1>6 DEF RedialStops, InnerDone, Lifecycle!ReaderExits
<1> QED
  BY <1>1, <1>2, <1>3, <1>4, <1>5, <1>6 DEF ReaderStep

\* Close cancels the reader exactly when Connect has armed it.
LEMMA CloseContract ==
  ASSUME IInv, NEW x \in Closer, CloseAct(x)
  PROVE  [Lifecycle!Next]_(Lifecycle!vars)
<1> USE DEF IInv, TypeOK, ClosePc, Phase, Lifecycle!vars, Lifecycle!Next
<1>1. CASE CloseOnce(x)
  <2>1. inner' = "done" <=> connectPc \in {"armed", "published", "started", "returned"}
    BY <1>1 DEF CloseOnce, PhaseInv, NotDialled, ConnectPc
  <2>2. inner # "done"
    BY <1>1 DEF CloseOnce, PhaseInv
  <2>3. Lifecycle!CloseStops(x)
    BY <1>1, <2>1, <2>2 DEF CloseOnce, Lifecycle!CloseStops, ConnectPc
  <2> QED
    BY <2>3
<1>2. CASE CloseJoin(x)
  <2>1. Lifecycle!CloseStops(x)
    BY <1>2 DEF CloseJoin, Lifecycle!CloseStops
  <2> QED
    BY <2>1
<1>3. CASE CloseConn(x)
  <2>1. once # "unused" /\ once' # "unused"
    BY <1>3 DEF CloseConn, PhaseInv
  <2> QED
    BY <1>3, <2>1 DEF CloseConn
<1>4. CASE CloseWait(x)
  <2>1. Lifecycle!CloseReturns(x)
    BY <1>4 DEF CloseWait, ReaderIsGone, Lifecycle!CloseReturns
  <2> QED
    BY <2>1
<1> QED
  BY <1>1, <1>2, <1>3, <1>4 DEF CloseAct, CloseStep

LEMMA NextContract == IInv /\ [Next]_vars => [Lifecycle!Next]_(Lifecycle!vars)
<1> SUFFICES ASSUME IInv, [Next]_vars PROVE [Lifecycle!Next]_(Lifecycle!vars)
  OBVIOUS
<1>1. ASSUME NEW f \in Fetch, FetchAct(f) PROVE UNCHANGED Lifecycle!vars
  BY <1>1 DEF FetchAct, FetchBegin, FetchStep, FetchRedial, FetchRedialStops,
     FetchReply, FetchTimeout, Lifecycle!vars, Phase
<1>2. CASE ServerAct
  BY <1>2 DEF ServerAct, ServerSend, ServerDrops, Lifecycle!vars, Phase
<1>3. CASE Cancel \/ UNCHANGED vars
  BY <1>3 DEF Cancel, vars, Lifecycle!vars, Phase
<1> QED
  BY <1>1, <1>2, <1>3, NextSplit, ConnectContract, ReaderContract, CloseContract

\* The WebSocket transport keeps the contract FlagClient is written against, for
\* any number of connections, calls and messages.
THEOREM Contract == Spec => ImplementsTransport
<1> QED
  BY InitContract, NextContract, Invariance, PTL
  DEF Spec, ImplementsTransport, Lifecycle!Spec
=============================================================================
