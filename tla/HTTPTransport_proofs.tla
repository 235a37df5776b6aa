------------------------ MODULE HTTPTransport_proofs ------------------------
(***************************************************************************)
(* Proofs about HTTPTransport, for any number of FetchFlags and Close      *)
(* calls, contexts, configurations and changes.                            *)
(***************************************************************************)
EXTENDS HTTPTransport, TLAPS

USE DEF connectVars, pollVars, fetchVars, closeVars, serverVars

\* What Connect, a FetchFlags call and a Close call can do.
ConnectAct == \/ \E ctx \in MaybeContext : ConnectCall(ctx)
              \/ ConnectStep
FetchAct(f) == FetchStep(f) \/ \E ctx \in MaybeContext : FetchBegin(f, ctx)
CloseAct(x) == CloseOnce(x) \/ CloseWait(x)

LEMMA NextSplit ==
  Next <=> \/ ConnectAct \/ PollStep \/ Cancel \/ ServerChanges
           \/ \E f \in Fetch : FetchAct(f)
           \/ \E x \in Closer : CloseAct(x)
BY DEF Next, ConnectAct, FetchAct, CloseAct
-----------------------------------------------------------------------------
(***************************************************************************)
(* The inductive invariant                                                 *)
(***************************************************************************)
\* Connect creates the context of the loop first and starts the loop last.
PhaseInv ==
  /\ inner = "unset" <=> connectPc \in {"idle", "called"}
  /\ pollPc = "none" <=> connectPc \notin {"started", "returned"}
  /\ connectPc = "failed" => inner = "done"
  /\ ~once /\ inner = "done" => connectPc = "failed"
  /\ connectPc # "returned" => \A f \in Fetch : fetchPc[f] = "idle"

\* The response in hand, and what was stored of it.
HandInv ==
  /\ connectPc \in {"answered", "callback"} => got \in Flags
  /\ pollPc \in {"answered", "callback"} => got \in Flags
  /\ "callback" \in {connectPc, pollPc} => lastFlags = got

IInv == TypeOK /\ PhaseInv /\ HandInv /\ StoredFlagsWereDelivered
Rest == PhaseInv /\ HandInv /\ StoredFlagsWereDelivered
-----------------------------------------------------------------------------
LEMMA InitIInv == Init => IInv
<1> SUFFICES ASSUME Init PROVE IInv
  OBVIOUS
<1>1. NoContext \in MaybeContext /\ 0 \in 0..MaxChanges
  BY ChangesAreCounted DEF MaybeContext
<1>2. TypeOK
  BY <1>1 DEF Init, TypeOK, ConnectPc, PollPc, FetchPc, ClosePc
<1>3. Rest
  BY DEF Init, Rest, PhaseInv, HandInv, StoredFlagsWereDelivered
<1> QED
  BY <1>2, <1>3 DEF IInv, Rest

LEMMA ConnectInv == IInv /\ ConnectAct => IInv'
<1> SUFFICES ASSUME IInv, ConnectAct PROVE TypeOK' /\ Rest'
  BY DEF IInv, Rest
<1> USE DEF IInv, Rest, TypeOK, PhaseInv, HandInv, StoredFlagsWereDelivered,
            ConnectPc, PollPc
<1>1. ASSUME NEW ctx \in MaybeContext, ConnectCall(ctx) PROVE TypeOK' /\ Rest'
  BY <1>1 DEF ConnectCall
<1>2. CASE SetInner
  BY <1>2 DEF SetInner
<1>3. CASE ConnectAnswered
  <2>1. got' \in Flags
    BY <1>3 DEF ConnectAnswered, Flags
  <2> QED
    BY <1>3, <2>1 DEF ConnectAnswered
<1>4. CASE ConnectError
  BY <1>4 DEF ConnectError
<1>5. CASE ConnectStores
  BY <1>5 DEF ConnectStores
<1>6. CASE ConnectNotifies
  BY <1>6 DEF ConnectNotifies
<1>7. CASE ConnectStarts
  BY <1>7 DEF ConnectStarts
<1>8. CASE ConnectReturns
  BY <1>8 DEF ConnectReturns
<1> QED
  BY <1>1, <1>2, <1>3, <1>4, <1>5, <1>6, <1>7, <1>8 DEF ConnectAct, ConnectStep

LEMMA PollInv == IInv /\ PollStep => IInv'
<1> SUFFICES ASSUME IInv, PollStep PROVE TypeOK' /\ Rest'
  BY DEF IInv, Rest
<1> USE DEF IInv, Rest, TypeOK, PhaseInv, HandInv, StoredFlagsWereDelivered, PollPc
<1>1. CASE PollStops
  BY <1>1 DEF PollStops
<1>2. CASE PollTimer
  BY <1>2 DEF PollTimer
<1>3. CASE PollAnswered
  <2>1. got' \in Flags
    BY <1>3 DEF PollAnswered, Flags
  <2> QED
    BY <1>3, <2>1 DEF PollAnswered
<1>4. CASE PollFails
  BY <1>4 DEF PollFails, AfterError
<1>5. CASE PollCompares
  BY <1>5 DEF PollCompares, AfterStore
<1>6. CASE PollNotifies
  BY <1>6 DEF PollNotifies
<1> QED
  BY <1>1, <1>2, <1>3, <1>4, <1>5, <1>6 DEF PollStep

LEMMA FetchInv ==
  ASSUME IInv, NEW f \in Fetch, FetchAct(f)
  PROVE  IInv'
<1> SUFFICES TypeOK' /\ Rest'
  BY DEF IInv, Rest
<1> USE DEF IInv, Rest, TypeOK, PhaseInv, HandInv, StoredFlagsWereDelivered, FetchPc
<1>1. ASSUME NEW ctx \in MaybeContext, FetchBegin(f, ctx) PROVE TypeOK' /\ Rest'
  BY <1>1 DEF FetchBegin
<1>2. CASE FetchAnswered(f)
  <2>1. <<fetchCtx[f], config>> \in Flags
    BY DEF Flags
  <2> QED
    BY <1>2, <2>1 DEF FetchAnswered
<1>3. CASE FetchOk(f)
  BY <1>3 DEF FetchOk
<1>4. CASE FetchFails(f)
  BY <1>4 DEF FetchFails
<1> QED
  BY <1>1, <1>2, <1>3, <1>4 DEF FetchAct, FetchStep

LEMMA OtherInv ==
  ASSUME IInv,
         \/ \E x \in Closer : CloseAct(x)
         \/ Cancel \/ ServerChanges \/ UNCHANGED vars
  PROVE  IInv'
<1> SUFFICES TypeOK' /\ Rest'
  BY DEF IInv, Rest
<1> USE DEF IInv, Rest, TypeOK, PhaseInv, HandInv, StoredFlagsWereDelivered
<1>1. ASSUME NEW x \in Closer, CloseOnce(x) PROVE TypeOK' /\ Rest'
  BY <1>1 DEF CloseOnce, ClosePc
<1>2. ASSUME NEW x \in Closer, CloseWait(x) PROVE TypeOK' /\ Rest'
  BY <1>2 DEF CloseWait, ClosePc
<1>3. CASE Cancel
  BY <1>3 DEF Cancel
<1>4. CASE ServerChanges
  BY <1>4, ChangesAreCounted DEF ServerChanges
<1>5. CASE UNCHANGED vars
  BY <1>5 DEF vars
<1> QED
  BY <1>1, <1>2, <1>3, <1>4, <1>5 DEF CloseAct

LEMMA NextIInv == IInv /\ [Next]_vars => IInv'
BY NextSplit, ConnectInv, PollInv, FetchInv, OtherInv

\* Connect's steps, the loop's and the response they hold agree in every state.
THEOREM Invariance == Spec => []IInv
<1> QED
  BY InitIInv, NextIInv, PTL DEF Spec

\* Every variable keeps its type: the callback never gets nil flags.
THEOREM TypeCorrect == Spec => []TypeOK
<1>1. IInv => TypeOK
  BY DEF IInv
<1> QED
  BY <1>1, Invariance, PTL

\* What the next poll is compared with has been delivered to the client.
THEOREM StoredIsDelivered == Spec => []StoredFlagsWereDelivered
<1>1. IInv => StoredFlagsWereDelivered
  BY DEF IInv
<1> QED
  BY <1>1, Invariance, PTL
-----------------------------------------------------------------------------
(***************************************************************************)
(* The lifecycle contract                                                  *)
(***************************************************************************)
LEMMA InitContract == Init => Lifecycle!Init
BY DEF Init, Lifecycle!Init, Phase, InnerDone, LoopIsGone

LEMMA ConnectContract == IInv /\ ConnectAct => [Lifecycle!Next]_(Lifecycle!vars)
<1> SUFFICES ASSUME IInv, ConnectAct PROVE [Lifecycle!Next]_(Lifecycle!vars)
  OBVIOUS
<1> USE DEF IInv, PhaseInv, Phase, InnerDone, LoopIsGone, Lifecycle!vars,
            Lifecycle!Next
<1>1. ASSUME NEW ctx \in MaybeContext, ConnectCall(ctx)
      PROVE  [Lifecycle!Next]_(Lifecycle!vars)
  BY <1>1 DEF ConnectCall, Lifecycle!Advance
<1>2. CASE SetInner
  BY <1>2 DEF SetInner, Lifecycle!Advance
<1>3. CASE ConnectAnswered
  BY <1>3 DEF ConnectAnswered
<1>4. CASE ConnectError
  BY <1>4 DEF ConnectError, Lifecycle!GiveUp
<1>5. CASE ConnectStores
  BY <1>5 DEF ConnectStores, Lifecycle!DeliverBegin
<1>6. CASE ConnectNotifies
  BY <1>6 DEF ConnectNotifies, Lifecycle!DeliverEnd
<1>7. CASE ConnectStarts
  BY <1>7 DEF ConnectStarts, Lifecycle!ReaderStarts
<1>8. CASE ConnectReturns
  BY <1>8 DEF ConnectReturns, Lifecycle!Advance
<1> QED
  BY <1>1, <1>2, <1>3, <1>4, <1>5, <1>6, <1>7, <1>8 DEF ConnectAct, ConnectStep

LEMMA PollContract == IInv /\ PollStep => [Lifecycle!Next]_(Lifecycle!vars)
<1> SUFFICES ASSUME IInv, PollStep PROVE [Lifecycle!Next]_(Lifecycle!vars)
  OBVIOUS
<1> USE DEF IInv, PhaseInv, Phase, InnerDone, LoopIsGone, Lifecycle!vars,
            Lifecycle!Next
<1>1. CASE PollStops
  BY <1>1 DEF PollStops, Lifecycle!ReaderExits
<1>2. CASE PollTimer \/ PollAnswered
  BY <1>2 DEF PollTimer, PollAnswered
<1>3. CASE PollFails
  BY <1>3 DEF PollFails, AfterError, Lifecycle!ReaderExits
<1>4. CASE PollCompares
  BY <1>4 DEF PollCompares, AfterStore, Lifecycle!DeliverBegin
<1>5. CASE PollNotifies
  BY <1>5 DEF PollNotifies, Lifecycle!DeliverEnd
<1> QED
  BY <1>1, <1>2, <1>3, <1>4, <1>5 DEF PollStep

LEMMA CloseContract ==
  ASSUME IInv, NEW x \in Closer, CloseAct(x)
  PROVE  [Lifecycle!Next]_(Lifecycle!vars)
<1> USE DEF IInv, Phase, InnerDone, LoopIsGone, Lifecycle!vars, Lifecycle!Next
<1>1. CASE CloseOnce(x)
  <2>1. inner' = "done" <=>
          \/ inner = "done"
          \/ ~once /\ Phase \in {"armed", "linked", "up"}
    BY <1>1 DEF CloseOnce, PhaseInv, TypeOK, ConnectPc
  <2>2. Lifecycle!CloseStops(x)
    BY <1>1, <2>1 DEF CloseOnce, Lifecycle!CloseStops
  <2> QED
    BY <2>2
<1>2. CASE CloseWait(x)
  <2>1. Lifecycle!CloseReturns(x)
    BY <1>2 DEF CloseWait, Lifecycle!CloseReturns
  <2> QED
    BY <2>1
<1> QED
  BY <1>1, <1>2 DEF CloseAct

LEMMA NextContract == IInv /\ [Next]_vars => [Lifecycle!Next]_(Lifecycle!vars)
<1> SUFFICES ASSUME IInv, [Next]_vars PROVE [Lifecycle!Next]_(Lifecycle!vars)
  OBVIOUS
<1>1. ASSUME NEW f \in Fetch, FetchAct(f) PROVE UNCHANGED Lifecycle!vars
  BY <1>1 DEF FetchAct, FetchBegin, FetchStep, FetchAnswered, FetchOk, FetchFails,
     Lifecycle!vars, Phase, InnerDone, LoopIsGone
<1>2. CASE Cancel \/ ServerChanges \/ UNCHANGED vars
  BY <1>2 DEF Cancel, ServerChanges, vars, Lifecycle!vars, Phase, InnerDone,
     LoopIsGone
<1> QED
  BY <1>1, <1>2, NextSplit, ConnectContract, PollContract, CloseContract

\* The HTTP transport keeps the contract FlagClient is written against.
THEOREM Contract == Spec => ImplementsTransport
<1> QED
  BY InitContract, NextContract, Invariance, PTL
  DEF Spec, ImplementsTransport, Lifecycle!Spec
=============================================================================
