-------------------------- MODULE AutoTransport_proofs --------------------------
(***************************************************************************)
(* Proofs about the fallback from WebSocket to HTTP, for any number of     *)
(* Close calls.                                                            *)
(***************************************************************************)
EXTENDS AutoTransport, TLAPS

\* A transport runs no reader before its Connect has armed one or after it failed.
Quiet(phase, reading, delivering) ==
  /\ phase \in {"new", "connecting", "dialled", "failed"} => ~reading /\ ~delivering
  /\ phase = "armed" => ~reading

HTTPUntouched ==
  /\ httpPhase = "new" /\ ~httpStop /\ ~httpReading /\ ~httpDelivering

\* Nobody but Connect closes a transport that is not the active one.
Apart ==
  /\ active # "ws" => \A x \in Closer : wsClosing[x] = "idle"
  /\ active # "http" => ~httpOnce /\ \A x \in Closer : httpClosing[x] = "idle"
  /\ \A x \in nothing : wsClosing[x] = "idle" /\ httpClosing[x] = "idle"

\* Where Connect is and how far the transports have got.
Stages ==
  /\ active \in {"none", "half"} \/ connectPc = "returned"
  /\ active = "half" => HasConnected
  /\ connectPc = "idle" => wsPhase = "new" /\ ~wsOnce
  /\ connectPc = "ws" => wsPhase # "new" /\ ~wsOnce
  /\ connectPc = "failed" => httpPhase = "failed"
  /\ connectPc \in {"idle", "ws", "cleanup"} \/ active = "ws" => HTTPUntouched
  /\ connectPc \in {"cleanup", "http", "failed"} \/ active = "http" => wsPhase = "failed"
  /\ wsPhase \in {"new", "connecting", "dialled", "failed"} => ~wsStop
  /\ connectPc \in {"idle", "ws", "cleanup", "http"} /\ active = "none" => ~wsStop

IInv ==
  /\ TypeOK
  /\ Quiet(wsPhase, wsReading, wsDelivering) /\ Quiet(httpPhase, httpReading, httpDelivering)
  /\ Apart
  /\ Stages

USE CleanupIsNoCaller

LEMMA Initially == Init => IInv
BY DEF Init, WS!Init, HTTP!Init, IInv, TypeOK, Phase, Quiet, Apart, Stages, HTTPUntouched, HasConnected

LEMMA Inductive == IInv /\ [Next]_vars => IInv'
<1> SUFFICES ASSUME IInv, [Next]_vars PROVE IInv'
  OBVIOUS
<1> USE DEF IInv, TypeOK, Phase, Quiet, Apart, Stages, HTTPUntouched, HasConnected, ownVars, wsVars, httpVars
<1>1. CASE TryWS
  <2>1. /\ connectPc = "idle" /\ connectPc' = "ws" /\ wsPhase' = "connecting"
        /\ UNCHANGED <<active, nothing, dead, httpVars>>
        /\ UNCHANGED <<wsOnce, wsStop, wsReading, wsDelivering, wsClosing>>
    BY <1>1 DEF TryWS, WS!Advance
  <2>2. ~wsOnce
    BY <2>1
  <2> QED
    BY <2>1, <2>2
<1>2. CASE WSConnects
  <2>1. CASE WS!Advance
    BY <1>2, <2>1 DEF WSConnects, WS!Advance
  <2>2. CASE WS!ReaderStarts
    BY <1>2, <2>2 DEF WSConnects, WS!ReaderStarts
  <2> QED
    BY <1>2, <2>1, <2>2 DEF WSConnects
<1>3. CASE CloseWS
  BY <1>3 DEF CloseWS, HasFailed, WS!CloseStops
<1>4. CASE FallBack
  BY <1>4 DEF FallBack, WSCloseReturns, WS!CloseReturns
<1>5. CASE HTTPConnects
  <2>1. CASE HTTP!Advance
    BY <1>5, <2>1 DEF HTTPConnects, HTTP!Advance
  <2>2. CASE HTTP!GiveUp
    BY <1>5, <2>2 DEF HTTPConnects, HTTP!GiveUp
  <2>3. CASE HTTP!ReaderStarts
    BY <1>5, <2>3 DEF HTTPConnects, HTTP!ReaderStarts
  <2> QED
    BY <1>5, <2>1, <2>2, <2>3 DEF HTTPConnects
<1>6. CASE HTTPFails
  BY <1>6 DEF HTTPFails
<1>7. CASE PublishHalf
  BY <1>7 DEF PublishHalf
<1>8. CASE Publish
  BY <1>8 DEF Publish
<1>9. CASE WSRuns
  <2>1. CASE WS!DeliverBegin
    BY <1>9, <2>1 DEF WSRuns, WS!DeliverBegin
  <2>2. CASE WS!DeliverEnd
    BY <1>9, <2>2 DEF WSRuns, WS!DeliverEnd
  <2>3. CASE WS!ReaderExits
    BY <1>9, <2>3 DEF WSRuns, WS!ReaderExits
  <2> QED
    BY <1>9, <2>1, <2>2, <2>3 DEF WSRuns
<1>10. CASE HTTPRuns
  <2>1. CASE HTTP!DeliverBegin
    BY <1>10, <2>1 DEF HTTPRuns, HTTP!DeliverBegin
  <2>2. CASE HTTP!DeliverEnd
    BY <1>10, <2>2 DEF HTTPRuns, HTTP!DeliverEnd
  <2>3. CASE HTTP!ReaderExits
    BY <1>10, <2>3 DEF HTTPRuns, HTTP!ReaderExits
  <2> QED
    BY <1>10, <2>1, <2>2, <2>3 DEF HTTPRuns
<1>11. ASSUME NEW x \in Closer, CloseNothing(x) \/ ClosePanics(x)
       PROVE  IInv'
  <2>1. CASE CloseNothing(x)
    BY <2>1 DEF CloseNothing
  <2>2. CASE ClosePanics(x)
    BY <2>2 DEF ClosePanics
  <2> QED
    BY <1>11, <2>1, <2>2
<1>12. ASSUME NEW x \in Closer, CloseActive(x)
       PROVE  IInv'
  <2>1. CASE active = "ws" /\ WS!CloseStops(x) /\ UNCHANGED httpVars
    BY <1>12, <2>1 DEF CloseActive, WS!CloseStops
  <2>2. CASE active = "http" /\ HTTP!CloseStops(x) /\ UNCHANGED wsVars
    BY <1>12, <2>2 DEF CloseActive, HTTP!CloseStops
  <2> QED
    BY <1>12, <2>1, <2>2 DEF CloseActive
<1>13. ASSUME NEW x \in Closer, CloseReturns(x)
       PROVE  IInv'
  BY <1>13 DEF CloseReturns, WS!CloseReturns, HTTP!CloseReturns
<1>14. CASE UNCHANGED vars
  BY <1>14 DEF vars
<1> QED
  BY <1>1, <1>2, <1>3, <1>4, <1>5, <1>6, <1>7, <1>8, <1>9, <1>10, <1>11, <1>12, <1>13, <1>14
  DEF Next, Connects, Closes

LEMMA Invariance == Spec => []IInv
BY Initially, Inductive, PTL DEF Spec

\* Connect publishes the transport that it has connected.
THEOREM TypeCorrect == Spec => []TypeOK
<1>1. IInv => TypeOK
  BY DEF IInv
<1> QED
  BY <1>1, Invariance, PTL

\* The client never gets flags from two transports.
THEOREM OnlyOneTransport == Spec => []OneTransport
<1>1. IInv => OneTransport
  BY DEF IInv, TypeOK, Quiet, Stages, HTTPUntouched, OneTransport
<1> QED
  BY <1>1, Invariance, PTL

-----------------------------------------------------------------------------
(***************************************************************************)
(* The fallback is a transport                                             *)
(***************************************************************************)
LEMMA InitContract == Init => Lifecycle!Init
BY DEF Init, WS!Init, HTTP!Init, Lifecycle!Init, AutoPhase, AutoClosing

LEMMA ConnectContract == IInv /\ Connects => [Lifecycle!Next]_(Lifecycle!vars)
<1> SUFFICES ASSUME IInv, Connects PROVE [Lifecycle!Next]_(Lifecycle!vars)
  OBVIOUS
<1> USE DEF AutoPhase, Inactive, IInv, TypeOK, Phase, Quiet, Stages, Apart, HTTPUntouched, HasConnected,
            ownVars, wsVars, httpVars
<1>1. CASE TryWS
  <2>1. AutoClosing' = AutoClosing
    BY <1>1 DEF TryWS, WS!Advance, AutoClosing
  <2>2. Lifecycle!Advance
    BY <1>1, <2>1 DEF TryWS, WS!Advance, Lifecycle!Advance
  <2> QED
    BY <2>2 DEF Lifecycle!Next
<1>2. CASE WSConnects
  <2>1. AutoClosing' = AutoClosing
    BY <1>2 DEF WSConnects, WS!Advance, WS!ReaderStarts, AutoClosing
  <2>2. CASE WS!Advance
    <3>1. Lifecycle!Advance \/ UNCHANGED Lifecycle!vars
      BY <1>2, <2>1, <2>2 DEF WSConnects, WS!Advance, Lifecycle!Advance, Lifecycle!vars
    <3> QED
      BY <3>1 DEF Lifecycle!Next
  <2>3. CASE WS!ReaderStarts
    <3>1. Lifecycle!ReaderStarts
      BY <1>2, <2>1, <2>3 DEF WSConnects, WS!ReaderStarts, Lifecycle!ReaderStarts
    <3> QED
      BY <3>1 DEF Lifecycle!Next
  <2> QED
    BY <1>2, <2>2, <2>3 DEF WSConnects
<1>3. CASE CloseWS
  <2>1. AutoClosing' = AutoClosing
    BY <1>3 DEF CloseWS, WS!CloseStops, AutoClosing
  <2>2. UNCHANGED Lifecycle!vars
    BY <1>3, <2>1 DEF CloseWS, HasFailed, WS!CloseStops, Lifecycle!vars
  <2> QED
    BY <2>2
<1>4. CASE FallBack
  <2>1. AutoClosing' = AutoClosing
    BY <1>4 DEF FallBack, WSCloseReturns, WS!CloseReturns, AutoClosing
  <2>2. UNCHANGED Lifecycle!vars
    BY <1>4, <2>1 DEF FallBack, WSCloseReturns, WS!CloseReturns, Lifecycle!vars
  <2> QED
    BY <2>2
<1>5. CASE HTTPConnects
  <2>1. AutoClosing' = AutoClosing
    BY <1>5 DEF HTTPConnects, HTTP!Advance, HTTP!GiveUp, HTTP!ReaderStarts, AutoClosing
  <2>2. CASE HTTP!Advance
    <3>1. Lifecycle!Advance \/ UNCHANGED Lifecycle!vars
      BY <1>5, <2>1, <2>2 DEF HTTPConnects, HTTP!Advance, Lifecycle!Advance, Lifecycle!vars
    <3> QED
      BY <3>1 DEF Lifecycle!Next
  <2>3. CASE HTTP!GiveUp
    <3>1. Lifecycle!GiveUp
      BY <1>5, <2>1, <2>3 DEF HTTPConnects, HTTP!GiveUp, Lifecycle!GiveUp
    <3> QED
      BY <3>1 DEF Lifecycle!Next
  <2>4. CASE HTTP!ReaderStarts
    <3>1. Lifecycle!ReaderStarts
      BY <1>5, <2>1, <2>4 DEF HTTPConnects, HTTP!ReaderStarts, Lifecycle!ReaderStarts
    <3> QED
      BY <3>1 DEF Lifecycle!Next
  <2> QED
    BY <1>5, <2>2, <2>3, <2>4 DEF HTTPConnects
<1>6. CASE HTTPFails
  <2>1. AutoClosing' = AutoClosing
    BY <1>6 DEF HTTPFails, AutoClosing
  <2>2. UNCHANGED Lifecycle!vars
    BY <1>6, <2>1 DEF HTTPFails, Lifecycle!vars
  <2> QED
    BY <2>2
<1>7. CASE PublishHalf
  <2>1. AutoClosing' = AutoClosing
    BY <1>7 DEF PublishHalf, AutoClosing
  <2>2. UNCHANGED Lifecycle!vars
    BY <1>7, <2>1 DEF PublishHalf, Lifecycle!vars
  <2> QED
    BY <2>2
<1>8. CASE Publish
  <2>1. AutoClosing' = AutoClosing
    BY <1>8 DEF Publish, AutoClosing
  <2>2. Lifecycle!Advance
    BY <1>8, <2>1 DEF Publish, Lifecycle!Advance
  <2> QED
    BY <2>2 DEF Lifecycle!Next
<1> QED
  BY <1>1, <1>2, <1>3, <1>4, <1>5, <1>6, <1>7, <1>8 DEF Connects

LEMMA RunContract == IInv /\ (WSRuns \/ HTTPRuns) => [Lifecycle!Next]_(Lifecycle!vars)
<1> SUFFICES ASSUME IInv, WSRuns \/ HTTPRuns PROVE [Lifecycle!Next]_(Lifecycle!vars)
  OBVIOUS
<1> USE DEF AutoPhase, Inactive, IInv, TypeOK, Phase, Quiet, Stages, HTTPUntouched, HasConnected,
            ownVars, wsVars, httpVars
<1>1. CASE WSRuns
  <2>1. AutoClosing' = AutoClosing /\ AutoPhase' = AutoPhase
    BY <1>1 DEF WSRuns, WS!DeliverBegin, WS!DeliverEnd, WS!ReaderExits, AutoClosing
  <2>2. CASE WS!DeliverBegin
    <3>1. Lifecycle!DeliverBegin
      BY <1>1, <2>1, <2>2 DEF WSRuns, WS!DeliverBegin, Lifecycle!DeliverBegin
    <3> QED
      BY <3>1 DEF Lifecycle!Next
  <2>3. CASE WS!DeliverEnd
    <3>1. Lifecycle!DeliverEnd
      BY <1>1, <2>1, <2>3 DEF WSRuns, WS!DeliverEnd, Lifecycle!DeliverEnd
    <3> QED
      BY <3>1 DEF Lifecycle!Next
  <2>4. CASE WS!ReaderExits
    <3>1. Lifecycle!ReaderExits
      BY <1>1, <2>1, <2>4 DEF WSRuns, WS!ReaderExits, Lifecycle!ReaderExits
    <3> QED
      BY <3>1 DEF Lifecycle!Next
  <2> QED
    BY <1>1, <2>2, <2>3, <2>4 DEF WSRuns
<1>2. CASE HTTPRuns
  <2>1. AutoClosing' = AutoClosing /\ AutoPhase' = AutoPhase
    BY <1>2 DEF HTTPRuns, HTTP!DeliverBegin, HTTP!DeliverEnd, HTTP!ReaderExits, AutoClosing
  <2>2. CASE HTTP!DeliverBegin
    <3>1. Lifecycle!DeliverBegin
      BY <1>2, <2>1, <2>2 DEF HTTPRuns, HTTP!DeliverBegin, Lifecycle!DeliverBegin
    <3> QED
      BY <3>1 DEF Lifecycle!Next
  <2>3. CASE HTTP!DeliverEnd
    <3>1. Lifecycle!DeliverEnd
      BY <1>2, <2>1, <2>3 DEF HTTPRuns, HTTP!DeliverEnd, Lifecycle!DeliverEnd
    <3> QED
      BY <3>1 DEF Lifecycle!Next
  <2>4. CASE HTTP!ReaderExits
    <3>1. Lifecycle!ReaderExits
      BY <1>2, <2>1, <2>4 DEF HTTPRuns, HTTP!ReaderExits, Lifecycle!ReaderExits
    <3> QED
      BY <3>1 DEF Lifecycle!Next
  <2> QED
    BY <1>2, <2>2, <2>3, <2>4 DEF HTTPRuns
<1> QED
  BY <1>1, <1>2

LEMMA CloseContract ==
  ASSUME IInv, NEW x \in Closer, Closes(x)
  PROVE  [Lifecycle!Next]_(Lifecycle!vars)
<1> USE DEF AutoPhase, Inactive, IInv, TypeOK, Phase, Stages, HasConnected, HTTPUntouched,
            ownVars, wsVars, httpVars
<1>1. CASE CloseNothing(x)
  <2>1. AutoClosing[x] = "idle" /\ AutoClosing' = [AutoClosing EXCEPT ![x] = "noop"]
    BY <1>1 DEF CloseNothing, AutoClosing, Apart
  <2>2. Lifecycle!CloseNothing(x)
    BY <1>1, <2>1 DEF CloseNothing, Lifecycle!CloseNothing
  <2> QED
    BY <2>2 DEF Lifecycle!Next
<1>2. CASE ClosePanics(x)
  <2>1. AutoClosing' = AutoClosing
    BY <1>2 DEF ClosePanics, AutoClosing
  <2>2. UNCHANGED Lifecycle!vars
    BY <1>2, <2>1 DEF ClosePanics, Lifecycle!vars
  <2> QED
    BY <2>2
<1>3. CASE CloseActive(x)
  <2>1. AutoClosing[x] = "idle" /\ AutoClosing' = [AutoClosing EXCEPT ![x] = "waiting"]
    <3>1. CASE active = "ws" /\ WS!CloseStops(x) /\ UNCHANGED httpVars
      BY <1>3, <3>1 DEF CloseActive, WS!CloseStops, AutoClosing
    <3>2. CASE active = "http" /\ HTTP!CloseStops(x) /\ UNCHANGED wsVars
      BY <1>3, <3>2 DEF CloseActive, HTTP!CloseStops, AutoClosing
    <3> QED
      BY <1>3, <3>1, <3>2 DEF CloseActive
  <2>2. CASE active = "ws" /\ WS!CloseStops(x) /\ UNCHANGED httpVars
    <3>1. Lifecycle!CloseStops(x)
      BY <1>3, <2>1, <2>2 DEF CloseActive, WS!CloseStops, Lifecycle!CloseStops
    <3> QED
      BY <3>1 DEF Lifecycle!Next
  <2>3. CASE active = "http" /\ HTTP!CloseStops(x) /\ UNCHANGED wsVars
    <3>1. Lifecycle!CloseStops(x)
      BY <1>3, <2>1, <2>3 DEF CloseActive, HTTP!CloseStops, Lifecycle!CloseStops
    <3> QED
      BY <3>1 DEF Lifecycle!Next
  <2> QED
    BY <1>3, <2>2, <2>3 DEF CloseActive
<1>4. CASE CloseReturns(x)
  <2>1. AutoClosing[x] = "waiting" /\ AutoClosing' = [AutoClosing EXCEPT ![x] = "returned"]
    <3>1. CASE WS!CloseReturns(x) /\ UNCHANGED httpVars
      BY <1>4, <3>1 DEF CloseReturns, WS!CloseReturns, AutoClosing, Apart
    <3>2. CASE HTTP!CloseReturns(x) /\ UNCHANGED wsVars
      BY <1>4, <3>2 DEF CloseReturns, HTTP!CloseReturns, AutoClosing, Apart
    <3> QED
      BY <1>4, <3>1, <3>2 DEF CloseReturns
  <2>2. Lifecycle!CloseReturns(x)
    BY <1>4, <2>1 DEF CloseReturns, WS!CloseReturns, HTTP!CloseReturns, Lifecycle!CloseReturns, Apart, Quiet
  <2> QED
    BY <2>2 DEF Lifecycle!Next
<1> QED
  BY <1>1, <1>2, <1>3, <1>4 DEF Closes

LEMMA NextContract == IInv /\ [Next]_vars => [Lifecycle!Next]_(Lifecycle!vars)
<1> SUFFICES ASSUME IInv, [Next]_vars PROVE [Lifecycle!Next]_(Lifecycle!vars)
  OBVIOUS
<1>1. CASE UNCHANGED vars
  BY <1>1 DEF vars, ownVars, wsVars, httpVars, Lifecycle!vars, AutoPhase, Inactive, AutoClosing
<1> QED
  BY <1>1, ConnectContract, RunContract, CloseContract DEF Next

\* AutoTransport keeps the contract that its two transports keep.
THEOREM Contract == Spec => ImplementsTransport
<1> QED
  BY InitContract, NextContract, Invariance, PTL DEF Spec, ImplementsTransport, Lifecycle!Spec
=============================================================================
