----------------------------- MODULE AutoTransport -----------------------------
(***************************************************************************)
(* transport/auto.go: a WebSocket transport is tried first, and an HTTP    *)
(* transport when it cannot connect.  Of the two no more is known than     *)
(* what they implement, Transport, and that a WebSocket Connect which has  *)
(* dialled no longer fails.                                                *)
(*                                                                         *)
(* The field active is an interface value, two words, which Connect writes *)
(* and Close reads without a lock.                                         *)
(***************************************************************************)
CONSTANTS
  Closer, \* Close calls
  Cleanup \* the Close call of Connect, after the WebSocket failed

ASSUME CleanupIsNoCaller == Cleanup \notin Closer

VARIABLES
  connectPc, \* where Connect is
  active,    \* t.active, "half" when one word of it is written
  nothing,   \* Close calls that found no active transport
  dead,      \* Close has called a method of half a transport and panicked
  wsPhase, wsOnce, wsStop, wsReading, wsDelivering, wsClosing,
  httpPhase, httpOnce, httpStop, httpReading, httpDelivering, httpClosing

ownVars  == <<connectPc, active, nothing, dead>>
wsVars   == <<wsPhase, wsOnce, wsStop, wsReading, wsDelivering, wsClosing>>
httpVars == <<httpPhase, httpOnce, httpStop, httpReading, httpDelivering, httpClosing>>
vars     == <<ownVars, wsVars, httpVars>>

WS == INSTANCE Transport WITH
  Closer <- Closer \cup {Cleanup}, phase <- wsPhase, once <- wsOnce, stop <- wsStop,
  reading <- wsReading, delivering <- wsDelivering, closing <- wsClosing

HTTP == INSTANCE Transport WITH
  phase <- httpPhase, once <- httpOnce, stop <- httpStop,
  reading <- httpReading, delivering <- httpDelivering, closing <- httpClosing

Init ==
  /\ connectPc = "idle"
  /\ active = "none"
  /\ nothing = {}
  /\ dead = FALSE
  /\ WS!Init
  /\ HTTP!Init
-----------------------------------------------------------------------------
(***************************************************************************)
(* Connect                                                                 *)
(***************************************************************************)
TryWS ==
  /\ connectPc = "idle"
  /\ connectPc' = "ws"
  /\ WS!Advance
  /\ UNCHANGED <<active, nothing, dead, httpVars>>

WSConnects ==
  /\ connectPc = "ws"
  /\ WS!Advance \/ WS!ReaderStarts
  /\ UNCHANGED <<ownVars, httpVars>>

\* ws.Connect has returned an error.  Mutated form: after some time it does not
\* matter whether it has.
NoLongerWaits == wsPhase # "up"
HasFailed == wsPhase = "failed"

CloseWS ==
  /\ connectPc = "ws"
  /\ HasFailed
  /\ connectPc' = "cleanup"
  /\ WS!CloseStops(Cleanup)
  /\ UNCHANGED <<active, nothing, dead, httpVars>>

\* Its Close has returned.  Mutated form: it waits for a reader, and none was started.
WaitsForReader == wsStop /\ WS!CloseReturns(Cleanup)
WSCloseReturns == WS!CloseReturns(Cleanup)

FallBack ==
  /\ connectPc = "cleanup"
  /\ WSCloseReturns
  /\ connectPc' = "http"
  /\ UNCHANGED <<active, nothing, dead, httpVars>>

HTTPConnects ==
  /\ connectPc = "http"
  /\ HTTP!Advance \/ HTTP!GiveUp \/ HTTP!ReaderStarts
  /\ UNCHANGED <<ownVars, wsVars>>

HTTPFails ==
  /\ connectPc = "http"
  /\ httpPhase = "failed"
  /\ connectPc' = "failed"
  /\ UNCHANGED <<active, nothing, dead, wsVars, httpVars>>

\* The Connect that is under way has returned without an error.  Mutated form: the
\* transport is published before it connects.
HasBegun == (connectPc = "ws" /\ wsPhase # "failed") \/ (connectPc = "http" /\ httpPhase # "failed")
HasConnected == (connectPc = "ws" /\ wsPhase = "up") \/ (connectPc = "http" /\ httpPhase = "up")

PublishHalf ==
  /\ HasConnected
  /\ active = "none"
  /\ active' = "half"
  /\ UNCHANGED <<connectPc, nothing, dead, wsVars, httpVars>>

Publish ==
  /\ active = "half"
  /\ active' = connectPc
  /\ connectPc' = "returned"
  /\ UNCHANGED <<nothing, dead, wsVars, httpVars>>
-----------------------------------------------------------------------------
(***************************************************************************)
(* Readers, and Close                                                      *)
(***************************************************************************)
WSRuns ==
  /\ WS!DeliverBegin \/ WS!DeliverEnd \/ WS!ReaderExits
  /\ UNCHANGED <<ownVars, httpVars>>

HTTPRuns ==
  /\ HTTP!DeliverBegin \/ HTTP!DeliverEnd \/ HTTP!ReaderExits
  /\ UNCHANGED <<ownVars, wsVars>>

\* Close that read active as nil; half of it may still look so.
CloseNothing(x) ==
  /\ x \notin nothing
  /\ active \in {"none", "half"}
  /\ nothing' = nothing \cup {x}
  /\ UNCHANGED <<connectPc, active, dead, wsVars, httpVars>>

ClosePanics(x) ==
  /\ x \notin nothing
  /\ active = "half"
  /\ dead' = TRUE
  /\ UNCHANGED <<connectPc, active, nothing, wsVars, httpVars>>

CloseActive(x) ==
  /\ x \notin nothing
  /\ \/ active = "ws" /\ WS!CloseStops(x) /\ UNCHANGED httpVars
     \/ active = "http" /\ HTTP!CloseStops(x) /\ UNCHANGED wsVars
  /\ UNCHANGED ownVars

CloseReturns(x) ==
  /\ \/ WS!CloseReturns(x) /\ UNCHANGED httpVars
     \/ HTTP!CloseReturns(x) /\ UNCHANGED wsVars
  /\ UNCHANGED ownVars

Connects == TryWS \/ WSConnects \/ CloseWS \/ FallBack \/ HTTPConnects \/ HTTPFails
              \/ PublishHalf \/ Publish
Closes(x) == CloseNothing(x) \/ ClosePanics(x) \/ CloseActive(x) \/ CloseReturns(x)

Next == ~dead /\ (Connects \/ WSRuns \/ HTTPRuns \/ \E x \in Closer : Closes(x))

Spec == Init /\ [][Next]_vars

\* Once called, Connect goes on: a transport that has armed its reader does not
\* deliver for ever before its Connect returns.  Callbacks return.
Fairness ==
  /\ SF_vars(~dead /\ connectPc # "idle" /\ Connects)
  /\ WF_vars(~dead /\ WS!DeliverEnd /\ UNCHANGED <<ownVars, httpVars>>)
  /\ WF_vars(~dead /\ HTTP!DeliverEnd /\ UNCHANGED <<ownVars, wsVars>>)

FairSpec == Spec /\ Fairness
-----------------------------------------------------------------------------
(***************************************************************************)
(* Properties                                                              *)
(***************************************************************************)
Phase == {"new", "connecting", "dialled", "armed", "linked", "up", "failed"}

\* Both transports are of their types; active is the one that Connect ended with.
TypeOK ==
  /\ connectPc \in {"idle", "ws", "cleanup", "http", "returned", "failed"}
  /\ active \in {"none", "half", "ws", "http"}
  /\ connectPc = "returned" <=> active \in {"ws", "http"}
  /\ active = "ws" => wsPhase = "up"
  /\ active = "http" => httpPhase = "up"
  /\ nothing \subseteq Closer
  /\ wsPhase \in Phase /\ httpPhase \in Phase
  /\ {dead, wsOnce, wsStop, wsReading, wsDelivering,
      httpOnce, httpStop, httpReading, httpDelivering} \subseteq BOOLEAN
  /\ wsClosing \in [Closer \cup {Cleanup} -> {"idle", "waiting", "returned", "noop"}]
  /\ httpClosing \in [Closer -> {"idle", "waiting", "returned", "noop"}]

\* The callback gets flags from one transport only: when HTTP starts, the WebSocket
\* has failed, runs no reader, delivers nothing, and never will again.
OneTransport ==
  /\ httpPhase # "new" => wsPhase = "failed" /\ ~wsReading /\ ~wsDelivering
  /\ ~(wsReading /\ httpReading) /\ ~(wsDelivering /\ httpDelivering)

\* Connect returns, with a WebSocket, with HTTP or with an error: closing the
\* WebSocket that failed does not block it.
ConnectEnds == connectPc = "ws" ~> (connectPc \in {"returned", "failed"} \/ dead)

\* The fallback as one transport.  The WebSocket's attempt, and closing it, are part
\* of connecting; a transport that is up but not yet active is linked.
Inactive(phase) == IF phase = "up" THEN "linked" ELSE phase
AutoPhase ==
  CASE active \in {"ws", "http"} -> "up"
    [] connectPc = "idle" -> "new"
    [] connectPc = "ws" /\ wsPhase # "failed" -> Inactive(wsPhase)
    [] connectPc \in {"http", "failed"} /\ httpPhase # "new" -> Inactive(httpPhase)
    [] OTHER -> "connecting"

AutoClosing ==
  [x \in Closer |-> IF x \in nothing THEN "noop"
                    ELSE IF active = "http" THEN httpClosing[x] ELSE wsClosing[x]]

Lifecycle == INSTANCE Transport WITH
  phase <- AutoPhase,
  once <- (active = "ws" /\ wsOnce) \/ (active = "http" /\ httpOnce),
  stop <- wsStop \/ httpStop,
  reading <- wsReading \/ httpReading,
  delivering <- wsDelivering \/ httpDelivering,
  closing <- AutoClosing

\* The fallback keeps the contract of a transport itself: the client cannot tell
\* which of the two it has, nor that there were two.
ImplementsTransport == Lifecycle!Spec
=============================================================================
