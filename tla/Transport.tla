------------------------------ MODULE Transport ------------------------------
(***************************************************************************)
(* The contract between FlagClient and a transport, as far as it concerns  *)
(* the lifecycle: how far Connect has got, the one reader that delivers    *)
(* pushes, and Close.  FlagClient relies on it, WebSocketTransport and     *)
(* HTTPTransport keep it.  FetchFlags is no part of it.                   *)
(***************************************************************************)
CONSTANT Closer \* Close calls

VARIABLES
  phase,      \* how far Connect has got
  once,       \* a Close call has used closeOnce
  stop,       \* the reader has been told to stop
  reading,    \* the reader is running, or about to
  delivering, \* a payload is on its way through the OnFlagsUpdated callback
  closing     \* closing[x]: where Close call x is

vars == <<phase, once, stop, reading, delivering, closing>>

Init == /\ phase = "new"
        /\ once = FALSE
        /\ stop = FALSE
        /\ reading = FALSE
        /\ delivering = FALSE
        /\ closing = [x \in Closer |-> "idle"]

\* Connect: dial, create the reader's context, start the reader, return.  The
\* HTTP transport creates the context first.
Advance == /\ phase' \in CASE phase = "new"        -> {"connecting"}
                           [] phase = "connecting" -> {"dialled", "armed", "failed"}
                           [] phase = "dialled"    -> {"armed"}
                           [] phase = "linked"     -> {"up"}
                           [] OTHER                -> {}
           /\ UNCHANGED <<once, stop, reading, delivering, closing>>

\* Connect gives up after it has created the reader's context, and cancels it.
GiveUp == /\ phase = "armed"
          /\ ~delivering
          /\ phase' = "failed"
          /\ stop' = TRUE
          /\ UNCHANGED <<once, reading, delivering, closing>>

ReaderStarts == /\ phase = "armed"
                /\ ~delivering
                /\ phase' = "linked"
                /\ reading' = TRUE
                /\ UNCHANGED <<once, stop, delivering, closing>>

\* One payload at a time; Connect itself may deliver the first.
DeliverBegin == /\ reading \/ phase = "armed"
                /\ ~delivering
                /\ delivering' = TRUE
                /\ UNCHANGED <<phase, once, stop, reading, closing>>

DeliverEnd == /\ delivering
              /\ delivering' = FALSE
              /\ UNCHANGED <<phase, once, stop, reading, closing>>

\* The reader ends only when told to and between two payloads.
ReaderExits == /\ reading /\ stop /\ ~delivering
               /\ reading' = FALSE
               /\ UNCHANGED <<phase, once, stop, delivering, closing>>

\* The first Close tells the reader to stop if there is one to tell.
CloseStops(x) == /\ closing[x] = "idle"
                 /\ once' = TRUE
                 /\ stop' = (stop \/ (~once /\ phase \in {"armed", "linked", "up"}))
                 /\ closing' = [closing EXCEPT ![x] = "waiting"]
                 /\ UNCHANGED <<phase, reading, delivering>>

\* Before Connect has returned a Close may do nothing at all.
CloseNothing(x) == /\ closing[x] = "idle"
                   /\ phase # "up"
                   /\ closing' = [closing EXCEPT ![x] = "noop"]
                   /\ UNCHANGED <<phase, once, stop, reading, delivering>>

\* Close returns when no reader runs.
CloseReturns(x) == /\ closing[x] = "waiting"
                   /\ ~reading
                   /\ closing' = [closing EXCEPT ![x] = "returned"]
                   /\ UNCHANGED <<phase, once, stop, reading, delivering>>

Next == \/ Advance \/ GiveUp \/ ReaderStarts \/ DeliverBegin \/ DeliverEnd \/ ReaderExits
        \/ \E x \in Closer : CloseStops(x) \/ CloseNothing(x) \/ CloseReturns(x)

Spec == Init /\ [][Next]_vars
=============================================================================
