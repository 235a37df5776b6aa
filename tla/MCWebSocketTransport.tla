------------------------ MODULE MCWebSocketTransport ------------------------
(* WebSocketTransport on a small instance. *)
EXTENDS WebSocketTransport

CONSTANTS f1, f2, x1, x2, a, b
=============================================================================
