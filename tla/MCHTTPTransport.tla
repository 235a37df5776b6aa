-------------------------- MODULE MCHTTPTransport --------------------------
(* HTTPTransport on a small instance. *)
EXTENDS HTTPTransport

CONSTANTS f1, x1, x2, a, b, v1, v2
=============================================================================
