---------------------------- MODULE MCAutoTransport ----------------------------
(***************************************************************************)
(* Names for the run of AutoTransport.                                     *)
(***************************************************************************)
EXTENDS AutoTransport

CONSTANTS x1, x2, x3
=============================================================================
