---------------------------- MODULE MCFlagClient ----------------------------
(***************************************************************************)
(* Model values for the runs of FlagClient.  Each config picks the actors  *)
(* its question needs; an actor that is left out makes no call.            *)
(***************************************************************************)
EXTENDS FlagClient

CONSTANTS f1,     \* an UpdateContext call
          p1,     \* a pushed payload
          s1,     \* a Subscribe call
          c1,     \* a Ready call
          x1, x2  \* Close calls
=============================================================================
