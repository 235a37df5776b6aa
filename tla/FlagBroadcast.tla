---------------------------- MODULE FlagBroadcast ----------------------------
(***************************************************************************)
(* What FlagClient promises its subscribers, without goroutines or locks:  *)
(* an update is published in one indivisible step to exactly the callbacks *)
(* registered at that moment, and every update is published at most once.  *)
(* The immediate first call that Subscribe makes is not an update and is   *)
(* left out.                                                               *)
(***************************************************************************)
CONSTANTS Sub,     \* the callbacks that can be registered
          Updater  \* the updates that can be published

VARIABLES members,   \* the callbacks registered now
          published, \* the updates published so far
          received   \* received[s]: the updates callback s was called with

vars == <<members, published, received>>

TypeOK == /\ members \subseteq Sub
          /\ published \subseteq Updater
          /\ received \in [Sub -> SUBSET Updater]

Init == /\ members = {}
        /\ published = {}
        /\ received = [s \in Sub |-> {}]

Join(s) == /\ s \notin members
           /\ members' = members \cup {s}
           /\ UNCHANGED <<published, received>>

Leave(s) == /\ members' = members \ {s}
            /\ UNCHANGED <<published, received>>

\* Closing the client releases every registration at once.
Clear == /\ members' = {}
         /\ UNCHANGED <<published, received>>

Publish(u) ==
  /\ u \notin published
  /\ published' = published \cup {u}
  /\ received' = [s \in Sub |-> IF s \in members THEN received[s] \cup {u}
                                                 ELSE received[s]]
  /\ UNCHANGED members

Next == \/ \E s \in Sub : Join(s) \/ Leave(s)
        \/ \E u \in Updater : Publish(u)
        \/ Clear

Spec == Init /\ [][Next]_vars
=============================================================================
