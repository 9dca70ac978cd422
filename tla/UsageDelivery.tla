---------------------------- MODULE UsageDelivery ----------------------------
(***************************************************************************)
(* What the usage spool of mesh/usage.py promises of the events a router   *)
(* accepts: each stays outstanding until the receiver has had it, has      *)
(* refused it, or its line was damaged on disk.  The receiver may be given *)
(* an event any number of times (it drops repeats by request_id).          *)
(***************************************************************************)
CONSTANTS Events  \* usage events, told apart by their request_id

VARIABLES
  outstanding,  \* accepted and still to be delivered
  received,     \* events the receiver has had
  refused,      \* events the receiver answered with a 4xx
  damaged       \* events whose line holds other bytes than theirs

vars == <<outstanding, received, refused, damaged>>

Init ==
  /\ outstanding = {}
  /\ received = {}
  /\ refused = {}
  /\ damaged = {}

Accept(e) ==
  /\ e \notin outstanding \cup received \cup refused \cup damaged
  /\ outstanding' = outstanding \cup {e}
  /\ \E d \in SUBSET outstanding' : damaged' = damaged \cup d
  /\ UNCHANGED <<received, refused>>

Receive(e) ==
  /\ e \in outstanding
  /\ received' = received \cup {e}
  /\ UNCHANGED <<refused, damaged>>

Refuse(e) ==
  /\ e \in outstanding
  /\ refused' = refused \cup {e}
  /\ UNCHANGED <<received, damaged>>

\* What is struck off was received, refused or damaged before or in this very step.
StrikeOff ==
  /\ outstanding' \subseteq outstanding
  /\ outstanding \ outstanding' \subseteq received' \cup refused' \cup damaged

Next ==
  \/ \E e \in Events : Accept(e)
  \/ \E e \in Events : StrikeOff /\ (Receive(e) \/ Refuse(e))
  \/ StrikeOff /\ UNCHANGED <<received, refused, damaged>>

Spec == Init /\ [][Next]_vars
=============================================================================
