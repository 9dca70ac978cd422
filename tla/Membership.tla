------------------------------ MODULE Membership ------------------------------
(***************************************************************************)
(* What the registry of mesh/registry.py is to its readers: a registry     *)
(* that takes one event after the other, compacts nothing, never crashes   *)
(* and replays nothing.  The class comment claims of compaction, and       *)
(* mesh/event_store.py of the replay at boot, that nobody can tell.        *)
(***************************************************************************)
EXTENDS Naturals

CONSTANTS
  Nodes,           \* node ids
  PublicKeys,      \* node identity keys
  NoPublicKey,     \* no identity cert
  RequireIdentity  \* a heartbeat without an identity cert is refused

VARIABLES
  taken,     \* how many events there have been
  shown,     \* what each node is shown by: its latest heartbeat, or nothing once it left
  known,     \* the nodes that ever sent a heartbeat, to whom the allocator allocates
  identity,  \* the key each node has shown
  kept       \* every event that is no heartbeat

vars == <<taken, shown, known, identity, kept>>

Init ==
  /\ taken = 0
  /\ shown = [n \in Nodes |-> {}]
  /\ known = {}
  /\ identity = [n \in Nodes |-> NoPublicKey]
  /\ kept = {}

\* A node that has shown a key goes on showing it.
RecordHeartbeat(node, key, url) ==
  /\ UNCHANGED kept
  /\ identity[node] \in {NoPublicKey, key}
  /\ key = NoPublicKey => ~RequireIdentity
  /\ known' = known \cup {node}
  /\ identity' = [identity EXCEPT ![node] = key]
  /\ shown' = [shown EXCEPT ![node] =
       {[kind |-> "heartbeat", at |-> taken', node |-> node, key |-> key, url |-> url]}]

Keep(event) == kept' = kept \cup {event}

RecordNodeLeft(node) ==
  /\ Keep([kind |-> "node_left", at |-> taken', node |-> node])
  /\ shown' = [shown EXCEPT ![node] = {}]
  /\ UNCHANGED <<known, identity>>

RecordQualityObservation ==
  /\ Keep([kind |-> "quality_observation", at |-> taken'])
  /\ UNCHANGED <<shown, known, identity>>

RecordAllocation(nodes) ==
  /\ nodes \subseteq known
  /\ Keep([kind |-> "allocation", at |-> taken', nodes |-> nodes])
  /\ UNCHANGED <<shown, known, identity>>

Next ==
  /\ taken' = taken + 1
  /\ \/ \E n \in Nodes, key \in PublicKeys \cup {NoPublicKey}, url \in BOOLEAN :
          RecordHeartbeat(n, key, url)
     \/ \E n \in Nodes : RecordNodeLeft(n)
     \/ RecordQualityObservation
     \/ \E nodes \in SUBSET Nodes : RecordAllocation(nodes)

Spec == Init /\ [][Next]_vars
=============================================================================
