---------------------------- MODULE MeshRegistry ----------------------------
(***************************************************************************)
(* The event-sourced registry of the mesh (mesh/registry.py) over its      *)
(* durability seam (mesh/event_store.py).  A heartbeat is checked against  *)
(* the identity pinned for its node, recorded in the durable store and     *)
(* then in memory, and a heartbeat too many compacts both logs.  Every     *)
(* method runs under one lock, except the allocator, which lets go of it   *)
(* while it computes.  A crash loses the memory; the next boot replays the *)
(* store.                                                                  *)
(*                                                                         *)
(* A log is the set of its events: each carries its position `at`, so the  *)
(* set and the list determine each other.                                  *)
(***************************************************************************)
EXTENDS Integers, FiniteSets

CONSTANTS
  Nodes,            \* node ids
  PublicKeys,       \* node identity keys
  NoPublicKey,      \* no identity cert; public_key_b64 is None
  RequireIdentity,  \* require_node_identity
  MaxEvents,        \* max_events
  MaxLog            \* bound: events ever recorded

ASSUME RegistryAssumption ==
  /\ NoPublicKey \notin PublicKeys
  /\ RequireIdentity \in BOOLEAN
  /\ MaxEvents \in Nat
  /\ MaxLog \in Nat

VARIABLES
  events,      \* _events
  pubkeys,     \* _node_pubkeys, which key each node is pinned to
  urls,        \* _node_urls, the nodes of which a URL is known
  observed,    \* catalog: the quality observation on the card, 0 for the card on disk
  allocating,  \* what running allocators read: for each, the nodes it allocates to
  durable,     \* the store's log
  recorded     \* history: every event the store ever took

vars == <<events, pubkeys, urls, observed, allocating, durable, recorded>>

\* A URL is told apart only by whether there is one.
Heartbeat ==
  [kind : {"heartbeat"}, at : 1..MaxLog, node : Nodes,
   key : PublicKeys \cup {NoPublicKey}, url : BOOLEAN]
NodeLeft == [kind : {"node_left"}, at : 1..MaxLog, node : Nodes]
Allocation == [kind : {"allocation"}, at : 1..MaxLog, nodes : SUBSET Nodes]
Quality == [kind : {"quality_observation"}, at : 1..MaxLog]

Event == Heartbeat \cup NodeLeft \cup Allocation \cup Quality

Init ==
  /\ events = {}
  /\ pubkeys = [n \in Nodes |-> NoPublicKey]
  /\ urls = {}
  /\ observed = 0
  /\ allocating = {}
  /\ durable = {}
  /\ recorded = {}

-----------------------------------------------------------------------------
(* Helpers on logs.                                                        *)

Beats(log, node) == {e \in log : e.kind = "heartbeat" /\ e.node = node}

Superseded(log, e) ==
  e.kind = "heartbeat" /\ \E later \in Beats(log, e.node) : later.at > e.at

\* Mutant: the oldest heartbeat of each node is kept, not the latest.
CompactedToFirst(log) ==
  {e \in log : e.kind # "heartbeat" \/ ~\E f \in Beats(log, e.node) : f.at < e.at}

\* _compact_heartbeats: only the latest heartbeat of each node stays.
Compacted(log) == {e \in log : ~Superseded(log, e)}

\* Mutant: the boot rebuilds the log and forgets the pins.
NoKeys(log) == [n \in Nodes |-> NoPublicKey]

\* The boot pins each node to the first key the log has for it.
FirstKeys(log) ==
  LET keyed(n) == {e \in Beats(log, n) : e.key # NoPublicKey}
  IN  [n \in Nodes |->
        IF keyed(n) = {} THEN NoPublicKey
        ELSE (CHOOSE e \in keyed(n) : \A f \in keyed(n) : e.at <= f.at).key]

\* Mutant: a node that left once is not shown again.
ShownUnlessLeft(log, node) ==
  {e \in Beats(log, node) :
     /\ ~Superseded(log, e)
     /\ ~\E f \in log : f.kind = "node_left" /\ f.node = node}

\* snapshot: the heartbeat a node is shown by, if it is shown; a node_left hides the
\* heartbeats before it.
Shown(log, node) ==
  {e \in Beats(log, node) :
     /\ ~Superseded(log, e)
     /\ ~\E f \in log : f.kind = "node_left" /\ f.node = node /\ f.at > e.at}

\* run_allocator reads the hardware of every node with a heartbeat, left or not.
KnownNodes(log) == {n \in Nodes : Beats(log, n) # {}}

\* Whether the snapshot has a URL for a node: the heartbeat's own, or the one last known.
HasUrl(node) == node \in urls \/ \E e \in Shown(events, node) : e.url

-----------------------------------------------------------------------------
(* Recording.  The store takes an event before the memory does.            *)

Position == Cardinality(recorded) + 1
Room == Cardinality(recorded) < MaxLog

Beat(node, key, url) ==
  [kind |-> "heartbeat", at |-> Position, node |-> node, key |-> key, url |-> url]

\* _check_node_identity: a node that has shown a key goes on showing it.
Accepted(node, key) ==
  /\ pubkeys[node] \in {NoPublicKey, key}
  /\ key = NoPublicKey => ~RequireIdentity

\* What precedes the append, and stays when it fails: the pin and the URL.
Pin(node, key) ==
  pubkeys' = [pubkeys EXCEPT ![node] = IF key = NoPublicKey THEN @ ELSE key]

KnowUrl(node, url) == urls' = IF url THEN urls \cup {node} ELSE urls

\* The logs after `event`, with compaction if it is a heartbeat too many.  A store
\* may be unable to compact, or fail to: then its log keeps everything.
Appended(event) ==
  LET grown == events \cup {event}
      compacts == event.kind = "heartbeat" /\ Cardinality(grown) > MaxEvents
  IN  /\ recorded' = recorded \cup {event}
      /\ events' = IF compacts THEN Compacted(grown) ELSE grown
      /\ \/ durable' = durable \cup {event}
         \/ compacts /\ durable' = Compacted(grown)

RecordHeartbeat(node, key, url) ==
  /\ Room
  /\ Accepted(node, key)
  /\ Pin(node, key)
  /\ KnowUrl(node, url)
  /\ Appended(Beat(node, key, url))
  /\ UNCHANGED <<observed, allocating>>

HeartbeatNotStored(node, key, url) ==
  /\ Accepted(node, key)
  /\ Pin(node, key)
  /\ KnowUrl(node, url)
  /\ UNCHANGED <<events, observed, allocating, durable, recorded>>

RecordNodeLeft(node) ==
  /\ Room
  /\ Appended([kind |-> "node_left", at |-> Position, node |-> node])
  /\ UNCHANGED <<pubkeys, urls, observed, allocating>>

RecordQualityObservation ==
  /\ Room
  /\ Appended([kind |-> "quality_observation", at |-> Position])
  /\ observed' = Position
  /\ UNCHANGED <<pubkeys, urls, allocating>>

\* run_allocator: reads under the lock, computes without it, records under it.
ReadHardware ==
  /\ allocating' = allocating \cup {KnownNodes(events)}
  /\ UNCHANGED <<events, pubkeys, urls, observed, durable, recorded>>

RecordAllocation(nodes) ==
  /\ Room
  /\ nodes \in allocating
  /\ Appended([kind |-> "allocation", at |-> Position, nodes |-> nodes])
  /\ allocating' = allocating \ {nodes}
  /\ UNCHANGED <<pubkeys, urls, observed>>

-----------------------------------------------------------------------------
(* Crashes.                                                                *)

\* The memory of a registry that has just replayed `log`.
Booted(log) ==
  /\ events' = log
  /\ pubkeys' = FirstKeys(log)
  /\ urls' = {}
  /\ observed' = 0
  /\ allocating' = {}

Restart ==
  /\ Booted(durable)
  /\ UNCHANGED <<durable, recorded>>

\* The crash comes between the store's append and the answer to the node: the event
\* is in the log although nobody was told.
RestartAfterAppend(event) ==
  /\ Room
  /\ recorded' = recorded \cup {event}
  /\ durable' = durable \cup {event}
  /\ Booted(durable')

Next ==
  \/ \E n \in Nodes, key \in PublicKeys \cup {NoPublicKey}, url \in BOOLEAN :
       \/ RecordHeartbeat(n, key, url)
       \/ HeartbeatNotStored(n, key, url)
       \/ Accepted(n, key) /\ RestartAfterAppend(Beat(n, key, url))
  \/ \E n \in Nodes :
       \/ RecordNodeLeft(n)
       \/ RestartAfterAppend([kind |-> "node_left", at |-> Position, node |-> n])
  \/ RecordQualityObservation
  \/ ReadHardware
  \/ \E nodes \in SUBSET Nodes : RecordAllocation(nodes)
  \/ Restart

Spec == Init /\ [][Next]_vars

-----------------------------------------------------------------------------
(* Properties.                                                             *)

TypeOK ==
  /\ events \subseteq Event
  /\ pubkeys \in [Nodes -> PublicKeys \cup {NoPublicKey}]
  /\ urls \subseteq Nodes
  /\ observed \in 0..MaxLog
  /\ allocating \subseteq SUBSET Nodes
  /\ durable \subseteq Event
  /\ recorded \subseteq Event

\* Compaction, stores that cannot compact, crashes and replays drop nothing a reader
\* would miss: the memory and the store show every node by the same heartbeat as the
\* complete history does, know the same nodes, and keep every other event.
NothingForgotten ==
  \A log \in {events, durable} :
    /\ \A n \in Nodes : Shown(log, n) = Shown(recorded, n)
    /\ KnownNodes(log) = KnownNodes(recorded)
    /\ {e \in recorded : e.kind # "heartbeat"} \subseteq log

\* A node that has once shown an identity key is that key for ever: no later heartbeat
\* in its name, before or after any number of crashes and compactions, was taken
\* with another key or without one.
IdentityPinned ==
  \A e, f \in recorded :
    /\ e.kind = "heartbeat" /\ f.kind = "heartbeat"
    /\ e.node = f.node
    /\ e.key # NoPublicKey
    /\ e.at < f.at
    => f.key = e.key

\* To a reader of the memory, compaction, failing stores, crashes and replays never
\* happened: every step is one of a registry that keeps everything (Membership), or none.
\* A node is shown by its latest heartbeat, its key is checked against the first it ever
\* showed, and an allocation is for nodes that were heard of.
Complete == INSTANCE Membership WITH
  taken <- Cardinality(recorded),
  shown <- [n \in Nodes |-> Shown(events, n)],
  known <- KnownNodes(events),
  identity <- FirstKeys(events),
  kept <- {e \in events : e.kind # "heartbeat"}

ReadsAsComplete == Complete!Spec

\* A heartbeat that says nothing of its URL leaves the node the URL last reported, even
\* when it replaces the heartbeat that reported it.
UrlOutlivesHeartbeat ==
  [][\A n \in Nodes, key \in PublicKeys \cup {NoPublicKey}, url \in BOOLEAN :
       RecordHeartbeat(n, key, url) => \A m \in Nodes : HasUrl(m) => HasUrl(m)']_vars
=============================================================================
