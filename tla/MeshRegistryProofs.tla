------------------------- MODULE MeshRegistryProofs -------------------------
(***************************************************************************)
(* Proofs about MeshRegistry, for any nodes, keys and bounds: its types,   *)
(* that no crash, replay or compaction forgets anything, and that a node's *)
(* identity is pinned for ever.                                            *)
(*                                                                         *)
(* A log is `CurrentIn` the history when what it lacks is superseded by    *)
(* something it has; both logs always are.  The pins follow the history    *)
(* because the latest heartbeat of a node, which no log lacks, shows the   *)
(* node's key if any heartbeat does.                                       *)
(***************************************************************************)
EXTENDS MeshRegistry, FiniteSetTheorems, TLAPS

Keyed(log, node) == {e \in Beats(log, node) : e.key # NoPublicKey}

HistoryOf(rec) ==
  /\ rec \subseteq Event
  /\ IsFiniteSet(rec)
  /\ \A e \in rec : e.at <= Cardinality(rec)
  /\ \A e, f \in rec : e.at = f.at => e = f

\* The last two conjuncts say that CHOOSE and "the latest" find something.
HasLatest(log) ==
  \A n \in Nodes : Beats(log, n) # {} =>
    \E l \in Beats(log, n) : \A f \in Beats(log, n) : f.at <= l.at
HasFirstKeyed(log) ==
  \A n \in Nodes : Keyed(log, n) # {} =>
    \E l \in Keyed(log, n) : \A f \in Keyed(log, n) : l.at <= f.at

CurrentIn(log, rec) ==
  /\ log \subseteq rec
  /\ \A e \in rec \ log : Superseded(log, e)
  /\ HasLatest(log)
  /\ HasFirstKeyed(log)

PinnedIn(rec) ==
  \A e, f \in rec :
    /\ e.kind = "heartbeat" /\ f.kind = "heartbeat"
    /\ e.node = f.node
    /\ e.key # NoPublicKey
    /\ e.at < f.at
    => f.key = e.key

PinsFollow(pins, rec) ==
  \A e \in rec : e.kind = "heartbeat" /\ e.key # NoPublicKey => pins[e.node] = e.key

\* The inductive invariant.
IInv ==
  /\ TypeOK
  /\ HistoryOf(recorded)
  /\ CurrentIn(events, recorded)
  /\ CurrentIn(durable, recorded)
  /\ PinnedIn(recorded)
  /\ PinsFollow(pubkeys, recorded)

-----------------------------------------------------------------------------
(* Facts about logs.                                                       *)

\* What the properties need of an event's type.
LEMMA EventFacts ==
  ASSUME NEW e \in Event
  PROVE  /\ e.at \in Nat
         /\ e.at \in 1..MaxLog
         /\ e.kind = "heartbeat" =>
              e.node \in Nodes /\ e.key \in PublicKeys \cup {NoPublicKey} /\ e.url \in BOOLEAN
  BY RegistryAssumption DEF Event, Heartbeat, NodeLeft, Allocation, Quality

\* A position that is taken is not beyond the last one.
LEMMA GrowHistory ==
  ASSUME NEW rec, HistoryOf(rec), NEW e \in Event, e.at = Cardinality(rec) + 1
  PROVE  /\ HistoryOf(rec \cup {e})
         /\ e \notin rec
         /\ \A f \in rec : f.at < e.at
  <1>1. Cardinality(rec) \in Nat
    BY FS_CardinalityType DEF HistoryOf
  <1>2. \A f \in rec : f.at \in Nat /\ f.at <= Cardinality(rec)
    BY EventFacts DEF HistoryOf
  <1>3. \A f \in rec : f.at < e.at
    BY <1>1, <1>2
  <1>4. e \notin rec
    BY <1>1, <1>3
  <1>5. IsFiniteSet(rec \cup {e}) /\ Cardinality(rec \cup {e}) = Cardinality(rec) + 1
    BY <1>4, FS_AddElement DEF HistoryOf
  <1>6. \A f \in rec \cup {e} : f.at <= Cardinality(rec \cup {e})
    BY <1>1, <1>2, <1>5
  <1>7. \A f, g \in rec \cup {e} : f.at = g.at => f = g
    BY <1>1, <1>2, <1>3 DEF HistoryOf
  <1> QED
    BY <1>3, <1>4, <1>5, <1>6, <1>7 DEF HistoryOf

\* A log that takes the newest event stays current.
LEMMA GrowCurrent ==
  ASSUME NEW rec, HistoryOf(rec), NEW log, CurrentIn(log, rec),
         NEW e \in Event, e.at = Cardinality(rec) + 1
  PROVE  CurrentIn(log \cup {e}, rec \cup {e})
  <1> DEFINE grown == log \cup {e}
  <1>1. \A f \in rec : f.at < e.at /\ f.at \in Nat
    BY GrowHistory, EventFacts DEF HistoryOf
  <1>2. e.at \in Nat
    BY EventFacts
  <1>3. log \subseteq rec
    BY DEF CurrentIn
  <1>4. \A f \in (rec \cup {e}) \ grown : Superseded(grown, f)
    BY DEF CurrentIn, Superseded, Beats
  <1>5. HasLatest(grown)
    <2> SUFFICES ASSUME NEW n \in Nodes, Beats(grown, n) # {}
                 PROVE  \E l \in Beats(grown, n) : \A f \in Beats(grown, n) : f.at <= l.at
      BY DEF HasLatest
    <2>1. CASE e.kind = "heartbeat" /\ e.node = n
      BY <2>1, <1>1, <1>2, <1>3 DEF Beats
    <2>2. CASE ~(e.kind = "heartbeat" /\ e.node = n)
      <3>1. Beats(grown, n) = Beats(log, n)
        BY <2>2 DEF Beats
      <3> QED
        BY <3>1 DEF CurrentIn, HasLatest
    <2> QED
      BY <2>1, <2>2
  <1>6. HasFirstKeyed(grown)
    <2> SUFFICES ASSUME NEW n \in Nodes, Keyed(grown, n) # {}
                 PROVE  \E l \in Keyed(grown, n) : \A f \in Keyed(grown, n) : l.at <= f.at
      BY DEF HasFirstKeyed
    <2>1. CASE Keyed(log, n) = {}
      <3>1. \A f \in Keyed(grown, n) : f = e
        BY <2>1 DEF Keyed, Beats
      <3>2. PICK f : f \in Keyed(grown, n)
        OBVIOUS
      <3>3. e \in Keyed(grown, n)
        BY <3>1, <3>2
      <3>4. e.at <= e.at
        BY <1>2
      <3> QED
        BY <3>1, <3>3, <3>4
    <2>2. CASE Keyed(log, n) # {}
      <3>1. PICK l \in Keyed(log, n) : \A f \in Keyed(log, n) : l.at <= f.at
        BY <2>2 DEF CurrentIn, HasFirstKeyed
      <3>2. l \in Keyed(grown, n) /\ l \in rec
        BY <1>3 DEF Keyed, Beats
      <3>3. \A f \in Keyed(grown, n) : f \in Keyed(log, n) \/ f = e
        BY DEF Keyed, Beats
      <3>4. l.at <= e.at
        BY <3>2, <1>1, <1>2
      <3> QED
        BY <3>1, <3>2, <3>3, <3>4
    <2> QED
      BY <2>1, <2>2
  <1> QED
    BY <1>3, <1>4, <1>5, <1>6 DEF CurrentIn

\* The latest heartbeat of each node survives compaction.
LEMMA CompactCurrent ==
  ASSUME NEW rec, HistoryOf(rec), NEW log, CurrentIn(log, rec)
  PROVE  CurrentIn(Compacted(log), rec)
  <1> DEFINE kept == Compacted(log)
  <1>1. kept \subseteq log /\ log \subseteq rec
    BY DEF Compacted, CurrentIn
  <1>2. \A e \in log : e.at \in Nat /\ (e.kind = "heartbeat" => e.node \in Nodes)
    BY <1>1, EventFacts DEF HistoryOf
  <1>3. ASSUME NEW n \in Nodes, Beats(log, n) # {}
        PROVE  \E l \in Beats(kept, n) : \A f \in Beats(log, n) : f.at <= l.at
    <2>1. PICK l \in Beats(log, n) : \A f \in Beats(log, n) : f.at <= l.at
      BY <1>3 DEF CurrentIn, HasLatest
    <2>2. l \in log /\ l.kind = "heartbeat" /\ l.node = n
      BY DEF Beats
    <2>3. ~Superseded(log, l)
      BY <2>1, <2>2, <1>2 DEF Superseded, Beats
    <2>4. l \in Beats(kept, n)
      BY <2>2, <2>3 DEF Compacted, Beats
    <2> QED
      BY <2>1, <2>4
  <1>4. HasLatest(kept)
    <2> SUFFICES ASSUME NEW n \in Nodes, Beats(kept, n) # {}
                 PROVE  \E l \in Beats(kept, n) : \A f \in Beats(kept, n) : f.at <= l.at
      BY DEF HasLatest
    <2>1. Beats(kept, n) \subseteq Beats(log, n)
      BY <1>1 DEF Beats
    <2> QED
      BY <2>1, <1>3
  <1>5. \A n \in Nodes : \A e, f \in Beats(kept, n) : e = f
    <2> SUFFICES ASSUME NEW n \in Nodes, NEW e \in Beats(kept, n), NEW f \in Beats(kept, n)
                 PROVE  e = f
      OBVIOUS
    <2>1. /\ e \in log /\ e.kind = "heartbeat" /\ e.node = n /\ ~Superseded(log, e)
          /\ f \in log /\ f.kind = "heartbeat" /\ f.node = n /\ ~Superseded(log, f)
      BY DEF Beats, Compacted
    <2>2. e.at = f.at
      BY <2>1, <1>2 DEF Superseded, Beats
    <2> QED
      BY <2>1, <2>2, <1>1 DEF HistoryOf
  <1>6. HasFirstKeyed(kept)
    <2> SUFFICES ASSUME NEW n \in Nodes, Keyed(kept, n) # {}
                 PROVE  \E l \in Keyed(kept, n) : \A f \in Keyed(kept, n) : l.at <= f.at
      BY DEF HasFirstKeyed
    <2>1. PICK l : l \in Keyed(kept, n)
      OBVIOUS
    <2>2. Keyed(kept, n) \subseteq Beats(kept, n)
      BY DEF Keyed
    <2>3. l.at \in Nat
      BY <2>1, <2>2, <1>1, <1>2 DEF Beats
    <2> QED
      BY <2>1, <2>2, <2>3, <1>5
  <1>7. ASSUME NEW e \in rec \ kept
        PROVE  Superseded(kept, e)
    <2>1. PICK f \in log : /\ e.kind = "heartbeat" /\ f.kind = "heartbeat"
                           /\ f.node = e.node /\ f.at > e.at
      BY <1>7 DEF Compacted, Superseded, Beats, CurrentIn
    <2>2. e.node \in Nodes /\ f \in Beats(log, e.node) /\ e.at \in Nat /\ f.at \in Nat
      BY <2>1, <1>2, EventFacts DEF Beats, HistoryOf
    <2>3. PICK l \in Beats(kept, e.node) : \A g \in Beats(log, e.node) : g.at <= l.at
      BY <2>2, <1>3
    <2>4. l.at \in Nat
      BY <1>1, <1>2 DEF Beats
    <2>5. l.at > e.at
      BY <2>1, <2>2, <2>3, <2>4
    <2> QED
      BY <2>1, <2>3, <2>5 DEF Superseded
  <1> QED
    BY <1>1, <1>4, <1>6, <1>7 DEF CurrentIn

\* What a current log shows is what the history shows.
LEMMA CurrentView ==
  ASSUME NEW rec, HistoryOf(rec), NEW log, CurrentIn(log, rec)
  PROVE  /\ \A n \in Nodes : Shown(log, n) = Shown(rec, n)
         /\ KnownNodes(log) = KnownNodes(rec)
         /\ {e \in rec : e.kind # "heartbeat"} \subseteq log
  <1>1. log \subseteq rec
    BY DEF CurrentIn
  <1>2. \A e \in rec : e.at \in Nat
    BY EventFacts DEF HistoryOf
  <1>3. {e \in rec : e.kind # "heartbeat"} \subseteq log
    BY DEF CurrentIn, Superseded
  <1>4. \A e \in rec \ log : \E f \in log : /\ e.kind = "heartbeat" /\ f.kind = "heartbeat"
                                          /\ f.node = e.node /\ f.at > e.at
    BY DEF CurrentIn, Superseded, Beats
  <1>5. \A e \in rec : Superseded(rec, e) <=> Superseded(log, e)
    <2>1. \A e \in rec : Superseded(log, e) => Superseded(rec, e)
      BY <1>1 DEF Superseded, Beats
    <2>2. ASSUME NEW e \in rec, Superseded(rec, e)
          PROVE  Superseded(log, e)
      <3>1. PICK f \in rec : /\ e.kind = "heartbeat" /\ f.kind = "heartbeat"
                             /\ f.node = e.node /\ f.at > e.at
        BY <2>2 DEF Superseded, Beats
      <3>2. CASE f \in log
        BY <3>1, <3>2 DEF Superseded, Beats
      <3>3. CASE f \notin log
        <4>1. PICK g \in log : g.kind = "heartbeat" /\ g.node = f.node /\ g.at > f.at
          BY <3>3, <1>4
        <4>2. e.at \in Nat /\ f.at \in Nat /\ g.at \in Nat
          BY <1>1, <1>2
        <4>3. g.at > e.at
          BY <3>1, <4>1, <4>2
        <4> QED
          BY <3>1, <4>1, <4>3 DEF Superseded, Beats
      <3> QED
        BY <3>2, <3>3
    <2> QED
      BY <2>1, <2>2
  <1>6. ASSUME NEW n \in Nodes
        PROVE  Shown(log, n) = Shown(rec, n)
    <2>1. \A e : e \in Shown(log, n) => e \in Shown(rec, n)
      BY <1>1, <1>3, <1>5 DEF Shown, Beats
    <2>2. \A e : e \in Shown(rec, n) => e \in Shown(log, n)
      <3> SUFFICES ASSUME NEW e \in Shown(rec, n)
                   PROVE  e \in Shown(log, n)
        OBVIOUS
      <3>1. e \in rec /\ ~Superseded(rec, e)
        BY DEF Shown, Beats
      <3>2. e \in log
        BY <3>1, <1>5 DEF CurrentIn
      <3> QED
        BY <3>1, <3>2, <1>1, <1>5 DEF Shown, Beats
    <2> QED
      BY <2>1, <2>2
  <1>7. \A n \in Nodes : Beats(log, n) # {} <=> Beats(rec, n) # {}
    <2>1. \A n \in Nodes : Beats(log, n) # {} => Beats(rec, n) # {}
      BY <1>1 DEF Beats
    <2>2. \A n \in Nodes : Beats(rec, n) # {} => Beats(log, n) # {}
      BY <1>4 DEF Beats
    <2> QED
      BY <2>1, <2>2
  <1>8. KnownNodes(log) = KnownNodes(rec)
    BY <1>7 DEF KnownNodes
  <1> QED
    BY <1>3, <1>6, <1>8

\* A boot from a current log pins every node that ever showed a key to that key.
LEMMA BootPins ==
  ASSUME NEW rec, HistoryOf(rec), NEW log, CurrentIn(log, rec), PinnedIn(rec)
  PROVE  /\ PinsFollow(FirstKeys(log), rec)
         /\ FirstKeys(log) \in [Nodes -> PublicKeys \cup {NoPublicKey}]
  <1>1. log \subseteq rec
    BY DEF CurrentIn
  <1>2. \A e \in rec : /\ e.at \in Nat
                       /\ e.kind = "heartbeat" => /\ e.node \in Nodes
                                                  /\ e.key \in PublicKeys \cup {NoPublicKey}
    BY EventFacts DEF HistoryOf
  <1> DEFINE first(n) == CHOOSE e \in Keyed(log, n) : \A f \in Keyed(log, n) : e.at <= f.at
  <1>3. \A n \in Nodes : FirstKeys(log)[n] =
                          IF Keyed(log, n) = {} THEN NoPublicKey ELSE first(n).key
    BY DEF FirstKeys, Keyed
  <1>4. \A n \in Nodes : Keyed(log, n) # {} => first(n) \in Keyed(log, n)
    BY DEF CurrentIn, HasFirstKeyed
  <1>5. \A n \in Nodes : FirstKeys(log)[n] \in PublicKeys \cup {NoPublicKey}
    <2> SUFFICES ASSUME NEW n \in Nodes
                 PROVE  FirstKeys(log)[n] \in PublicKeys \cup {NoPublicKey}
      OBVIOUS
    <2>1. CASE Keyed(log, n) = {}
      BY <2>1, <1>3
    <2>2. CASE Keyed(log, n) # {}
      <3>1. first(n) \in rec /\ first(n).kind = "heartbeat"
        BY <2>2, <1>1, <1>4 DEF Keyed, Beats
      <3> QED
        BY <3>1, <2>2, <1>2, <1>3
    <2> QED
      BY <2>1, <2>2
  <1>6. FirstKeys(log) \in [Nodes -> PublicKeys \cup {NoPublicKey}]
    <2>1. FirstKeys(log) = [n \in Nodes |-> FirstKeys(log)[n]]
      BY DEF FirstKeys
    <2> HIDE DEF first
    <2> QED
      BY <2>1, <1>5
  <1>7. ASSUME NEW e \in rec, e.kind = "heartbeat", e.key # NoPublicKey
        PROVE  FirstKeys(log)[e.node] = e.key
    <2>1. \A f \in rec : f.kind = "heartbeat" /\ f.node = e.node /\ f.key # NoPublicKey =>
                          f.key = e.key
      <3> SUFFICES ASSUME NEW f \in rec, f.kind = "heartbeat", f.node = e.node,
                          f.key # NoPublicKey
                   PROVE  f.key = e.key
        OBVIOUS
      <3>1. f.at < e.at \/ e.at < f.at \/ e.at = f.at
        BY <1>2
      <3>2. CASE e.at = f.at
        BY <3>2 DEF HistoryOf
      <3> QED
        BY <3>1, <3>2, <1>7 DEF PinnedIn
    <2>2. Keyed(log, e.node) # {}
      <3>1. CASE e \in log
        BY <3>1, <1>7 DEF Keyed, Beats
      <3>2. CASE e \notin log
        <4>1. PICK f \in log : f.kind = "heartbeat" /\ f.node = e.node /\ f.at > e.at
          BY <3>2 DEF CurrentIn, Superseded, Beats
        <4>2. f.key = e.key
          <5>1. f \in rec /\ e.at < f.at
            BY <4>1, <1>1, <1>2
          <5> QED
            BY <5>1, <4>1, <1>7 DEF PinnedIn
        <4> QED
          BY <4>1, <4>2, <1>7 DEF Keyed, Beats
      <3> QED
        BY <3>1, <3>2
    <2>3. e.node \in Nodes
      BY <1>2, <1>7
    <2>4. first(e.node) \in Keyed(log, e.node)
      BY <2>2, <2>3, <1>4
    <2>5. first(e.node).key = e.key
      BY <2>1, <2>4, <1>1 DEF Keyed, Beats
    <2> QED
      BY <2>2, <2>3, <2>5, <1>3
  <1> QED
    BY <1>6, <1>7 DEF PinsFollow

-----------------------------------------------------------------------------
(* The steps.  The next three lemmas are about what a step makes of the    *)
(* history and the logs; the theorem of each action follows.               *)

\* The part of the invariant that relates logs and history.
LogsInv(evs, dur, rec) ==
  /\ HistoryOf(rec)
  /\ CurrentIn(evs, rec)
  /\ CurrentIn(dur, rec)

LEMMA PositionIsNat ==
  ASSUME IInv
  PROVE  /\ Position \in Nat
         /\ Room => Position \in 1..MaxLog
  <1>1. Cardinality(recorded) \in Nat
    BY FS_CardinalityType DEF IInv, HistoryOf
  <1> QED
    BY <1>1, RegistryAssumption DEF Position, Room

\* An event taken by the store and the memory, with compaction or without.
LEMMA AppendKeepsLogs ==
  ASSUME IInv, NEW event \in Event, event.at = Position, Appended(event)
  PROVE  /\ recorded' = recorded \cup {event}
         /\ LogsInv(events', durable', recorded')
  <1> DEFINE grown == events \cup {event}
  <1>1. recorded' = recorded \cup {event}
    BY DEF Appended
  <1>2. event.at = Cardinality(recorded) + 1
    BY DEF Position
  <1>3. HistoryOf(recorded')
    BY <1>1, <1>2, GrowHistory DEF IInv
  <1>4. CurrentIn(grown, recorded') /\ CurrentIn(durable \cup {event}, recorded')
    BY <1>1, <1>2, GrowCurrent DEF IInv
  <1>5. CurrentIn(Compacted(grown), recorded')
    BY <1>3, <1>4, CompactCurrent
  <1>6. events' \in {grown, Compacted(grown)}
    BY DEF Appended
  <1>7. durable' \in {durable \cup {event}, Compacted(grown)}
    BY DEF Appended
  <1> HIDE DEF grown
  <1>8. CurrentIn(events', recorded')
    BY <1>4, <1>5, <1>6
  <1>9. CurrentIn(durable', recorded')
    BY <1>4, <1>5, <1>7
  <1> QED
    BY <1>1, <1>3, <1>8, <1>9 DEF LogsInv

\* The logs have the types of TypeOK.
LEMMA LogTypes ==
  ASSUME NEW evs, NEW dur, NEW rec, LogsInv(evs, dur, rec)
  PROVE  evs \subseteq Event /\ dur \subseteq Event /\ rec \subseteq Event
  BY DEF LogsInv, HistoryOf, CurrentIn

\* A heartbeat that is accepted agrees with every heartbeat before it.
LEMMA AcceptedAgrees ==
  ASSUME IInv, NEW n \in Nodes, NEW key \in PublicKeys \cup {NoPublicKey},
         NEW url \in BOOLEAN, Accepted(n, key), NEW pins,
         pins = [pubkeys EXCEPT ![n] = IF key = NoPublicKey THEN @ ELSE key]
  PROVE  /\ PinnedIn(recorded \cup {Beat(n, key, url)})
         /\ PinsFollow(pins, recorded)
         /\ PinsFollow(pins, recorded \cup {Beat(n, key, url)})
         /\ pins \in [Nodes -> PublicKeys \cup {NoPublicKey}]
  <1> DEFINE beat == Beat(n, key, url)
  <1>1. pubkeys \in [Nodes -> PublicKeys \cup {NoPublicKey}] /\ recorded \subseteq Event
    BY DEF IInv, TypeOK
  <1>2. \A e \in recorded : e.at \in Nat /\ e.at < beat.at
    <2>1. \A e \in recorded : e.at \in Nat /\ e.at <= Cardinality(recorded)
      BY <1>1, EventFacts DEF IInv, HistoryOf
    <2>2. Cardinality(recorded) \in Nat
      BY FS_CardinalityType DEF IInv, HistoryOf
    <2> QED
      BY <2>1, <2>2 DEF Beat, Position
  <1>3. beat.kind = "heartbeat" /\ beat.node = n /\ beat.key = key /\ beat.at = Position
    BY DEF Beat
  <1>4. Position \in Nat
    BY PositionIsNat
  <1>5. \A e \in recorded : e.kind = "heartbeat" /\ e.key # NoPublicKey /\ e.node = n =>
                             e.key = key
    BY DEF Accepted, IInv, PinsFollow
  <1> HIDE DEF beat
  <1>6. PinnedIn(recorded \cup {beat})
    <2> SUFFICES ASSUME NEW e \in recorded \cup {beat}, NEW f \in recorded \cup {beat},
                        e.kind = "heartbeat", f.kind = "heartbeat", e.node = f.node,
                        e.key # NoPublicKey, e.at < f.at
                 PROVE  f.key = e.key
      BY DEF PinnedIn
    <2>1. e \in recorded
      BY <1>2, <1>3, <1>4
    <2>2. CASE f \in recorded
      BY <2>1, <2>2 DEF IInv, PinnedIn
    <2>3. CASE f = beat
      BY <2>1, <2>3, <1>3, <1>5
    <2> QED
      BY <2>2, <2>3
  <1>7. \A m \in Nodes : pins[m] = IF m = n /\ key # NoPublicKey THEN key ELSE pubkeys[m]
    BY <1>1
  <1>8. pins \in [Nodes -> PublicKeys \cup {NoPublicKey}]
    BY <1>1
  <1>9. PinsFollow(pins, recorded)
    <2> SUFFICES ASSUME NEW e \in recorded, e.kind = "heartbeat", e.key # NoPublicKey
                 PROVE  pins[e.node] = e.key
      BY DEF PinsFollow
    <2>1. e.node \in Nodes
      BY <1>1, EventFacts
    <2>2. pubkeys[e.node] = e.key
      BY DEF IInv, PinsFollow
    <2> QED
      BY <2>1, <2>2, <1>5, <1>7
  <1>10. PinsFollow(pins, recorded \cup {beat})
    BY <1>3, <1>7, <1>9 DEF PinsFollow
  <1> QED
    BY <1>6, <1>8, <1>9, <1>10 DEF beat

\* An event that is no heartbeat changes nothing about pins.
LEMMA OthersAgree ==
  ASSUME IInv, NEW event, event.kind # "heartbeat"
  PROVE  PinnedIn(recorded \cup {event}) /\ PinsFollow(pubkeys, recorded \cup {event})
  BY DEF IInv, PinnedIn, PinsFollow

\* A boot from a log that is current in the history restores the invariant.
LEMMA BootEstablishes ==
  ASSUME NEW log, CurrentIn(log, recorded'), HistoryOf(recorded'), PinnedIn(recorded'),
         durable' = log, Booted(log)
  PROVE  IInv'
  <1>1. /\ events' = log /\ urls' = {} /\ observed' = 0 /\ allocating' = {}
        /\ pubkeys' = FirstKeys(log)
    BY DEF Booted
  <1>2. PinsFollow(pubkeys', recorded') /\ pubkeys' \in [Nodes -> PublicKeys \cup {NoPublicKey}]
    BY <1>1, BootPins
  <1>3. log \subseteq Event /\ recorded' \subseteq Event
    BY DEF HistoryOf, CurrentIn
  <1>4. TypeOK'
    BY <1>1, <1>2, <1>3, RegistryAssumption DEF TypeOK
  <1> QED
    BY <1>1, <1>2, <1>4 DEF IInv

-----------------------------------------------------------------------------

LEMMA BeatIsEvent ==
  ASSUME IInv, Room, NEW n \in Nodes, NEW key \in PublicKeys \cup {NoPublicKey},
         NEW url \in BOOLEAN
  PROVE  Beat(n, key, url) \in Event /\ Beat(n, key, url).at = Position
  BY PositionIsNat DEF Beat, Event, Heartbeat

LEMMA HeartbeatKeeps ==
  ASSUME IInv, NEW n \in Nodes, NEW key \in PublicKeys \cup {NoPublicKey},
         NEW url \in BOOLEAN,
         RecordHeartbeat(n, key, url) \/ HeartbeatNotStored(n, key, url)
  PROVE  IInv'
  <1>1. /\ Accepted(n, key)
        /\ pubkeys' = [pubkeys EXCEPT ![n] = IF key = NoPublicKey THEN @ ELSE key]
        /\ urls' = IF url THEN urls \cup {n} ELSE urls
        /\ UNCHANGED <<observed, allocating>>
    BY DEF RecordHeartbeat, HeartbeatNotStored, Pin, KnowUrl
  <1>2. /\ PinnedIn(recorded \cup {Beat(n, key, url)})
        /\ PinsFollow(pubkeys', recorded)
        /\ PinsFollow(pubkeys', recorded \cup {Beat(n, key, url)})
        /\ pubkeys' \in [Nodes -> PublicKeys \cup {NoPublicKey}]
    BY <1>1, AcceptedAgrees
  <1>3. urls' \subseteq Nodes /\ observed' \in 0..MaxLog /\ allocating' \subseteq SUBSET Nodes
    BY <1>1 DEF IInv, TypeOK
  <1>4. CASE RecordHeartbeat(n, key, url)
    <2>1. Room /\ Appended(Beat(n, key, url))
      BY <1>4 DEF RecordHeartbeat
    <2>2. /\ recorded' = recorded \cup {Beat(n, key, url)}
          /\ LogsInv(events', durable', recorded')
      BY <2>1, BeatIsEvent, AppendKeepsLogs
    <2>3. events' \subseteq Event /\ durable' \subseteq Event /\ recorded' \subseteq Event
      BY <2>2, LogTypes
    <2>4. TypeOK'
      BY <1>2, <1>3, <2>3 DEF TypeOK
    <2> QED
      BY <1>2, <2>2, <2>4 DEF IInv, LogsInv
  <1>5. CASE HeartbeatNotStored(n, key, url)
    <2>1. UNCHANGED <<events, durable, recorded>>
      BY <1>5 DEF HeartbeatNotStored
    <2>2. TypeOK'
      BY <1>2, <1>3, <2>1 DEF IInv, TypeOK
    <2> QED
      BY <1>2, <2>1, <2>2 DEF IInv
  <1> QED
    BY <1>4, <1>5

\* The three other events: node_left, quality_observation and allocation.
LEMMA OtherEventKeeps ==
  ASSUME IInv, NEW event \in Event, event.kind # "heartbeat", event.at = Position,
         Appended(event), UNCHANGED <<pubkeys, urls>>,
         observed' \in 0..MaxLog, allocating' \subseteq SUBSET Nodes
  PROVE  IInv'
  <1>1. /\ recorded' = recorded \cup {event}
        /\ LogsInv(events', durable', recorded')
    BY AppendKeepsLogs
  <1>2. PinnedIn(recorded') /\ PinsFollow(pubkeys', recorded')
    BY <1>1, OthersAgree
  <1>3. events' \subseteq Event /\ durable' \subseteq Event /\ recorded' \subseteq Event
    BY <1>1, LogTypes
  <1>4. TypeOK'
    BY <1>3 DEF IInv, TypeOK
  <1> QED
    BY <1>1, <1>2, <1>4 DEF IInv, LogsInv

LEMMA NodeLeftKeeps ==
  ASSUME IInv, NEW n \in Nodes, RecordNodeLeft(n)
  PROVE  IInv'
  <1> DEFINE event == [kind |-> "node_left", at |-> Position, node |-> n]
  <1>1. Position \in 1..MaxLog
    BY PositionIsNat DEF RecordNodeLeft
  <1>2. event \in Event /\ event.kind # "heartbeat" /\ event.at = Position
    BY <1>1 DEF Event, NodeLeft
  <1>3. /\ Appended(event)
        /\ UNCHANGED <<pubkeys, urls>>
        /\ observed' \in 0..MaxLog /\ allocating' \subseteq SUBSET Nodes
    BY DEF RecordNodeLeft, IInv, TypeOK
  <1> HIDE DEF event
  <1> QED
    BY <1>2, <1>3, OtherEventKeeps

LEMMA QualityKeeps ==
  ASSUME IInv, RecordQualityObservation
  PROVE  IInv'
  <1> DEFINE event == [kind |-> "quality_observation", at |-> Position]
  <1>1. Position \in 1..MaxLog
    BY PositionIsNat DEF RecordQualityObservation
  <1>2. event \in Event /\ event.kind # "heartbeat" /\ event.at = Position
    BY <1>1 DEF Event, Quality
  <1>3. /\ Appended(event)
        /\ UNCHANGED <<pubkeys, urls>>
        /\ observed' \in 0..MaxLog /\ allocating' \subseteq SUBSET Nodes
    BY <1>1, RegistryAssumption DEF RecordQualityObservation, IInv, TypeOK
  <1> HIDE DEF event
  <1> QED
    BY <1>2, <1>3, OtherEventKeeps

LEMMA AllocationKeeps ==
  ASSUME IInv, NEW nodes \in SUBSET Nodes, RecordAllocation(nodes)
  PROVE  IInv'
  <1> DEFINE event == [kind |-> "allocation", at |-> Position, nodes |-> nodes]
  <1>1. Position \in 1..MaxLog
    BY PositionIsNat DEF RecordAllocation
  <1>2. event \in Event /\ event.kind # "heartbeat" /\ event.at = Position
    BY <1>1 DEF Event, Allocation
  <1>3. /\ Appended(event)
        /\ UNCHANGED <<pubkeys, urls>>
        /\ observed' \in 0..MaxLog /\ allocating' \subseteq SUBSET Nodes
    BY DEF RecordAllocation, IInv, TypeOK
  <1> HIDE DEF event
  <1> QED
    BY <1>2, <1>3, OtherEventKeeps

LEMMA ReadHardwareKeeps ==
  ASSUME IInv, ReadHardware
  PROVE  IInv'
  <1>1. UNCHANGED <<events, pubkeys, urls, observed, durable, recorded>>
    BY DEF ReadHardware
  <1>2. allocating' \subseteq SUBSET Nodes
    BY DEF ReadHardware, KnownNodes, IInv, TypeOK
  <1> QED
    BY <1>1, <1>2 DEF IInv, TypeOK

LEMMA RestartKeeps ==
  ASSUME IInv, Restart
  PROVE  IInv'
  BY BootEstablishes DEF Restart, IInv

\* A boot after an event that only the store took.
LEMMA RestartAfterAppendKeeps ==
  ASSUME IInv, NEW event \in Event, event.at = Position, PinnedIn(recorded \cup {event}),
         RestartAfterAppend(event)
  PROVE  IInv'
  <1>1. recorded' = recorded \cup {event} /\ durable' = durable \cup {event} /\ Booted(durable')
    BY DEF RestartAfterAppend
  <1>2. event.at = Cardinality(recorded) + 1
    BY DEF Position
  <1>3. HistoryOf(recorded')
    BY <1>1, <1>2, GrowHistory DEF IInv
  <1>4. CurrentIn(durable', recorded')
    BY <1>1, <1>2, GrowCurrent DEF IInv
  <1> QED
    BY <1>1, <1>3, <1>4, BootEstablishes

LEMMA CrashedCallKeeps ==
  ASSUME IInv, NEW n \in Nodes,
         \/ \E key \in PublicKeys \cup {NoPublicKey}, url \in BOOLEAN :
              Accepted(n, key) /\ RestartAfterAppend(Beat(n, key, url))
         \/ RestartAfterAppend([kind |-> "node_left", at |-> Position, node |-> n])
  PROVE  IInv'
  <1>1. ASSUME NEW key \in PublicKeys \cup {NoPublicKey}, NEW url \in BOOLEAN,
               Accepted(n, key), RestartAfterAppend(Beat(n, key, url))
        PROVE  IInv'
    <2>1. Room
      BY <1>1 DEF RestartAfterAppend
    <2>2. PinnedIn(recorded \cup {Beat(n, key, url)})
      BY <1>1, AcceptedAgrees
    <2> QED
      BY <1>1, <2>1, <2>2, BeatIsEvent, RestartAfterAppendKeeps
  <1>2. ASSUME NEW event, event = [kind |-> "node_left", at |-> Position, node |-> n],
               RestartAfterAppend(event)
        PROVE  IInv'
    <2>1. Position \in 1..MaxLog
      BY <1>2, PositionIsNat DEF RestartAfterAppend
    <2>2. event \in Event /\ event.kind # "heartbeat" /\ event.at = Position
      BY <1>2, <2>1 DEF Event, NodeLeft
    <2> QED
      BY <1>2, <2>2, OthersAgree, RestartAfterAppendKeeps
  <1> QED
    BY <1>1, <1>2

-----------------------------------------------------------------------------
(* The theorems.                                                           *)

LEMMA InitEstablishes == Init => IInv
  <1> SUFFICES ASSUME Init PROVE IInv
    OBVIOUS
  <1>1. IsFiniteSet({})
    BY FS_EmptySet
  <1>2. HistoryOf(recorded)
    BY <1>1 DEF Init, HistoryOf
  <1>3. CurrentIn(events, recorded) /\ CurrentIn(durable, recorded)
    BY DEF Init, CurrentIn, HasLatest, HasFirstKeyed, Keyed, Beats
  <1>4. TypeOK
    BY RegistryAssumption DEF Init, TypeOK
  <1> QED
    BY <1>2, <1>3, <1>4 DEF IInv, Init, PinnedIn, PinsFollow

LEMMA NextKeeps == IInv /\ [Next]_vars => IInv'
  <1> SUFFICES ASSUME IInv, [Next]_vars PROVE IInv'
    OBVIOUS
  <1>1. CASE UNCHANGED vars
    BY <1>1 DEF vars, IInv, TypeOK
  <1>2. ASSUME NEW n \in Nodes, NEW key \in PublicKeys \cup {NoPublicKey},
               NEW url \in BOOLEAN,
               RecordHeartbeat(n, key, url) \/ HeartbeatNotStored(n, key, url)
        PROVE  IInv'
    BY <1>2, HeartbeatKeeps
  <1>3. ASSUME NEW n \in Nodes, NEW key \in PublicKeys \cup {NoPublicKey},
               NEW url \in BOOLEAN, Accepted(n, key), RestartAfterAppend(Beat(n, key, url))
        PROVE  IInv'
    BY <1>3, CrashedCallKeeps
  <1>4. ASSUME NEW n \in Nodes,
               RestartAfterAppend([kind |-> "node_left", at |-> Position, node |-> n])
        PROVE  IInv'
    BY <1>4, CrashedCallKeeps
  <1>5. ASSUME NEW n \in Nodes, RecordNodeLeft(n)
        PROVE  IInv'
    BY <1>5, NodeLeftKeeps
  <1>6. ASSUME NEW nodes \in SUBSET Nodes, RecordAllocation(nodes)
        PROVE  IInv'
    BY <1>6, AllocationKeeps
  <1> QED
    BY <1>1, <1>2, <1>3, <1>4, <1>5, <1>6, QualityKeeps, ReadHardwareKeeps, RestartKeeps
       DEF Next

LEMMA Invariance == Spec => []IInv
  BY InitEstablishes, NextKeeps, PTL DEF Spec

\* Type correctness of the registry and its store.
THEOREM TypeCorrect == Spec => []TypeOK
  <1>1. IInv => TypeOK
    BY DEF IInv
  <1> QED
    BY <1>1, Invariance, PTL

\* No crash, replay, compaction or failing store makes the registry forget anything a
\* reader would miss.
THEOREM NothingEverForgotten == Spec => []NothingForgotten
  <1>1. IInv => NothingForgotten
    BY CurrentView DEF IInv, NothingForgotten
  <1> QED
    BY <1>1, Invariance, PTL

\* A node that has once shown an identity key is that key for ever.
THEOREM IdentityAlwaysPinned == Spec => []IdentityPinned
  <1>1. IInv => IdentityPinned
    BY DEF IInv, PinnedIn, IdentityPinned
  <1> QED
    BY <1>1, Invariance, PTL

-----------------------------------------------------------------------------
(* The refinement of Membership.  All that a reader sees of the memory is a *)
(* function of the history; the lemmas say what one event more makes of it. *)

ShownBy(rec) == [n \in Nodes |-> Shown(rec, n)]

\* By PinnedIn it does not matter which heartbeat with a key is taken.
KeyOf(keyed) == IF keyed = {} THEN NoPublicKey ELSE (CHOOSE e \in keyed : TRUE).key

KeysIn(rec) == [n \in Nodes |-> KeyOf(Keyed(rec, n))]

Others(rec) == {e \in rec : e.kind # "heartbeat"}

\* What running allocators have read is still true of the history.
ReadsHold == \A nodes \in allocating : nodes \subseteq KnownNodes(recorded)

\* A log shows the key of each node that the history shows.
LEMMA LogKeys ==
  ASSUME NEW rec, HistoryOf(rec), NEW log, CurrentIn(log, rec), PinnedIn(rec)
  PROVE  FirstKeys(log) = KeysIn(rec)
  <1>1. log \subseteq rec
    BY DEF CurrentIn
  <1>2. /\ PinsFollow(FirstKeys(log), rec)
        /\ FirstKeys(log) \in [Nodes -> PublicKeys \cup {NoPublicKey}]
    BY BootPins
  <1>3. ASSUME NEW n \in Nodes
        PROVE  FirstKeys(log)[n] = KeysIn(rec)[n]
    <2>1. CASE Keyed(rec, n) = {}
      <3>1. Keyed(log, n) = {}
        BY <2>1, <1>1 DEF Keyed, Beats
      <3>2. FirstKeys(log)[n] = NoPublicKey
        BY <3>1 DEF FirstKeys, Keyed
      <3> QED
        BY <2>1, <3>2 DEF KeysIn, KeyOf
    <2>2. CASE Keyed(rec, n) # {}
      <3> DEFINE e == CHOOSE e \in Keyed(rec, n) : TRUE
      <3>1. e \in Keyed(rec, n) /\ KeysIn(rec)[n] = e.key
        BY <2>2 DEF KeysIn, KeyOf
      <3> HIDE DEF e
      <3>2. e \in rec /\ e.kind = "heartbeat" /\ e.node = n /\ e.key # NoPublicKey
        BY <3>1 DEF Keyed, Beats
      <3> QED
        BY <3>1, <3>2, <1>2 DEF PinsFollow
    <2> QED
      BY <2>1, <2>2
  <1>4. KeysIn(rec) = [n \in Nodes |-> KeysIn(rec)[n]]
    BY DEF KeysIn
  <1>5. FirstKeys(log) = [n \in Nodes |-> FirstKeys(log)[n]]
    BY <1>2
  <1> QED
    BY <1>3, <1>4, <1>5

\* What the memory lets a reader see is what the history says.
LEMMA MemoryReads ==
  ASSUME NEW rec, HistoryOf(rec), NEW log, CurrentIn(log, rec), PinnedIn(rec)
  PROVE  /\ [n \in Nodes |-> Shown(log, n)] = ShownBy(rec)
         /\ KnownNodes(log) = KnownNodes(rec)
         /\ FirstKeys(log) = KeysIn(rec)
         /\ {e \in log : e.kind # "heartbeat"} = Others(rec)
  <1>1. \A n \in Nodes : Shown(log, n) = Shown(rec, n)
    BY CurrentView
  <1>2. [n \in Nodes |-> Shown(log, n)] = ShownBy(rec)
    BY <1>1 DEF ShownBy
  <1>3. {e \in rec : e.kind # "heartbeat"} \subseteq log /\ log \subseteq rec
    BY CurrentView DEF CurrentIn
  <1>4. {e \in log : e.kind # "heartbeat"} = Others(rec)
    BY <1>3 DEF Others
  <1> QED
    BY <1>2, <1>4, CurrentView, LogKeys

\* One heartbeat more.
LEMMA AfterBeat ==
  ASSUME NEW rec, HistoryOf(rec), NEW b \in Event, b.at = Cardinality(rec) + 1,
         b.kind = "heartbeat"
  PROVE  /\ ShownBy(rec \cup {b}) = [ShownBy(rec) EXCEPT ![b.node] = {b}]
         /\ KnownNodes(rec \cup {b}) = KnownNodes(rec) \cup {b.node}
         /\ Others(rec \cup {b}) = Others(rec)
  <1> DEFINE grown == rec \cup {b}
  <1>1. \A f \in rec : f.at < b.at /\ f.at \in Nat
    BY GrowHistory, EventFacts DEF HistoryOf
  <1>2. b.node \in Nodes /\ b.at \in Nat
    BY EventFacts
  <1>3. \A n \in Nodes : Beats(grown, n) = IF n = b.node THEN Beats(rec, n) \cup {b}
                                           ELSE Beats(rec, n)
    BY DEF Beats
  <1>4. ~Superseded(grown, b)
    BY <1>1, <1>2 DEF Superseded, Beats
  <1>5. \A f \in rec : f.kind = "heartbeat" /\ f.node = b.node => Superseded(grown, f)
    BY <1>1 DEF Superseded, Beats
  <1>6. \A f \in rec : f.node # b.node => (Superseded(grown, f) <=> Superseded(rec, f))
    BY DEF Superseded, Beats
  <1>7. Shown(grown, b.node) = {b}
    <2>1. b \in Shown(grown, b.node)
      <3>1. b \in Beats(grown, b.node)
        BY DEF Beats
      <3>2. \A f \in grown : ~(f.kind = "node_left" /\ f.at > b.at)
        BY <1>1, <1>2
      <3> QED
        BY <3>1, <3>2, <1>4 DEF Shown
    <2>2. \A f \in Shown(grown, b.node) : f = b
      BY <1>5 DEF Shown, Beats
    <2> QED
      BY <2>1, <2>2
  <1>8. ASSUME NEW n \in Nodes, n # b.node
        PROVE  Shown(grown, n) = Shown(rec, n)
    <2>1. Beats(grown, n) = Beats(rec, n)
      BY <1>3, <1>8
    <2>2. \A f \in Beats(rec, n) : f \in rec /\ f.node # b.node
      BY <1>8 DEF Beats
    <2>3. \A f \in Beats(rec, n) : Superseded(grown, f) <=> Superseded(rec, f)
      BY <2>2, <1>6
    <2>4. \A f \in grown : f.kind = "node_left" => f \in rec
      OBVIOUS
    <2> HIDE DEF grown
    <2> QED
      BY <2>1, <2>3, <2>4 DEF Shown, grown
  <1>9. ShownBy(grown) = [ShownBy(rec) EXCEPT ![b.node] = {b}]
    <2> HIDE DEF grown
    <2> QED
      BY <1>2, <1>7, <1>8 DEF ShownBy
  <1>10. KnownNodes(grown) = KnownNodes(rec) \cup {b.node}
    <2> HIDE DEF grown
    <2> QED
      BY <1>2, <1>3 DEF KnownNodes
  <1>11. Others(grown) = Others(rec)
    BY DEF Others
  <1> QED
    BY <1>9, <1>10, <1>11

\* One event more that is no heartbeat: a node_left hides its node.
LEMMA AfterOther ==
  ASSUME NEW rec, HistoryOf(rec), NEW e \in Event, e.at = Cardinality(rec) + 1,
         e.kind # "heartbeat"
  PROVE  /\ e.kind = "node_left" =>
              ShownBy(rec \cup {e}) = [ShownBy(rec) EXCEPT ![e.node] = {}]
         /\ e.kind # "node_left" => ShownBy(rec \cup {e}) = ShownBy(rec)
         /\ KnownNodes(rec \cup {e}) = KnownNodes(rec)
         /\ KeysIn(rec \cup {e}) = KeysIn(rec)
         /\ Others(rec \cup {e}) = Others(rec) \cup {e}
  <1> DEFINE grown == rec \cup {e}
  <1>1. \A f \in rec : f.at < e.at
    BY GrowHistory
  <1>2. \A n : Beats(grown, n) = Beats(rec, n)
    BY DEF Beats
  <1>3. \A f : Superseded(grown, f) <=> Superseded(rec, f)
    BY <1>2 DEF Superseded
  <1>4. \A n : \A f \in Beats(rec, n) : f \in rec
    BY DEF Beats
  <1>5. e \in grown /\ rec \subseteq grown /\ \A f \in grown : f \in rec \/ f = e
    OBVIOUS
  <1> HIDE DEF grown
  <1>6. \A n \in Nodes : ~(e.kind = "node_left" /\ e.node = n) => Shown(grown, n) = Shown(rec, n)
    BY <1>2, <1>3, <1>5 DEF Shown
  <1>7. \A n \in Nodes : e.kind = "node_left" /\ e.node = n => Shown(grown, n) = {}
    BY <1>1, <1>2, <1>4, <1>5 DEF Shown
  <1>8. e.kind = "node_left" => ShownBy(grown) = [ShownBy(rec) EXCEPT ![e.node] = {}]
    BY <1>6, <1>7 DEF ShownBy
  <1>9. e.kind # "node_left" => ShownBy(grown) = ShownBy(rec)
    BY <1>6 DEF ShownBy
  <1>10. KnownNodes(grown) = KnownNodes(rec)
    BY <1>2 DEF KnownNodes
  <1>11. KeysIn(grown) = KeysIn(rec)
    <2>1. \A n : Keyed(grown, n) = Keyed(rec, n)
      BY <1>2 DEF Keyed
    <2> QED
      BY <2>1 DEF KeysIn
  <1>12. Others(grown) = Others(rec) \cup {e}
    BY DEF Others, grown
  <1> QED
    BY <1>8, <1>9, <1>10, <1>11, <1>12 DEF grown

\* The position of an event that is taken.
LEMMA OneTakenMore ==
  ASSUME IInv, NEW event \in Event, event.at = Position, recorded' = recorded \cup {event}
  PROVE  /\ event.at = Cardinality(recorded) + 1
         /\ Cardinality(recorded') = Cardinality(recorded) + 1
  <1>1. event.at = Cardinality(recorded) + 1
    BY DEF Position
  <1>2. event \notin recorded
    BY <1>1, GrowHistory DEF IInv
  <1> QED
    BY <1>1, <1>2, FS_AddElement DEF IInv, HistoryOf

\* The memory before and after a step that keeps the invariant.
LEMMA StepReads ==
  ASSUME IInv, IInv'
  PROVE  /\ [n \in Nodes |-> Shown(events, n)] = ShownBy(recorded)
         /\ KnownNodes(events) = KnownNodes(recorded)
         /\ FirstKeys(events) = KeysIn(recorded)
         /\ {e \in events : e.kind # "heartbeat"} = Others(recorded)
         /\ [n \in Nodes |-> Shown(events', n)] = ShownBy(recorded')
         /\ KnownNodes(events') = KnownNodes(recorded')
         /\ FirstKeys(events') = KeysIn(recorded')
         /\ {e \in events' : e.kind # "heartbeat"} = Others(recorded')
  <1>1. HistoryOf(recorded) /\ CurrentIn(events, recorded) /\ PinnedIn(recorded)
    BY DEF IInv
  <1>2. HistoryOf(recorded') /\ CurrentIn(events', recorded') /\ PinnedIn(recorded')
    BY DEF IInv
  <1> QED
    BY <1>1, <1>2, MemoryReads

\* A step that takes no event is seen by nobody, whatever it does to the memory.
LEMMA QuietStep ==
  ASSUME IInv, IInv', recorded' = recorded
  PROVE  UNCHANGED Complete!vars
  BY StepReads DEF Complete!vars

\* A heartbeat that the identity check lets pass shows the key the history has, or the
\* first.
LEMMA AcceptedKey ==
  ASSUME IInv, NEW n \in Nodes, NEW key \in PublicKeys \cup {NoPublicKey},
         NEW url \in BOOLEAN, Accepted(n, key), Room,
         PinnedIn(recorded \cup {Beat(n, key, url)})
  PROVE  /\ KeysIn(recorded)[n] \in {NoPublicKey, key}
         /\ KeysIn(recorded \cup {Beat(n, key, url)}) = [KeysIn(recorded) EXCEPT ![n] = key]
  <1> DEFINE b == Beat(n, key, url)
             grown == recorded \cup {b}
  <1>1. b.kind = "heartbeat" /\ b.node = n /\ b.key = key
    BY DEF Beat
  <1>2. \A e \in Keyed(recorded, n) : e.key = key
    <2> SUFFICES ASSUME NEW e \in Keyed(recorded, n) PROVE e.key = key
      OBVIOUS
    <2>1. e \in recorded /\ e.kind = "heartbeat" /\ e.node = n /\ e.key # NoPublicKey
      BY DEF Keyed, Beats
    <2>2. pubkeys[n] = e.key
      BY <2>1 DEF IInv, PinsFollow
    <2> QED
      BY <2>1, <2>2 DEF Accepted
  <1> HIDE DEF b
  <1>3. \A m \in Nodes : m # n => Keyed(grown, m) = Keyed(recorded, m)
    BY <1>1 DEF Keyed, Beats
  <1>4. \A e \in Keyed(grown, n) : e.key = key /\ e.key # NoPublicKey
    BY <1>1, <1>2 DEF Keyed, Beats
  <1>5. key # NoPublicKey => b \in Keyed(grown, n)
    BY <1>1 DEF Keyed, Beats
  <1> HIDE DEF grown
  <1>6. KeysIn(recorded)[n] \in {NoPublicKey, key}
    BY <1>2 DEF KeysIn, KeyOf
  <1>7. KeysIn(grown)[n] = key
    <2>1. CASE key = NoPublicKey
      <3>1. Keyed(grown, n) = {}
        BY <1>4, <2>1
      <3> QED
        BY <2>1, <3>1 DEF KeysIn, KeyOf
    <2>2. CASE key # NoPublicKey
      <3>1. Keyed(grown, n) # {}
        BY <1>5, <2>2
      <3>2. (CHOOSE e \in Keyed(grown, n) : TRUE) \in Keyed(grown, n)
        BY <3>1
      <3> QED
        BY <3>1, <3>2, <1>4 DEF KeysIn, KeyOf
    <2> QED
      BY <2>1, <2>2
  <1>8. \A m \in Nodes : m # n => KeysIn(grown)[m] = KeysIn(recorded)[m]
    BY <1>3 DEF KeysIn
  <1>9. KeysIn(grown) = [KeysIn(recorded) EXCEPT ![n] = key]
    <2>1. KeysIn(grown) = [m \in Nodes |-> KeysIn(grown)[m]]
      BY DEF KeysIn
    <2>2. KeysIn(recorded) = [m \in Nodes |-> KeysIn(recorded)[m]]
      BY DEF KeysIn
    <2> QED
      BY <2>1, <2>2, <1>7, <1>8
  <1> QED
    BY <1>6, <1>9 DEF grown, b

\* A heartbeat that the store took, with the memory that took it or the one that booted
\* after it.
LEMMA BeatIsTaken ==
  ASSUME IInv, IInv', NEW n \in Nodes, NEW key \in PublicKeys \cup {NoPublicKey},
         NEW url \in BOOLEAN, Accepted(n, key), Room,
         recorded' = recorded \cup {Beat(n, key, url)}
  PROVE  Complete!Next
  <1> DEFINE b == Beat(n, key, url)
  <1>1. b \in Event /\ b.at = Position
    BY BeatIsEvent
  <1>2. b.kind = "heartbeat" /\ b.node = n
    BY DEF Beat
  <1>3. b.at = Cardinality(recorded) + 1 /\ Cardinality(recorded') = Cardinality(recorded) + 1
    BY <1>1, OneTakenMore
  <1>4. b = [kind |-> "heartbeat", at |-> Cardinality(recorded'), node |-> n,
             key |-> key, url |-> url]
    BY <1>3 DEF Beat, Position
  <1>5. PinnedIn(recorded \cup {b})
    BY DEF IInv
  <1>6. /\ KeysIn(recorded)[n] \in {NoPublicKey, key}
        /\ KeysIn(recorded') = [KeysIn(recorded) EXCEPT ![n] = key]
    BY <1>5, AcceptedKey
  <1> HIDE DEF b
  <1>7. /\ ShownBy(recorded') = [ShownBy(recorded) EXCEPT ![n] = {b}]
        /\ KnownNodes(recorded') = KnownNodes(recorded) \cup {n}
        /\ Others(recorded') = Others(recorded)
    <2>1. recorded' = recorded \cup {b} /\ HistoryOf(recorded)
      BY DEF b, IInv
    <2>2. /\ ShownBy(recorded \cup {b}) = [ShownBy(recorded) EXCEPT ![b.node] = {b}]
          /\ KnownNodes(recorded \cup {b}) = KnownNodes(recorded) \cup {b.node}
          /\ Others(recorded \cup {b}) = Others(recorded)
      BY <2>1, <1>1, <1>2, <1>3, AfterBeat
    <2> QED
      BY <2>1, <2>2, <1>2
  <1>8. key = NoPublicKey => ~RequireIdentity
    BY DEF Accepted
  <1>9. Complete!RecordHeartbeat(n, key, url)
    BY <1>4, <1>6, <1>7, <1>8, StepReads DEF Complete!RecordHeartbeat
  <1> QED
    BY <1>3, <1>9 DEF Complete!Next

\* What every other event makes of the memory that took it, or booted after it.
LEMMA OtherIsTaken ==
  ASSUME IInv, IInv', NEW event \in Event, event.kind # "heartbeat", event.at = Position,
         recorded' = recorded \cup {event}
  PROVE  /\ Cardinality(recorded') = Cardinality(recorded) + 1
         /\ event.at = Cardinality(recorded')
         /\ event.kind = "node_left" =>
              ShownBy(recorded') = [ShownBy(recorded) EXCEPT ![event.node] = {}]
         /\ event.kind # "node_left" => ShownBy(recorded') = ShownBy(recorded)
         /\ KnownNodes(recorded') = KnownNodes(recorded)
         /\ KeysIn(recorded') = KeysIn(recorded)
         /\ Others(recorded') = Others(recorded) \cup {event}
  <1>1. /\ event.at = Cardinality(recorded) + 1
        /\ Cardinality(recorded') = Cardinality(recorded) + 1
    BY OneTakenMore
  <1>2. HistoryOf(recorded)
    BY DEF IInv
  <1> QED
    BY <1>1, <1>2, AfterOther

LEMMA LeftIsTaken ==
  ASSUME IInv, IInv', NEW n \in Nodes, NEW event, Room,
         event = [kind |-> "node_left", at |-> Position, node |-> n],
         recorded' = recorded \cup {event}
  PROVE  Complete!Next
  <1>1. Position \in 1..MaxLog
    BY PositionIsNat
  <1>2. event \in Event /\ event.kind = "node_left" /\ event.at = Position /\ event.node = n
    BY <1>1 DEF Event, NodeLeft
  <1>3. /\ Cardinality(recorded') = Cardinality(recorded) + 1
        /\ event.at = Cardinality(recorded')
        /\ ShownBy(recorded') = [ShownBy(recorded) EXCEPT ![n] = {}]
        /\ KnownNodes(recorded') = KnownNodes(recorded)
        /\ KeysIn(recorded') = KeysIn(recorded)
        /\ Others(recorded') = Others(recorded) \cup {event}
    BY <1>2, OtherIsTaken
  <1>4. event = [kind |-> "node_left", at |-> Cardinality(recorded'), node |-> n]
    BY <1>2, <1>3
  <1>5. Complete!RecordNodeLeft(n)
    BY <1>3, <1>4, StepReads DEF Complete!RecordNodeLeft, Complete!Keep
  <1> QED
    BY <1>3, <1>5 DEF Complete!Next

LEMMA QualityIsTaken ==
  ASSUME IInv, IInv', RecordQualityObservation
  PROVE  Complete!Next
  <1> DEFINE event == [kind |-> "quality_observation", at |-> Position]
  <1>1. Room /\ recorded' = recorded \cup {event}
    BY DEF RecordQualityObservation, Appended
  <1>2. Position \in 1..MaxLog
    BY <1>1, PositionIsNat
  <1>3. event \in Event /\ event.kind = "quality_observation" /\ event.at = Position
    BY <1>2 DEF Event, Quality
  <1> HIDE DEF event
  <1>4. /\ Cardinality(recorded') = Cardinality(recorded) + 1
        /\ event.at = Cardinality(recorded')
        /\ ShownBy(recorded') = ShownBy(recorded)
        /\ KnownNodes(recorded') = KnownNodes(recorded)
        /\ KeysIn(recorded') = KeysIn(recorded)
        /\ Others(recorded') = Others(recorded) \cup {event}
    BY <1>1, <1>3, OtherIsTaken
  <1>5. event = [kind |-> "quality_observation", at |-> Cardinality(recorded')]
    BY <1>3, <1>4 DEF event
  <1>6. Complete!RecordQualityObservation
    BY <1>4, <1>5, StepReads DEF Complete!RecordQualityObservation, Complete!Keep
  <1> QED
    BY <1>4, <1>6 DEF Complete!Next

\* The nodes of an allocation were read without the lock's protection since, and are
\* known all the same.
LEMMA AllocationIsTaken ==
  ASSUME IInv, IInv', ReadsHold, NEW nodes \in SUBSET Nodes, RecordAllocation(nodes)
  PROVE  Complete!Next
  <1> DEFINE event == [kind |-> "allocation", at |-> Position, nodes |-> nodes]
  <1>1. Room /\ recorded' = recorded \cup {event} /\ nodes \in allocating
    BY DEF RecordAllocation, Appended
  <1>2. Position \in 1..MaxLog
    BY <1>1, PositionIsNat
  <1>3. event \in Event /\ event.kind = "allocation" /\ event.at = Position
    BY <1>2 DEF Event, Allocation
  <1> HIDE DEF event
  <1>4. /\ Cardinality(recorded') = Cardinality(recorded) + 1
        /\ event.at = Cardinality(recorded')
        /\ ShownBy(recorded') = ShownBy(recorded)
        /\ KnownNodes(recorded') = KnownNodes(recorded)
        /\ KeysIn(recorded') = KeysIn(recorded)
        /\ Others(recorded') = Others(recorded) \cup {event}
    BY <1>1, <1>3, OtherIsTaken
  <1>5. event = [kind |-> "allocation", at |-> Cardinality(recorded'), nodes |-> nodes]
    BY <1>3, <1>4 DEF event
  <1>6. nodes \subseteq KnownNodes(recorded)
    BY <1>1 DEF ReadsHold
  <1>7. Complete!RecordAllocation(nodes)
    <2>1. /\ [n \in Nodes |-> Shown(events', n)] = [n \in Nodes |-> Shown(events, n)]
          /\ KnownNodes(events) = KnownNodes(recorded)
          /\ KnownNodes(events') = KnownNodes(events)
          /\ FirstKeys(events') = FirstKeys(events)
      BY <1>4, StepReads
    <2>2. {e \in events' : e.kind # "heartbeat"} = {e \in events : e.kind # "heartbeat"} \cup {event}
      BY <1>4, StepReads
    <2> QED
      BY <2>1, <2>2, <1>5, <1>6 DEF Complete!RecordAllocation, Complete!Keep
  <1> QED
    BY <1>4, <1>7 DEF Complete!Next

\* No step takes an event back, and an allocator reads what the memory knows.
LEMMA ReadsKeep ==
  ASSUME IInv, ReadsHold, [Next]_vars
  PROVE  ReadsHold'
  <1>1. /\ recorded \subseteq recorded'
        /\ allocating' \subseteq allocating \cup {KnownNodes(events)}
    <2>1. ASSUME NEW e, Appended(e) \/ RestartAfterAppend(e)
          PROVE  recorded \subseteq recorded'
      BY <2>1 DEF Appended, RestartAfterAppend
    <2>2. ASSUME NEW e, RestartAfterAppend(e)
          PROVE  allocating' = {}
      BY <2>2 DEF RestartAfterAppend, Booted
    <2>3. ASSUME NEW n \in Nodes, NEW key \in PublicKeys \cup {NoPublicKey},
                 NEW url \in BOOLEAN, RecordHeartbeat(n, key, url)
          PROVE  recorded \subseteq recorded' /\ allocating' = allocating
      BY <2>1, <2>3 DEF RecordHeartbeat
    <2>4. ASSUME NEW n \in Nodes, NEW key \in PublicKeys \cup {NoPublicKey},
                 NEW url \in BOOLEAN, HeartbeatNotStored(n, key, url)
          PROVE  recorded' = recorded /\ allocating' = allocating
      BY <2>4 DEF HeartbeatNotStored
    <2>5. ASSUME NEW n \in Nodes, RecordNodeLeft(n)
          PROVE  recorded \subseteq recorded' /\ allocating' = allocating
      BY <2>1, <2>5 DEF RecordNodeLeft
    <2>6. ASSUME RecordQualityObservation
          PROVE  recorded \subseteq recorded' /\ allocating' = allocating
      BY <2>1, <2>6 DEF RecordQualityObservation
    <2>7. ASSUME NEW nodes \in SUBSET Nodes, RecordAllocation(nodes)
          PROVE  recorded \subseteq recorded' /\ allocating' \subseteq allocating
      BY <2>1, <2>7 DEF RecordAllocation
    <2>8. ReadHardware => recorded' = recorded
                          /\ allocating' = allocating \cup {KnownNodes(events)}
      BY DEF ReadHardware
    <2>9. Restart => recorded' = recorded /\ allocating' = {}
      BY DEF Restart, Booted
    <2>10. CASE UNCHANGED vars
      BY <2>10 DEF vars
    <2> QED
      BY <2>1, <2>2, <2>3, <2>4, <2>5, <2>6, <2>7, <2>8, <2>9, <2>10 DEF Next
  <1>2. KnownNodes(events) = KnownNodes(recorded)
    BY CurrentView DEF IInv
  <1>3. KnownNodes(recorded) \subseteq KnownNodes(recorded')
    BY <1>1 DEF KnownNodes, Beats
  <1> QED
    BY <1>1, <1>2, <1>3 DEF ReadsHold

LEMMA StepImplements ==
  ASSUME IInv, IInv', ReadsHold, [Next]_vars
  PROVE  [Complete!Next]_(Complete!vars)
  <1>1. ASSUME recorded' = recorded
        PROVE  UNCHANGED Complete!vars
    BY <1>1, QuietStep
  <1>2. CASE UNCHANGED vars
    BY <1>1, <1>2 DEF vars
  <1>3. ASSUME NEW n \in Nodes, NEW key \in PublicKeys \cup {NoPublicKey},
               NEW url \in BOOLEAN,
               \/ RecordHeartbeat(n, key, url)
               \/ HeartbeatNotStored(n, key, url)
               \/ Accepted(n, key) /\ RestartAfterAppend(Beat(n, key, url))
        PROVE  Complete!Next \/ UNCHANGED Complete!vars
    <2>1. CASE HeartbeatNotStored(n, key, url)
      BY <1>1, <2>1 DEF HeartbeatNotStored
    <2>2. CASE ~HeartbeatNotStored(n, key, url)
      <3>1. Accepted(n, key) /\ Room /\ recorded' = recorded \cup {Beat(n, key, url)}
        BY <1>3, <2>2 DEF RecordHeartbeat, RestartAfterAppend, Appended
      <3> QED
        BY <3>1, BeatIsTaken
    <2> QED
      BY <2>1, <2>2
  <1>4. ASSUME NEW n \in Nodes,
               \/ RecordNodeLeft(n)
               \/ RestartAfterAppend([kind |-> "node_left", at |-> Position, node |-> n])
        PROVE  Complete!Next
    <2>1. /\ Room
          /\ recorded' = recorded \cup {[kind |-> "node_left", at |-> Position, node |-> n]}
      BY <1>4 DEF RecordNodeLeft, RestartAfterAppend, Appended
    <2> QED
      BY <2>1, LeftIsTaken
  <1>5. CASE ReadHardware \/ Restart
    BY <1>1, <1>5 DEF ReadHardware, Restart
  <1>6. ASSUME NEW nodes \in SUBSET Nodes, RecordAllocation(nodes)
        PROVE  Complete!Next
    BY <1>6, AllocationIsTaken
  <1> QED
    BY <1>2, <1>3, <1>4, <1>5, <1>6, QualityIsTaken DEF Next

LEMMA InitImplements ==
  ASSUME Init
  PROVE  Complete!Init
  <1>1. events = {} /\ recorded = {}
    BY DEF Init
  <1>2. Cardinality({}) = 0
    BY FS_EmptySet
  <1>3. \A n \in Nodes : Shown({}, n) = {} /\ Beats({}, n) = {}
    BY DEF Shown, Beats
  <1>4. FirstKeys({}) = [n \in Nodes |-> NoPublicKey]
    BY <1>3 DEF FirstKeys
  <1> QED
    BY <1>1, <1>2, <1>3, <1>4 DEF Complete!Init, KnownNodes

\* To a reader of the memory, compaction, failing stores, crashes and replays never
\* happened: the registry implements one that keeps everything.
THEOREM ReadersSeeItAll == Spec => ReadsAsComplete
  <1>1. Init => ReadsHold
    BY DEF Init, ReadsHold
  <1>2. IInv /\ ReadsHold /\ [Next]_vars => ReadsHold'
    BY ReadsKeep
  <1>3. IInv /\ IInv' /\ ReadsHold /\ [Next]_vars => [Complete!Next]_(Complete!vars)
    BY StepImplements
  <1>4. Init => Complete!Init
    BY InitImplements
  <1> QED
    BY <1>1, <1>2, <1>3, <1>4, Invariance, PTL DEF Spec, ReadsAsComplete, Complete!Spec
=============================================================================
