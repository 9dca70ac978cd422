---------------------------- MODULE TuningProofs ----------------------------
(***************************************************************************)
(* Proofs about the tuning package, one part after the other, for any      *)
(* value of the constants: the tuning loop is type correct, runs what was  *)
(* enqueued at most once and earns its champions; the audit log's chain is *)
(* intact; a specialist ignites only on a settled cluster; a configuration *)
(* becomes champion only when it is better where nothing fails; a          *)
(* checkpoint says what its pass did.                                      *)
(***************************************************************************)
EXTENDS TuningLoop, AuditLog, Ignition, ConfigChallenger, TrainingNode, TLAPS,
        FiniteSetTheorems, SequenceTheorems

-----------------------------------------------------------------------------
(* TuningLoop.  Its inductive invariant.                                    *)

Pcs == {"idle", "executing", "accepted", "rejected", "kept", "replaced", "down"}
Scored == {Checkpoint(c, e) : c \in Checkpoints, e \in Experiments}
Reading == [read : Seq(Spec_), id : Experiments]
Pairs == [local : Int, cloud : Int]

QueueTypeOK ==
  /\ queue \in Seq(Spec_)
  /\ enqueuing \in [Generators -> Reading \cup {None}]
  /\ added \subseteq Experiments
  /\ executed \in [Experiments -> 0..2]
  /\ overlapped \in BOOLEAN

\* The runner holds an experiment in every state but idle, and is not paused then.
RunnerOK ==
  /\ pc \in Pcs
  /\ specs \in Seq(Spec_)
  /\ at \in 0..Len(specs)
  /\ pc # "idle" => at \in 1..Len(specs) /\ ~paused
  /\ streak \in 0..Threshold
  /\ paused = (streak = Threshold)
  /\ pairs \in Seq(Pairs) /\ Len(pairs) <= Window

Distinct(list) == \A i, j \in 1..Len(list) : list[i].id = list[j].id => i = j

\* No list of experiments, on disk or in memory, has one twice.
NoTwins ==
  /\ Distinct(queue) /\ Distinct(specs)
  /\ \A g \in Generators :
       enqueuing[g] # None =>
         Distinct(enqueuing[g].read) /\ enqueuing[g].id \notin Ids(enqueuing[g].read)

\* As long as no writers overlapped, what was executed is in the queue and pending no more.
OnceOK ==
  ~overlapped =>
    /\ added \subseteq Ids(queue)
    /\ \A e \in Experiments : executed[e] <= 1
    /\ \A i \in Pending(queue) : executed[queue[i].id] = 0
    /\ \A e \in Experiments : executed[e] # 0 => e \in Ids(queue)

Beats(x, y) == MeanDelta(y.row, x.row) >= MeanScoreDelta
Promoted(x) == x \in decisions /\ ~x.stub

RecordOK ==
  /\ decisions \subseteq Scored
  /\ champion # None => Promoted(champion)
  /\ previous # None => Promoted(previous) /\ champion # None
  /\ previous \notin {None, champion} => Beats(champion, previous)
  /\ compared # None => compared \in decisions

\* What is a champion while an experiment runs is the one it is compared with, or one
\* that this one has beaten.
Passed(x) == x = None \/ (compared # None /\ (x = compared \/ Beats(compared, x)))

GateOK ==
  /\ pc \in {"executing", "accepted", "rejected", "kept"} => Passed(champion) /\ Passed(previous)
  /\ pc \in {"accepted", "kept"} =>
       /\ candidate \in decisions
       /\ MeanDelta(ChampionRow, candidate.row) >= MeanScoreDelta
  /\ pc = "kept" => ~candidate.stub

LoopIInv == QueueTypeOK /\ RunnerOK /\ NoTwins /\ OnceOK /\ RecordOK /\ GateOK

-----------------------------------------------------------------------------
(* Lists of experiments.                                                   *)

LEMMA IdsSize ==
  ASSUME NEW list \in Seq(Spec_), Distinct(list)
  PROVE  Cardinality(Ids(list)) = Len(list)
<1> DEFINE f == [i \in 1..Len(list) |-> list[i].id]
<1>1. Len(list) \in Nat /\ DOMAIN list = 1..Len(list)
  OBVIOUS
<1>2. f \in [1..Len(list) -> Ids(list)]
  BY <1>1 DEF Ids
<1>3. \A i, j \in 1..Len(list) : f[i] = f[j] => i = j
  BY DEF Distinct
<1>4. \A e \in Ids(list) : \E i \in 1..Len(list) : f[i] = e
  BY <1>1 DEF Ids
<1> HIDE DEF f
<1>5. ExistsBijection(1..Len(list), Ids(list))
  <2>1. f \in Bijection(1..Len(list), Ids(list))
    BY <1>2, <1>3, <1>4 DEF Bijection, Injection, Surjection, IsInjective
  <2> QED
    BY <2>1 DEF ExistsBijection
<1>6. IsFiniteSet(1..Len(list)) /\ Cardinality(1..Len(list)) = Len(list)
  BY <1>1, FS_Interval
<1> QED
  BY <1>5, <1>6, FS_Bijection

LEMMA MarkedOK ==
  ASSUME NEW list \in Seq(Spec_), NEW i \in 1..Len(list), NEW status \in Statuses
  PROVE  LET marked == Marked(list, i, status)
         IN /\ marked \in Seq(Spec_)
            /\ Len(marked) = Len(list)
            /\ \A j \in 1..Len(list) :
                 /\ marked[j].id = list[j].id
                 /\ marked[j].status = IF j = i THEN status ELSE list[j].status
            /\ Ids(marked) = Ids(list)
            /\ Distinct(list) => Distinct(marked)
<1> DEFINE entry == [list[i] EXCEPT !.status = status]
           marked == Marked(list, i, status)
<1>1. list[i] \in Spec_
  OBVIOUS
<1>2. entry \in Spec_ /\ entry.id = list[i].id /\ entry.status = status
  BY <1>1 DEF Spec_
<1>3. marked = [list EXCEPT ![i] = entry]
  BY DEF Marked
<1> HIDE DEF entry, marked
<1>4. /\ marked \in Seq(Spec_)
      /\ Len(marked) = Len(list)
      /\ \A j \in 1..Len(list) : marked[j] = IF j = i THEN entry ELSE list[j]
  BY <1>2, <1>3, ExceptSeq
<1>5. \A j \in 1..Len(list) :
        /\ marked[j].id = list[j].id
        /\ marked[j].status = IF j = i THEN status ELSE list[j].status
  BY <1>2, <1>4
<1>6. DOMAIN marked = DOMAIN list /\ DOMAIN list = 1..Len(list)
  BY <1>4
<1>7. Ids(marked) = Ids(list)
  BY <1>5, <1>6 DEF Ids
<1>8. Distinct(list) => Distinct(marked)
  BY <1>4, <1>5 DEF Distinct
<1> QED
  BY <1>4, <1>5, <1>7, <1>8 DEF marked

LEMMA AppendOK ==
  ASSUME NEW list \in Seq(Spec_), NEW e \in Experiments, e \notin Ids(list)
  PROVE  LET longer == Append(list, [id |-> e, status |-> "pending"])
         IN /\ longer \in Seq(Spec_)
            /\ Ids(longer) = Ids(list) \cup {e}
            /\ \A i \in Pending(longer) : longer[i].id = e \/ (i \in Pending(list) /\ longer[i] = list[i])
            /\ Distinct(list) => Distinct(longer)
<1> DEFINE entry == [id |-> e, status |-> "pending"]
           longer == Append(list, entry)
           n == Len(list)
<1>1. entry \in Spec_ /\ entry.id = e
  BY DEF Spec_, Statuses
<1> HIDE DEF entry
<1>2. /\ n \in Nat
      /\ longer \in Seq(Spec_)
      /\ Len(longer) = n + 1
      /\ DOMAIN longer = 1..(n + 1) /\ DOMAIN list = 1..n
      /\ longer[n + 1] = entry
      /\ \A i \in 1..n : longer[i] = list[i]
  BY <1>1
<1> HIDE DEF longer, n
<1>3. \A i \in 1..(n + 1) : i \in 1..n \/ i = n + 1
  BY <1>2
<1>4. Ids(longer) = Ids(list) \cup {e}
  <2>1. \A i \in 1..n : i \in 1..(n + 1)
    BY <1>2
  <2>2. n + 1 \in 1..(n + 1)
    BY <1>2
  <2> QED
    BY <1>1, <1>2, <1>3, <2>1, <2>2 DEF Ids
<1>5. \A i \in Pending(longer) : longer[i].id = e \/ (i \in Pending(list) /\ longer[i] = list[i])
  BY <1>1, <1>2, <1>3 DEF Pending
<1>6. ASSUME Distinct(list) PROVE Distinct(longer)
  <2> SUFFICES ASSUME NEW i \in 1..(n + 1), NEW j \in 1..(n + 1), longer[i].id = longer[j].id
               PROVE  i = j
    BY <1>2 DEF Distinct
  <2>1. \A k \in 1..n : longer[k].id # e
    BY <1>2 DEF Ids
  <2>2. CASE i \in 1..n /\ j \in 1..n
    BY <1>2, <1>6, <2>2 DEF Distinct, n
  <2>3. CASE i = n + 1
    BY <1>1, <1>2, <1>3, <2>1, <2>3
  <2>4. CASE j = n + 1
    BY <1>1, <1>2, <1>3, <2>1, <2>4
  <2> QED
    BY <1>3, <2>2, <2>3, <2>4
<1> QED
  BY <1>2, <1>4, <1>5, <1>6 DEF longer, entry

-----------------------------------------------------------------------------
(* The gate.                                                               *)

LEMMA AcceptedGains ==
  ASSUME NEW x, NEW y, Accepts(x, y), x.mean \in Int, y.mean \in Int
  PROVE  MeanDelta(x, y) >= MeanScoreDelta
<1>1. "gain" \notin RejectReasons(x, y)
  BY DEF Accepts
<1>2. ~(MeanDelta(x, y) < MeanScoreDelta)
  BY <1>1 DEF RejectReasons
<1> QED
  BY <1>2, GateAssumption DEF MeanDelta

LEMMA ScoredOK ==
  /\ None \notin Scored
  /\ \A x \in Scored : x.row.mean \in Int /\ x.stub \in BOOLEAN
  /\ Base.mean \in Int
<1>1. \A c \in Checkpoints, e \in Experiments :
        /\ Checkpoint(c, e) # None
        /\ Checkpoint(c, e).row.mean \in Int
        /\ Checkpoint(c, e).stub \in BOOLEAN
  BY LoopAssumption DEF Checkpoint, IsRow
<1>2. Base.mean \in Int
  BY LoopAssumption DEF IsRow
<1> QED
  BY <1>1, <1>2 DEF Scored

LEMMA RecordedOK ==
  ASSUME NEW list \in Seq(Pairs), Len(list) <= Window, NEW pair \in Pairs
  PROVE  Recorded(list, pair) \in Seq(Pairs) /\ Len(Recorded(list, pair)) <= Window
<1> DEFINE all == Append(list, pair)
<1>1. all \in Seq(Pairs) /\ Len(all) = Len(list) + 1 /\ Len(list) \in Nat
  OBVIOUS
<1>2. Recorded(list, pair) = IF Len(all) > Window THEN Tail(all) ELSE all
  BY DEF Recorded
<1> HIDE DEF all
<1>3. Len(all) > 0 => Tail(all) \in Seq(Pairs) /\ Len(Tail(all)) = Len(all) - 1
  BY <1>1
<1> QED
  BY <1>1, <1>2, <1>3, GateAssumption

-----------------------------------------------------------------------------
(* The initial state, and the steps of the generators and the operator.    *)

LEMMA FreshStreak == 0 \in 0..Threshold /\ FALSE = (0 = Threshold)
<1>1. Threshold \in Nat \ {0}
  BY LoopAssumption
<1>2. 0 \in 0..Threshold /\ ~(0 = Threshold)
  BY <1>1
<1> QED
  BY <1>2

LEMMA InitOK == Init => LoopIInv
<1> SUFFICES ASSUME Init PROVE LoopIInv
  OBVIOUS
<1>1. QueueTypeOK
  <2>1. 0 \in 0..2
    OBVIOUS
  <2>2. executed \in [Experiments -> 0..2]
    BY <2>1 DEF Init
  <2>3. enqueuing \in [Generators -> Reading \cup {None}]
    BY DEF Init
  <2>4. queue = <<>> /\ added = {} /\ overlapped = FALSE
    BY DEF Init
  <2>5. queue \in Seq(Spec_) /\ added \subseteq Experiments
    BY <2>4
  <2>6. overlapped \in BOOLEAN
    BY <2>4
  <2> QED
    BY <2>2, <2>3, <2>5, <2>6 DEF QueueTypeOK
<1>2. RunnerOK
  <2>1. /\ pc = "idle" /\ specs = <<>> /\ at = 0
        /\ streak = 0 /\ paused = FALSE /\ pairs = <<>>
    BY DEF Init
  <2>2. paused = (streak = Threshold) /\ streak \in 0..Threshold
    BY <2>1, FreshStreak
  <2>3. Len(pairs) <= Window
    BY <2>1, GateAssumption
  <2> QED
    BY <2>1, <2>2, <2>3 DEF RunnerOK, Pcs
<1>3. NoTwins
  BY DEF Init, NoTwins, Distinct
<1>4. OnceOK
  BY DEF Init, OnceOK, Pending
<1>5. RecordOK
  BY DEF Init, RecordOK
<1>6. GateOK
  BY DEF Init, GateOK
<1> QED
  BY <1>1, <1>2, <1>3, <1>4, <1>5, <1>6 DEF LoopIInv

\* What a step leaves alone.
LEMMA SameRunner ==
  ASSUME LoopIInv, UNCHANGED <<memory, pairs>>
  PROVE  RunnerOK'
  BY DEF LoopIInv, RunnerOK, memory

LEMMA SameGate ==
  ASSUME LoopIInv, UNCHANGED <<memory, disk>>
  PROVE  RecordOK' /\ GateOK'
<1>1. /\ pc' = pc /\ compared' = compared /\ candidate' = candidate
      /\ decisions' = decisions /\ champion' = champion /\ previous' = previous
  BY DEF memory, disk
<1>2. RecordOK'
  BY <1>1 DEF LoopIInv, RecordOK, Promoted
<1>3. GateOK'
  BY <1>1 DEF LoopIInv, GateOK, Passed, ChampionRow
<1> QED
  BY <1>2, <1>3

LEMMA SameQueue ==
  ASSUME LoopIInv, UNCHANGED <<queue, enqueuing, specs, added, executed, overlapped>>
  PROVE  QueueTypeOK' /\ NoTwins' /\ OnceOK'
<1>1. QueueTypeOK'
  BY DEF LoopIInv, QueueTypeOK
<1>2. NoTwins'
  BY DEF LoopIInv, NoTwins
<1>3. OnceOK'
  BY DEF LoopIInv, OnceOK
<1> QED
  BY <1>1, <1>2, <1>3

LEMMA EnqueueReadsOK ==
  ASSUME LoopIInv, NEW g \in Generators, NEW e \in Experiments, EnqueueReads(g, e)
  PROVE  LoopIInv'
<1>1. /\ e \notin Ids(queue)
      /\ enqueuing' = [enqueuing EXCEPT ![g] = [read |-> queue, id |-> e]]
      /\ UNCHANGED <<queue, memory, disk, added, executed, overlapped, counts>>
  BY DEF EnqueueReads, AlreadyQueued
<1>2. \A h \in Generators :
        enqueuing'[h] = IF h = g THEN [read |-> queue, id |-> e] ELSE enqueuing[h]
  BY <1>1 DEF LoopIInv, QueueTypeOK
<1>3. QueueTypeOK'
  BY <1>1 DEF LoopIInv, QueueTypeOK, Reading
<1>4. NoTwins'
  BY <1>1, <1>2 DEF LoopIInv, NoTwins, memory
<1>5. OnceOK'
  BY <1>1 DEF LoopIInv, OnceOK
<1>6. RunnerOK' /\ RecordOK' /\ GateOK'
  BY <1>1, SameRunner, SameGate DEF disk
<1> QED
  BY <1>3, <1>4, <1>5, <1>6 DEF LoopIInv

LEMMA EnqueueWritesOK ==
  ASSUME LoopIInv, NEW g \in Generators, EnqueueWrites(g)
  PROVE  LoopIInv'
<1> DEFINE read == enqueuing[g].read
           e == enqueuing[g].id
<1>1. /\ enqueuing[g] # None
      /\ queue' = Append(read, [id |-> e, status |-> "pending"])
      /\ added' = added \cup {e}
      /\ overlapped' = (overlapped \/ read # queue)
      /\ enqueuing' = [enqueuing EXCEPT ![g] = None]
      /\ UNCHANGED <<memory, disk, executed, counts>>
  BY DEF EnqueueWrites
<1>2. /\ read \in Seq(Spec_) /\ e \in Experiments
      /\ Distinct(read) /\ e \notin Ids(read)
  BY <1>1 DEF LoopIInv, QueueTypeOK, NoTwins, Reading
<1> HIDE DEF read, e
<1>3. /\ queue' \in Seq(Spec_)
      /\ Ids(queue') = Ids(read) \cup {e}
      /\ \A i \in Pending(queue') :
           queue'[i].id = e \/ (i \in Pending(read) /\ queue'[i] = read[i])
      /\ Distinct(queue')
  BY <1>1, <1>2, AppendOK
<1>4. QueueTypeOK'
  BY <1>1, <1>2, <1>3 DEF LoopIInv, QueueTypeOK
<1>5. NoTwins'
  <2>1. \A h \in Generators : enqueuing'[h] = IF h = g THEN None ELSE enqueuing[h]
    BY <1>1 DEF LoopIInv, QueueTypeOK
  <2> QED
    BY <1>1, <1>3, <2>1 DEF LoopIInv, NoTwins, memory
<1>6. OnceOK'
  <2> SUFFICES ASSUME ~overlapped'
               PROVE  /\ added' \subseteq Ids(queue')
                      /\ \A x \in Experiments : executed[x] <= 1
                      /\ \A i \in Pending(queue') : executed[queue'[i].id] = 0
                      /\ \A x \in Experiments : executed[x] # 0 => x \in Ids(queue')
    BY <1>1 DEF OnceOK
  <2>1. ~overlapped /\ read = queue
    BY <1>1
  <2>2. /\ added \subseteq Ids(queue)
        /\ \A x \in Experiments : executed[x] <= 1
        /\ \A i \in Pending(queue) : executed[queue[i].id] = 0
        /\ \A x \in Experiments : executed[x] # 0 => x \in Ids(queue)
    BY <2>1 DEF LoopIInv, OnceOK
  <2>3. executed[e] = 0
    BY <1>2, <2>1, <2>2
  <2>4. Ids(queue') = Ids(queue) \cup {e}
    BY <1>3, <2>1
  <2>5. ASSUME NEW i \in Pending(queue') PROVE executed[queue'[i].id] = 0
    BY <1>3, <2>1, <2>2, <2>3
  <2>6. added' \subseteq Ids(queue')
    BY <1>1, <2>2, <2>4
  <2> QED
    BY <2>2, <2>4, <2>5, <2>6
<1>7. RunnerOK' /\ RecordOK' /\ GateOK'
  BY <1>1, SameRunner, SameGate DEF disk
<1> QED
  BY <1>4, <1>5, <1>6, <1>7 DEF LoopIInv

LEMMA RollbackOK ==
  ASSUME LoopIInv, Rollback
  PROVE  LoopIInv'
<1>1. /\ champion' = previous /\ previous' = None
      /\ UNCHANGED <<queue, enqueuing, memory, decisions, pairs, added, executed, overlapped>>
  BY DEF Rollback
<1>2. /\ pc' = pc /\ specs' = specs /\ compared' = compared /\ candidate' = candidate
  BY <1>1 DEF memory
<1>3. QueueTypeOK' /\ NoTwins' /\ OnceOK'
  BY <1>1, <1>2, SameQueue
<1>4. RunnerOK'
  BY <1>1, SameRunner
<1>5. RecordOK'
  BY <1>1, <1>2 DEF LoopIInv, RecordOK, Promoted
<1>6. GateOK'
  BY <1>1, <1>2 DEF LoopIInv, GateOK, Passed, ChampionRow
<1> QED
  BY <1>3, <1>4, <1>5, <1>6 DEF LoopIInv

LEMMA RestartOK ==
  ASSUME LoopIInv, Restart
  PROVE  LoopIInv'
<1>1. /\ streak' = 0 /\ paused' = FALSE
      /\ pc' = "idle" /\ specs' = <<>> /\ at' = 0 /\ compared' = None
      /\ UNCHANGED <<queue, enqueuing, disk, added, executed, overlapped>>
  BY DEF Restart, BackToIdle
<1>2. QueueTypeOK' /\ OnceOK'
  BY <1>1 DEF LoopIInv, QueueTypeOK, OnceOK
<1>3. NoTwins'
  BY <1>1 DEF LoopIInv, NoTwins, Distinct
<1>4. RunnerOK'
  <2>1. paused' = (streak' = Threshold) /\ streak' \in 0..Threshold
    BY <1>1, FreshStreak
  <2>2. pairs' \in Seq(Pairs) /\ Len(pairs') <= Window
    BY <1>1 DEF LoopIInv, RunnerOK, disk
  <2> QED
    BY <1>1, <2>1, <2>2 DEF RunnerOK, Pcs
<1>5. RecordOK' /\ GateOK'
  BY <1>1 DEF LoopIInv, RecordOK, Promoted, GateOK, disk
<1> QED
  BY <1>2, <1>3, <1>4, <1>5 DEF LoopIInv

-----------------------------------------------------------------------------
(* The steps of the runner.                                                *)

LEMMA StartOK ==
  ASSUME LoopIInv, NEW i \in DOMAIN queue, Start(i)
  PROVE  LoopIInv'
<1> DEFINE e == queue[i].id
<1>1. /\ pc = "idle" /\ ~paused
      /\ queue[i].status = "pending"
      /\ at' = i
      /\ specs' = Marked(queue, i, "running") /\ queue' = specs'
      /\ pc' = "executing" /\ compared' = champion /\ candidate' = candidate
      /\ executed' = [executed EXCEPT ![e] = IF @ = 2 THEN 2 ELSE @ + 1]
      /\ UNCHANGED <<enqueuing, streak, paused, disk, added, overlapped, counts>>
      /\ i \in Pending(queue)
  BY DEF Start, IsPicked, Pending
<1>2. /\ queue \in Seq(Spec_) /\ i \in 1..Len(queue) /\ DOMAIN queue = 1..Len(queue)
      /\ Distinct(queue)
      /\ \A j \in 1..Len(queue) : queue[j].id \in Experiments
      /\ executed \in [Experiments -> 0..2]
  <2>1. queue \in Seq(Spec_) /\ Distinct(queue) /\ executed \in [Experiments -> 0..2]
    BY DEF LoopIInv, QueueTypeOK, NoTwins
  <2>2. DOMAIN queue = 1..Len(queue) /\ \A j \in 1..Len(queue) : queue[j] \in Spec_
    BY <2>1
  <2> QED
    BY <2>1, <2>2 DEF Spec_
<1>3. /\ queue' \in Seq(Spec_) /\ Len(queue') = Len(queue)
      /\ \A j \in 1..Len(queue) :
           /\ queue'[j].id = queue[j].id
           /\ queue'[j].status = IF j = i THEN "running" ELSE queue[j].status
      /\ Ids(queue') = Ids(queue)
      /\ Distinct(queue')
  <2>1. "running" \in Statuses
    BY DEF Statuses
  <2> QED
    BY <1>1, <1>2, <2>1, MarkedOK
<1> HIDE DEF e
<1>4. QueueTypeOK'
  <2>1. \A n \in 0..2 : (IF n = 2 THEN 2 ELSE n + 1) \in 0..2
    OBVIOUS
  <2>2. executed' \in [Experiments -> 0..2]
    BY <1>1, <1>2, <2>1
  <2> QED
    BY <1>1, <1>3, <2>2 DEF LoopIInv, QueueTypeOK
<1>5. NoTwins'
  BY <1>1, <1>3 DEF LoopIInv, NoTwins
<1>6. RunnerOK'
  BY <1>1, <1>2, <1>3 DEF LoopIInv, RunnerOK, Pcs, disk
<1>7. OnceOK'
  <2> SUFFICES ASSUME ~overlapped
               PROVE  /\ added \subseteq Ids(queue)
                      /\ \A x \in Experiments : executed'[x] <= 1
                      /\ \A j \in Pending(queue') : executed'[queue'[j].id] = 0
                      /\ \A x \in Experiments : executed'[x] # 0 => x \in Ids(queue)
    BY <1>1, <1>3 DEF OnceOK
  <2>1. /\ added \subseteq Ids(queue)
        /\ \A x \in Experiments : executed[x] <= 1
        /\ \A j \in Pending(queue) : executed[queue[j].id] = 0
        /\ \A x \in Experiments : executed[x] # 0 => x \in Ids(queue)
    BY DEF LoopIInv, OnceOK
  <2>2. executed[e] = 0 /\ e \in Ids(queue)
    BY <1>1, <1>2, <2>1 DEF e, Ids
  <2>3. \A x \in Experiments : executed'[x] = IF x = e THEN 1 ELSE executed[x]
    BY <1>1, <1>2, <2>2
  <2>4. ASSUME NEW j \in Pending(queue')
        PROVE  executed'[queue'[j].id] = 0
    <3>1. j \in 1..Len(queue) /\ queue'[j].status = "pending"
      BY <1>3 DEF Pending
    <3>2. j # i /\ j \in Pending(queue) /\ queue'[j].id = queue[j].id
      BY <1>2, <1>3, <3>1 DEF Pending
    <3>3. queue[j].id # e /\ queue[j].id \in Experiments
      BY <1>2, <3>1, <3>2 DEF Distinct, e
    <3> QED
      BY <2>1, <2>3, <3>2, <3>3
  <2> QED
    BY <2>1, <2>2, <2>3, <2>4
<1>8. RecordOK'
  BY <1>1 DEF LoopIInv, RecordOK, Promoted, disk
<1>9. GateOK'
  <2>1. pc' = "executing" /\ compared' = champion /\ champion' = champion /\ previous' = previous
    BY <1>1 DEF disk
  <2>2. Passed(champion)' /\ Passed(previous)'
    BY <2>1 DEF LoopIInv, RecordOK, Passed, Beats
  <2> QED
    BY <2>1, <2>2 DEF GateOK
<1> QED
  BY <1>4, <1>5, <1>6, <1>7, <1>8, <1>9 DEF LoopIInv

\* The writes with which a tick ends.
LEMMA WriteBackOK ==
  ASSUME LoopIInv, pc # "idle",
         NEW status \in Statuses \ {"pending"},
         WriteBack(status), BackToIdle,
         streak' \in 0..Threshold,
         paused' = (streak' = Threshold),
         UNCHANGED <<enqueuing, disk, added, executed, counts>>
  PROVE  LoopIInv'
<1>1. /\ queue' = Marked(specs, at, status)
      /\ overlapped' = (overlapped \/ queue # specs)
      /\ pc' = "idle" /\ specs' = <<>> /\ at' = 0 /\ compared' = None
  BY DEF WriteBack, BackToIdle
<1>2. /\ specs \in Seq(Spec_) /\ at \in 1..Len(specs) /\ Distinct(specs)
  BY DEF LoopIInv, RunnerOK, NoTwins
<1>3. /\ queue' \in Seq(Spec_) /\ Len(queue') = Len(specs)
      /\ \A j \in 1..Len(specs) :
           /\ queue'[j].id = specs[j].id
           /\ queue'[j].status = IF j = at THEN status ELSE specs[j].status
      /\ Ids(queue') = Ids(specs)
      /\ Distinct(queue')
  BY <1>1, <1>2, MarkedOK
<1>4. QueueTypeOK'
  BY <1>1, <1>3 DEF LoopIInv, QueueTypeOK
<1>5. NoTwins'
  BY <1>1, <1>3 DEF LoopIInv, NoTwins, Distinct
<1>6. RunnerOK'
  BY <1>1 DEF LoopIInv, RunnerOK, Pcs, disk
<1>7. OnceOK'
  <2> SUFFICES ASSUME ~overlapped'
               PROVE  /\ added \subseteq Ids(queue')
                      /\ \A x \in Experiments : executed[x] <= 1
                      /\ \A j \in Pending(queue') : executed[queue'[j].id] = 0
                      /\ \A x \in Experiments : executed[x] # 0 => x \in Ids(queue')
    BY DEF OnceOK
  <2>1. ~overlapped /\ specs = queue
    BY <1>1
  <2>2. \A j \in Pending(queue') : j \in Pending(queue) /\ queue'[j].id = queue[j].id
    BY <1>2, <1>3, <2>1 DEF Pending
  <2> QED
    BY <1>3, <2>1, <2>2 DEF LoopIInv, OnceOK
<1>8. RecordOK' /\ GateOK'
  BY <1>1 DEF LoopIInv, RecordOK, Promoted, GateOK, disk
<1> QED
  BY <1>4, <1>5, <1>6, <1>7, <1>8 DEF LoopIInv

\* While the runner holds an experiment, one more fast failure does not pass the threshold.
LEMMA StreakOK ==
  ASSUME LoopIInv, pc # "idle"
  PROVE  /\ streak + 1 \in 0..Threshold
         /\ 0 \in 0..Threshold
         /\ paused = (0 = Threshold)
<1>1. ~paused /\ streak \in 0..Threshold /\ paused = (streak = Threshold)
  BY DEF LoopIInv, RunnerOK
<1>2. ~(streak = Threshold)
  BY <1>1, Zenon
<1>3. Threshold \in Nat \ {0}
  BY LoopAssumption
<1>4. streak + 1 \in 0..Threshold /\ 0 \in 0..Threshold
  BY <1>1, <1>2, <1>3
<1>5. paused = FALSE
  BY <1>1, <1>2, Zenon
<1> QED
  BY <1>4, <1>5, FreshStreak

LEMMA FailOK ==
  ASSUME LoopIInv, Fail
  PROVE  LoopIInv'
<1>1. /\ pc # "idle"
      /\ WriteBack("failed") /\ BackToIdle
      /\ streak' \in {streak + 1, 0}
      /\ paused' = (streak' >= Threshold)
      /\ UNCHANGED <<enqueuing, disk, added, executed, counts>>
  BY DEF Fail, StreakAfter
<1>2. "failed" \in Statuses \ {"pending"}
  BY DEF Statuses
<1>3. streak' \in 0..Threshold
  BY <1>1, StreakOK
<1>4. paused' = (streak' = Threshold)
  <2>1. (streak' >= Threshold) <=> (streak' = Threshold)
    BY <1>3, LoopAssumption
  <2> QED
    BY <1>1, <2>1
<1> QED
  BY <1>1, <1>2, <1>3, <1>4, WriteBackOK

LEMMA RunUnscoredOK ==
  ASSUME LoopIInv, RunUnscored
  PROVE  LoopIInv'
<1>1. /\ pc # "idle"
      /\ WriteBack("done") /\ BackToIdle
      /\ streak' = 0 /\ paused' = paused
      /\ UNCHANGED <<enqueuing, disk, added, executed, counts>>
  BY DEF RunUnscored
<1>2. "done" \in Statuses \ {"pending"}
  BY DEF Statuses
<1>3. streak' \in 0..Threshold /\ paused' = (streak' = Threshold)
  BY <1>1, StreakOK
<1> QED
  BY <1>1, <1>2, <1>3, WriteBackOK

LEMMA ArchiveOK ==
  ASSUME LoopIInv, Archive
  PROVE  LoopIInv'
<1>1. /\ pc # "idle"
      /\ WriteBack("archived") /\ BackToIdle
      /\ streak' = streak /\ paused' = paused
      /\ UNCHANGED <<enqueuing, disk, added, executed, counts>>
  BY DEF Archive
<1>2. "archived" \in Statuses \ {"pending"}
  BY DEF Statuses
<1>3. streak' \in 0..Threshold /\ paused' = (streak' = Threshold)
  BY <1>1 DEF LoopIInv, RunnerOK
<1> QED
  BY <1>1, <1>2, <1>3, WriteBackOK

LEMMA PromoteOK ==
  ASSUME LoopIInv, Promote
  PROVE  LoopIInv'
<1>1. /\ pc # "idle"
      /\ WriteBack("promoted") /\ BackToIdle
      /\ streak' = streak /\ paused' = paused
      /\ UNCHANGED <<enqueuing, disk, added, executed, counts>>
  BY DEF Promote
<1>2. "promoted" \in Statuses \ {"pending"}
  BY DEF Statuses
<1>3. streak' \in 0..Threshold /\ paused' = (streak' = Threshold)
  BY <1>1 DEF LoopIInv, RunnerOK
<1> QED
  BY <1>1, <1>2, <1>3, WriteBackOK

LEMMA JudgeOK ==
  ASSUME LoopIInv, Judge
  PROVE  LoopIInv'
<1>1. /\ pc = "executing" /\ streak' = 0
      /\ UNCHANGED <<queue, enqueuing, specs, at, compared, paused, champion, previous,
                     added, executed, overlapped>>
      /\ decisions' = IF pc' = "accepted" THEN decisions \cup {candidate'} ELSE decisions
  BY DEF Judge
<1>2. PICK c \in Checkpoints :
        /\ candidate' = Checkpoint(c, Running)
        /\ \/ /\ Accepts(ChampionRow, c.row) /\ pc' = "accepted" /\ UNCHANGED pairs
           \/ /\ Accepts(ChampionRow, c.row)
              /\ pc' \in {"accepted", "rejected"}
              /\ \E pair \in [local : {c.row.mean}, cloud : {0, c.row.mean}] :
                   pairs' = Recorded(pairs, pair)
           \/ /\ pc' = "rejected" /\ UNCHANGED pairs
  BY DEF Judge
<1>3. QueueTypeOK' /\ NoTwins' /\ OnceOK'
  BY <1>1, SameQueue
<1>4. Running \in Experiments
  <2>1. specs[at] \in Spec_
    BY <1>1 DEF LoopIInv, RunnerOK
  <2> QED
    BY <2>1 DEF Running, Spec_
<1>5. candidate' \in Scored /\ candidate'.row = c.row
  BY <1>2, <1>4 DEF Scored, Checkpoint
<1>6. RunnerOK'
  <2>1. c.row.mean \in Int
    BY LoopAssumption DEF IsRow
  <2>2. pairs' \in Seq(Pairs) /\ Len(pairs') <= Window
    <3>1. \A pair \in [local : {c.row.mean}, cloud : {0, c.row.mean}] : pair \in Pairs
      BY <2>1 DEF Pairs
    <3>2. pairs \in Seq(Pairs) /\ Len(pairs) <= Window
      BY DEF LoopIInv, RunnerOK
    <3> QED
      BY <1>2, <3>1, <3>2, RecordedOK
  <2>3. pc' \in Pcs
    BY <1>2 DEF Pcs
  <2>4. paused' = (streak' = Threshold) /\ streak' \in 0..Threshold
    BY <1>1, StreakOK
  <2> QED
    BY <1>1, <2>2, <2>3, <2>4 DEF LoopIInv, RunnerOK
<1>7. RecordOK'
  BY <1>1, <1>5 DEF LoopIInv, RecordOK, Promoted, Beats
<1>8. GateOK'
  <2>1. Passed(champion)' /\ Passed(previous)'
    BY <1>1 DEF LoopIInv, GateOK, Passed, Beats
  <2>2. pc' # "kept" /\ (pc' = "accepted" => candidate' \in decisions')
    BY <1>1, <1>2
  <2>3. ASSUME pc' = "accepted"
        PROVE  MeanDelta(ChampionRow, candidate'.row) >= MeanScoreDelta
    <3>1. Accepts(ChampionRow, c.row)
      BY <1>2, <2>3
    <3>2. c.row.mean \in Int
      BY LoopAssumption DEF IsRow
    <3>3. ChampionRow.mean \in Int
      BY ScoredOK DEF LoopIInv, RecordOK, ChampionRow
    <3> QED
      BY <1>5, <3>1, <3>2, <3>3, AcceptedGains
  <2>4. ChampionRow' = ChampionRow
    BY <1>1 DEF ChampionRow
  <2> QED
    BY <2>1, <2>2, <2>3, <2>4 DEF GateOK
<1> QED
  BY <1>3, <1>6, <1>7, <1>8 DEF LoopIInv

\* The steps of a promotion leave the queue and the runner's list alone.
LEMMA PromotingOK ==
  ASSUME LoopIInv,
         pc # "idle", pc' \in Pcs \ {"idle"},
         UNCHANGED <<queue, enqueuing, specs, at, streak, paused, pairs, added, executed,
                     overlapped>>
  PROVE  QueueTypeOK' /\ NoTwins' /\ OnceOK' /\ RunnerOK'
<1>1. RunnerOK'
  BY DEF LoopIInv, RunnerOK
<1> QED
  BY <1>1, SameQueue

LEMMA PromoteRefusesOK ==
  ASSUME LoopIInv, PromoteRefuses
  PROVE  LoopIInv'
<1>1. /\ pc = "accepted" /\ pc' = "down"
      /\ UNCHANGED <<queue, enqueuing, specs, at, compared, candidate, streak, paused, disk,
                     added, executed, overlapped>>
  BY DEF PromoteRefuses
<1>2. QueueTypeOK' /\ NoTwins' /\ OnceOK' /\ RunnerOK'
  BY <1>1, PromotingOK DEF Pcs, disk
<1>3. RecordOK' /\ GateOK'
  BY <1>1 DEF LoopIInv, RecordOK, Promoted, Beats, GateOK, disk
<1> QED
  BY <1>2, <1>3 DEF LoopIInv

LEMMA PromoteKeepsPreviousOK ==
  ASSUME LoopIInv, PromoteKeepsPrevious
  PROVE  LoopIInv'
<1>1. /\ pc = "accepted" /\ pc' = "kept"
      /\ ~candidate.stub
      /\ previous' = champion
      /\ UNCHANGED <<queue, enqueuing, specs, at, compared, candidate, streak, paused,
                     decisions, champion, pairs, added, executed, overlapped>>
  BY DEF PromoteKeepsPrevious, Promotable
<1>2. QueueTypeOK' /\ NoTwins' /\ OnceOK' /\ RunnerOK'
  BY <1>1, PromotingOK DEF Pcs
<1>3. RecordOK'
  BY <1>1 DEF LoopIInv, RecordOK, Promoted
<1>4. GateOK'
  BY <1>1 DEF LoopIInv, GateOK, Passed, Beats, ChampionRow
<1> QED
  BY <1>2, <1>3, <1>4 DEF LoopIInv

\* A candidate that beats the champion it was compared with beats what that one has beaten.
LEMMA PromoteReplacesOK ==
  ASSUME LoopIInv, PromoteReplaces
  PROVE  LoopIInv'
<1>1. /\ pc = "kept" /\ pc' = "replaced"
      /\ champion' = candidate
      /\ UNCHANGED <<queue, enqueuing, specs, at, compared, candidate, streak, paused,
                     decisions, previous, pairs, added, executed, overlapped>>
  BY DEF PromoteReplaces
<1>2. QueueTypeOK' /\ NoTwins' /\ OnceOK' /\ RunnerOK'
  BY <1>1, PromotingOK DEF Pcs
<1>3. /\ candidate \in decisions /\ ~candidate.stub /\ candidate \in Scored /\ candidate # None
      /\ MeanDelta(ChampionRow, candidate.row) >= MeanScoreDelta
      /\ Passed(previous)
  BY <1>1, ScoredOK DEF LoopIInv, GateOK, RecordOK
<1>4. ASSUME previous # None
      PROVE  Beats(candidate, previous)
  <2>1. /\ compared # None /\ ChampionRow = compared.row
        /\ previous = compared \/ Beats(compared, previous)
    BY <1>3, <1>4 DEF Passed, ChampionRow
  <2>2. compared \in Scored /\ previous \in Scored
    BY <1>4, <2>1 DEF LoopIInv, RecordOK, Promoted
  <2>3. candidate.row.mean \in Int /\ compared.row.mean \in Int /\ previous.row.mean \in Int
    BY <1>3, <2>2, ScoredOK
  <2>4. candidate.row.mean - compared.row.mean >= MeanScoreDelta
    BY <1>3, <2>1 DEF MeanDelta
  <2>5. previous = compared \/ compared.row.mean - previous.row.mean >= MeanScoreDelta
    BY <2>1 DEF Beats, MeanDelta
  <2>6. candidate.row.mean - previous.row.mean >= MeanScoreDelta
    BY <2>3, <2>4, <2>5, GateAssumption
  <2> QED
    BY <2>6 DEF Beats, MeanDelta
<1>5. RecordOK'
  BY <1>1, <1>3, <1>4 DEF LoopIInv, RecordOK, Promoted, Beats
<1>6. GateOK'
  BY <1>1 DEF GateOK
<1> QED
  BY <1>2, <1>5, <1>6 DEF LoopIInv

-----------------------------------------------------------------------------
(* The invariant is inductive.                                             *)

LEMMA NextOK == LoopIInv /\ [Next]_vars => LoopIInv'
<1> SUFFICES ASSUME LoopIInv, [Next]_vars PROVE LoopIInv'
  OBVIOUS
<1>1. CASE StartEval \/ StartTrain
  BY <1>1, StartOK DEF StartEval, StartTrain
<1>2. CASE Fail
  BY <1>2, FailOK
<1>3. CASE RunUnscored
  BY <1>3, RunUnscoredOK
<1>4. CASE Judge
  BY <1>4, JudgeOK
<1>5. CASE Archive
  BY <1>5, ArchiveOK
<1>6. CASE PromoteRefuses
  BY <1>6, PromoteRefusesOK
<1>7. CASE PromoteKeepsPrevious
  BY <1>7, PromoteKeepsPreviousOK
<1>8. CASE PromoteReplaces
  BY <1>8, PromoteReplacesOK
<1>9. CASE Promote
  BY <1>9, PromoteOK
<1>10. CASE Enqueue
  BY <1>10, EnqueueReadsOK, EnqueueWritesOK DEF Enqueue
<1>11. CASE Rollback
  BY <1>11, RollbackOK
<1>12. CASE Restart
  BY <1>12, RestartOK
<1>13. CASE UNCHANGED vars
  <2>1. UNCHANGED <<memory, disk>>
        /\ UNCHANGED <<queue, enqueuing, specs, added, executed, overlapped>>
        /\ UNCHANGED <<memory, pairs>>
    BY <1>13 DEF vars, memory, disk
  <2> QED
    BY <2>1, SameRunner, SameGate, SameQueue DEF LoopIInv
<1> QED
  BY <1>1, <1>2, <1>3, <1>4, <1>5, <1>6, <1>7, <1>8, <1>9, <1>10, <1>11, <1>12, <1>13
  DEF Next, Tick

LEMMA Inductive == Safety => []LoopIInv
  BY InitOK, NextOK, PTL DEF Safety

LEMMA IInvImpliesTypeOK == LoopIInv => TypeOK
<1> SUFFICES ASSUME LoopIInv PROVE TypeOK
  OBVIOUS
<1>1. Cardinality(Ids(queue)) = Len(queue)
  BY IdsSize DEF LoopIInv, QueueTypeOK, NoTwins
<1>2. {champion, previous, compared} \ {None} \subseteq decisions
  BY DEF LoopIInv, RecordOK, Promoted
<1>3. /\ queue \in Seq(Spec_) /\ specs \in Seq(Spec_)
      /\ pc \in {"idle", "executing", "accepted", "rejected", "kept", "replaced", "down"}
      /\ at \in 0..Len(specs) /\ streak \in 0..Threshold
      /\ paused = (streak = Threshold) /\ Len(pairs) <= Window
  BY DEF LoopIInv, QueueTypeOK, RunnerOK, Pcs
<1> QED
  BY <1>1, <1>2, <1>3 DEF TypeOK

LEMMA IInvImpliesQueuedOnce == LoopIInv => QueuedOnce
  BY DEF LoopIInv, OnceOK, QueuedOnce

LEMMA IInvImpliesEarned == LoopIInv => ChampionEarned
  BY DEF LoopIInv, RecordOK, Promoted, Beats, ChampionEarned

-----------------------------------------------------------------------------
(* The runner's state keeps its types, the breaker is paused exactly at    *)
(* its threshold and the queue never holds an experiment twice.            *)
THEOREM LoopTypeCorrect == Safety => []TypeOK
  BY Inductive, IInvImpliesTypeOK, PTL

(* What enqueue added stays in the queue and runs at most once, through    *)
(* failures and restarts, while no two writers of the queue overlap.       *)
THEOREM AlwaysQueuedOnce == Safety => []QueuedOnce
  BY Inductive, IInvImpliesQueuedOnce, PTL

(* The champion has an accepting verdict on record and beats the one that  *)
(* a rollback would restore, wherever promotions, rollbacks and crashes    *)
(* fall.                                                                   *)
THEOREM ChampionAlwaysEarned == Safety => []ChampionEarned
  BY Inductive, IInvImpliesEarned, PTL

-----------------------------------------------------------------------------
(* AuditLog.  Its inductive invariant.                                      *)

Contents == Seq(Nat \X Verdicts)
Rows == [torn : {FALSE}, seq : Nat, prev : Contents, verdict : Verdicts]

AuditTypeOK ==
  /\ lines \in Seq(Rows \cup {Garbage})
  /\ recorder \in [seq : Nat, prev : Contents, up : BOOLEAN]
  /\ teeing \in [Threads -> Rows \cup {Nobody}]
  /\ faulted \in BOOLEAN

\* Every line is a row that goes on where the one before it ends.
Linked(log) ==
  \A i \in 1..Len(log) :
    /\ log[i] \in Rows
    /\ log[i].seq = i - 1
    /\ log[i].prev = IF i = 1 THEN Genesis ELSE Hash(log[i - 1])

\* Without a fault the log is a chain, and the recorder is at its tip.
Chained ==
  ~faulted =>
    /\ Linked(lines)
    /\ recorder.up => recorder = Resume(lines)
    /\ returned \subseteq ToSet(lines)

\* What a thread is about to tee is in the log already.
Logged ==
  Garbage \notin ToSet(lines) =>
    /\ sink \subseteq ToSet(lines)
    /\ \A t \in Threads : teeing[t] # Nobody => teeing[t] \in ToSet(lines)

AuditIInv == AuditTypeOK /\ Chained /\ Logged

-----------------------------------------------------------------------------
(* The log.                                                                *)

LEMMA RowIsWhole == \A row \in Rows : row # Garbage
  BY DEF Rows, Garbage

LEMMA HashType == \A row \in Rows : Hash(row) \in Contents
<1> SUFFICES ASSUME NEW row \in Rows PROVE Hash(row) \in Contents
  OBVIOUS
<1>1. row.prev \in Seq(Nat \X Verdicts) /\ <<row.seq, row.verdict>> \in Nat \X Verdicts
  BY DEF Rows, Contents
<1> QED
  BY <1>1 DEF Hash, Contents

LEMMA LinkedHasNoGarbage ==
  ASSUME NEW log, log \in Seq(Rows \cup {Garbage}), Linked(log)
  PROVE  Garbage \notin ToSet(log)
  BY RowIsWhole DEF Linked, ToSet

\* Appending to a log keeps what is in it.
LEMMA AppendKeeps ==
  ASSUME NEW S, NEW log \in Seq(S), NEW row \in S
  PROVE  /\ ToSet(log) \subseteq ToSet(Append(log, row))
         /\ row \in ToSet(Append(log, row))
<1>1. /\ DOMAIN Append(log, row) = 1..(Len(log) + 1)
      /\ DOMAIN log = 1..Len(log)
      /\ Len(log) \in Nat
      /\ \A i \in 1..Len(log) : Append(log, row)[i] = log[i]
      /\ Append(log, row)[Len(log) + 1] = row
  OBVIOUS
<1>2. ToSet(log) \subseteq ToSet(Append(log, row))
  BY <1>1 DEF ToSet
<1>3. row \in ToSet(Append(log, row))
  BY <1>1 DEF ToSet
<1> QED
  BY <1>2, <1>3

\* What is behind a write: the log as it was, where half a line swallows the new one, or
\* the log with one line more.
LEMMA WrittenType ==
  ASSUME NEW log \in Seq(Rows \cup {Garbage}), NEW row \in Rows \cup {Garbage}
  PROVE  /\ Written(log, row) \in Seq(Rows \cup {Garbage})
         /\ ToSet(log) \subseteq ToSet(Written(log, row))
         /\ Garbage \notin ToSet(Written(log, row)) => row \in ToSet(Written(log, row))
<1>1. CASE log # <<>> /\ Last(log) = Garbage
  <2>1. Len(log) \in DOMAIN log /\ log[Len(log)] = Garbage
    BY <1>1 DEF Last
  <2>2. Garbage \in ToSet(log)
    BY <2>1 DEF ToSet
  <2>3. Written(log, row) = log
    BY <1>1 DEF Written
  <2> QED
    BY <2>2, <2>3
<1>2. CASE ~(log # <<>> /\ Last(log) = Garbage)
  <2>1. Written(log, row) = Append(log, row)
    BY <1>2 DEF Written
  <2> QED
    BY <2>1, AppendKeeps
<1> QED
  BY <1>1, <1>2

\* The recorder's next row carries the chain on.
LEMMA RowLinks ==
  ASSUME NEW log \in Seq(Rows \cup {Garbage}), Linked(log),
         NEW verdict \in Verdicts,
         NEW row, row = Row(Resume(log).seq, Resume(log).prev, verdict)
  PROVE  /\ row \in Rows
         /\ Written(log, row) = Append(log, row)
         /\ Linked(Append(log, row))
         /\ Resume(Append(log, row)) = [seq |-> row.seq + 1, prev |-> Hash(row), up |-> TRUE]
<1> DEFINE n == Len(log)
<1>1. n \in Nat /\ DOMAIN log = 1..n
  OBVIOUS
<1>2. /\ Resume(log).seq = n
      /\ Resume(log).prev = IF n = 0 THEN Genesis ELSE Hash(log[n])
      /\ Resume(log).prev \in Contents
      /\ n # 0 => log[n] # Garbage
  <2>1. CASE log = <<>>
    BY <2>1 DEF Resume, Genesis, Contents
  <2>2. CASE log # <<>>
    <3>1. n \in 1..Len(log) /\ n # 0
      BY <2>2
    <3>2. log[n] \in Rows /\ log[n].seq = n - 1
      BY <3>1 DEF Linked
    <3>3. Resume(log) = [seq |-> log[n].seq + 1, prev |-> Hash(log[n]), up |-> TRUE]
      BY <2>2 DEF Resume, Last
    <3> QED
      BY <3>1, <3>2, <3>3, HashType, RowIsWhole
  <2> QED
    BY <2>1, <2>2
<1>3. row \in Rows /\ row.seq = n /\ row.prev = IF n = 0 THEN Genesis ELSE Hash(log[n])
  BY <1>1, <1>2 DEF Row, Rows
<1>4. Written(log, row) = Append(log, row)
  BY <1>1, <1>2 DEF Written, Last
<1>5. /\ Len(Append(log, row)) = n + 1
      /\ Append(log, row)[n + 1] = row
      /\ \A i \in 1..n : Append(log, row)[i] = log[i]
      /\ Append(log, row) # <<>>
  <2>1. log \in Seq(Rows \cup {Garbage}) /\ row \in Rows \cup {Garbage}
    BY <1>3
  <2> QED
    BY <2>1
<1>6. Linked(Append(log, row))
  <2> SUFFICES ASSUME NEW i \in 1..(n + 1)
               PROVE  /\ Append(log, row)[i] \in Rows
                      /\ Append(log, row)[i].seq = i - 1
                      /\ Append(log, row)[i].prev =
                           IF i = 1 THEN Genesis ELSE Hash(Append(log, row)[i - 1])
    BY <1>5 DEF Linked
  <2>1. CASE i \in 1..n
    <3>1. Append(log, row)[i] = log[i]
      BY <1>5, <2>1
    <3>2. i # 1 => Append(log, row)[i - 1] = log[i - 1]
      BY <1>1, <1>5, <2>1
    <3> QED
      BY <2>1, <3>1, <3>2 DEF Linked
  <2>2. CASE i = n + 1
    <3>1. Append(log, row)[i] = row /\ i - 1 = n
      BY <1>1, <1>5, <2>2
    <3>2. n # 0 => Append(log, row)[i - 1] = log[n]
      BY <1>1, <1>5, <3>1
    <3>3. i = 1 <=> n = 0
      BY <1>1, <2>2
    <3> QED
      BY <1>3, <3>1, <3>2, <3>3
  <2> QED
    BY <1>1, <2>1, <2>2
<1>7. Resume(Append(log, row)) = [seq |-> row.seq + 1, prev |-> Hash(row), up |-> TRUE]
  BY <1>5 DEF Resume, Last
<1> QED
  BY <1>3, <1>4, <1>6, <1>7

-----------------------------------------------------------------------------
(* The invariant is inductive.                                             *)

LEMMA AuditInitOK == AuditInit => AuditIInv
<1> SUFFICES ASSUME AuditInit PROVE AuditIInv
  OBVIOUS
<1>1. AuditTypeOK
  <2>1. recorder = [seq |-> 0, prev |-> <<>>, up |-> TRUE]
    BY DEF AuditInit, Resume, Genesis
  <2>2. recorder \in [seq : Nat, prev : Contents, up : BOOLEAN]
    BY <2>1 DEF Contents
  <2>3. lines \in Seq(Rows \cup {Garbage})
    BY DEF AuditInit
  <2>4. teeing \in [Threads -> Rows \cup {Nobody}] /\ faulted \in BOOLEAN
    BY DEF AuditInit
  <2> QED
    BY <2>2, <2>3, <2>4 DEF AuditTypeOK
<1>2. Chained
  BY DEF AuditInit, Chained, Linked
<1>3. Logged
  BY DEF AuditInit, Logged
<1> QED
  BY <1>1, <1>2, <1>3 DEF AuditIInv

\* A step writes a line, of a row or torn, and otherwise leaves sink and threads be or
\* forgets what the threads were about to tee.
LEMMA LoggedKept ==
  ASSUME AuditIInv,
         NEW row \in Rows \cup {Garbage},
         lines' \in {lines, Written(lines, row)},
         sink' = sink,
         teeing' = teeing \/ teeing' = [t \in Threads |-> Nobody]
  PROVE  Logged'
<1>1. ToSet(lines) \subseteq ToSet(lines')
  BY WrittenType DEF AuditIInv, AuditTypeOK
<1>2. \A t \in Threads : teeing'[t] # Nobody => teeing'[t] = teeing[t]
  OBVIOUS
<1> QED
  BY <1>1, <1>2 DEF AuditIInv, Logged

LEMMA NextRowType ==
  ASSUME AuditIInv, NEW verdict \in Verdicts
  PROVE  NextRow(verdict) \in Rows
  BY DEF AuditIInv, AuditTypeOK, NextRow, Row, Rows

LEMMA RecorderOK ==
  ASSUME AuditIInv, NEW t \in Threads, NEW verdict \in Verdicts, Record(t, verdict)
  PROVE  AuditIInv'
<1> DEFINE row == NextRow(verdict)
<1>1. /\ row \in Rows
      /\ lines' = Written(lines, row)
      /\ recorder' = [recorder EXCEPT !.seq = @ + 1, !.prev = Hash(row)]
      /\ teeing' = [teeing EXCEPT ![t] = row]
      /\ sink' = sink /\ returned' = returned /\ faulted' = faulted
      /\ recorder.up
      /\ row = Row(recorder.seq, recorder.prev, verdict)
  BY NextRowType DEF Record, NextRow
<1>2. /\ lines' \in Seq(Rows \cup {Garbage})
      /\ ToSet(lines) \subseteq ToSet(lines')
      /\ Garbage \notin ToSet(lines') => row \in ToSet(lines')
  BY <1>1, WrittenType DEF AuditIInv, AuditTypeOK
<1> HIDE DEF row
<1>3. AuditTypeOK'
  <2>1. Hash(row) \in Contents
    BY <1>1, HashType
  <2>2. recorder' = [seq |-> recorder.seq + 1, prev |-> Hash(row), up |-> recorder.up]
    BY <1>1 DEF AuditIInv, AuditTypeOK
  <2>3. recorder' \in [seq : Nat, prev : Contents, up : BOOLEAN]
    BY <2>1, <2>2 DEF AuditIInv, AuditTypeOK
  <2>4. teeing' \in [Threads -> Rows \cup {Nobody}] /\ faulted' \in BOOLEAN
    BY <1>1 DEF AuditIInv, AuditTypeOK
  <2> QED
    BY <1>2, <2>3, <2>4 DEF AuditTypeOK
<1>4. Chained'
  <2> SUFFICES ASSUME ~faulted
               PROVE  /\ Linked(lines') /\ recorder' = Resume(lines')
                      /\ returned \subseteq ToSet(lines')
    BY <1>1 DEF Chained
  <2>1. Linked(lines) /\ recorder = Resume(lines) /\ returned \subseteq ToSet(lines)
    BY <1>1 DEF AuditIInv, Chained
  <2>2. /\ lines' = Append(lines, row)
        /\ Linked(Append(lines, row))
        /\ Resume(Append(lines, row)) = [seq |-> row.seq + 1, prev |-> Hash(row), up |-> TRUE]
    BY <1>1, <2>1, RowLinks DEF AuditIInv, AuditTypeOK
  <2>3. recorder' = [seq |-> row.seq + 1, prev |-> Hash(row), up |-> TRUE]
    BY <1>1 DEF AuditIInv, AuditTypeOK, Row
  <2> QED
    BY <1>2, <2>1, <2>2, <2>3
<1>5. Logged'
  <2> SUFFICES ASSUME Garbage \notin ToSet(lines')
               PROVE  /\ sink \subseteq ToSet(lines')
                      /\ \A u \in Threads : teeing'[u] # Nobody => teeing'[u] \in ToSet(lines')
    BY <1>1 DEF Logged
  <2>1. \A u \in Threads : teeing'[u] = IF u = t THEN row ELSE teeing[u]
    BY <1>1 DEF AuditIInv, AuditTypeOK
  <2> QED
    BY <1>2, <2>1 DEF AuditIInv, Logged
<1> QED
  BY <1>3, <1>4, <1>5 DEF AuditIInv

LEMMA RecordRaisesOK ==
  ASSUME AuditIInv, NEW t \in Threads, NEW verdict \in Verdicts, RecordRaises(t, verdict)
  PROVE  AuditIInv'
<1>1. PICK row \in Rows \cup {Garbage} : lines' \in {lines, Written(lines, row)}
  BY NextRowType DEF RecordRaises
<1>2. /\ faulted' = TRUE
      /\ recorder' = recorder /\ teeing' = teeing /\ sink' = sink
  BY DEF RecordRaises
<1>3. AuditTypeOK'
  BY <1>1, <1>2, WrittenType DEF AuditIInv, AuditTypeOK
<1>4. Chained'
  BY <1>2 DEF Chained
<1>5. Logged'
  BY <1>1, <1>2, LoggedKept
<1> QED
  BY <1>3, <1>4, <1>5 DEF AuditIInv

LEMMA TeeOK ==
  ASSUME AuditIInv, NEW t \in Threads, Tee(t)
  PROVE  AuditIInv'
<1>1. /\ teeing[t] # Nobody
      /\ sink' \in {sink, sink \cup {teeing[t]}}
      /\ returned' = returned \cup {teeing[t]}
      /\ teeing' = [teeing EXCEPT ![t] = Nobody]
      /\ lines' = lines /\ recorder' = recorder /\ faulted' = faulted
  BY DEF Tee
<1>2. AuditTypeOK'
  BY <1>1 DEF AuditIInv, AuditTypeOK
<1>3. Garbage \notin ToSet(lines) => teeing[t] \in ToSet(lines)
  BY <1>1 DEF AuditIInv, Logged
<1>4. Chained'
  BY <1>1, <1>3, LinkedHasNoGarbage DEF AuditIInv, AuditTypeOK, Chained
<1>5. Logged'
  <2>1. \A u \in Threads : teeing'[u] = IF u = t THEN Nobody ELSE teeing[u]
    BY <1>1 DEF AuditIInv, AuditTypeOK
  <2> QED
    BY <1>1, <1>3, <2>1 DEF AuditIInv, Logged
<1> QED
  BY <1>2, <1>4, <1>5 DEF AuditIInv

LEMMA CrashOK ==
  ASSUME AuditIInv, Crash
  PROVE  AuditIInv'
<1>1. /\ recorder.up /\ recorder' = Down
      /\ teeing' = [t \in Threads |-> Nobody]
      /\ sink' = sink /\ returned' = returned
  BY DEF Crash
<1>2. \/ lines' = lines /\ faulted' = faulted
      \/ \E verdict \in Verdicts : lines' = Written(lines, NextRow(verdict)) /\ faulted' = faulted
      \/ lines' = Written(lines, Garbage) /\ faulted' = TRUE
  BY DEF Crash
<1>3. PICK row \in Rows \cup {Garbage} : lines' \in {lines, Written(lines, row)}
  BY <1>2, NextRowType
<1>4. AuditTypeOK'
  <2>1. Down \in [seq : Nat, prev : Contents, up : BOOLEAN]
    BY DEF Down, Genesis, Contents
  <2>2. faulted' \in BOOLEAN
    BY <1>2 DEF AuditIInv, AuditTypeOK
  <2> QED
    BY <1>1, <1>3, <2>1, <2>2, WrittenType DEF AuditIInv, AuditTypeOK
<1>5. Chained'
  <2>1. ~recorder'.up
    BY <1>1 DEF Down
  <2> SUFFICES ASSUME ~faulted' PROVE Linked(lines') /\ returned \subseteq ToSet(lines')
    BY <1>1, <2>1 DEF Chained
  <2>2. ~faulted
    BY <1>2
  <2>3. Linked(lines) /\ recorder = Resume(lines) /\ returned \subseteq ToSet(lines)
    BY <1>1, <2>2 DEF AuditIInv, Chained
  <2>4. ToSet(lines) \subseteq ToSet(lines')
    BY <1>3, WrittenType DEF AuditIInv, AuditTypeOK
  <2>5. ASSUME NEW verdict \in Verdicts
        PROVE  Linked(Written(lines, NextRow(verdict)))
    <3>1. NextRow(verdict) = Row(Resume(lines).seq, Resume(lines).prev, verdict)
      BY <2>3 DEF NextRow
    <3> QED
      BY <2>3, <3>1, RowLinks DEF AuditIInv, AuditTypeOK
  <2> QED
    BY <1>2, <2>3, <2>4, <2>5
<1>6. Logged'
  BY <1>1, <1>3, LoggedKept
<1> QED
  BY <1>4, <1>5, <1>6 DEF AuditIInv

LEMMA ReopenOK ==
  ASSUME AuditIInv, Reopen
  PROVE  AuditIInv'
<1>1. /\ recorder' = Resume(lines)
      /\ lines # <<>> => Whole(Last(lines))
      /\ lines' = lines /\ teeing' = teeing /\ sink' = sink
      /\ returned' = returned /\ faulted' = faulted
  BY DEF Reopen
<1>2. Resume(lines) \in [seq : Nat, prev : Contents, up : BOOLEAN]
  <2>1. CASE lines = <<>>
    BY <2>1 DEF Resume, Genesis, Contents
  <2>2. CASE lines # <<>>
    <3>1. Last(lines) \in Rows
      BY <1>1, <2>2 DEF AuditIInv, AuditTypeOK, Last, Whole
    <3>2. Last(lines).seq \in Nat /\ Hash(Last(lines)) \in Contents
      BY <3>1, HashType DEF Rows
    <3> QED
      BY <2>2, <3>2 DEF Resume
  <2> QED
    BY <2>1, <2>2
<1>3. AuditTypeOK'
  BY <1>1, <1>2 DEF AuditIInv, AuditTypeOK
<1>4. Chained' /\ Logged'
  BY <1>1 DEF AuditIInv, Chained, Logged
<1> QED
  BY <1>3, <1>4 DEF AuditIInv

LEMMA AuditNextOK == AuditIInv /\ [AuditNext]_auditVars => AuditIInv'
<1> SUFFICES ASSUME AuditIInv, [AuditNext]_auditVars PROVE AuditIInv'
  OBVIOUS
<1>1. ASSUME NEW t \in Threads, NEW verdict \in Verdicts, Record(t, verdict)
      PROVE  AuditIInv'
  BY <1>1, RecorderOK
<1>2. ASSUME NEW t \in Threads, NEW verdict \in Verdicts, RecordRaises(t, verdict)
      PROVE  AuditIInv'
  BY <1>2, RecordRaisesOK
<1>3. ASSUME NEW t \in Threads, Tee(t) PROVE AuditIInv'
  BY <1>3, TeeOK
<1>4. CASE Crash
  BY <1>4, CrashOK
<1>5. CASE Reopen
  BY <1>5, ReopenOK
<1>6. CASE UNCHANGED auditVars
  BY <1>6 DEF auditVars, AuditIInv, AuditTypeOK, Chained, Logged
<1> QED
  BY <1>1, <1>2, <1>3, <1>4, <1>5, <1>6 DEF AuditNext

LEMMA AuditIInvImplies == AuditIInv => ChainIntact
<1> SUFFICES ASSUME AuditIInv PROVE ChainIntact
  OBVIOUS
<1>1. ASSUME ~faulted
      PROVE  /\ lines # <<>> => VerifyChain(lines)
             /\ returned \subseteq ToSet(lines)
             /\ recorder.up => recorder = Resume(lines)
  <2>1. /\ Linked(lines) /\ returned \subseteq ToSet(lines)
        /\ recorder.up => recorder = Resume(lines)
    BY <1>1 DEF AuditIInv, Chained
  <2>2. DOMAIN lines = 1..Len(lines)
    BY DEF AuditIInv, AuditTypeOK
  <2> QED
    BY <2>1, <2>2, RowIsWhole DEF Linked, VerifyChain, Whole
<1>2. Garbage \notin ToSet(lines) => sink \subseteq ToSet(lines)
  BY DEF AuditIInv, Logged
<1> QED
  BY <1>1, <1>2 DEF ChainIntact

-----------------------------------------------------------------------------
(* Whatever threads record and wherever the process ends, an unfaulted log *)
(* verifies and holds every row that was returned or teed: the promise of  *)
(* AuditRecorder and verify_chain.                                         *)
THEOREM ChainAlwaysIntact == AuditSpec => []ChainIntact
<1>1. AuditSpec => []AuditIInv
  BY AuditInitOK, AuditNextOK, PTL DEF AuditSpec
<1> QED
  BY <1>1, AuditIInvImplies, PTL

-----------------------------------------------------------------------------
(* Ignition.  Its inductive invariant.                                     *)

Places == Centroids \cup {Missing}
WindowType == [at : [Clusters -> Places], passes : 0..2]
DriftType(d) ==
  /\ DOMAIN d \subseteq Clusters
  /\ \A c \in DOMAIN d : d[c] \in [centroid : Places, stable : Nat]

IgnitionTyped ==
  /\ windows \in Seq(WindowType) /\ Len(windows) \in 1..MinStable
  /\ DriftType(drift)
  /\ pass.on \in BOOLEAN /\ pass.todo \subseteq Clusters
  /\ pass = [todo |-> pass.todo, drift |-> pass.drift, on |-> pass.on]

OnceWith(ws, c, i) == ws[i].passes = 1 /\ ws[i].at[c] # Missing

\* How many windows the drift state has seen, if the last one was not passed over twice.
PassedOver(ws) == Len(ws) - 1 + ws[Len(ws)].passes

\* Up to window m a cluster's drift state says of the windows that were passed over once,
\* with the cluster in them, where it was last and for how many it was close.
Remembers(ws, c, entry, m) ==
  /\ m >= 1 /\ OnceWith(ws, c, m) => entry.centroid = ws[m].at[c]
  /\ \A i \in 1..m - 1 :
       (\A j \in i..m : OnceWith(ws, c, j)) /\ m - i < entry.stable
         => Close(ws[i].at[c], ws[i + 1].at[c])
  /\ Len(ws) < MinStable /\ (\A j \in 1..m : OnceWith(ws, c, j)) => entry.stable <= m

DriftHolds ==
  windows[Len(windows)].passes <= 1 =>
    \A c \in DOMAIN drift : Remembers(windows, c, drift[c], PassedOver(windows))

\* A pass has advanced the clusters it has visited, and only these.
PassHolds ==
  /\ ~pass.on => pass.todo = {}
  /\ pass.on =>
      /\ DriftType(pass.drift)
      /\ pass.todo \subseteq Seen(CurrentWindow)
      /\ \A c \in pass.todo :
           /\ c \in DOMAIN pass.drift <=> c \in DOMAIN drift
           /\ c \in DOMAIN drift => pass.drift[c] = drift[c]
      /\ \A c \in Seen(CurrentWindow) \ pass.todo :
           /\ c \in DOMAIN pass.drift
           /\ pass.drift[c] = Updated(drift, c, CurrentWindow.at[c])[c]

IgnitionInv == IgnitionTyped /\ DriftHolds /\ PassHolds

\* What update_drift makes of a state.
Advanced(s, c, e, u) ==
  /\ DOMAIN u = DOMAIN s \cup {c}
  /\ \A b \in DOMAIN s : b # c => u[b] = s[b]
  /\ u[c] = [centroid |-> e, stable |-> u[c].stable]
  /\ c \in DOMAIN s /\ Close(s[c].centroid, e) => u[c].stable = Counted(s[c].stable + 1)
  /\ ~(c \in DOMAIN s /\ Close(s[c].centroid, e)) => u[c].stable = 1

LEMMA UpdatedIs ==
  ASSUME NEW s, NEW c, NEW e
  PROVE  Advanced(s, c, e, Updated(s, c, e))
BY DEF Updated, With, Advanced

LEMMA UpdatedTyped ==
  ASSUME NEW s, DriftType(s), NEW c \in Clusters, NEW e \in Places
  PROVE  DriftType(Updated(s, c, e))
<1>1. MinStable \in Nat
  BY IgnitionAssumption
<1>2. c \in DOMAIN s => s[c].stable \in Nat
  BY DEF DriftType
<1> DEFINE new == Updated(s, c, e)
<1>3. Advanced(s, c, e, new)
  BY UpdatedIs
<1> HIDE DEF new
<1>4. new[c].stable \in Nat
  BY <1>1, <1>2, <1>3 DEF Counted, Advanced
<1>5. new[c] \in [centroid : Places, stable : Nat]
  BY <1>3, <1>4 DEF Advanced
<1>6. DriftType(new)
  BY <1>3, <1>5 DEF DriftType, Advanced
<1> QED
  BY <1>6 DEF new

\* The window that traffic is in.
LEMMA CurrentIs ==
  ASSUME IgnitionTyped
  PROVE  /\ CurrentWindow = windows[Len(windows)]
         /\ CurrentWindow \in WindowType
         /\ MinStable \in Nat \ {0} /\ Len(windows) \in Nat \ {0}
         /\ \A i \in 1..Len(windows) : windows[i] \in WindowType
<1>1. MinStable \in Nat \ {0}
  BY IgnitionAssumption
<1> QED
  BY <1>1 DEF IgnitionTyped, CurrentWindow, Last

LEMMA WindowFields ==
  ASSUME NEW w \in WindowType, NEW c \in Clusters
  PROVE  w.at[c] \in Places /\ w.passes \in 0..2
BY DEF WindowType

-----------------------------------------------------------------------------
(* A pass that is saved over a window for the first time.                  *)

LEMMA RemembersSaved ==
  ASSUME NEW ws, NEW us, NEW n \in Nat \ {0}, Len(ws) = n, Len(us) = n,
         \A i \in 1..n - 1 : us[i] = ws[i],
         us[n].at = ws[n].at, us[n].passes = 1,
         NEW c, NEW d, DriftType(d),
         c \in DOMAIN d => Remembers(ws, c, d[c], n - 1)
  PROVE  Remembers(us, c, Updated(d, c, us[n].at[c])[c], n)
<1> DEFINE e == us[n].at[c]
           goesOn == c \in DOMAIN d /\ Close(d[c].centroid, e)
           new == Updated(d, c, e)[c]
<1>0. Advanced(d, c, e, Updated(d, c, e))
  BY UpdatedIs
<1>1. /\ new.centroid = e
      /\ goesOn => new.stable = Counted(d[c].stable + 1)
      /\ ~goesOn => new.stable = 1
  <2> DEFINE u == Updated(d, c, e)
  <2> HIDE DEF u, e
  <2>1. Advanced(d, c, e, u)
    BY <1>0 DEF u, e
  <2>2. /\ u[c].centroid = e
        /\ goesOn => u[c].stable = Counted(d[c].stable + 1)
        /\ ~goesOn => u[c].stable = 1
    BY <2>1 DEF Advanced
  <2> QED
    BY <2>2 DEF u
<1>2. goesOn => d[c].stable \in Nat
  BY DEF DriftType
<1>3. MinStable \in Nat \ {0}
  BY IgnitionAssumption
<1>4. /\ new.stable \in Nat
      /\ goesOn => new.stable <= d[c].stable + 1
      /\ ~goesOn => new.stable = 1
  BY <1>1, <1>2, <1>3 DEF Counted
<1> HIDE DEF new
<1>5. \A i \in 1..n - 1 : OnceWith(us, c, i) <=> OnceWith(ws, c, i)
  BY DEF OnceWith
<1>6. ASSUME NEW i \in 1..n - 1, \A j \in i..n : OnceWith(us, c, j), n - i < new.stable
      PROVE  Close(us[i].at[c], us[i + 1].at[c])
  <2>1. goesOn /\ d[c].stable \in Nat /\ n - i < d[c].stable + 1
    BY <1>2, <1>4, <1>6
  <2>2. Remembers(ws, c, d[c], n - 1)
    BY <2>1
  <2>3. \A j \in i..n - 1 : OnceWith(ws, c, j)
    BY <1>5, <1>6
  <2>4. CASE i = n - 1
    <3>1. d[c].centroid = ws[n - 1].at[c]
      BY <2>2, <2>3, <2>4 DEF Remembers
    <3>2. us[i].at[c] = d[c].centroid /\ us[i + 1].at[c] = e
      BY <2>4, <3>1
    <3> QED
      BY <2>1, <3>2
  <2>5. CASE i < n - 1
    <3>1. i \in 1..(n - 1) - 1 /\ (n - 1) - i < d[c].stable
      BY <2>1, <2>5
    <3>2. Close(ws[i].at[c], ws[i + 1].at[c])
      BY <2>2, <2>3, <3>1 DEF Remembers
    <3>3. us[i] = ws[i] /\ us[i + 1] = ws[i + 1]
      BY <2>5
    <3> QED
      BY <3>2, <3>3
  <2> QED
    BY <2>4, <2>5
<1>7. ASSUME n < MinStable, \A j \in 1..n : OnceWith(us, c, j)
      PROVE  new.stable <= n
  <2>1. \A j \in 1..n - 1 : OnceWith(ws, c, j)
    BY <1>5, <1>7
  <2>2. CASE goesOn
    <3>1. Remembers(ws, c, d[c], n - 1)
      BY <2>2
    <3>2. d[c].stable <= n - 1
      BY <1>7, <2>1, <3>1 DEF Remembers
    <3> QED
      BY <1>2, <1>4, <2>2, <3>2
  <2> QED
    BY <1>4, <2>2
<1> QED
  BY <1>1, <1>6, <1>7 DEF Remembers, new

\* A window comes; of the old ones the oldest may be dropped.
LEMMA RemembersMoved ==
  ASSUME NEW ws, NEW us, NEW n \in Nat \ {0}, Len(ws) = n, NEW k \in {0, 1},
         Len(us) = n + 1 - k, k = 1 => n = MinStable, k = 0 => n < MinStable,
         \A i \in 1..n - k : us[i] = ws[i + k],
         ws[n].passes \in 0..2,
         NEW c, NEW entry, entry.stable \in Nat,
         ws[n].passes <= 1 => Remembers(ws, c, entry, n - 1 + ws[n].passes)
  PROVE  Remembers(us, c, entry, n - k)
<1>0. MinStable \in Nat \ {0}
  BY IgnitionAssumption
<1>1. \A i \in 1..n - k : OnceWith(us, c, i) <=> OnceWith(ws, c, i + k)
  BY DEF OnceWith
<1>2. n - k >= 1 /\ OnceWith(us, c, n - k) => OnceWith(ws, c, n) /\ Remembers(ws, c, entry, n)
  BY <1>1 DEF OnceWith
<1>3. n - k >= 1 /\ OnceWith(us, c, n - k) => entry.centroid = us[n - k].at[c]
  BY <1>2 DEF Remembers
<1>4. ASSUME NEW i \in 1..(n - k) - 1, \A j \in i..n - k : OnceWith(us, c, j),
             (n - k) - i < entry.stable
      PROVE  Close(us[i].at[c], us[i + 1].at[c])
  <2>1. Remembers(ws, c, entry, n)
    BY <1>2, <1>4
  <2>2. \A j \in i + k..n : OnceWith(ws, c, j)
    <3> SUFFICES ASSUME NEW j \in i + k..n
                 PROVE  OnceWith(ws, c, j)
      OBVIOUS
    <3>1. j - k \in i..n - k /\ j - k \in 1..n - k /\ (j - k) + k = j
      OBVIOUS
    <3> QED
      BY <1>1, <1>4, <3>1
  <2>3. i + k \in 1..n - 1 /\ n - (i + k) < entry.stable
    BY <1>4
  <2>4. Close(ws[i + k].at[c], ws[(i + k) + 1].at[c])
    BY <2>1, <2>2, <2>3 DEF Remembers
  <2>5. i \in 1..n - k /\ i + 1 \in 1..n - k /\ (i + 1) + k = (i + k) + 1
    OBVIOUS
  <2>6. us[i] = ws[i + k] /\ us[i + 1] = ws[(i + 1) + k]
    BY <2>5
  <2> QED
    BY <2>4, <2>5, <2>6
<1>5. ASSUME Len(us) < MinStable, \A j \in 1..n - k : OnceWith(us, c, j)
      PROVE  entry.stable <= n - k
  <2>1. k = 0 /\ n < MinStable
    BY <1>0, <1>5
  <2>2. \A j \in 1..n : OnceWith(ws, c, j)
    BY <1>1, <1>5, <2>1
  <2>3. Remembers(ws, c, entry, n)
    BY <1>2, <1>5, <2>1
  <2> QED
    BY <2>1, <2>2, <2>3 DEF Remembers
<1> QED
  BY <1>3, <1>4, <1>5 DEF Remembers

-----------------------------------------------------------------------------
(* The steps.                                                              *)

LEMMA NextWindowKeeps ==
  ASSUME IgnitionInv, NextWindow
  PROVE  IgnitionInv'
<1> DEFINE n == Len(windows)
<1>1. /\ IgnitionTyped /\ DriftHolds
      /\ n \in Nat \ {0} /\ n \in 1..MinStable /\ MinStable \in Nat \ {0}
      /\ windows \in Seq(WindowType) /\ \A i \in 1..n : windows[i] \in WindowType
  BY CurrentIs DEF IgnitionInv, IgnitionTyped
<1>2. PICK place \in [Clusters -> Places] :
        windows' = LastOfThem(Append(windows, [at |-> place, passes |-> 0]))
  BY DEF NextWindow, Places
<1> DEFINE new == [at |-> place, passes |-> 0]
           k == IF n = MinStable THEN 1 ELSE 0
<1>3. new \in WindowType
  BY DEF WindowType
<1>4. new.passes = 0
  OBVIOUS
<1> HIDE DEF new
<1>5. /\ windows' \in Seq(WindowType)
      /\ Len(windows') = n + 1 - k
      /\ \A i \in 1..n - k : windows'[i] = windows[i + k]
      /\ windows'[Len(windows')] = new
  <2>1. /\ Append(windows, new) \in Seq(WindowType) /\ Len(Append(windows, new)) = n + 1
        /\ \A i \in 1..n : Append(windows, new)[i] = windows[i]
        /\ Append(windows, new)[n + 1] = new
    BY <1>1, <1>3
  <2>2. windows' = LastOfThem(Append(windows, new))
    BY <1>2 DEF new
  <2>3. CASE n = MinStable
    <3>1. windows' = Tail(Append(windows, new))
      BY <1>1, <2>1, <2>2, <2>3 DEF LastOfThem
    <3> QED
      BY <1>1, <2>1, <2>3, <3>1
  <2>4. CASE n # MinStable
    <3>1. windows' = Append(windows, new)
      BY <1>1, <2>1, <2>2, <2>4 DEF LastOfThem
    <3> QED
      BY <1>1, <2>1, <2>4, <3>1
  <2> QED
    BY <2>3, <2>4
<1>6. UNCHANGED <<drift, pass, enqueued>> /\ ~pass.on
  BY DEF NextWindow
<1>7. IgnitionTyped'
  BY <1>1, <1>5, <1>6 DEF IgnitionTyped, DriftType
<1>8. PassHolds'
  BY <1>6 DEF IgnitionInv, PassHolds
<1>9. DriftHolds'
  <2> SUFFICES ASSUME NEW c \in DOMAIN drift
               PROVE  Remembers(windows', c, drift[c], PassedOver(windows'))
    BY <1>6 DEF DriftHolds
  <2>1. drift[c].stable \in Nat /\ windows[n].passes \in 0..2
    BY <1>1 DEF IgnitionTyped, DriftType, WindowType
  <2>2. windows[n].passes <= 1 => Remembers(windows, c, drift[c], n - 1 + windows[n].passes)
    BY <1>1 DEF DriftHolds, PassedOver
  <2>3. PassedOver(windows') = n - k
    BY <1>1, <1>4, <1>5 DEF PassedOver
  <2>4. k \in {0, 1} /\ (k = 1 => n = MinStable) /\ (k = 0 => n < MinStable)
    BY <1>1
  <2>5. Len(windows) = n
    OBVIOUS
  <2> HIDE DEF n, k
  <2>6. Remembers(windows', c, drift[c], n - k)
    BY <1>1, <1>5, <2>1, <2>2, <2>4, <2>5, RemembersMoved
  <2> QED
    BY <2>3, <2>6
<1> QED
  BY <1>7, <1>8, <1>9 DEF IgnitionInv

LEMMA StartPassKeeps ==
  ASSUME IgnitionInv, StartPass
  PROVE  IgnitionInv'
<1>1. /\ pass' = [todo |-> Seen(CurrentWindow), drift |-> drift, on |-> TRUE]
      /\ windows' = windows /\ drift' = drift /\ Seen(CurrentWindow) \subseteq Clusters
  BY DEF StartPass, Seen
<1>2. Seen(CurrentWindow)' = Seen(CurrentWindow)
  BY <1>1 DEF Seen, CurrentWindow
<1>3. IgnitionTyped'
  BY <1>1 DEF IgnitionInv, IgnitionTyped, DriftType
<1>4. DriftHolds'
  BY <1>1 DEF IgnitionInv, DriftHolds
<1>5. PassHolds'
  BY <1>1, <1>2 DEF IgnitionInv, IgnitionTyped, PassHolds
<1> QED
  BY <1>3, <1>4, <1>5 DEF IgnitionInv

LEMMA AbortPassKeeps ==
  ASSUME IgnitionInv, AbortPass
  PROVE  IgnitionInv'
<1>1. /\ pass' = NoPass /\ windows' = windows /\ drift' = drift
      /\ IgnitionTyped /\ DriftHolds
  BY DEF AbortPass, IgnitionInv
<1>2. IgnitionTyped'
  BY <1>1 DEF IgnitionTyped, DriftType, NoPass
<1>3. DriftHolds' /\ PassHolds'
  BY <1>1 DEF DriftHolds, PassHolds, NoPass
<1> QED
  BY <1>2, <1>3 DEF IgnitionInv

LEMMA VisitKeeps ==
  ASSUME IgnitionInv, NEW v \in Clusters, NEW eligible \in BOOLEAN, Visit(v, eligible)
  PROVE  IgnitionInv'
<1> DEFINE e == CurrentWindow.at[v]
           seen == Seen(CurrentWindow)
<1>1. /\ v \in pass.todo /\ windows' = windows /\ drift' = drift
      /\ pass' = [pass EXCEPT !.todo = @ \ {v}, !.drift = Updated(@, v, e)]
  BY DEF Visit
<1>2. /\ IgnitionTyped /\ DriftHolds /\ PassHolds /\ e \in Places
  BY CurrentIs, WindowFields DEF IgnitionInv
<1>3. /\ pass'.on = pass.on /\ pass'.todo = pass.todo \ {v}
      /\ pass'.drift = Updated(pass.drift, v, e)
      /\ pass' = [todo |-> pass'.todo, drift |-> pass'.drift, on |-> pass'.on]
  BY <1>1, <1>2 DEF IgnitionTyped
<1>4. IgnitionTyped' /\ DriftHolds'
  BY <1>1, <1>2, <1>3 DEF IgnitionTyped, DriftHolds, DriftType
<1>5. PassHolds'
  <2>0. pass.on /\ pass'.on
    BY <1>1, <1>2, <1>3 DEF PassHolds
  <2> SUFFICES /\ DriftType(pass'.drift)
               /\ pass'.todo \subseteq seen
               /\ \A c \in pass'.todo :
                    /\ c \in DOMAIN pass'.drift <=> c \in DOMAIN drift
                    /\ c \in DOMAIN drift => pass'.drift[c] = drift[c]
               /\ \A c \in seen \ pass'.todo :
                    /\ c \in DOMAIN pass'.drift
                    /\ pass'.drift[c] = Updated(drift, c, CurrentWindow.at[c])[c]
    BY <1>1, <1>3, <2>0 DEF PassHolds, Seen, CurrentWindow
  <2>1. /\ DriftType(pass.drift)
        /\ pass.todo \subseteq seen
        /\ \A c \in pass.todo :
             /\ c \in DOMAIN pass.drift <=> c \in DOMAIN drift
             /\ c \in DOMAIN drift => pass.drift[c] = drift[c]
        /\ \A c \in seen \ pass.todo :
             /\ c \in DOMAIN pass.drift
             /\ pass.drift[c] = Updated(drift, c, CurrentWindow.at[c])[c]
    BY <1>2, <2>0 DEF PassHolds
  <2>5. /\ v \in DOMAIN pass.drift <=> v \in DOMAIN drift
        /\ v \in DOMAIN drift => pass.drift[v] = drift[v]
    BY <1>1, <2>1
  <2>6. Advanced(pass.drift, v, e, pass'.drift)
    BY <1>3, UpdatedIs
  <2>7. Advanced(drift, v, e, Updated(drift, v, e))
    BY UpdatedIs
  <2>2. /\ DOMAIN pass'.drift = DOMAIN pass.drift \cup {v}
        /\ \A b \in DOMAIN pass.drift : b # v => pass'.drift[b] = pass.drift[b]
    BY <2>6 DEF Advanced
  <2>3. pass'.drift[v] = Updated(drift, v, e)[v]
    <3> DEFINE u == Updated(drift, v, e)
    <3> HIDE DEF u, e
    <3>1. Advanced(drift, v, e, u)
      BY <2>7 DEF u, e
    <3>2. Advanced(pass.drift, v, e, pass'.drift)
      BY <2>6 DEF e
    <3>3. pass'.drift[v].stable = u[v].stable
      BY <2>5, <3>1, <3>2 DEF Advanced
    <3>4. pass'.drift[v] = u[v]
      BY <3>1, <3>2, <3>3 DEF Advanced
    <3> QED
      BY <3>4 DEF u, e
  <2>4. DriftType(pass'.drift)
    BY <1>2, <1>3, <2>1, UpdatedTyped
  <2> HIDE DEF seen
  <2> QED
    BY <1>1, <1>3, <2>1, <2>2, <2>3, <2>4
<1> QED
  BY <1>4, <1>5 DEF IgnitionInv

LEMMA SavePassKeeps ==
  ASSUME IgnitionInv, SavePass
  PROVE  IgnitionInv'
<1> DEFINE n == Len(windows)
<1>1. /\ IgnitionTyped /\ DriftHolds /\ PassHolds /\ pass.on /\ pass.todo = {}
      /\ n \in Nat \ {0} /\ n \in 1..MinStable /\ MinStable \in Nat \ {0}
      /\ windows \in Seq(WindowType) /\ \A i \in 1..n : windows[i] \in WindowType
      /\ CurrentWindow = windows[n]
  BY CurrentIs DEF IgnitionInv, IgnitionTyped, SavePass
<1>2. /\ drift' = pass.drift /\ pass' = NoPass
      /\ windows' = [windows EXCEPT ![n].passes = IF @ = 2 THEN 2 ELSE @ + 1]
  BY DEF SavePass
<1> DEFINE once == IF windows[n].passes = 2 THEN 2 ELSE windows[n].passes + 1
           last == [windows[n] EXCEPT !.passes = once]
<1>3. windows[n].passes \in 0..2 /\ once \in 0..2
  BY <1>1 DEF WindowType
<1>4. /\ last \in WindowType /\ last.at = windows[n].at /\ last.passes = once
  BY <1>1, <1>3 DEF WindowType
<1>5. windows' = [windows EXCEPT ![n] = last]
  BY <1>1, <1>2
<1> HIDE DEF last
<1>6. /\ windows' \in Seq(WindowType) /\ Len(windows') = n
      /\ windows'[n] = last /\ \A i \in 1..n - 1 : windows'[i] = windows[i]
  BY <1>1, <1>4, <1>5
<1>7. DriftType(drift')
  BY <1>1, <1>2 DEF PassHolds
<1>8. IgnitionTyped' /\ PassHolds'
  BY <1>1, <1>2, <1>6, <1>7 DEF IgnitionTyped, PassHolds, NoPass, DriftType
<1>9. DriftHolds'
  <2> SUFFICES ASSUME windows'[n].passes <= 1, NEW c \in DOMAIN drift'
               PROVE  Remembers(windows', c, drift'[c], PassedOver(windows'))
    BY <1>6 DEF DriftHolds
  <2>1. windows[n].passes = 0 /\ windows'[n].passes = 1
    BY <1>3, <1>4, <1>6
  <2>2. PassedOver(windows') = n /\ PassedOver(windows) = n - 1
    BY <1>1, <1>6, <2>1 DEF PassedOver
  <2>3. c \in Clusters
    BY <1>7 DEF DriftType
  <2>4. CASE c \in Seen(CurrentWindow)
    <3>1. drift'[c] = Updated(drift, c, windows'[n].at[c])[c]
      BY <1>1, <1>2, <1>4, <1>6, <2>4 DEF PassHolds
    <3>2. c \in DOMAIN drift => Remembers(windows, c, drift[c], n - 1)
      BY <1>1, <2>1, <2>2 DEF DriftHolds
    <3>3. DriftType(drift) /\ Len(windows) = n /\ windows'[n].at = windows[n].at
      BY <1>1, <1>4, <1>6 DEF IgnitionTyped
    <3> HIDE DEF n, once
    <3> QED
      BY <1>1, <1>6, <2>1, <2>2, <3>1, <3>2, <3>3, RemembersSaved
  <2>5. CASE c \notin Seen(CurrentWindow)
    <3>1. windows'[n].at[c] = Missing
      BY <1>1, <1>4, <1>6, <2>3, <2>5 DEF Seen
    <3>2. ~OnceWith(windows', c, n)
      BY <3>1 DEF OnceWith
    <3> HIDE DEF n, once
    <3>3. \A i \in 1..n - 1 : n \in i..n
      BY <1>1
    <3> QED
      BY <1>1, <2>2, <3>2, <3>3 DEF Remembers
  <2> QED
    BY <2>4, <2>5
<1> QED
  BY <1>8, <1>9 DEF IgnitionInv

-----------------------------------------------------------------------------
(* What ignites.                                                           *)

LEMMA IgnitesSettled ==
  ASSUME IgnitionInv, NEW v \in Clusters, NEW eligible \in BOOLEAN, Visit(v, eligible),
         NEW id \in enqueued' \ enqueued, PassedOnceWith(id[1])
  PROVE  /\ Len(windows) = MinStable
         /\ \A i \in 1..Len(windows) - 1 :
              Close(windows[i].at[id[1]], windows[i + 1].at[id[1]])
<1> DEFINE n == Len(windows)
           e == CurrentWindow.at[v]
<1>1. v \in pass.todo /\ id = <<v, e>> /\ Settled(pass.drift, v, e)
  BY DEF Visit
<1>2. id[1] = v
  BY <1>1
<1>3. /\ IgnitionTyped /\ DriftHolds /\ PassHolds
      /\ n \in Nat \ {0} /\ n \in 1..MinStable /\ MinStable \in Nat \ {0}
      /\ CurrentWindow = windows[n]
  BY CurrentIs DEF IgnitionInv, IgnitionTyped
<1>4. /\ windows[n].passes = 0
      /\ \A i \in 1..n - 1 : OnceWith(windows, v, i)
  BY <1>2, <1>3 DEF PassedOnceWith, OnceWith
<1>5. pass.on
  BY <1>1, <1>3 DEF PassHolds
<1>6. v \in DOMAIN drift /\ pass.drift[v] = drift[v]
  BY <1>1, <1>3, <1>5 DEF Settled, PassHolds
<1>7. Close(drift[v].centroid, e) /\ drift[v].stable \in Nat /\ drift[v].stable >= MinStable - 1
  <2>1. /\ v \in DOMAIN pass.drift /\ Close(pass.drift[v].centroid, e)
        /\ Updated(pass.drift, v, e)[v].stable >= MinStable
    BY <1>1 DEF Settled
  <2>2. Updated(pass.drift, v, e)[v].stable = Counted(drift[v].stable + 1)
    <3> DEFINE u == Updated(pass.drift, v, e)
    <3>1. Advanced(pass.drift, v, e, u)
      BY UpdatedIs
    <3> HIDE DEF u, e
    <3>2. u[v].stable = Counted(drift[v].stable + 1)
      BY <1>6, <2>1, <3>1 DEF Advanced
    <3> QED
      BY <3>2 DEF u
  <2>3. drift[v].stable \in Nat
    BY <1>3, <1>6 DEF IgnitionTyped, DriftType
  <2> QED
    BY <1>3, <1>6, <2>1, <2>2, <2>3 DEF Counted
<1>8. Remembers(windows, v, drift[v], n - 1)
  BY <1>3, <1>4, <1>6 DEF DriftHolds, PassedOver
<1>9. n = MinStable
  BY <1>3, <1>4, <1>7, <1>8 DEF Remembers
<1>10. ASSUME NEW i \in 1..n - 1
       PROVE  Close(windows[i].at[v], windows[i + 1].at[v])
  <2>1. CASE i = n - 1
    <3>1. drift[v].centroid = windows[n - 1].at[v]
      BY <1>3, <1>4, <1>8, <2>1 DEF Remembers
    <3> QED
      BY <1>3, <1>7, <2>1, <3>1
  <2>2. CASE i < n - 1
    <3>1. i \in 1..(n - 1) - 1 /\ (n - 1) - i < drift[v].stable
      BY <1>3, <1>7, <1>9, <2>2
    <3>2. \A j \in i..n - 1 : OnceWith(windows, v, j)
      BY <1>4
    <3> QED
      BY <1>8, <3>1, <3>2 DEF Remembers
  <2> QED
    BY <2>1, <2>2
<1> QED
  BY <1>2, <1>9, <1>10

LEMMA IgnitionInitially ==
  IgnitionInit => IgnitionInv
<1> SUFFICES ASSUME IgnitionInit
             PROVE  IgnitionInv
  OBVIOUS
<1>1. PICK place \in [Clusters -> Places] : windows = <<[at |-> place, passes |-> 0]>>
  BY DEF IgnitionInit, Places
<1>2. [at |-> place, passes |-> 0] \in WindowType
  BY DEF WindowType
<1>3. windows \in Seq(WindowType) /\ Len(windows) = 1
  BY <1>1, <1>2
<1>4. drift = <<>> /\ pass = NoPass /\ DOMAIN drift = {}
  BY DEF IgnitionInit
<1>5. IgnitionTyped
  BY <1>3, <1>4, IgnitionAssumption DEF IgnitionTyped, DriftType, NoPass
<1>6. DriftHolds /\ PassHolds
  BY <1>4 DEF DriftHolds, PassHolds, NoPass
<1> QED
  BY <1>5, <1>6 DEF IgnitionInv

LEMMA IgnitionStep ==
  ASSUME IgnitionInv, [IgnitionNext]_ignitionVars
  PROVE  IgnitionInv'
<1>1. CASE IgnitionNext
  BY <1>1, NextWindowKeeps, StartPassKeeps, AbortPassKeeps, SavePassKeeps, VisitKeeps
     DEF IgnitionNext
<1>2. CASE UNCHANGED ignitionVars
  BY <1>2 DEF ignitionVars, IgnitionInv, IgnitionTyped, DriftHolds, PassHolds, Seen,
              CurrentWindow
<1> QED
  BY <1>1, <1>2

\* For any clusters, any centroids, any measure of drift and any number of windows: what
\* ignites was settled through all of them, whatever passes were cut short.
THEOREM OnlySettledIgnite ==
  IgnitionInit /\ [][IgnitionNext]_ignitionVars => IgnitedSettled
<1> DEFINE Settles ==
      \A id \in enqueued' \ enqueued :
        LET c == id[1]
        IN PassedOnceWith(c) =>
             /\ Len(windows) = MinStable
             /\ \A i \in 1..Len(windows) - 1 : Close(windows[i].at[c], windows[i + 1].at[c])
<1>1. IgnitionInv /\ [IgnitionNext]_ignitionVars => IgnitionInv'
  BY IgnitionStep
<1>2. IgnitionInv /\ [IgnitionNext]_ignitionVars => [Settles]_ignitionVars
  <2> SUFFICES ASSUME IgnitionInv, IgnitionNext, NEW id \in enqueued' \ enqueued,
                      PassedOnceWith(id[1])
               PROVE  /\ Len(windows) = MinStable
                      /\ \A i \in 1..Len(windows) - 1 :
                           Close(windows[i].at[id[1]], windows[i + 1].at[id[1]])
    OBVIOUS
  <2>1. PICK v \in Clusters, eligible \in BOOLEAN : Visit(v, eligible)
    BY DEF IgnitionNext, NextWindow, StartPass, AbortPass, SavePass
  <2> QED
    BY <2>1, IgnitesSettled
<1> HIDE DEF Settles
<1>3. IgnitionInit /\ [][IgnitionNext]_ignitionVars => [][Settles]_ignitionVars
  BY <1>1, <1>2, IgnitionInitially, PTL
<1> QED
  BY <1>3 DEF IgnitedSettled, Settles

-----------------------------------------------------------------------------
(* ConfigChallenger.  The sum of a sequence of numbers, as the number of   *)
(* points under it.                                                        *)

Points(s, f) == {p \in s \X Nat : p[2] \in 1..f[p[1]]}

LEMMA PointsOfOne ==
  ASSUME NEW n \in Nat, NEW f \in [1..n -> Nat], NEW i \in 1..n
  PROVE  /\ IsFiniteSet({i} \X (1..f[i]))
         /\ Cardinality({i} \X (1..f[i])) = f[i]
<1>1. f[i] \in Nat
  OBVIOUS
<1>2. IsFiniteSet({i}) /\ Cardinality({i}) = 1
  BY FS_Singleton
<1>3. IsFiniteSet(1..f[i]) /\ Cardinality(1..f[i]) = f[i]
  <2> DEFINE top == f[i]
  <2>1. top \in Int /\ 1 \in Int
    BY <1>1
  <2> HIDE DEF top
  <2>2. IsFiniteSet(1..top) /\ Cardinality(1..top) = IF 1 > top THEN 0 ELSE top - 1 + 1
    BY <2>1, FS_Interval
  <2>3. top \in Nat
    BY <1>1 DEF top
  <2>4. Cardinality(1..top) = top
    BY <2>2, <2>3
  <2> QED
    BY <2>2, <2>4 DEF top
<1>4. /\ IsFiniteSet({i} \X (1..f[i]))
      /\ Cardinality({i} \X (1..f[i])) = 1 * f[i]
  <2> DEFINE T == 1..f[i]
  <2>1. IsFiniteSet(T) /\ Cardinality(T) = f[i]
    BY <1>3
  <2> HIDE DEF T
  <2>2. IsFiniteSet({i} \X T) /\ Cardinality({i} \X T) = Cardinality({i}) * Cardinality(T)
    BY <1>2, <2>1, FS_Product, Zenon
  <2>3. Cardinality({i}) * Cardinality(T) = 1 * f[i]
    BY <1>2, <2>1
  <2> QED
    BY <2>2, <2>3 DEF T
<1> QED
  BY <1>1, <1>4

LEMMA PointsAdd ==
  ASSUME NEW n \in Nat, NEW f \in [1..n -> Nat],
         NEW s \in SUBSET (1..n), IsFiniteSet(Points(s, f)), NEW i \in 1..n, i \notin s
  PROVE  /\ IsFiniteSet(Points(s \cup {i}, f))
         /\ Cardinality(Points(s \cup {i}, f)) = Cardinality(Points(s, f)) + f[i]
<1> DEFINE one == {i} \X (1..f[i])
<1>1. f[i] \in Nat
  OBVIOUS
<1>2. Points(s \cup {i}, f) = Points(s, f) \cup one
  BY DEF Points
<1>3. Points(s, f) \cap one = {}
  BY DEF Points
<1>4. IsFiniteSet(one) /\ Cardinality(one) = f[i]
  BY PointsOfOne
<1> HIDE DEF one
<1>5. /\ IsFiniteSet(Points(s, f) \cup one)
      /\ Cardinality(Points(s, f) \cup one)
           = Cardinality(Points(s, f)) + Cardinality(one) - Cardinality(Points(s, f) \cap one)
  BY <1>4, FS_Union
<1>6. Cardinality(Points(s, f) \cap one) = 0 /\ Cardinality(Points(s, f)) \in Nat
  BY <1>3, FS_EmptySet, FS_CardinalityType
<1>7. Cardinality(Points(s, f) \cup one) = Cardinality(Points(s, f)) + f[i]
  BY <1>1, <1>4, <1>5, <1>6
<1> QED
  BY <1>2, <1>5, <1>7

\* Of some numbers up to n one is the largest.
LEMMA LargestOf ==
  ASSUME NEW n \in Nat, NEW s \in SUBSET (1..n), s # {}
  PROVE  Max(s) \in s
<1> DEFINE R == OpToRel(<, Nat)
           D == {n - i : i \in s}
<1>1. IsWellFoundedOn(R, Nat)
  BY NatLessThanWellFounded
<1>2. \A k, m \in Nat : k < m => <<k, m>> \in R
  BY DEF OpToRel
<1> HIDE DEF R
<1>3. D \subseteq Nat /\ D # {}
  <2>1. \A i \in s : n - i \in Nat
    OBVIOUS
  <2> QED
    BY <2>1
<1>4. PICK d \in D : \A k \in D : ~(<<k, d>> \in R)
  BY <1>1, <1>3, WFMin
<1>5. PICK i \in s : d = n - i
  OBVIOUS
<1>6. ASSUME NEW j \in s
      PROVE  i >= j
  <2>1. n - j \in D /\ n - j \in Nat /\ d \in Nat
    BY <1>3
  <2> HIDE DEF D
  <2>2. ~(n - j < d)
    BY <1>2, <1>4, <2>1, Zenon
  <2> QED
    BY <1>5, <2>1, <2>2
<1> QED
  BY <1>6 DEF Max

\* A set of finitely many has the smallest sets of any family of its subsets.
LEMMA SmallestIn ==
  ASSUME NEW S, IsFiniteSet(S), NEW W \in SUBSET SUBSET S, W # {}
  PROVE  \E s \in W : \A x \in s : s \ {x} \notin W
<1> DEFINE R == StrictSubsetOrdering(S)
<1>1. IsWellFoundedOn(R, FiniteSubsetsOf(S))
  BY FS_StrictSubsetOrderingWellFounded
<1>2. W \subseteq FiniteSubsetsOf(S)
  BY FS_Subset DEF FiniteSubsetsOf
<1>3. \A s \in W : \A x \in s : <<s \ {x}, s>> \in R
  BY DEF StrictSubsetOrdering
<1> HIDE DEF R
<1>4. PICK s \in W : \A r \in W : ~(<<r, s>> \in R)
  BY <1>1, <1>2, WFMin
<1> QED
  BY <1>3, <1>4

LEMMA PointsFinite ==
  ASSUME NEW n \in Nat, NEW f \in [1..n -> Nat]
  PROVE  \A s \in SUBSET (1..n) : IsFiniteSet(Points(s, f))
<1> DEFINE W == {s \in SUBSET (1..n) : ~IsFiniteSet(Points(s, f))}
<1> SUFFICES ASSUME W # {}
             PROVE  FALSE
  OBVIOUS
<1>1. PICK s \in W : \A x \in s : s \ {x} \notin W
  <2>1. IsFiniteSet(1..n)
    BY FS_Interval
  <2> HIDE DEF W
  <2>2. W \in SUBSET SUBSET (1..n)
    BY DEF W
  <2> QED
    BY <2>1, <2>2, SmallestIn
<1>2. s # {}
  <2>1. Points({}, f) = {}
    BY DEF Points
  <2> QED
    BY <2>1, FS_EmptySet
<1>3. PICK i \in s : TRUE
  BY <1>2
<1>4. /\ s \ {i} \in SUBSET (1..n) /\ IsFiniteSet(Points(s \ {i}, f)) /\ i \in 1..n
      /\ (s \ {i}) \cup {i} = s /\ i \notin s \ {i}
  BY <1>1, <1>3
<1>5. IsFiniteSet(Points(s, f))
  BY <1>4, PointsAdd
<1> QED
  BY <1>1, <1>5

\* The folds of SumOf are the functions g that add up f, the largest index last.
AddsUp(n, f, g) ==
  g = [s \in SUBSET (1..n) |-> IF s = {} THEN 0 ELSE g[s \ {Max(s)}] + f[Max(s)]]
PointsUp(n, f) == [s \in SUBSET (1..n) |-> Cardinality(Points(s, f))]

LEMMA PointsAddUp ==
  ASSUME NEW n \in Nat, NEW f \in [1..n -> Nat]
  PROVE  AddsUp(n, f, PointsUp(n, f))
<1> DEFINE g == PointsUp(n, f)
<1>1. \A s \in SUBSET (1..n) : g[s] = Cardinality(Points(s, f))
  BY DEF PointsUp
<1>2. g = [s \in SUBSET (1..n) |-> g[s]]
  BY DEF PointsUp
<1> HIDE DEF g
<1>3. ASSUME NEW s \in SUBSET (1..n)
      PROVE  g[s] = IF s = {} THEN 0 ELSE g[s \ {Max(s)}] + f[Max(s)]
  <2>1. CASE s = {}
    <3>1. Points({}, f) = {}
      BY DEF Points
    <3>2. Cardinality(Points(s, f)) = 0
      BY <2>1, <3>1, FS_EmptySet
    <3> QED
      BY <1>1, <2>1, <3>2
  <2>2. CASE s # {}
    <3> DEFINE i == Max(s)
               r == s \ {i}
    <3>1. i \in s
      BY <2>2, LargestOf
    <3> HIDE DEF i
    <3>2. r \in SUBSET (1..n) /\ i \in 1..n /\ i \notin r /\ r \cup {i} = s
      BY <3>1
    <3> HIDE DEF r
    <3>3. IsFiniteSet(Points(r, f))
      BY <3>2, PointsFinite
    <3>4. Cardinality(Points(s, f)) = Cardinality(Points(r, f)) + f[i]
      BY <3>2, <3>3, PointsAdd
    <3>5. g[s] = g[r] + f[i]
      BY <1>1, <3>2, <3>4
    <3> QED
      BY <2>2, <3>5 DEF i, r
  <2> QED
    BY <2>1, <2>2
<1>4. AddsUp(n, f, g)
  BY <1>2, <1>3 DEF AddsUp
<1> QED
  BY <1>4 DEF g

LEMMA AddsUpOnce ==
  ASSUME NEW n \in Nat, NEW f, NEW g, NEW h, AddsUp(n, f, g), AddsUp(n, f, h)
  PROVE  g[1..n] = h[1..n]
<1> DEFINE W == {s \in SUBSET (1..n) : g[s] # h[s]}
<1> SUFFICES ASSUME W # {}
             PROVE  FALSE
  OBVIOUS
<1>1. PICK s \in W : \A x \in s : s \ {x} \notin W
  <2>1. IsFiniteSet(1..n)
    BY FS_Interval
  <2> HIDE DEF W
  <2>2. W \in SUBSET SUBSET (1..n)
    BY DEF W
  <2> QED
    BY <2>1, <2>2, SmallestIn
<1>2. s \in SUBSET (1..n) /\ g[s] # h[s]
  BY <1>1
<1>3. /\ g[s] = IF s = {} THEN 0 ELSE g[s \ {Max(s)}] + f[Max(s)]
      /\ h[s] = IF s = {} THEN 0 ELSE h[s \ {Max(s)}] + f[Max(s)]
  BY <1>2 DEF AddsUp
<1>4. s # {}
  BY <1>2, <1>3
<1>5. Max(s) \in s
  BY <1>2, <1>4, LargestOf
<1>6. g[s \ {Max(s)}] = h[s \ {Max(s)}]
  BY <1>1, <1>2, <1>5
<1> QED
  BY <1>2, <1>3, <1>6

LEMMA SumIs ==
  ASSUME NEW n \in Nat, NEW f \in [1..n -> Nat]
  PROVE  SumOf(f) = Cardinality(Points(1..n, f))
<1> DEFINE Folds(g) == g = [s \in SUBSET DOMAIN f |->
             IF s = {} THEN 0 ELSE g[s \ {Max(s)}] + f[Max(s)]]
           fold == CHOOSE g : Folds(g)
<1>1. SumOf(f) = fold[DOMAIN f]
  BY DEF SumOf, FoldLeft, MapThenFoldSet
<1>2. DOMAIN f = 1..n
  OBVIOUS
<1>3. ASSUME NEW g
      PROVE  Folds(g) <=> AddsUp(n, f, g)
  BY <1>2 DEF AddsUp
<1>4. AddsUp(n, f, PointsUp(n, f))
  BY PointsAddUp
<1> HIDE DEF Folds
<1>5. Folds(PointsUp(n, f))
  BY <1>3, <1>4
<1>6. Folds(fold)
  BY <1>5
<1> HIDE DEF fold
<1>7. AddsUp(n, f, fold)
  BY <1>3, <1>6
<1>8. fold[1..n] = PointsUp(n, f)[1..n]
  BY <1>4, <1>7, AddsUpOnce
<1> QED
  BY <1>1, <1>2, <1>8 DEF PointsUp

LEMMA SumGrows ==
  ASSUME NEW n \in Nat, NEW f \in [1..n -> Nat], NEW h \in [1..n -> Nat],
         \A i \in 1..n : f[i] <= h[i]
  PROVE  SumOf(f) \in Nat /\ SumOf(h) \in Nat /\ SumOf(f) <= SumOf(h)
<1>1. IsFiniteSet(Points(1..n, h)) /\ IsFiniteSet(Points(1..n, f))
  BY PointsFinite
<1>2. Points(1..n, f) \subseteq Points(1..n, h)
  BY DEF Points
<1>3. /\ Cardinality(Points(1..n, f)) \in Nat /\ Cardinality(Points(1..n, h)) \in Nat
      /\ Cardinality(Points(1..n, f)) <= Cardinality(Points(1..n, h))
  BY <1>1, <1>2, FS_Subset, FS_CardinalityType
<1> QED
  BY <1>3, SumIs

\* The sequence SetToSeq makes of a finite set holds members of the set.
LEMMA SeqOfSet ==
  ASSUME NEW S, IsFiniteSet(S)
  PROVE  SetToSeq(S) \in [1..Cardinality(S) -> S]
<1>1. PICK f \in [1..Cardinality(S) -> S] : IsInjective(f)
  <2>1. Cardinality(S) \in Nat /\ ExistsBijection(1..Cardinality(S), S)
    BY FS_CardinalityType, FS_NatBijection, FS_CountingElements
  <2>2. PICK f : f \in Bijection(1..Cardinality(S), S)
    BY <2>1 DEF ExistsBijection
  <2>3. f \in [1..Cardinality(S) -> S]
    BY <2>2 DEF Bijection, Injection
  <2>4. IsInjective(f)
    BY <2>2 DEF Bijection, Injection
  <2> QED
    BY <2>3, <2>4
<1> QED
  BY <1>1 DEF SetToSeq

LEMMA QuotientGrows ==
  ASSUME NEW a \in Nat, NEW b \in Nat, NEW n \in Nat, n > 0, a <= b
  PROVE  a \div n \in Nat /\ b \div n \in Nat /\ a \div n <= b \div n
OBVIOUS

\* A call that fails never raises the mean of a pass.
LEMMA FailuresNeverHelp ==
  ASSUME ConfigAssumption, NEW config \in Configs, NEW prompts \in SUBSET Corpus, NEW failed
  PROVE  /\ Mean(config, failed, prompts) \in Nat /\ Mean(config, {}, prompts) \in Nat
         /\ Mean(config, failed, prompts) <= Mean(config, {}, prompts)
<1>1. CASE prompts = {}
  BY <1>1 DEF Mean
<1>2. CASE prompts # {}
  <2> DEFINE n == Cardinality(prompts)
             seq == SetToSeq(prompts)
             some == Scores(config, failed, prompts)
             all == Scores(config, {}, prompts)
  <2>1. IsFiniteSet(prompts) /\ n \in Nat /\ n > 0
    <3>1. IsFiniteSet(prompts)
      BY FS_Subset DEF ConfigAssumption
    <3>2. n \in Nat
      BY <3>1, FS_CardinalityType
    <3>3. n # 0
      BY <1>2, <3>1, FS_EmptySet
    <3> QED
      BY <3>1, <3>2, <3>3
  <2>2. seq \in [1..n -> prompts]
    BY <2>1, SeqOfSet
  <2>3. \A p \in prompts : ScoreFor[config][p] \in Nat
    BY DEF ConfigAssumption
  <2>4. /\ some = [i \in 1..n |-> IF seq[i] \in failed THEN 0 ELSE ScoreFor[config][seq[i]]]
        /\ all = [i \in 1..n |-> ScoreFor[config][seq[i]]]
    BY DEF Scores, CallScore
  <2> HIDE DEF n, seq, some, all
  <2>5. /\ some \in [1..n -> Nat] /\ all \in [1..n -> Nat]
        /\ \A i \in 1..n : some[i] <= all[i]
    BY <2>2, <2>3, <2>4
  <2>6. SumOf(some) \in Nat /\ SumOf(all) \in Nat /\ SumOf(some) <= SumOf(all)
    BY <2>1, <2>5, SumGrows
  <2>7. /\ SumOf(some) \div n \in Nat /\ SumOf(all) \div n \in Nat
        /\ SumOf(some) \div n <= SumOf(all) \div n
    BY <2>1, <2>6, QuotientGrows
  <2> QED
    BY <1>2, <2>7 DEF Mean, n, some, all
<1> QED
  BY <1>1, <1>2

-----------------------------------------------------------------------------
(* The invariant of the sequence.                                          *)

\* A row holds what its pass found, over the holdout it was run on.
PassRow(row, config) ==
  /\ row.on \in SUBSET Corpus
  /\ row.mean = Mean(config, row.failed, row.on)

Proposing == {"proposed", "proposed verified", "gate", "kept"}

ConfigInv ==
  /\ holdout \in SUBSET Corpus
  /\ configChampion \in Configs \cup {NoConfig} /\ configPrevious \in Configs \cup {NoConfig}
  /\ stage # "idle" => base \in Configs
  /\ stage \in Proposing => proposed \in Configs /\ PassRow(baseRow, base)
  /\ stage \in {"gate", "kept"} => PassRow(proposedRow, proposed)
  /\ stage = "kept" => Accepts(baseRow, proposedRow)

LEMMA ConfigInitInv == ConfigAssumption /\ ConfigInit => ConfigInv
  BY DEF ConfigInit, ConfigInv, Samples, Proposing

LEMMA EditsAreConfigs ==
  ASSUME ConfigAssumption, NEW config \in Configs, NEW row, NEW dropped
  PROVE  Edits(config, row, dropped) \subseteq Configs
BY DEF ConfigAssumption, Edits

LEMMA EvalRowIsPassRow ==
  ASSUME NEW config, NEW failed, NEW judge, NEW prompts \in SUBSET Corpus
  PROVE  PassRow(EvalRow(config, failed, judge, prompts), config)
BY DEF PassRow, EvalRow, RowOver

LEMMA ConfigNextInv ==
  ASSUME ConfigAssumption, ConfigInv, [ConfigNext]_configVars
  PROVE  ConfigInv'
<1> USE DEF ConfigInv, files, cycle, pointers, Proposing
<1>1. CASE UNCHANGED configVars
  BY <1>1 DEF configVars, PassRow, Accepts
<1>2. CASE WriteHoldout \/ WriteManifest
  BY <1>2 DEF WriteHoldout, WriteManifest, Samples, PassRow
<1>3. CASE BeginCycle
  BY <1>3 DEF BeginCycle, Active, ConfigAssumption
<1>4. CASE Verify
  BY <1>4 DEF Verify, PassRow
<1>5. CASE EvaluateBase
  <2>1. PICK failed \in SUBSET holdout, judge \in EvalJudges, dropped \in SUBSET Corpus :
          LET row == EvalRow(base, failed, judge, holdout)
          IN \/ Edits(base, row, dropped) = {} /\ ToIdle
             \/ /\ proposed' \in Edits(base, row, dropped)
                /\ baseRow' = row
                /\ stage' = "proposed"
                /\ UNCHANGED <<base, proposedRow>>
    BY <1>5 DEF EvaluateBase
  <2> DEFINE row == EvalRow(base, failed, judge, holdout)
  <2>2. PassRow(row, base) /\ Edits(base, row, dropped) \subseteq Configs /\ base \in Configs
    BY <1>5, EvalRowIsPassRow, EditsAreConfigs DEF EvaluateBase
  <2>3. UNCHANGED <<holdout, configChampion, configPrevious>>
    BY <1>5 DEF EvaluateBase
  <2> HIDE DEF row
  <2>4. CASE ToIdle
    BY <2>3, <2>4 DEF ToIdle
  <2>5. CASE /\ proposed' \in Edits(base, row, dropped)
             /\ baseRow' = row
             /\ stage' = "proposed"
             /\ UNCHANGED <<base, proposedRow>>
    <3>1. PassRow(baseRow', base')
      BY <2>2, <2>5
    <3> QED
      BY <2>2, <2>3, <2>5, <3>1 DEF PassRow
  <2> QED
    BY <2>1, <2>4, <2>5 DEF row
<1>6. CASE EvaluateProposed
  <2>1. PICK failed \in SUBSET holdout, judge \in EvalJudges :
          proposedRow' = EvalRow(proposed, failed, judge, holdout)
    BY <1>6 DEF EvaluateProposed
  <2>2. PassRow(proposedRow', proposed)
    BY <2>1, EvalRowIsPassRow
  <2>3. /\ UNCHANGED <<holdout, base, proposed, baseRow, configChampion, configPrevious>>
        /\ stage = "proposed verified" /\ stage' = "gate"
    BY <1>6 DEF EvaluateProposed
  <2> QED
    BY <2>2, <2>3 DEF PassRow
<1>7. CASE Reject
  BY <1>7 DEF Reject, ToIdle
<1>8. CASE KeepPrevious
  BY <1>8 DEF KeepPrevious, PassRow, Accepts
<1>9. CASE ReplaceChampion
  BY <1>9 DEF ReplaceChampion, ToIdle
<1>10. CASE Withdraw
  BY <1>10 DEF Withdraw, PassRow, Accepts
<1>11. CASE Abandon
  BY <1>11 DEF Abandon, ToIdle
<1> QED
  BY <1>1, <1>2, <1>3, <1>4, <1>5, <1>6, <1>7, <1>8, <1>9, <1>10, <1>11 DEF ConfigNext

\* A champion that is neither the one before nor the one kept back won its evaluation.
LEMMA ReplacedByWinner ==
  ASSUME ConfigAssumption, GateAssumption, ConfigInv, [ConfigNext]_configVars,
         configChampion' \notin {configChampion, configPrevious, NoConfig}
  PROVE  /\ configChampion' = proposed
         /\ baseRow.failed = {} /\ baseRow.on = proposedRow.on =>
              TrueGain(baseRow.on) >= MeanScoreDelta
<1>1. ReplaceChampion
  BY DEF ConfigNext, configVars, pointers, WriteHoldout, WriteManifest, BeginCycle, Verify,
     EvaluateBase, EvaluateProposed, Reject, KeepPrevious, Withdraw, Abandon
<1>2. /\ configChampion' = proposed
      /\ base \in Configs /\ proposed \in Configs
      /\ PassRow(baseRow, base) /\ PassRow(proposedRow, proposed)
      /\ Accepts(baseRow, proposedRow)
  BY <1>1 DEF ReplaceChampion, ConfigInv, Proposing
<1>3. ASSUME baseRow.failed = {}, baseRow.on = proposedRow.on
      PROVE  TrueGain(baseRow.on) >= MeanScoreDelta
  <2> DEFINE on == baseRow.on
  <2>1. on \in SUBSET Corpus
    BY <1>2 DEF PassRow
  <2>2. baseRow.mean = Mean(base, {}, on)
    BY <1>2, <1>3 DEF PassRow
  <2>3. proposedRow.mean = Mean(proposed, proposedRow.failed, on)
    BY <1>2, <1>3 DEF PassRow
  <2>4. Mean(base, {}, on) \in Nat
    BY <1>2, <2>1, FailuresNeverHelp
  <2>5. /\ Mean(proposed, proposedRow.failed, on) \in Nat /\ Mean(proposed, {}, on) \in Nat
        /\ Mean(proposed, proposedRow.failed, on) <= Mean(proposed, {}, on)
    BY <1>2, <2>1, FailuresNeverHelp
  <2>6. ~(proposedRow.mean - baseRow.mean < MeanScoreDelta)
    BY <1>2 DEF Accepts, RejectReasons, MeanDelta
  <2>7. MeanScoreDelta \in Nat
    BY DEF GateAssumption
  <2> QED
    BY <2>2, <2>3, <2>4, <2>5, <2>6, <2>7 DEF TrueGain
<1> QED
  BY <1>2, <1>3

\* The configuration that becomes champion was accepted against the one it edits, and is
\* better by the required gain when nothing fails, unless the incumbent's pass had failing
\* calls or the holdout changed between the passes.
THEOREM OnlyEarnedConfigs ==
  ConfigInit /\ [][ConfigNext]_configVars => ConfigEarned
<1>1. ConfigInit => ConfigInv
  BY ConfigInitInv, ConfigAssumption
<1>2. ConfigInv /\ [ConfigNext]_configVars => ConfigInv'
  BY ConfigNextInv, ConfigAssumption
<1>3. ConfigInv /\ [ConfigNext]_configVars =>
        [configChampion' \notin {configChampion, configPrevious, NoConfig} =>
           /\ configChampion' = proposed
           /\ baseRow.failed = {} /\ baseRow.on = proposedRow.on =>
                TrueGain(baseRow.on) >= MeanScoreDelta]_configVars
  BY ReplacedByWinner, ConfigAssumption, GateAssumption
<1> QED
  BY <1>1, <1>2, <1>3, PTL DEF ConfigEarned

-----------------------------------------------------------------------------
(* TrainingNode.  Its inductive invariant.                                 *)

EntryType == [prompt : Prompts, domain : Topics]
ThreadType ==
  [at : {"gone", "begin", "loop", "step", "save", "meta", "returned"},
   stub : BOOLEAN, examples : Seq(EntryType), steps : Nat, preempted : BOOLEAN,
   due : SUBSET Prompts, early : BOOLEAN, told : BOOLEAN, late : Nat]

\* The captures that are the last of their prompt.
LastsOf(caps) ==
  {i \in 1..Len(caps) : \A j \in i + 1..Len(caps) : caps[j].prompt # caps[i].prompt}

\* Each entry is a last capture, they are in the order of the captures, and of those that
\* are not held, which there are only in a store that was filled, each is older than all.
Follows(s, caps, h) ==
  /\ h \in [1..Len(s) -> LastsOf(caps)]
  /\ \A i, j \in 1..Len(s) : i < j => h[i] < h[j]
  /\ \A i \in 1..Len(s) : s[i] = caps[h[i]]

Misses(s, caps, h, l) == l \in LastsOf(caps) /\ \A i \in 1..Len(s) : h[i] # l

Holds(s, caps, h) ==
  /\ Follows(s, caps, h)
  /\ Len(s) <= MaxSize
  /\ \A l \in LastsOf(caps) :
       Misses(s, caps, h, l) => Len(s) = MaxSize /\ \A i \in 1..Len(s) : l < h[i]

Mirrors(s, caps) ==
  /\ s \in Seq(EntryType) /\ caps \in Seq(EntryType)
  /\ \E h \in [1..Len(s) -> LastsOf(caps)] : Holds(s, caps, h)

NodeTyped ==
  /\ state \in {"active", "ready", "training", "cooldown"}
  /\ quiet \in BOOLEAN /\ preempt \in BOOLEAN
  /\ caller \in {"watching", "spawned", "marked"}
  /\ thread \in ThreadType

\* Who is where; an event that is set is the pass's own once it is marked started.
ThreadHeld ==
  /\ state = "training" <=> caller = "marked"
  /\ thread.at = "gone" <=> caller = "watching"
  /\ caller = "spawned" => state = "ready"
  /\ thread.told => caller # "watching" /\ preempt
  /\ caller = "marked" /\ preempt => thread.told

\* What the pass has noted.
ThreadTrue ==
  /\ thread.at \in {"gone", "begin", "loop", "step"} => ~thread.preempted
  /\ thread.at = "step" => thread.steps < StepsPlanned
  /\ thread.at = "save" => thread.preempted /\ thread.steps < StepsPlanned
  /\ thread.at = "meta" => (thread.preempted <=> thread.steps < StepsPlanned)
  /\ thread.steps <= StepsPlanned
  /\ thread.preempted => thread.told \/ thread.early
  /\ caller = "spawned" /\ thread.preempted => thread.early
  /\ thread.late <= 1 /\ (thread.late = 1 => thread.told)
  /\ thread.at \in {"gone", "begin", "step"} => thread.late = 0
  /\ {e.prompt : e \in ToSet(thread.examples)} = thread.due

NodeInv ==
  /\ NodeTyped /\ ThreadHeld /\ ThreadTrue
  /\ Mirrors(store, captured) /\ Mirrors(dumped.store, dumped.captured)

-----------------------------------------------------------------------------
(* The members of a set of numbers in their order.                         *)

Rank(indices, i) == Cardinality({j \in indices : j < i})

\* A function that is one to one keeps the size.
LEMMA ImageSize ==
  ASSUME NEW S, IsFiniteSet(S), NEW T, NEW f \in [S -> T],
         \A x, y \in S : f[x] = f[y] => x = y,
         \A t \in T : \E x \in S : f[x] = t
  PROVE  IsFiniteSet(T) /\ Cardinality(T) = Cardinality(S)
<1>1. f \in Bijection(S, T)
  BY DEF Bijection, Injection, Surjection, IsInjective
<1> QED
  BY <1>1, FS_Bijection DEF ExistsBijection

LEMMA RankRises ==
  ASSUME NEW I, \A x \in I : x \in Int, IsFiniteSet(I), NEW i \in I
  PROVE  /\ Rank(I, i) \in Nat /\ Rank(I, i) < Cardinality(I)
         /\ \A j \in I : j < i => Rank(I, j) < Rank(I, i)
<1> DEFINE Below(j) == {k \in I : k < j}
<1>1. ASSUME NEW j \in I
      PROVE  /\ IsFiniteSet(Below(j)) /\ Cardinality(Below(j)) \in Nat
             /\ IsFiniteSet(Below(j) \cup {j})
             /\ Cardinality(Below(j) \cup {j}) = Cardinality(Below(j)) + 1
  <2>1. IsFiniteSet(Below(j))
    BY FS_Subset
  <2>2. j \notin Below(j)
    OBVIOUS
  <2> HIDE DEF Below
  <2> QED
    BY <2>1, <2>2, FS_AddElement, FS_CardinalityType
<1>2. Cardinality(Below(i) \cup {i}) <= Cardinality(I)
  BY FS_Subset
<1>3. Cardinality(I) \in Nat
  BY FS_CardinalityType
<1>4. ASSUME NEW j \in I, j < i
      PROVE  Cardinality(Below(j) \cup {j}) <= Cardinality(Below(i))
  <2>1. ASSUME NEW k \in Below(j) \cup {j}
        PROVE  k \in Below(i)
    <3>1. k \in I /\ (k < j \/ k = j)
      OBVIOUS
    <3>2. k \in Int /\ j \in Int /\ i \in Int
      BY <3>1
    <3>3. k < i
      BY <1>4, <3>1, <3>2
    <3> QED
      BY <3>1, <3>3
  <2>2. IsFiniteSet(Below(i))
    BY <1>1
  <2> HIDE DEF Below
  <2> QED
    BY <2>1, <2>2, FS_Subset
<1>5. \A j \in I : Rank(I, j) = Cardinality(Below(j))
  BY DEF Rank
<1> HIDE DEF Below
<1>6. Rank(I, i) \in Nat /\ Rank(I, i) < Cardinality(I)
  BY <1>1, <1>2, <1>3, <1>5
<1>7. ASSUME NEW j \in I, j < i
      PROVE  Rank(I, j) < Rank(I, i)
  <2> DEFINE m == Cardinality(Below(j))
             n == Cardinality(Below(i))
  <2>1. m \in Nat /\ n \in Nat /\ m + 1 <= n
    BY <1>1, <1>4, <1>7
  <2>2. Rank(I, j) = m /\ Rank(I, i) = n
    BY <1>5
  <2> HIDE DEF m, n
  <2> QED
    BY <2>1, <2>2
<1> QED
  BY <1>6, <1>7

LEMMA NthOf ==
  ASSUME NEW I, \A x \in I : x \in Int, IsFiniteSet(I), NEW k \in 1..Cardinality(I)
  PROVE  Nth(I, k) \in I /\ Rank(I, Nth(I, k)) = k - 1
<1> DEFINE n == Cardinality(I)
           f == [i \in I |-> Rank(I, i) + 1]
<1>1. n \in Nat
  BY FS_CardinalityType
<1>2. IsFiniteSet(1..n) /\ Cardinality(1..n) = n
  BY <1>1, FS_Interval
<1>3. f \in [I -> 1..n]
  BY <1>1, RankRises
<1>4. ASSUME NEW i \in I, NEW j \in I, f[i] = f[j]
      PROVE  i = j
  <2>1. Rank(I, i) = Rank(I, j) /\ Rank(I, i) \in Nat /\ Rank(I, j) \in Nat
    BY <1>4, RankRises
  <2>2. ~(i < j) /\ ~(j < i)
    BY <2>1, RankRises
  <2> QED
    BY <2>2
<1>5. f \in Injection(I, 1..n)
  BY <1>3, <1>4 DEF Injection, IsInjective
<1> HIDE DEF f
<1>6. f \in Surjection(I, 1..n)
  BY <1>2, <1>5, FS_Injection
<1>7. PICK i \in I : f[i] = k
  BY <1>6 DEF Surjection
<1>8. Rank(I, i) = k - 1
  BY <1>7, RankRises DEF f
<1> QED
  BY <1>8 DEF Nth, Rank

LEMMA NthRank ==
  ASSUME NEW I, \A x \in I : x \in Int, IsFiniteSet(I), NEW i \in I
  PROVE  Rank(I, i) + 1 \in 1..Cardinality(I) /\ Nth(I, Rank(I, i) + 1) = i
<1> DEFINE k == Rank(I, i) + 1
<1>1. Rank(I, i) \in Nat /\ Rank(I, i) < Cardinality(I) /\ Cardinality(I) \in Nat
  BY RankRises, FS_CardinalityType
<1>2. k \in 1..Cardinality(I) /\ k - 1 = Rank(I, i)
  BY <1>1
<1> HIDE DEF k
<1>3. Nth(I, k) \in I /\ Rank(I, Nth(I, k)) = Rank(I, i)
  BY <1>2, NthOf
<1> DEFINE j == Nth(I, k)
<1>4. j \in I /\ Rank(I, j) = Rank(I, i) /\ j \in Int /\ i \in Int
  BY <1>3
<1> HIDE DEF j
<1>5. ~(j < i) /\ ~(i < j)
  <2>1. j < i => Rank(I, j) < Rank(I, i)
    BY <1>4, RankRises
  <2>2. i < j => Rank(I, i) < Rank(I, j)
    BY <1>4, RankRises
  <2> QED
    BY <1>1, <1>4, <2>1, <2>2
<1>6. j = i
  BY <1>4, <1>5
<1> QED
  BY <1>2, <1>6 DEF j, k

LEMMA NthRises ==
  ASSUME NEW I, \A x \in I : x \in Int, IsFiniteSet(I),
         NEW k \in 1..Cardinality(I), NEW l \in 1..Cardinality(I), k < l
  PROVE  Nth(I, k) < Nth(I, l)
<1>0. Cardinality(I) \in Nat
  BY FS_CardinalityType
<1>1. /\ Nth(I, k) \in I /\ Rank(I, Nth(I, k)) = k - 1
      /\ Nth(I, l) \in I /\ Rank(I, Nth(I, l)) = l - 1
  BY NthOf
<1> DEFINE i == Nth(I, k)
           j == Nth(I, l)
<1>2. /\ i \in I /\ j \in I /\ i \in Int /\ j \in Int
      /\ Rank(I, i) = k - 1 /\ Rank(I, j) = l - 1
  BY <1>1
<1> HIDE DEF i, j
<1>3. j < i => Rank(I, j) < Rank(I, i)
  BY <1>2, RankRises
<1>4. ~(j < i) /\ j # i
  BY <1>0, <1>2, <1>3
<1>5. i < j
  BY <1>2, <1>4
<1> QED
  BY <1>5 DEF i, j

-----------------------------------------------------------------------------
(* The store mirrors the captures.                                         *)

LEMMA CountTo ==
  ASSUME NEW n \in Nat
  PROVE  IsFiniteSet(1..n) /\ Cardinality(1..n) = n
BY FS_Interval

\* A store before it is trimmed.
Near(s, caps, h) ==
  /\ s \in Seq(EntryType) /\ caps \in Seq(EntryType)
  /\ Follows(s, caps, h)
  /\ Len(s) <= MaxSize + 1
  /\ \A l \in LastsOf(caps) :
       Misses(s, caps, h, l) => Len(s) >= MaxSize /\ \A i \in 1..Len(s) : l < h[i]

LEMMA TrimmedMirrors ==
  ASSUME StoreAssumption, NEW s, NEW caps, NEW h, Near(s, caps, h)
  PROVE  Mirrors(Trimmed(s), caps)
<1> USE DEF Near, Follows, Misses
<1>1. MaxSize \in Nat /\ MaxSize > 0 /\ Len(s) \in Nat
  BY DEF StoreAssumption
<1>2. CASE Len(s) <= MaxSize
  <2>1. Trimmed(s) = s
    BY <1>1, <1>2 DEF Trimmed
  <2>2. Holds(s, caps, h)
    BY <1>1, <1>2 DEF Holds
  <2>3. h \in [1..Len(s) -> LastsOf(caps)]
    OBVIOUS
  <2> QED
    BY <2>1, <2>2, <2>3 DEF Mirrors
<1>3. CASE Len(s) > MaxSize
  <2> DEFINE t == SubSeq(s, 2, Len(s))
             g == [i \in 1..MaxSize |-> h[i + 1]]
  <2>1. Len(s) = MaxSize + 1
    BY <1>1, <1>3
  <2>2. Trimmed(s) = t
    BY <1>1, <1>3, <2>1 DEF Trimmed
  <2>3. t \in Seq(EntryType) /\ Len(t) = MaxSize /\ \A i \in 1..MaxSize : t[i] = s[i + 1]
    BY <1>1, <2>1, SubSeqProperties
  <2>4. \A i \in 1..MaxSize : i + 1 \in 1..Len(s)
    BY <1>1, <2>1
  <2>5. g \in [1..Len(t) -> LastsOf(caps)]
    BY <2>3, <2>4
  <2>6. \A i, j \in 1..Len(t) : i < j => g[i] < g[j]
    BY <1>1, <2>3, <2>4
  <2>7. \A i \in 1..Len(t) : t[i] = caps[g[i]]
    BY <2>3, <2>4
  <2>8. \A l \in LastsOf(caps) : l \in Int
    BY DEF LastsOf
  <2>9. ASSUME NEW l \in LastsOf(caps), \A i \in 1..Len(t) : g[i] # l
        PROVE  \A i \in 1..Len(t) : l < g[i]
    <3>1. CASE h[1] = l
      <4>1. \A i \in 1..MaxSize : h[1] < h[i + 1]
        BY <1>1, <2>1, <2>4
      <4> QED
        BY <2>3, <3>1, <4>1
    <3>2. CASE h[1] # l
      <4>1. ASSUME NEW i \in 1..Len(s)
            PROVE  h[i] # l
        <5>1. CASE i = 1
          BY <3>2, <5>1
        <5>2. CASE i # 1
          <6>1. i - 1 \in 1..Len(t) /\ g[i - 1] = h[i]
            BY <1>1, <2>1, <2>3, <5>2
          <6> QED
            BY <2>9, <6>1
        <5> QED
          BY <5>1, <5>2
      <4>2. \A i \in 1..Len(s) : l < h[i]
        BY <4>1
      <4> QED
        BY <2>3, <2>4, <4>2
    <3> QED
      BY <3>1, <3>2
  <2> HIDE DEF t, g
  <2>10. Holds(t, caps, g)
    BY <1>1, <2>3, <2>5, <2>6, <2>7, <2>9 DEF Holds
  <2> QED
    BY <2>2, <2>3, <2>5, <2>10 DEF Mirrors
<1> QED
  BY <1>1, <1>2, <1>3

\* Of two last captures the prompts differ.
LEMMA LaterDiffers ==
  ASSUME NEW caps, Len(caps) \in Nat, NEW k \in LastsOf(caps), NEW l \in LastsOf(caps), k < l
  PROVE  caps[k].prompt # caps[l].prompt
<1>1. k \in 1..Len(caps) /\ l \in 1..Len(caps)
  BY DEF LastsOf
<1>2. l \in k + 1..Len(caps)
  BY <1>1
<1> QED
  BY <1>2 DEF LastsOf

\* The captures of a store to which a prompt is added.
Others(s, prompt) == {i \in DOMAIN s : s[i].prompt # prompt}
Onward(s, caps, h, prompt) ==
  LET n == Cardinality(Others(s, prompt))
  IN [k \in 1..n + 1 |-> IF k <= n THEN h[Nth(Others(s, prompt), k)] ELSE Len(caps) + 1]

\* What Added puts together before it trims: what is held but for the prompt, and the
\* prompt.
LEMMA AddedNear ==
  ASSUME StoreAssumption, NEW s, NEW caps, NEW h, Holds(s, caps, h),
         s \in Seq(EntryType), caps \in Seq(EntryType),
         NEW prompt \in Prompts, NEW domain \in Topics
  PROVE  Near(Append(Without(s, prompt), Entry(prompt, domain)),
              Append(caps, Entry(prompt, domain)), Onward(s, caps, h, prompt))
<1> DEFINE e == Entry(prompt, domain)
           I == {i \in DOMAIN s : s[i].prompt # prompt}
           n == Cardinality(I)
           w == Without(s, prompt)
           t == Append(w, e)
           cs == Append(caps, e)
           up == Onward(s, caps, h, prompt)
<1>1. e \in EntryType /\ e.prompt = prompt
  BY DEF Entry, EntryType
<1>2. MaxSize \in Nat /\ Len(s) \in Nat /\ Len(caps) \in Nat /\ DOMAIN s = 1..Len(s)
  BY DEF StoreAssumption
<1> HIDE DEF e, w, t, cs, up
<1>0. Len(s) \in Nat /\ IsFiniteSet(1..Len(s)) /\ Cardinality(1..Len(s)) = Len(s)
  <2>1. Len(s) \in Nat
    OBVIOUS
  <2> QED
    BY <2>1, CountTo
<1>3. IsFiniteSet(I) /\ n \in Nat /\ n <= Len(s) /\ \A i \in I : i \in Int
  <2>1. I \subseteq 1..Len(s) /\ \A i \in I : i \in Int
    BY <1>2
  <2> HIDE DEF I
  <2>2. IsFiniteSet(I) /\ Cardinality(I) <= Cardinality(1..Len(s))
    BY <1>0, <2>1, FS_Subset
  <2>3. n \in Nat
    BY <2>2, FS_CardinalityType
  <2> QED
    BY <1>0, <2>1, <2>2, <2>3
<1>3a. up = [k \in 1..n + 1 |-> IF k <= n THEN h[Nth(I, k)] ELSE Len(caps) + 1]
  BY DEF up, Onward, Others
<1>4. w = [k \in 1..n |-> s[Nth(I, k)]]
  BY DEF w, Without, ItemsAt
<1>5. \A k \in 1..n : Nth(I, k) \in I
  BY <1>3, NthOf
<1>6. \A k, l \in 1..n : k < l => Nth(I, k) < Nth(I, l)
  BY <1>3, NthRises
<1>7. \A i \in I : \E k \in 1..n : Nth(I, k) = i
  BY <1>3, NthRank
<1>8. \A i \in I : i \in 1..Len(s) /\ s[i] \in EntryType /\ s[i].prompt # prompt
  BY <1>2
<1>9. \A i \in 1..Len(s) : i \notin I => s[i].prompt = prompt
  BY <1>2
<1> HIDE DEF I
<1>10. w \in Seq(EntryType) /\ Len(w) = n
  BY <1>3, <1>4, <1>5, <1>8
<1>11. /\ t \in Seq(EntryType) /\ Len(t) = n + 1
       /\ \A k \in 1..n : t[k] = s[Nth(I, k)]
       /\ t[n + 1] = e
  BY <1>1, <1>3, <1>4, <1>10, AppendProperties DEF t
<1>12. /\ cs \in Seq(EntryType) /\ Len(cs) = Len(caps) + 1
       /\ \A k \in 1..Len(caps) : cs[k] = caps[k]
       /\ cs[Len(caps) + 1] = e
  BY <1>1, <1>2, AppendProperties DEF cs
<1> HIDE DEF n
<1>13. Len(caps) + 1 \in LastsOf(cs)
  BY <1>2, <1>12 DEF LastsOf
<1>14. ASSUME NEW l \in LastsOf(caps), caps[l].prompt # prompt
       PROVE  l \in LastsOf(cs)
  <2>1. l \in 1..Len(caps) /\ \A j \in l + 1..Len(caps) : caps[j].prompt # caps[l].prompt
    BY DEF LastsOf
  <2>2. l \in 1..Len(cs) /\ cs[l] = caps[l]
    BY <1>2, <1>12, <2>1
  <2>3. ASSUME NEW j \in l + 1..Len(cs)
        PROVE  cs[j].prompt # cs[l].prompt
    <3>1. CASE j = Len(caps) + 1
      BY <1>1, <1>12, <1>14, <2>2, <3>1
    <3>2. CASE j # Len(caps) + 1
      <4>1. j \in l + 1..Len(caps) /\ j \in 1..Len(caps)
        BY <1>2, <1>12, <2>1, <3>2
      <4> QED
        BY <1>12, <2>1, <2>2, <4>1
    <3> QED
      BY <3>1, <3>2
  <2> QED
    BY <2>2, <2>3 DEF LastsOf
<1>15. ASSUME NEW l \in LastsOf(cs), l # Len(caps) + 1
       PROVE  l \in LastsOf(caps) /\ caps[l].prompt # prompt
  BY <1>1, <1>2, <1>12, <1>15 DEF LastsOf
<1>16. /\ h \in [1..Len(s) -> LastsOf(caps)]
       /\ \A i, j \in 1..Len(s) : i < j => h[i] < h[j]
       /\ \A i \in 1..Len(s) : s[i] = caps[h[i]]
  BY DEF Holds, Follows
<1>17. \A l \in LastsOf(caps) : l \in 1..Len(caps)
  BY DEF LastsOf
<1>18. \A k \in 1..n : up[k] = h[Nth(I, k)] /\ h[Nth(I, k)] \in LastsOf(cs)
  BY <1>3, <1>5, <1>8, <1>14, <1>16, <1>3a
<1>19. up[n + 1] = Len(caps) + 1 /\ n + 1 \in 1..n + 1
  BY <1>3, <1>3a
<1>20. \A k \in 1..n + 1 : k \in 1..n \/ k = n + 1
  BY <1>3
<1>21. up \in [1..Len(t) -> LastsOf(cs)]
  BY <1>11, <1>13, <1>18, <1>19, <1>20, <1>3a
<1>22. ASSUME NEW k \in 1..Len(t), NEW l \in 1..Len(t), k < l
       PROVE  up[k] < up[l]
  <2>1. k \in 1..n
    BY <1>3, <1>11, <1>22
  <2>2. CASE l \in 1..n
    BY <1>5, <1>6, <1>8, <1>16, <1>18, <1>22, <2>1, <2>2
  <2>3. CASE l = n + 1
    BY <1>2, <1>5, <1>8, <1>16, <1>17, <1>18, <1>19, <2>1, <2>3
  <2> QED
    BY <1>11, <1>20, <2>2, <2>3
<1>23. ASSUME NEW k \in 1..Len(t)
       PROVE  t[k] = cs[up[k]]
  <2>1. CASE k \in 1..n
    <3>1. Nth(I, k) \in 1..Len(s)
      BY <1>5, <1>8, <2>1
    <3>2. t[k] = caps[h[Nth(I, k)]]
      BY <1>11, <1>16, <2>1, <3>1
    <3>3. h[Nth(I, k)] \in 1..Len(caps)
      BY <1>16, <1>17, <3>1
    <3> QED
      BY <1>12, <1>18, <2>1, <3>2, <3>3
  <2>2. CASE k = n + 1
    BY <1>11, <1>12, <1>19, <2>2
  <2> QED
    BY <1>11, <1>20, <2>1, <2>2
<1>24. n >= Len(s) - 1
  <2>1. CASE I = 1..Len(s)
    BY <1>0, <2>1 DEF n
  <2>2. CASE I # 1..Len(s)
    <3>1. PICK i \in 1..Len(s) : i \notin I
      BY <1>8, <2>2
    <3>2. ASSUME NEW j \in 1..Len(s), j \notin I, j # i
          PROVE  FALSE
      <4>1. caps[h[i]].prompt = prompt /\ caps[h[j]].prompt = prompt
        BY <1>9, <1>16, <3>1, <3>2
      <4>2. h[i] \in LastsOf(caps) /\ h[j] \in LastsOf(caps)
        BY <1>16
      <4>3. h[i] < h[j] \/ h[j] < h[i]
        BY <1>16, <3>2
      <4> QED
        BY <1>2, <4>1, <4>2, <4>3, LaterDiffers
    <3>3. I = (1..Len(s)) \ {i}
      BY <1>8, <3>1, <3>2
    <3>4. n = Cardinality(1..Len(s)) - 1
      BY <1>0, <3>1, <3>3, FS_RemoveElement DEF n
    <3>5. n = Len(s) - 1
      BY <1>0, <3>4
    <3> QED
      BY <1>2, <3>5
  <2> QED
    BY <2>1, <2>2
<1>25. ASSUME NEW l \in LastsOf(cs), Misses(t, cs, up, l)
       PROVE  Len(t) >= MaxSize /\ \A k \in 1..Len(t) : l < up[k]
  <2>1. \A k \in 1..Len(t) : up[k] # l
    BY <1>25 DEF Misses
  <2>2. l # Len(caps) + 1
    BY <1>11, <1>19, <2>1
  <2>3. l \in LastsOf(caps) /\ caps[l].prompt # prompt
    BY <1>15, <2>2
  <2>4. ASSUME NEW i \in 1..Len(s)
        PROVE  h[i] # l
    <3>1. SUFFICES ASSUME h[i] = l
                   PROVE  FALSE
      OBVIOUS
    <3>2. i \in I
      BY <1>9, <1>16, <2>3, <3>1
    <3>3. PICK k \in 1..n : Nth(I, k) = i
      BY <1>7, <3>2
    <3>4. k \in 1..Len(t)
      BY <1>3, <1>11
    <3> QED
      BY <1>18, <2>1, <3>1, <3>3, <3>4
  <2>5. Len(s) = MaxSize /\ \A i \in 1..Len(s) : l < h[i]
    BY <2>3, <2>4 DEF Holds, Misses
  <2>6. Len(t) >= MaxSize
    BY <1>2, <1>3, <1>11, <1>24, <2>5
  <2>7. l < Len(caps) + 1
    BY <1>2, <1>17, <2>3
  <2> QED
    BY <1>5, <1>8, <1>11, <1>18, <1>19, <1>20, <2>5, <2>6, <2>7
<1>26. Len(t) <= MaxSize + 1
  <2>1. Len(s) <= MaxSize
    BY DEF Holds
  <2> QED
    BY <1>2, <1>3, <1>11, <2>1
<1>27. Near(t, cs, up)
  BY <1>11, <1>12, <1>21, <1>22, <1>23, <1>25, <1>26 DEF Near, Follows
<1> QED
  BY <1>27 DEF t, cs, up, e, w, n, I

LEMMA AddedMirrors ==
  ASSUME StoreAssumption, NEW s, NEW caps, Mirrors(s, caps),
         NEW prompt \in Prompts, NEW domain \in Topics
  PROVE  Mirrors(Added(s, prompt, domain), Append(caps, Entry(prompt, domain)))
<1>1. PICK h \in [1..Len(s) -> LastsOf(caps)] : Holds(s, caps, h)
  BY DEF Mirrors
<1> DEFINE t == Append(Without(s, prompt), Entry(prompt, domain))
           cs == Append(caps, Entry(prompt, domain))
<1>2. s \in Seq(EntryType) /\ caps \in Seq(EntryType)
  BY DEF Mirrors
<1>3. Near(t, cs, Onward(s, caps, h, prompt))
  BY <1>1, <1>2, AddedNear
<1> HIDE DEF t, cs
<1>4. Mirrors(Trimmed(t), cs)
  BY <1>3, TrimmedMirrors
<1> QED
  BY <1>4 DEF t, cs, Added

LEMMA LoadedMirrors ==
  ASSUME StoreAssumption, NEW s, NEW caps, Mirrors(s, caps)
  PROVE  Mirrors(Trimmed(s), caps)
<1>1. Len(s) <= MaxSize /\ Len(s) \in Nat /\ MaxSize \in Nat
  BY DEF Mirrors, Holds, StoreAssumption
<1>2. Trimmed(s) = s
  BY <1>1 DEF Trimmed
<1> QED
  BY <1>2

LEMMA NothingMirrors ==
  ASSUME StoreAssumption
  PROVE  Mirrors(<<>>, <<>>)
<1>1. LastsOf(<<>>) = {}
  BY DEF LastsOf
<1> DEFINE h == [i \in 1..0 |-> 0]
<1>2. h \in [1..Len(<<>>) -> LastsOf(<<>>)] /\ Len(<<>>) = 0
  OBVIOUS
<1> HIDE DEF h
<1>3. Follows(<<>>, <<>>, h)
  BY <1>2 DEF Follows
<1>4. Holds(<<>>, <<>>, h)
  BY <1>1, <1>2, <1>3 DEF Holds, StoreAssumption
<1>5. <<>> \in Seq(EntryType)
  OBVIOUS
<1> QED
  BY <1>2, <1>4, <1>5 DEF Mirrors

-----------------------------------------------------------------------------
(* What a pass that begins is given.                                       *)

After(indices, i) == Cardinality({j \in indices : j > i})

\* h maps D to T and keeps its order.
InStep(D, h, T) ==
  /\ IsFiniteSet(D)
  /\ \A i \in D : i \in Int /\ h[i] \in Int /\ h[i] \in T
  /\ \A i, j \in D : i < j => h[i] < h[j]
  /\ \A t \in T : \E i \in D : h[i] = t

LEMMA AfterSame ==
  ASSUME NEW D, NEW h, NEW T, InStep(D, h, T), NEW i \in D
  PROVE  After(T, h[i]) = After(D, i)
<1> USE DEF InStep
<1> DEFINE S == {k \in D : k > i}
           R == {t \in T : t > h[i]}
           f == [k \in S |-> h[k]]
<1>1. IsFiniteSet(S)
  BY FS_Subset
<1>2. f \in [S -> R]
  OBVIOUS
<1>3. ASSUME NEW x \in S, NEW y \in S, f[x] = f[y]
      PROVE  x = y
  <2>1. h[x] = h[y] /\ x \in D /\ y \in D
    BY <1>3
  <2>2. h[x] \in Int /\ h[y] \in Int /\ x \in Int /\ y \in Int
    BY <2>1
  <2>3. (x < y => h[x] < h[y]) /\ (y < x => h[y] < h[x])
    BY <2>1
  <2> QED
    BY <2>1, <2>2, <2>3
<1>4. ASSUME NEW t \in R
      PROVE  \E k \in S : f[k] = t
  <2>1. PICK k \in D : h[k] = t
    OBVIOUS
  <2>2. h[k] > h[i] /\ h[k] \in Int /\ h[i] \in Int /\ k \in Int /\ i \in Int
    BY <2>1
  <2>3. k < i => h[k] < h[i]
    OBVIOUS
  <2>4. k > i
    BY <2>2, <2>3
  <2> QED
    BY <2>1, <2>4
<1> HIDE DEF S, R, f
<1>5. Cardinality(R) = Cardinality(S)
  BY <1>1, <1>2, <1>3, <1>4, ImageSize
<1> QED
  BY <1>5 DEF After, S, R

\* Those of the domain, by where they are in the store.
OfDomain(s) == {i \in 1..Len(s) : s[i].domain = TrainedDomain}
Newest(s) == {i \in OfDomain(s) : After(OfDomain(s), i) < NExamples}

LEMMA LastsAre ==
  ASSUME captured \in Seq(EntryType)
  PROVE  Lasts = LastsOf(captured)
<1>1. DOMAIN captured = 1..Len(captured) /\ \A i \in 1..Len(captured) : captured[i] \in EntryType
  OBVIOUS
<1>2. \A e \in EntryType : e.prompt \in Prompts
  BY DEF EntryType
<1> QED
  BY <1>1, <1>2 DEF Lasts, LastOf, LastsOf

LEMMA HeldLastsAre ==
  ASSUME StoreAssumption, NEW h, Holds(store, captured, h),
         store \in Seq(EntryType), captured \in Seq(EntryType)
  PROVE  HeldLasts = {h[i] : i \in 1..Len(store)}
<1> DEFINE n == Len(store)
           T == {h[i] : i \in 1..n}
           L == LastsOf(captured)
<1>1. Lasts = L
  BY LastsAre
<1>2. n \in Nat /\ MaxSize \in Nat /\ n <= MaxSize /\ Len(captured) \in Nat
  BY DEF Holds, StoreAssumption
<1>3. /\ h \in [1..n -> L]
      /\ \A i, j \in 1..n : i < j => h[i] < h[j]
  BY DEF Holds, Follows
<1>4. L \subseteq 1..Len(captured) /\ \A l \in L : l \in Int
  BY DEF LastsOf
<1>5. \A l \in L : (\A i \in 1..n : h[i] # l) => n = MaxSize /\ \A i \in 1..n : l < h[i]
  BY DEF Holds, Misses
<1>6. IsFiniteSet(1..n) /\ Cardinality(1..n) = n /\ IsFiniteSet(1..Len(captured))
  BY <1>2, CountTo
<1> HIDE DEF n, L
<1>7. \A i \in 1..n : h[i] \in L /\ h[i] \in Int /\ h[i] \in T
  BY <1>3, <1>4
<1>8. T \subseteq L /\ \A t \in T : \E i \in 1..n : h[i] = t
  BY <1>7
<1>9. IsFiniteSet(L)
  BY <1>4, <1>6, FS_Subset
<1> HIDE DEF T
<1>10. ASSUME NEW i \in 1..n
       PROVE  After(L, h[i]) < MaxSize
  <2>1. After(T, h[i]) = After(1..n, i)
    <3> DEFINE D == 1..n
    <3>1. InStep(D, h, T) /\ i \in D
      BY <1>2, <1>3, <1>6, <1>7, <1>8 DEF InStep
    <3> HIDE DEF D
    <3>2. After(T, h[i]) = After(D, i)
      BY <3>1, AfterSame
    <3> QED
      BY <3>2 DEF D
  <2>2. {j \in L : j > h[i]} = {t \in T : t > h[i]}
    <3>1. ASSUME NEW j \in L, j > h[i]
          PROVE  j \in T
      <4>1. ~(j < h[i])
        BY <1>4, <1>7, <3>1
      <4>2. PICK k \in 1..n : h[k] = j
        BY <1>5, <4>1
      <4> QED
        BY <1>7, <4>2
    <3> QED
      BY <1>8, <3>1
  <2>3. After(1..n, i) < n
    <3>1. {j \in 1..n : j > i} \subseteq (1..n) \ {i}
      BY <1>2
    <3>2. IsFiniteSet((1..n) \ {i}) /\ Cardinality((1..n) \ {i}) = n - 1
      <4> DEFINE I == 1..n
      <4>1. IsFiniteSet(I) /\ Cardinality(I) = n /\ i \in I
        BY <1>6
      <4> HIDE DEF I
      <4>2. IsFiniteSet(I \ {i}) /\ Cardinality(I \ {i}) = Cardinality(I) - 1
        BY <4>1, FS_RemoveElement
      <4> QED
        BY <4>1, <4>2 DEF I
    <3>3. Cardinality({j \in 1..n : j > i}) <= n - 1
      BY <3>1, <3>2, FS_Subset
    <3>4. IsFiniteSet({j \in 1..n : j > i})
      BY <3>1, <3>2, FS_Subset
    <3>5. Cardinality({j \in 1..n : j > i}) \in Nat
      BY <3>4, FS_CardinalityType
    <3> QED
      BY <1>2, <3>3, <3>5 DEF After
  <2>4. After(L, h[i]) = After(1..n, i)
    BY <2>1, <2>2 DEF After
  <2>5. After(1..n, i) \in Nat
    <3>1. IsFiniteSet({j \in 1..n : j > i})
      BY <1>6, FS_Subset
    <3> QED
      BY <3>1, FS_CardinalityType DEF After
  <2> QED
    BY <1>2, <2>3, <2>4, <2>5
<1>11. ASSUME NEW l \in L, \A i \in 1..n : h[i] # l
       PROVE  ~(After(L, l) < MaxSize)
  <2>1. n = MaxSize /\ \A i \in 1..n : l < h[i]
    BY <1>5, <1>11
  <2>2. T \subseteq {j \in L : j > l}
    <3>1. ASSUME NEW t \in T
          PROVE  t \in L /\ t > l
      <4>1. PICK i \in 1..n : h[i] = t
        BY <1>8
      <4>2. l < h[i] /\ l \in Int /\ h[i] \in Int
        BY <1>4, <1>7, <2>1
      <4> QED
        BY <1>8, <4>1, <4>2
    <3> QED
      BY <3>1
  <2>3. IsFiniteSet({j \in L : j > l})
    BY <1>9, FS_Subset
  <2>4. Cardinality(T) <= Cardinality({j \in L : j > l})
    BY <2>2, <2>3, FS_Subset
  <2>5. Cardinality(T) = n
    <3>1. h \in [1..n -> T]
      BY <1>3, <1>7
    <3>2. ASSUME NEW x \in 1..n, NEW y \in 1..n, h[x] = h[y]
          PROVE  x = y
      <4>1. h[x] \in Int /\ h[y] \in Int
        BY <1>7
      <4>2. (x < y => h[x] < h[y]) /\ (y < x => h[y] < h[x])
        BY <1>3
      <4> QED
        BY <3>2, <4>1, <4>2
    <3> QED
      BY <1>6, <1>8, <3>1, <3>2, ImageSize
  <2>6. Cardinality({j \in L : j > l}) \in Nat
    BY <2>3, FS_CardinalityType
  <2> QED
    BY <1>2, <2>1, <2>4, <2>5, <2>6 DEF After
<1>12. HeldLasts = {l \in L : After(L, l) < MaxSize}
  BY <1>1 DEF HeldLasts, After
<1>13. HeldLasts = T
  <2>1. ASSUME NEW l \in HeldLasts
        PROVE  l \in T
    BY <1>7, <1>11, <1>12
  <2>2. ASSUME NEW t \in T
        PROVE  t \in HeldLasts
    BY <1>8, <1>10, <1>12
  <2> QED
    BY <2>1, <2>2
<1> QED
  BY <1>13 DEF T, n

LEMMA DueIs ==
  ASSUME StoreAssumption, NEW h, Holds(store, captured, h),
         store \in Seq(EntryType), captured \in Seq(EntryType)
  PROVE  Due = {store[i].prompt : i \in Newest(store)}
<1> DEFINE D == OfDomain(store)
           T == DueLasts
<1>1. HeldLasts = {h[i] : i \in 1..Len(store)}
  BY HeldLastsAre
<1>2. /\ h \in [1..Len(store) -> LastsOf(captured)]
      /\ \A i, j \in 1..Len(store) : i < j => h[i] < h[j]
      /\ \A i \in 1..Len(store) : store[i] = captured[h[i]]
  BY DEF Holds, Follows
<1>3. \A l \in LastsOf(captured) : l \in Int
  BY DEF LastsOf
<1>4. /\ IsFiniteSet(D)
      /\ \A i \in D : i \in 1..Len(store) /\ i \in Int /\ store[i].domain = TrainedDomain
      /\ \A i \in 1..Len(store) : store[i].domain = TrainedDomain => i \in D
  <2>1. Len(store) \in Nat
    OBVIOUS
  <2>2. IsFiniteSet(1..Len(store))
    BY <2>1, CountTo
  <2>3. D \subseteq 1..Len(store)
    BY DEF OfDomain
  <2>4. IsFiniteSet(D)
    BY <2>2, <2>3, FS_Subset
  <2> QED
    BY <2>1, <2>4 DEF OfDomain
<1>5. T = {l \in HeldLasts : captured[l].domain = TrainedDomain}
  BY DEF DueLasts
<1> HIDE DEF D, T
<1>6. \A i \in D : h[i] \in T /\ h[i] \in Int
  BY <1>1, <1>2, <1>3, <1>4, <1>5
<1>7. \A t \in T : \E i \in D : h[i] = t
  BY <1>1, <1>2, <1>4, <1>5
<1>8. \A i, j \in D : i < j => h[i] < h[j]
  BY <1>2, <1>4
<1>9. ASSUME NEW i \in D
      PROVE  After(T, h[i]) = After(D, i)
  <2>1. InStep(D, h, T)
    BY <1>4, <1>6, <1>7, <1>8 DEF InStep
  <2> QED
    BY <2>1, AfterSame
<1>10. Due = {captured[l].prompt : l \in {k \in T : After(T, k) < NExamples}}
  BY DEF Due, T, After
<1>11. Newest(store) = {i \in D : After(D, i) < NExamples}
  BY DEF Newest, D
<1>12. ASSUME NEW x \in Due
       PROVE  x \in {store[i].prompt : i \in Newest(store)}
  <2>1. PICK l \in T : After(T, l) < NExamples /\ x = captured[l].prompt
    BY <1>10
  <2>2. PICK i \in D : h[i] = l
    BY <1>7
  <2>3. After(D, i) < NExamples
    BY <1>9, <2>1, <2>2
  <2>4. i \in Newest(store) /\ x = store[i].prompt
    BY <1>2, <1>4, <1>11, <2>1, <2>2, <2>3
  <2> QED
    BY <2>4
<1>13. ASSUME NEW i \in Newest(store)
       PROVE  store[i].prompt \in Due
  <2>1. i \in D /\ After(T, h[i]) < NExamples
    BY <1>9, <1>11
  <2>2. h[i] \in T /\ store[i] = captured[h[i]]
    BY <1>2, <1>4, <1>6, <2>1
  <2> QED
    BY <1>10, <2>1, <2>2
<1> QED
  BY <1>12, <1>13

LEMMA RecentIs ==
  ASSUME NodeAssumption, NEW s \in Seq(EntryType)
  PROVE  LET r == Recent(s, NExamples, TrainedDomain)
         IN /\ r \in Seq(EntryType)
            /\ {e.prompt : e \in ToSet(r)} = {s[i].prompt : i \in Newest(s)}
<1> DEFINE n == Len(s)
           items == Reverse(s)
           I == {i \in DOMAIN items : items[i].domain = TrainedDomain}
           c == Cardinality(I)
           of == ItemsAt(items, I)
           D == OfDomain(s)
           r == Recent(s, NExamples, TrainedDomain)
<1>1. n \in Nat /\ NExamples \in Nat
  BY DEF NodeAssumption
<1>2. /\ items \in Seq(EntryType) /\ DOMAIN items = 1..n
      /\ \A i \in 1..n : items[i] = s[n - i + 1]
  BY <1>1 DEF Reverse
<1>3. IsFiniteSet(1..n)
  BY <1>1, CountTo
<1>4. /\ IsFiniteSet(I) /\ c \in Nat
      /\ \A i \in I : i \in 1..n /\ i \in Int
      /\ I = {i \in 1..n : items[i].domain = TrainedDomain}
  <2>1. I = {i \in 1..n : items[i].domain = TrainedDomain}
    BY <1>2
  <2>2. I \subseteq 1..n
    BY <2>1
  <2> HIDE DEF I
  <2>3. IsFiniteSet(I)
    BY <1>3, <2>2, FS_Subset
  <2> QED
    BY <1>1, <2>1, <2>2, <2>3, FS_CardinalityType
<1>5. of = [k \in 1..c |-> items[Nth(I, k)]]
  BY DEF ItemsAt
<1>6. r = IF Len(of) > NExamples THEN SubSeq(of, 1, NExamples) ELSE of
  BY DEF Recent
<1>7. /\ IsFiniteSet(D) /\ \A i \in D : i \in 1..n /\ i \in Int
      /\ D = {i \in 1..n : s[i].domain = TrainedDomain}
  BY <1>1, <1>3, FS_Subset DEF OfDomain
<1> HIDE DEF n, items, I, of, D, r
<1>8. \A k \in 1..c : Nth(I, k) \in I /\ Rank(I, Nth(I, k)) = k - 1
  BY <1>4, NthOf
<1>9. \A i \in I : Rank(I, i) + 1 \in 1..c /\ Nth(I, Rank(I, i) + 1) = i
  BY <1>4, NthRank
<1> HIDE DEF c
<1>10. of \in Seq(EntryType) /\ Len(of) = c
  <2>1. \A i \in 1..n : items[i] \in EntryType
    <3>1. \A i \in 1..n : n - i + 1 \in 1..n
      BY <1>1
    <3>2. \A i \in 1..n : s[i] \in EntryType
      BY DEF n
    <3> QED
      BY <1>2, <3>1, <3>2
  <2>2. \A k \in 1..c : items[Nth(I, k)] \in EntryType
    BY <1>4, <1>8, <2>1
  <2> QED
    BY <1>4, <1>5, <2>2
<1>11. \A i \in 1..n : n - i + 1 \in 1..n /\ n - (n - i + 1) + 1 = i
  BY <1>1
<1>12. \A i \in I : n - i + 1 \in D /\ items[i] = s[n - i + 1]
  BY <1>2, <1>4, <1>7, <1>11
<1>13. \A i \in D : n - i + 1 \in I /\ items[n - i + 1] = s[i]
  BY <1>2, <1>4, <1>7, <1>11
<1>14. ASSUME NEW i \in D
       PROVE  Rank(I, n - i + 1) = After(D, i)
  <2> DEFINE S == {k \in D : k > i}
             T == {j \in I : j < n - i + 1}
             f == [k \in S |-> n - k + 1]
  <2>1. IsFiniteSet(S)
    BY <1>7, FS_Subset
  <2>2. f \in [S -> T]
    BY <1>1, <1>7, <1>13
  <2>3. \A x, y \in S : f[x] = f[y] => x = y
    BY <1>1, <1>7
  <2>4. ASSUME NEW t \in T
        PROVE  \E x \in S : f[x] = t
    <3>1. n - t + 1 \in D /\ t \in 1..n /\ i \in 1..n
      BY <1>4, <1>7, <1>12
    <3>2. n - t + 1 > i
      BY <1>1, <3>1
    <3>3. n - t + 1 \in S /\ n - (n - t + 1) + 1 = t
      BY <1>11, <3>1, <3>2
    <3> QED
      BY <3>3
  <2> HIDE DEF S, T, f
  <2>5. Cardinality(T) = Cardinality(S)
    BY <2>1, <2>2, <2>3, <2>4, ImageSize
  <2> QED
    BY <2>5 DEF S, T, Rank, After
<1>15. /\ r \in Seq(EntryType)
       /\ \A k \in 1..c : k <= NExamples => k \in DOMAIN r /\ r[k] = of[k]
       /\ \A k \in DOMAIN r : k \in 1..c /\ k <= NExamples /\ r[k] = of[k]
  <2>1. CASE Len(of) > NExamples
    <3> DEFINE q == SubSeq(of, 1, NExamples)
    <3>1. r = q
      BY <1>6, <2>1
    <3>2. q \in Seq(EntryType) /\ Len(q) = NExamples /\ \A k \in 1..NExamples : q[k] = of[k]
      BY <1>1, <1>4, <1>10, <2>1, SubSeqProperties
    <3> HIDE DEF q
    <3>3. DOMAIN q = 1..NExamples
      BY <3>2
    <3> QED
      BY <1>1, <1>4, <1>10, <2>1, <3>1, <3>2, <3>3
  <2>2. CASE ~(Len(of) > NExamples)
    BY <1>1, <1>4, <1>6, <1>10, <2>2
  <2> QED
    BY <2>1, <2>2
<1>16. Newest(s) = {i \in D : After(D, i) < NExamples}
  BY DEF Newest, D
<1>17. ToSet(r) = {r[k] : k \in DOMAIN r}
  BY DEF ToSet
<1>18. ASSUME NEW e \in ToSet(r)
       PROVE  e.prompt \in {s[i].prompt : i \in Newest(s)}
  <2>1. PICK k \in DOMAIN r : e = r[k]
    BY <1>17
  <2>2. k \in 1..c /\ k <= NExamples /\ e = items[Nth(I, k)]
    BY <1>5, <1>15, <2>1
  <2> DEFINE j == Nth(I, k)
             i == n - j + 1
  <2>3. j \in I /\ Rank(I, j) = k - 1
    BY <1>8, <2>2
  <2>4. i \in D /\ items[j] = s[i] /\ n - i + 1 = j
    BY <1>4, <1>11, <1>12, <2>3
  <2> HIDE DEF i, j
  <2>5. After(D, i) < NExamples
    <3>1. Rank(I, j) = After(D, i)
      BY <1>14, <2>4
    <3>2. Rank(I, j) = k - 1
      BY <2>3 DEF j
    <3> QED
      BY <1>1, <1>4, <2>2, <3>1, <3>2
  <2>6. i \in Newest(s) /\ e.prompt = s[i].prompt
    BY <1>16, <2>2, <2>4, <2>5 DEF j
  <2> QED
    BY <2>6
<1>19. ASSUME NEW i \in Newest(s)
       PROVE  s[i].prompt \in {e.prompt : e \in ToSet(r)}
  <2> DEFINE j == n - i + 1
             k == Rank(I, j) + 1
  <2>1. i \in D /\ After(D, i) < NExamples
    BY <1>16
  <2>2. j \in I /\ items[j] = s[i] /\ Rank(I, j) = After(D, i)
    BY <1>13, <1>14, <2>1
  <2> HIDE DEF j
  <2>3. k \in 1..c /\ Nth(I, k) = j /\ Rank(I, j) = k - 1
    BY <1>4, <1>8, <1>9, <2>2
  <2>4. k <= NExamples
    BY <1>1, <1>4, <2>1, <2>2, <2>3
  <2> HIDE DEF k
  <2>5. k \in DOMAIN r /\ r[k] = s[i]
    BY <1>5, <1>15, <2>2, <2>3, <2>4
  <2> QED
    BY <1>17, <2>5
<1> QED
  BY <1>15, <1>18, <1>19 DEF r

\* What a pass that begins takes from the store is what is due by the captures.
LEMMA GivenIsDue ==
  ASSUME StoreAssumption, NodeAssumption, Mirrors(store, captured)
  PROVE  LET r == Recent(store, NExamples, TrainedDomain)
         IN /\ r \in Seq(EntryType)
            /\ {e.prompt : e \in ToSet(r)} = Due
            /\ Due \in SUBSET Prompts
<1>1. store \in Seq(EntryType) /\ captured \in Seq(EntryType)
  BY DEF Mirrors
<1>2. PICK h \in [1..Len(store) -> LastsOf(captured)] : Holds(store, captured, h)
  BY DEF Mirrors
<1>3. Due = {store[i].prompt : i \in Newest(store)}
  BY <1>1, <1>2, DueIs
<1> DEFINE r == Recent(store, NExamples, TrainedDomain)
<1>4. /\ r \in Seq(EntryType)
      /\ {e.prompt : e \in ToSet(r)} = {store[i].prompt : i \in Newest(store)}
  BY <1>1, RecentIs
<1>5. Due \subseteq Prompts
  <2>1. \A i \in 1..Len(store) : store[i] \in EntryType
    BY <1>1
  <2>2. \A e \in EntryType : e.prompt \in Prompts
    BY DEF EntryType
  <2> QED
    BY <1>3, <2>1, <2>2 DEF Newest, OfDomain
<1> QED
  BY <1>3, <1>4, <1>5

-----------------------------------------------------------------------------
(* The invariant is inductive.                                             *)

LEMMA NodeInitInv == StoreAssumption /\ NodeAssumption /\ NodeInit => NodeInv
<1> SUFFICES ASSUME StoreAssumption, NodeAssumption, NodeInit
             PROVE  NodeInv
  OBVIOUS
<1>1. Mirrors(<<>>, <<>>)
  BY NothingMirrors
<1>2. Mirrors(store, captured) /\ Mirrors(dumped.store, dumped.captured)
  BY <1>1 DEF NodeInit
<1>3. Gone \in ThreadType
  BY DEF Gone, ThreadType
<1>4. NodeTyped
  BY <1>3 DEF NodeInit, NodeTyped
<1>5. ThreadHeld
  BY DEF NodeInit, ThreadHeld, Gone
<1>6. ToSet(<<>>) = {}
  BY DEF ToSet
<1>7. ThreadTrue
  BY <1>6 DEF NodeInit, ThreadTrue, Gone, NodeAssumption
<1> QED
  BY <1>2, <1>4, <1>5, <1>7 DEF NodeInv

\* What the thread's invariants are about.
threadVars == <<state, quiet, preempt, caller, thread>>

LEMMA ThreadKept ==
  ASSUME NodeTyped, ThreadHeld, ThreadTrue, UNCHANGED threadVars
  PROVE  NodeTyped' /\ ThreadHeld' /\ ThreadTrue'
BY DEF threadVars, NodeTyped, ThreadHeld, ThreadTrue

LEMMA StoreStep ==
  ASSUME StoreAssumption, NodeInv,
         \/ \E prompt \in Prompts, domain \in Topics : Capture(prompt, domain)
         \/ Dump
  PROVE  NodeInv'
<1>1. NodeTyped' /\ ThreadHeld' /\ ThreadTrue'
  <2>1. UNCHANGED threadVars
    BY DEF Capture, Dump, node, threadVars
  <2> QED
    BY <2>1, ThreadKept DEF NodeInv
<1>2. CASE \E prompt \in Prompts, domain \in Topics : Capture(prompt, domain)
  <2>1. PICK prompt \in Prompts, domain \in Topics : Capture(prompt, domain)
    BY <1>2
  <2>2. /\ store' = Added(store, prompt, domain)
        /\ captured' = Append(captured, Entry(prompt, domain))
        /\ dumped' = dumped
    BY <2>1 DEF Capture
  <2>3. Mirrors(store', captured')
    BY <2>2, AddedMirrors DEF NodeInv
  <2> QED
    BY <1>1, <2>2, <2>3 DEF NodeInv
<1>3. CASE Dump
  <2>1. /\ dumped' = [store |-> store, captured |-> captured]
        /\ store' = store /\ captured' = captured
    BY <1>3 DEF Dump
  <2>2. dumped'.store = store /\ dumped'.captured = captured
    BY <2>1
  <2> QED
    BY <1>1, <2>1, <2>2 DEF NodeInv
<1> QED
  BY <1>2, <1>3

LEMMA RestartStep ==
  ASSUME StoreAssumption, NodeAssumption, NodeInv, NodeRestart
  PROVE  NodeInv'
<1>1. /\ store' = Trimmed(dumped.store) /\ captured' = dumped.captured
      /\ state' = "active" /\ quiet' = FALSE /\ preempt' = FALSE
      /\ caller' = "watching" /\ thread' = Gone /\ dumped' = dumped
  BY DEF NodeRestart
<1>2. Mirrors(store', captured')
  BY <1>1, LoadedMirrors DEF NodeInv
<1>3. Gone \in ThreadType
  BY DEF Gone, ThreadType
<1>4. NodeTyped'
  BY <1>1, <1>3 DEF NodeTyped
<1>5. ThreadHeld'
  BY <1>1 DEF ThreadHeld, Gone
<1>6. ToSet(<<>>) = {}
  BY DEF ToSet
<1>7. ThreadTrue'
  BY <1>1, <1>6 DEF ThreadTrue, Gone, NodeAssumption
<1> QED
  BY <1>1, <1>2, <1>4, <1>5, <1>7 DEF NodeInv

\* A step that leaves the store, the file and the captures alone.
LEMMA StoreKept ==
  ASSUME NodeInv, UNCHANGED <<store, dumped, captured>>,
         NodeTyped', ThreadHeld', ThreadTrue'
  PROVE  NodeInv'
BY DEF NodeInv

LEMMA CallerStep ==
  ASSUME NodeAssumption, NodeInv,
         \/ \E idle, elapsed \in BOOLEAN : Observe(idle, elapsed)
         \/ \E stub \in BOOLEAN : Spawn(stub)
         \/ MarkStarted \/ SignalPreempt \/ FinishTraining
  PROVE  NodeInv'
<1>1. NodeTyped /\ ThreadHeld /\ ThreadTrue
  BY DEF NodeInv
<1>2. UNCHANGED <<store, dumped, captured>>
  BY DEF Observe, Spawn, MarkStarted, SignalPreempt, FinishTraining
<1>3. CASE \E idle, elapsed \in BOOLEAN : Observe(idle, elapsed)
  <2>1. PICK idle \in BOOLEAN, elapsed \in BOOLEAN : Observe(idle, elapsed)
    BY <1>3
  <2>2. /\ caller # "spawned" /\ state \in {"active", "ready", "cooldown"}
        /\ state' \in {"active", "ready"} /\ quiet' \in BOOLEAN
        /\ UNCHANGED <<preempt, caller, thread>>
    BY <2>1 DEF Observe
  <2>3. NodeTyped'
    BY <1>1, <2>2 DEF NodeTyped
  <2>4. ThreadHeld' /\ ThreadTrue'
    BY <1>1, <2>2 DEF ThreadHeld, ThreadTrue
  <2> QED
    BY <1>2, <2>3, <2>4, StoreKept
<1>4. CASE \E stub \in BOOLEAN : Spawn(stub)
  <2>1. PICK stub \in BOOLEAN : Spawn(stub)
    BY <1>4
  <2>2. /\ caller = "watching" /\ state = "ready" /\ caller' = "spawned"
        /\ thread' = [Gone EXCEPT !.at = "begin", !.stub = stub]
        /\ UNCHANGED <<state, quiet, preempt>>
    BY <2>1 DEF Spawn
  <2>3. thread' \in ThreadType
    <3>1. Gone \in ThreadType
      BY DEF Gone, ThreadType
    <3> QED
      BY <2>2, <3>1 DEF ThreadType
  <2>4. NodeTyped'
    BY <1>1, <2>2, <2>3 DEF NodeTyped
  <2>5. /\ thread'.at = "begin" /\ ~thread'.told /\ ~thread'.preempted /\ ~thread'.early
        /\ thread'.steps = 0 /\ thread'.late = 0 /\ thread'.due = {}
        /\ thread'.examples = <<>>
    BY <2>2 DEF Gone
  <2>6. ThreadHeld'
    BY <1>1, <2>2, <2>5 DEF ThreadHeld
  <2>7. ToSet(<<>>) = {}
    BY DEF ToSet
  <2>8. ThreadTrue'
    BY <2>5, <2>7 DEF ThreadTrue, NodeAssumption
  <2> QED
    BY <1>2, <2>4, <2>6, <2>8, StoreKept
<1>5. CASE MarkStarted
  <2>1. /\ caller = "spawned" /\ state = "ready" /\ state' = "training"
        /\ preempt' = FALSE /\ caller' = "marked"
        /\ thread' = [thread EXCEPT !.told = FALSE, !.late = 0]
        /\ quiet' = quiet
    BY <1>5 DEF MarkStarted
  <2>2. thread \in ThreadType
    BY <1>1 DEF NodeTyped
  <2>3. thread' \in ThreadType
    BY <2>1, <2>2 DEF ThreadType
  <2>4. /\ ~thread'.told /\ thread'.late = 0
        /\ thread'.at = thread.at /\ thread'.examples = thread.examples
        /\ thread'.steps = thread.steps /\ thread'.preempted = thread.preempted
        /\ thread'.due = thread.due /\ thread'.early = thread.early
    BY <2>1, <2>2 DEF ThreadType
  <2>5. NodeTyped'
    BY <1>1, <2>1, <2>3 DEF NodeTyped
  <2>6. ThreadHeld'
    BY <1>1, <2>1, <2>4 DEF ThreadHeld
  <2>7. ThreadTrue'
    BY <1>1, <2>1, <2>4 DEF ThreadTrue
  <2> QED
    BY <1>2, <2>5, <2>6, <2>7, StoreKept
<1>6. CASE SignalPreempt
  <2>1. /\ preempt' = TRUE
        /\ thread' = [thread EXCEPT !.told = thread.at # "gone"]
        /\ UNCHANGED <<state, quiet, caller>>
    BY <1>6 DEF SignalPreempt
  <2>2. thread \in ThreadType
    BY <1>1 DEF NodeTyped
  <2>3. thread' \in ThreadType
    BY <2>1, <2>2 DEF ThreadType
  <2>4. /\ thread'.told <=> thread.at # "gone"
        /\ thread'.at = thread.at /\ thread'.examples = thread.examples
        /\ thread'.steps = thread.steps /\ thread'.preempted = thread.preempted
        /\ thread'.due = thread.due /\ thread'.early = thread.early
        /\ thread'.late = thread.late
    BY <2>1, <2>2 DEF ThreadType
  <2>5. NodeTyped'
    BY <1>1, <2>1, <2>3 DEF NodeTyped
  <2>6. ThreadHeld'
    BY <1>1, <2>1, <2>4 DEF ThreadHeld
  <2>7. /\ thread'.late = 1 => thread'.told
        /\ thread'.preempted => thread'.told \/ thread'.early
    <3>1. thread.late = 1 \/ thread.preempted => thread.at # "gone"
      BY <1>1 DEF ThreadTrue, ThreadHeld
    <3> QED
      BY <1>1, <2>4, <3>1 DEF ThreadTrue
  <2>8. ThreadTrue'
    BY <1>1, <2>1, <2>4, <2>7 DEF ThreadTrue
  <2> QED
    BY <1>2, <2>5, <2>6, <2>8, StoreKept
<1>7. CASE FinishTraining
  <2>1. /\ caller = "marked" /\ thread.at = "returned" /\ state' = "cooldown" /\ quiet' = FALSE
        /\ caller' = "watching" /\ thread' = Gone /\ preempt' = preempt
    BY <1>7 DEF FinishTraining
  <2>2. Gone \in ThreadType
    BY DEF Gone, ThreadType
  <2>3. NodeTyped'
    BY <1>1, <2>1, <2>2 DEF NodeTyped
  <2>4. ThreadHeld'
    BY <2>1 DEF ThreadHeld, Gone
  <2>5. ToSet(<<>>) = {}
    BY DEF ToSet
  <2>6. ThreadTrue'
    BY <2>1, <2>5 DEF ThreadTrue, Gone, NodeAssumption
  <2> QED
    BY <1>2, <2>3, <2>4, <2>6, StoreKept
<1> QED
  BY <1>3, <1>4, <1>5, <1>6, <1>7

\* The corpus may not change between what Recent reads and what is due.
LEMMA BeginStep ==
  ASSUME StoreAssumption, NodeAssumption, NodeInv, Begin
  PROVE  NodeInv'
<1> DEFINE given == Recent(store, NExamples, TrainedDomain)
<1>1. NodeTyped /\ ThreadHeld /\ ThreadTrue /\ Mirrors(store, captured) /\ thread \in ThreadType
  BY DEF NodeInv, NodeTyped
<1>2. /\ given \in Seq(EntryType)
      /\ {e.prompt : e \in ToSet(given)} = Due
      /\ Due \in SUBSET Prompts
  BY <1>1, GivenIsDue
<1>3. /\ thread.at = "begin"
      /\ \/ thread' = [thread EXCEPT !.at = "loop", !.examples = given, !.due = Due]
         \/ thread' = [thread EXCEPT !.at = "returned"]
      /\ UNCHANGED <<store, dumped, captured, state, quiet, preempt, caller>>
  BY DEF Begin
<1> DEFINE due == Due
<1> HIDE DEF given, due
<1>4. CASE thread' = [thread EXCEPT !.at = "loop", !.examples = given, !.due = due]
  <2>1. thread' \in ThreadType
    BY <1>1, <1>2, <1>4 DEF ThreadType, due
  <2>2. /\ thread'.at = "loop" /\ thread'.examples = given /\ thread'.due = due
        /\ thread'.steps = thread.steps /\ thread'.preempted = thread.preempted
        /\ thread'.early = thread.early /\ thread'.told = thread.told
        /\ thread'.late = thread.late
    BY <1>1, <1>4 DEF ThreadType
  <2>3. NodeTyped'
    BY <1>1, <1>3, <2>1 DEF NodeTyped
  <2>4. ThreadHeld'
    BY <1>1, <1>3, <2>2 DEF ThreadHeld
  <2>5. {e.prompt : e \in ToSet(thread'.examples)} = thread'.due
    BY <1>2, <2>2 DEF due
  <2>6. ThreadTrue'
    BY <1>1, <1>3, <2>2, <2>5 DEF ThreadTrue
  <2> QED
    BY <1>3, <2>3, <2>4, <2>6, StoreKept
<1>5. CASE thread' = [thread EXCEPT !.at = "returned"]
  <2>1. thread' \in ThreadType
    BY <1>1, <1>5 DEF ThreadType
  <2>2. /\ thread'.at = "returned" /\ thread'.examples = thread.examples
        /\ thread'.due = thread.due
        /\ thread'.steps = thread.steps /\ thread'.preempted = thread.preempted
        /\ thread'.early = thread.early /\ thread'.told = thread.told
        /\ thread'.late = thread.late
    BY <1>1, <1>5 DEF ThreadType
  <2>3. NodeTyped'
    BY <1>1, <1>3, <2>1 DEF NodeTyped
  <2>4. ThreadHeld'
    BY <1>1, <1>3, <2>2 DEF ThreadHeld
  <2>5. ThreadTrue'
    BY <1>1, <1>3, <2>2 DEF ThreadTrue
  <2> QED
    BY <1>3, <2>3, <2>4, <2>5, StoreKept
<1> QED
  BY <1>3, <1>4, <1>5 DEF due

LEMMA LookStep ==
  ASSUME NodeAssumption, NodeInv, Look
  PROVE  NodeInv'
<1>1. NodeTyped /\ ThreadHeld /\ ThreadTrue /\ thread \in ThreadType
  BY DEF NodeInv, NodeTyped
<1>2. preempt \in BOOLEAN /\ thread.early \in BOOLEAN /\ caller \in {"watching", "spawned", "marked"}
  BY <1>1 DEF NodeTyped, ThreadType
<1>3. /\ thread.at = "loop" /\ thread.steps < StepsPlanned
      /\ UNCHANGED <<store, dumped, captured, state, quiet, preempt, caller>>
  BY DEF Look
<1>4. /\ thread' \in ThreadType
      /\ thread'.at = IF preempt THEN "save" ELSE "step"
      /\ thread'.preempted = preempt
      /\ thread'.early = (thread.early \/ caller = "spawned")
      /\ thread'.examples = thread.examples /\ thread'.due = thread.due
      /\ thread'.steps = thread.steps /\ thread'.told = thread.told
      /\ thread'.late = thread.late
  BY <1>1, <1>2 DEF Look, ThreadType
<1>5. NodeTyped'
  BY <1>1, <1>3, <1>4 DEF NodeTyped
<1>6. ThreadHeld'
  BY <1>1, <1>3, <1>4 DEF ThreadHeld
<1>7. ThreadTrue'
  <2>1. thread.late \in Nat /\ thread.late <= 1
    BY <1>1 DEF ThreadType, ThreadTrue
  <2>2. caller \in {"spawned", "marked"}
    BY <1>1, <1>2, <1>3 DEF ThreadHeld
  <2>3. preempt => thread.told \/ caller = "spawned"
    BY <1>1, <2>2 DEF ThreadHeld
  <2>4. ~preempt => thread.late = 0
    BY <1>1, <2>1 DEF ThreadHeld, ThreadTrue
  <2>5. thread'.preempted => thread'.told \/ thread'.early
    BY <1>4, <2>3
  <2>6. thread'.at \in {"gone", "begin", "step"} => thread'.late = 0
    BY <1>4, <2>4
  <2>7. /\ thread'.at \in {"gone", "begin", "loop", "step"} => ~thread'.preempted
        /\ thread'.at = "step" => thread'.steps < StepsPlanned
        /\ thread'.at = "save" => thread'.preempted /\ thread'.steps < StepsPlanned
        /\ thread'.at # "meta"
    BY <1>3, <1>4
  <2> QED
    BY <1>1, <1>3, <1>4, <2>5, <2>6, <2>7 DEF ThreadTrue
<1> QED
  BY <1>3, <1>5, <1>6, <1>7, StoreKept

LEMMA WorkStep ==
  ASSUME NodeAssumption, NodeInv, Step
  PROVE  NodeInv'
<1>1. NodeTyped /\ ThreadHeld /\ ThreadTrue /\ thread \in ThreadType
  BY DEF NodeInv, NodeTyped
<1>2. thread.late \in Nat /\ thread.steps \in Nat /\ thread.told \in BOOLEAN /\ StepsPlanned \in Nat
  BY <1>1 DEF ThreadType, NodeAssumption
<1>3. /\ thread.at = "step"
      /\ UNCHANGED <<store, dumped, captured, state, quiet, preempt, caller>>
  BY DEF Step
<1>4. /\ thread' \in ThreadType
      /\ thread'.at = "loop" /\ thread'.steps = thread.steps + 1
      /\ thread'.late = IF thread.told THEN thread.late + 1 ELSE thread.late
      /\ thread'.preempted = thread.preempted /\ thread'.early = thread.early
      /\ thread'.examples = thread.examples /\ thread'.due = thread.due
      /\ thread'.told = thread.told
  <2> DEFINE late == IF thread.told THEN thread.late + 1 ELSE thread.late
             steps == thread.steps + 1
  <2>1. thread' = [thread EXCEPT !.at = "loop", !.steps = steps, !.late = late]
    BY DEF Step
  <2>2. late \in Nat /\ steps \in Nat
    BY <1>2
  <2> HIDE DEF late, steps
  <2>3. thread' \in ThreadType
    BY <1>1, <2>1, <2>2 DEF ThreadType
  <2>4. /\ thread'.at = "loop" /\ thread'.steps = steps /\ thread'.late = late
        /\ thread'.preempted = thread.preempted /\ thread'.early = thread.early
        /\ thread'.examples = thread.examples /\ thread'.due = thread.due
        /\ thread'.told = thread.told
    BY <1>1, <2>1 DEF ThreadType
  <2> QED
    BY <2>3, <2>4 DEF late, steps
<1>5. NodeTyped'
  BY <1>1, <1>3, <1>4 DEF NodeTyped
<1>6. ThreadHeld'
  BY <1>1, <1>3, <1>4 DEF ThreadHeld
<1>7. ThreadTrue'
  <2>1. thread.late = 0 /\ thread.steps < StepsPlanned /\ ~thread.preempted
    BY <1>1, <1>3 DEF ThreadTrue
  <2>2. thread'.late <= 1 /\ (thread'.late = 1 => thread'.told)
    BY <1>4, <2>1
  <2>3. thread'.steps <= StepsPlanned
    BY <1>2, <1>4, <2>1
  <2> QED
    BY <1>1, <1>4, <2>1, <2>2, <2>3 DEF ThreadTrue
<1> QED
  BY <1>3, <1>5, <1>6, <1>7, StoreKept

LEMMA SaveStep ==
  ASSUME NodeAssumption, NodeInv, Save
  PROVE  NodeInv'
<1>1. NodeTyped /\ ThreadHeld /\ ThreadTrue /\ thread \in ThreadType
  BY DEF NodeInv, NodeTyped
<1>2. UNCHANGED <<store, dumped, captured, state, quiet, preempt, caller>>
  BY DEF Save
<1>3. /\ \/ thread.at = "loop" /\ thread.steps = StepsPlanned /\ thread'.at = "meta"
         \/ thread.at = "save" /\ thread'.at = "meta"
         \/ thread.at = "meta" /\ thread'.at = "returned"
      /\ thread' \in ThreadType
      /\ thread'.preempted = thread.preempted /\ thread'.early = thread.early
      /\ thread'.examples = thread.examples /\ thread'.due = thread.due
      /\ thread'.told = thread.told /\ thread'.steps = thread.steps
      /\ thread'.late = thread.late
  <2>1. CASE thread.at = "loop" /\ thread.steps = StepsPlanned /\ thread' = [thread EXCEPT !.at = "meta"]
    BY <1>1, <2>1 DEF ThreadType
  <2>2. CASE thread.at = "save" /\ thread' = [thread EXCEPT !.at = "meta"]
    BY <1>1, <2>2 DEF ThreadType
  <2>3. CASE thread.at = "meta" /\ thread' = [thread EXCEPT !.at = "returned"]
    BY <1>1, <2>3 DEF ThreadType
  <2> QED
    BY <2>1, <2>2, <2>3 DEF Save
<1>4. NodeTyped'
  BY <1>1, <1>2, <1>3 DEF NodeTyped
<1>5. ThreadHeld'
  BY <1>1, <1>2, <1>3 DEF ThreadHeld
<1>6. ThreadTrue'
  <2>1. StepsPlanned \in Nat /\ thread.steps \in Nat
    BY <1>1 DEF NodeAssumption, ThreadType
  <2>2. thread'.at = "meta" => (thread'.preempted <=> thread'.steps < StepsPlanned)
    BY <1>1, <1>3, <2>1 DEF ThreadTrue
  <2> QED
    BY <1>1, <1>2, <1>3, <2>2 DEF ThreadTrue
<1> QED
  BY <1>2, <1>4, <1>5, <1>6, StoreKept

LEMMA NodeNextInv ==
  ASSUME StoreAssumption, NodeAssumption, NodeInv, [NodeNext]_nodeVars
  PROVE  NodeInv'
<1>1. CASE UNCHANGED nodeVars
  <2>1. NodeTyped' /\ ThreadHeld' /\ ThreadTrue'
    BY <1>1, ThreadKept DEF nodeVars, node, threadVars, NodeInv
  <2> QED
    BY <1>1, <2>1, StoreKept DEF nodeVars
<1>2. CASE NodeNext
  BY <1>2, StoreStep, RestartStep, CallerStep, BeginStep, LookStep, WorkStep, SaveStep
     DEF NodeNext
<1> QED
  BY <1>1, <1>2

\* A checkpoint says what its pass did: it was given the newest captures of its domain that
\* a store of MaxSize holds, through evictions, repeated prompts, dumps and restarts; it was
\* preempted exactly when it stopped short, by its own signal unless it looked before it was
\* marked started, and at most one step late after a signal since the mark.
THEOREM CheckpointAlwaysTruthful ==
  NodeInit /\ [][NodeNext]_nodeVars => []CheckpointTruthful
<1>1. NodeInit => NodeInv
  BY NodeInitInv, StoreAssumption, NodeAssumption
<1>2. NodeInv /\ [NodeNext]_nodeVars => NodeInv'
  BY NodeNextInv, StoreAssumption, NodeAssumption
<1>3. NodeInv => CheckpointTruthful
  BY DEF NodeInv, NodeTyped, ThreadHeld, ThreadTrue, CheckpointTruthful
<1> QED
  BY <1>1, <1>2, <1>3, PTL
=============================================================================
