-------------------------- MODULE PullRouterProofs --------------------------
(***************************************************************************)
(* Proofs about PullRouter, for every period, retention and bound: its     *)
(* types, how old the news of what the router offers can be, and that one  *)
(* missed pass drops nothing.                                              *)
(*                                                                         *)
(* The age of the news is followed along its way: the heartbeat being      *)
(* built, the one posted, the pass that has read it, the snapshot that has *)
(* kept it.  Each stage adds what its own clock has counted.               *)
(***************************************************************************)
EXTENDS PullRouter, TLAPS

USE NodeAssumption, RouterAssumption DEF Threads

-----------------------------------------------------------------------------
(* The inductive invariant.                                                *)

\* The oldest news that a node still advertises.
Stale == MaxBuild + Beats * (MaxFailedBeats + 1)

\* The heartbeat being built was read `waited` ticks ago, and belongs to a node that is up.
BeatFresh ==
  /\ phase # "up" => beat = "none"
  /\ phase \in {"off", "starting"} => posted = "none"
  /\ beat = "loaded" => sinceAlive <= waited

\* The posted one was replaced by none of the heartbeats that failed since.
PostedFresh ==
  Advertised =>
    sinceAlive <= MaxBuild + failedBeats * Beats
                  + (IF beat = "none" THEN waited ELSE HeartbeatEvery + waited)

FoundFresh ==
  \A t \in Threads :
    /\ fetched[t] = "idle" => lasting[t] = 0
    /\ fetched[t] = "found" => sinceAlive <= Stale + lasting[t]

\* Ticks since the loop's last pass ended.
SincePass ==
  IF fetched["loop"] = "idle" THEN slept ELSE RefreshEvery + lasting["loop"]

SnapshotFresh ==
  snapshot = "bound" =>
    /\ sinceAlive <= Stale + MaxPass + lastSeen
    /\ lastSeen <= Retain + raised * Passes + SincePass
    /\ missed = 0 => lastSeen <= SincePass

HistoryOK == sinceAlive \in 0..Horizon /\ missed \in 0..2

RouterInv ==
  /\ TypeOK /\ HistoryOK
  /\ BeatFresh /\ PostedFresh /\ FoundFresh /\ SnapshotFresh

-----------------------------------------------------------------------------
(* Types.                                                                  *)

\* What a node's process and its backend may be, whatever the heartbeats do.
BackendOK ==
  /\ kind \in Kinds
  /\ own \in {"none", "loading", "serving", "exited"}
  /\ other \in BOOLEAN
  /\ adopted \in {"none", "live", "gone"}
  /\ started \in BOOLEAN /\ failed \in BOOLEAN
  /\ own # "none" => adopted = "none"

BeatsOK ==
  /\ phase \in {"off", "starting", "up", "stopping"}
  /\ beat \in {"none", "loaded", "empty"} /\ posted \in {"none", "loaded", "empty"}
  /\ waited \in Nat
  /\ phase = "up" => waited <= IF beat = "none" THEN HeartbeatEvery ELSE MaxBuild
  /\ failedBeats \in 0..MaxFailedBeats

\* The shapes of a step: the node's, with the router standing still; the router's, with
\* the node standing still; a tick.
NodeStep == NodeNext /\ UNCHANGED router
RouterStep == RouterNext /\ UNCHANGED node

LEMMA StepShape ==
  ASSUME Next
  PROVE  \/ NodeStep /\ sinceAlive' = IF Up \/ Up' THEN 0 ELSE sinceAlive
         \/ RouterStep /\ sinceAlive' = IF Up \/ Up' THEN 0 ELSE sinceAlive
         \/ Tick /\ sinceAlive' = IF Up THEN 0 ELSE Capped(sinceAlive + 1)
<1>1. RouterNext => UNCHANGED node
  BY DEF RouterNext, LoopStarts, ColdStarts, Asking, FetchFinds, FetchMisses, Answered,
         LoopWrites, LoopRaises, ColdWrites, ColdRaises, node
<1>2. QED BY <1>1 DEF Next, NodeStep, RouterStep

LEMMA InitTyped == Init => RouterInv
<1> SUFFICES ASSUME Init PROVE RouterInv
  OBVIOUS
<1>1. TypeOK
  <2>1. NodeTypeOK /\ (own # "none" => adopted = "none")
    <3>1. BackendOK
      BY DEF Init, NodeInit, BackendOK
    <3>2. BeatsOK
      BY DEF Init, NodeInit, BeatsOK
    <3>3. QED BY <3>1, <3>2 DEF NodeTypeOK, BackendOK, BeatsOK
  <2>2. fetched \in [Threads -> {"idle", "asking", "found", "missed"}]
        /\ lasting \in [Threads -> 0..MaxPass]
    BY DEF Init
  <2>3. snapshot \in {"none", "bound", "unbound"} /\ lastSeen \in 0..Horizon
        /\ slept \in 0..RefreshEvery /\ raised \in 0..MaxRaised
    BY DEF Init
  <2>4. QED BY <2>1, <2>2, <2>3 DEF TypeOK
<1>2. HistoryOK
  BY DEF Init, HistoryOK
<1>3. BeatFresh /\ PostedFresh
  BY DEF Init, NodeInit, BeatFresh, PostedFresh, Advertised
<1>4. FoundFresh /\ SnapshotFresh
  BY DEF Init, FoundFresh, SnapshotFresh
<1>5. QED BY <1>1, <1>2, <1>3, <1>4 DEF RouterInv

LEMMA NodeStepTyped ==
  ASSUME TypeOK, BeatFresh, NodeStep
  PROVE  TypeOK'
<1>1. BackendOK /\ BeatsOK
  BY DEF TypeOK, NodeTypeOK, BackendOK, BeatsOK
<1> SUFFICES BackendOK' /\ BeatsOK'
  BY DEF NodeStep, router, TypeOK, NodeTypeOK, BackendOK, BeatsOK
<1>2. CASE Process
  <2>1. UNCHANGED <<phase, beat, posted, waited, failedBeats>>
    BY <1>2 DEF Process, OwnLoads, OwnExits, OtherComes, OtherGoes
  <2>2. BackendOK'
    BY <1>1, <1>2 DEF Process, OwnLoads, OwnExits, OtherComes, OtherGoes, BackendOK
  <2>3. QED BY <1>1, <2>1, <2>2 DEF BeatsOK
<1>3. CASE Start
  <2>1. PICK result \in {"adopted", "raised", "spawned", "running", "nothing"} : Launches(result)
    BY <1>3 DEF Start, StartProcess, ProcessResults, StartOllama, StartExternal, StartNull
  <2>2. BackendOK'
    BY <1>1, <2>1 DEF Launches, BackendOK
  <2>3. BeatsOK'
    BY <1>1, <2>1 DEF Launches, BeatsOK
  <2>4. QED BY <2>2, <2>3
<1>4. CASE GoUp \/ Beat \/ StopBegins
  <2>1. UNCHANGED <<kind, own, other, adopted, started, failed>>
    BY <1>4 DEF GoUp, Beat, BeatReads, BeatPosts, BeatFails, StopBegins
  <2>2. BeatsOK'
    <3>1. CASE GoUp
      <4>1. beat' \in {"none", "loaded", "empty"} /\ posted' \in {"none", "loaded", "empty"}
            /\ failedBeats' \in 0..MaxFailedBeats
        BY <1>1, <3>1 DEF GoUp, BeatsOK
      <4>2. phase' = "up" /\ waited' = HeartbeatEvery /\ beat' = "none"
        BY <3>1 DEF GoUp, BeatFresh
      <4>3. QED BY <4>1, <4>2 DEF BeatsOK
    <3>2. CASE Beat
      BY <1>1, <3>2 DEF Beat, BeatReads, BeatPosts, BeatFails, BeatsOK
    <3>3. CASE StopBegins
      BY <1>1, <3>3 DEF StopBegins, BeatsOK
    <3>4. QED BY <1>4, <3>1, <3>2, <3>3
  <2>3. QED BY <1>1, <2>1, <2>2 DEF BackendOK
<1>5. CASE StopEnds \/ Crash
  <2>1. BackendOK'
    BY <1>1, <1>5 DEF StopEnds, Crash, Forgotten, BackendOK
  <2>2. BeatsOK'
    BY <1>5 DEF StopEnds, Crash, Forgotten, BeatsOK
  <2>3. QED BY <2>1, <2>2
<1>6. QED BY <1>2, <1>3, <1>4, <1>5 DEF NodeStep, NodeNext

LEMMA RouterStepTyped ==
  ASSUME TypeOK, RouterStep
  PROVE  TypeOK'
<1> USE DEF TypeOK
<1>1. NodeTypeOK' /\ (own' # "none" => adopted' = "none")
  BY DEF RouterStep, node, NodeTypeOK
<1>2. CASE LoopStarts \/ ColdStarts
  BY <1>1, <1>2 DEF LoopStarts, ColdStarts, Asking
<1>3. CASE \E t \in Threads : FetchFinds(t) \/ FetchMisses(t)
  BY <1>1, <1>3 DEF FetchFinds, FetchMisses, Answered
<1>4. CASE LoopWrites
  BY <1>1, <1>4 DEF LoopWrites, Retained, Done
<1>5. CASE LoopRaises
  BY <1>1, <1>5 DEF LoopRaises, Done
<1>6. CASE ColdWrites
  BY <1>1, <1>6 DEF ColdWrites, Done
<1>7. CASE ColdRaises
  BY <1>1, <1>7 DEF ColdRaises, Done
<1>8. QED BY <1>2, <1>3, <1>4, <1>5, <1>6, <1>7 DEF RouterStep, RouterNext

LEMMA TickTyped ==
  ASSUME TypeOK, FoundFresh, Tick
  PROVE  TypeOK'
<1> USE DEF TypeOK, Tick
<1>1. NodeTypeOK' /\ (own' # "none" => adopted' = "none")
  BY DEF NodeTypeOK, BeatDue
<1>2. lasting' \in [Threads -> 0..MaxPass]
  BY DEF FoundFresh, PassDue
<1>3. slept' \in 0..RefreshEvery /\ lastSeen' \in 0..Horizon
  BY DEF LoopDue, Capped
<1>4. QED BY <1>1, <1>2, <1>3

LEMMA StepTyped ==
  ASSUME RouterInv, [Next]_vars
  PROVE  TypeOK'
<1>1. CASE Next
  BY <1>1, StepShape, NodeStepTyped, RouterStepTyped, TickTyped DEF RouterInv
<1>2. CASE UNCHANGED vars
  BY <1>2 DEF vars, node, router, RouterInv, TypeOK, NodeTypeOK
<1>3. QED BY <1>1, <1>2

-----------------------------------------------------------------------------
(* The age of the news.                                                    *)

\* A step costs no time, a tick costs one, and none is counted while the backend is up.
LEMMA HistoryStep ==
  ASSUME RouterInv, [Next]_vars
  PROVE  /\ HistoryOK'
         /\ ~Tick => sinceAlive' <= sinceAlive
         /\ sinceAlive' <= sinceAlive + 1
<1> USE DEF RouterInv, HistoryOK
<1>1. sinceAlive' \in 0..Horizon /\ (~Tick => sinceAlive' <= sinceAlive) /\ sinceAlive' <= sinceAlive + 1
  <2>1. CASE Next
    BY <2>1, StepShape DEF Capped
  <2>2. CASE UNCHANGED vars
    BY <2>2 DEF vars
  <2>3. QED BY <2>1, <2>2
<1>2. missed' \in 0..2
  <2>1. CASE NodeStep \/ Tick \/ UNCHANGED vars
    BY <2>1 DEF NodeStep, Tick, vars, router
  <2>2. CASE RouterStep
    BY <2>2 DEF RouterStep, RouterNext, LoopStarts, ColdStarts, Asking, FetchFinds, FetchMisses,
                Answered, LoopWrites, LoopRaises, ColdWrites, ColdRaises, OneMore
  <2>3. QED BY <2>1, <2>2, StepShape
<1>3. QED BY <1>1, <1>2

LEMMA Multiples ==
  /\ Beats \in Nat /\ Passes \in Nat /\ Stale \in Nat
  /\ Beats = MaxBuild + HeartbeatEvery /\ Passes = RefreshEvery + MaxPass
  /\ \A f \in 0..MaxFailedBeats :
       /\ f * Beats \in Nat
       /\ (f + 1) * Beats = f * Beats + Beats
       /\ MaxBuild + f * Beats + Beats <= Stale
  /\ \A n \in 0..MaxRaised :
       /\ n * Passes \in Nat
       /\ (n + 1) * Passes = n * Passes + Passes
       /\ n * Passes + Passes <= Passes * (MaxRaised + 1)
<1>1. Beats \in Nat /\ Passes \in Nat
  BY DEF Beats, Passes
<1>2. \A a, b, c \in Nat : a * c \in Nat /\ (a + 1) * c = a * c + c /\ c * (a + 1) = a * c + c
  OBVIOUS
<1>3. \A a, b, c \in Nat : a <= b => a * c <= b * c
  OBVIOUS
<1> HIDE DEF Beats, Passes
<1>4. Stale = MaxBuild + MaxFailedBeats * Beats + Beats
  BY <1>1, <1>2 DEF Stale
<1>5. \A f \in 0..MaxFailedBeats : f * Beats <= MaxFailedBeats * Beats
  BY <1>1, <1>3
<1>6. \A n \in 0..MaxRaised : n * Passes <= MaxRaised * Passes
  BY <1>1, <1>3
<1>7. Stale \in Nat
  BY <1>1, <1>2, <1>4
<1>8. \A f \in 0..MaxFailedBeats : MaxBuild + f * Beats + Beats <= Stale
  BY <1>1, <1>2, <1>4, <1>5
<1>9. \A n \in 0..MaxRaised : n * Passes + Passes <= Passes * (MaxRaised + 1)
  BY <1>1, <1>2, <1>6
<1>10. QED BY <1>1, <1>2, <1>7, <1>8, <1>9 DEF Beats, Passes

\* What a node advertises is never older than Stale.
LEMMA AdvertisedNotStale ==
  ASSUME RouterInv, Advertised
  PROVE  sinceAlive <= Stale
<1>1. failedBeats \in 0..MaxFailedBeats /\ waited \in Nat /\ sinceAlive \in Nat
  BY DEF RouterInv, TypeOK, NodeTypeOK, HistoryOK
<1>2. waited <= IF beat = "none" THEN HeartbeatEvery ELSE MaxBuild
  BY DEF RouterInv, TypeOK, NodeTypeOK, Advertised
<1>3. sinceAlive <= MaxBuild + failedBeats * Beats
                    + (IF beat = "none" THEN waited ELSE HeartbeatEvery + waited)
  BY DEF RouterInv, PostedFresh
<1>4. sinceAlive <= MaxBuild + failedBeats * Beats + Beats
  BY <1>1, <1>2, <1>3, Multiples
<1>5. QED BY <1>1, <1>4, Multiples

LEMMA HeartbeatStep ==
  ASSUME RouterInv, [Next]_vars
  PROVE  BeatFresh' /\ PostedFresh'
<1>1. /\ failedBeats \in 0..MaxFailedBeats /\ waited \in Nat /\ sinceAlive \in Nat
      /\ sinceAlive' \in Nat /\ BeatFresh /\ PostedFresh
      /\ phase = "up" => waited <= IF beat = "none" THEN HeartbeatEvery ELSE MaxBuild
      /\ beat \in {"none", "loaded", "empty"}
  BY HistoryStep DEF RouterInv, TypeOK, NodeTypeOK, HistoryOK
<1> DEFINE F == failedBeats * Beats
<1>2. F \in Nat /\ Beats \in Nat /\ (failedBeats + 1) * Beats = F + Beats
      /\ Beats = MaxBuild + HeartbeatEvery
  BY <1>1, Multiples
<1>3. CASE UNCHANGED <<phase, beat, posted, waited, failedBeats>> /\ sinceAlive' <= sinceAlive
  BY <1>1, <1>2, <1>3 DEF BeatFresh, PostedFresh, Advertised
<1>4. CASE Tick
  <2>1. UNCHANGED <<phase, beat, posted, failedBeats>> /\ sinceAlive' <= sinceAlive + 1
    BY <1>4, HistoryStep DEF Tick
  <2>2. phase = "up" => waited' = waited + 1
    BY <1>4 DEF Tick
  <2>3. QED BY <1>1, <1>2, <2>1, <2>2 DEF BeatFresh, PostedFresh, Advertised
<1>5. CASE NodeStep /\ ~Tick
  <2> USE <1>5
  <2>1. sinceAlive' <= sinceAlive
    BY HistoryStep
  <2>2. CASE Process
    BY <1>3, <2>1, <2>2 DEF Process, OwnLoads, OwnExits, OtherComes, OtherGoes
  <2>3. CASE Start
    <3>1. phase = "off" /\ phase' = "starting" /\ UNCHANGED <<beat, posted>>
      BY <2>3 DEF Start, StartProcess, StartOllama, StartExternal, StartNull, Launches
    <3>2. QED BY <1>1, <3>1 DEF BeatFresh, PostedFresh, Advertised
  <2>4. CASE GoUp
    BY <1>1, <2>4 DEF GoUp, BeatFresh, PostedFresh, Advertised
  <2>5. CASE BeatReads
    <3>1. Alive /\ phase = "up" => Up
      BY DEF Up
    <3>2. Up => sinceAlive' = 0
      <4>1. beat' # beat
        BY <2>5 DEF BeatReads
      <4>2. Next
        BY <4>1 DEF vars, node
      <4>3. QED BY <4>2, StepShape
    <3>3. beat' = "loaded" => sinceAlive' = 0
      BY <2>5, <3>1, <3>2 DEF BeatReads
    <3>4. QED
      BY <1>1, <1>2, <2>1, <2>5, <3>3 DEF BeatReads, BeatFresh, PostedFresh, Advertised
  <2>6. CASE BeatPosts
    <3>1. phase' = "up" /\ beat' = "none" /\ posted' = beat /\ failedBeats' = 0 /\ waited' = 0
          /\ beat # "none" /\ phase = "up"
      BY <2>6 DEF BeatPosts
    <3>2. failedBeats' * Beats = 0
      BY <1>2, <3>1
    <3>3. QED
      BY <1>1, <2>1, <3>1, <3>2 DEF BeatFresh, PostedFresh, Advertised
  <2>7. CASE BeatFails
    BY <1>1, <1>2, <2>1, <2>7 DEF BeatFails, BeatFresh, PostedFresh, Advertised
  <2>8. CASE StopBegins
    BY <1>1, <2>8 DEF StopBegins, BeatFresh, PostedFresh, Advertised
  <2>9. CASE StopEnds \/ Crash
    BY <2>9 DEF StopEnds, Crash, Forgotten, BeatFresh, PostedFresh, Advertised
  <2>10. QED BY <2>2, <2>3, <2>4, <2>5, <2>6, <2>7, <2>8, <2>9 DEF NodeStep, NodeNext, Beat
<1>6. CASE (RouterStep \/ UNCHANGED vars) /\ ~Tick
  BY <1>3, <1>6, HistoryStep DEF RouterStep, vars, node
<1>7. QED BY <1>4, <1>5, <1>6, StepShape

LEMMA FoundStep ==
  ASSUME RouterInv, [Next]_vars
  PROVE  FoundFresh'
<1>1. /\ sinceAlive \in Nat /\ sinceAlive' \in Nat /\ Stale \in Nat
      /\ fetched \in [Threads -> {"idle", "asking", "found", "missed"}]
      /\ lasting \in [Threads -> 0..MaxPass]
      /\ FoundFresh
  BY HistoryStep, Multiples DEF RouterInv, TypeOK, HistoryOK
<1>2. CASE UNCHANGED <<fetched, lasting>> /\ sinceAlive' <= sinceAlive
  BY <1>1, <1>2 DEF FoundFresh
<1>3. CASE Tick
  <2>1. sinceAlive' <= sinceAlive + 1 /\ fetched' = fetched
    BY <1>3, HistoryStep DEF Tick
  <2>2. \A t \in Threads : lasting'[t] = IF fetched[t] = "idle" THEN 0 ELSE lasting[t] + 1
    BY <1>3 DEF Tick
  <2>3. QED BY <1>1, <2>1, <2>2 DEF FoundFresh
<1>4. CASE RouterStep /\ ~Tick
  <2>1. sinceAlive' <= sinceAlive
    BY <1>4, HistoryStep
  <2>2. CASE LoopStarts \/ ColdStarts
    BY <1>1, <2>1, <2>2 DEF LoopStarts, ColdStarts, Asking, FoundFresh
  <2>3. ASSUME NEW t \in Threads, FetchFinds(t)
        PROVE  FoundFresh'
    <3>1. sinceAlive <= Stale
      BY <2>3, AdvertisedNotStale DEF FetchFinds
    <3>2. QED BY <1>1, <2>1, <2>3, <3>1 DEF FetchFinds, Answered, FoundFresh
  <2>4. ASSUME NEW t \in Threads, FetchMisses(t)
        PROVE  FoundFresh'
    BY <1>1, <2>1, <2>4 DEF FetchMisses, Answered, FoundFresh
  <2>5. CASE LoopWrites \/ LoopRaises \/ ColdWrites \/ ColdRaises
    <3>1. Done("loop") \/ Done("cold")
      BY <2>5 DEF LoopWrites, LoopRaises, ColdWrites, ColdRaises
    <3>2. QED BY <1>1, <2>1, <3>1 DEF Done, FoundFresh
  <2>6. QED BY <1>4, <2>2, <2>3, <2>4, <2>5 DEF RouterStep, RouterNext
<1>5. CASE (NodeStep \/ UNCHANGED vars) /\ ~Tick
  BY <1>2, <1>5, HistoryStep DEF NodeStep, vars, router
<1>6. QED BY <1>3, <1>4, <1>5, StepShape

LEMMA SnapshotStep ==
  ASSUME RouterInv, [Next]_vars
  PROVE  SnapshotFresh'
<1>1. /\ sinceAlive \in Nat /\ sinceAlive' \in 0..Horizon /\ lastSeen \in Nat
      /\ fetched \in [Threads -> {"idle", "asking", "found", "missed"}]
      /\ lasting \in [Threads -> 0..MaxPass] /\ slept \in 0..RefreshEvery
      /\ raised \in 0..MaxRaised /\ missed \in 0..2
      /\ FoundFresh /\ SnapshotFresh
  BY HistoryStep DEF RouterInv, TypeOK, HistoryOK
<1> DEFINE R == raised * Passes
<1>2. /\ R \in Nat /\ Passes \in Nat /\ Stale \in Nat /\ Passes = RefreshEvery + MaxPass
      /\ (raised + 1) * Passes = R + Passes /\ 0 * Passes = 0
  BY <1>1, Multiples
<1>3. SincePass \in 0..Passes
  BY <1>1, <1>2 DEF SincePass
<1>4. CASE UNCHANGED <<snapshot, lastSeen, fetched, lasting, slept, raised, missed>>
           /\ sinceAlive' <= sinceAlive
  BY <1>1, <1>2, <1>4 DEF SnapshotFresh, SincePass
<1>5. CASE Tick
  <2>1. /\ sinceAlive' <= sinceAlive + 1
        /\ UNCHANGED <<snapshot, fetched, raised, missed>>
        /\ snapshot = "bound" => lastSeen' = Capped(lastSeen + 1)
        /\ lasting'["loop"] = IF fetched["loop"] = "idle" THEN 0 ELSE lasting["loop"] + 1
        /\ slept' = IF fetched["loop"] = "idle" THEN slept + 1 ELSE slept
    BY <1>5, HistoryStep DEF Tick
  <2>2. SincePass' = SincePass + 1
    BY <1>1, <2>1 DEF SincePass
  <2>3. snapshot = "bound" => sinceAlive' <= Stale + MaxPass + lastSeen'
    BY <1>1, <1>2, <2>1 DEF Capped, SnapshotFresh
  <2>4. snapshot = "bound" => lastSeen' \in Nat /\ lastSeen' <= lastSeen + 1
    BY <1>1, <2>1 DEF Capped
  <2>5. QED BY <1>1, <1>2, <1>3, <2>1, <2>2, <2>3, <2>4 DEF SnapshotFresh
<1>6. CASE RouterStep /\ ~Tick
  <2>1. sinceAlive' <= sinceAlive
    BY <1>6, HistoryStep
  <2>2. CASE LoopStarts \/ ColdStarts \/ \E t \in Threads : FetchFinds(t) \/ FetchMisses(t)
    <3>1. UNCHANGED <<snapshot, lastSeen, lasting, slept, raised, missed>>
      BY <2>2 DEF LoopStarts, ColdStarts, Asking, FetchFinds, FetchMisses, Answered
    <3>2. SincePass' = SincePass
      <4>1. CASE LoopStarts
        BY <1>1, <4>1 DEF LoopStarts, Asking, SincePass, FoundFresh
      <4>2. CASE ColdStarts
        BY <1>1, <4>2 DEF ColdStarts, Asking, SincePass
      <4>3. CASE \E t \in Threads : FetchFinds(t) \/ FetchMisses(t)
        BY <1>1, <4>3 DEF FetchFinds, FetchMisses, Answered, SincePass
      <4>4. QED BY <2>2, <4>1, <4>2, <4>3
    <3>3. QED BY <1>1, <1>2, <1>3, <2>1, <3>1, <3>2 DEF SnapshotFresh
  <2>3. CASE LoopWrites
    <3>1. slept' = 0 /\ raised' = 0 /\ fetched'["loop"] = "idle"
      BY <1>1, <2>3 DEF LoopWrites, Done
    <3>2. SincePass' = 0
      BY <3>1 DEF SincePass
    <3>3. CASE fetched["loop"] = "found"
      <4>1. lastSeen' = 0
        BY <2>3, <3>3 DEF LoopWrites, Retained
      <4>2. sinceAlive <= Stale + MaxPass
        BY <1>1, <1>2, <3>3 DEF FoundFresh
      <4>3. QED BY <1>1, <1>2, <2>1, <3>1, <3>2, <4>1, <4>2 DEF SnapshotFresh
    <3>4. CASE fetched["loop"] = "missed"
      <4>1. snapshot' = "bound" =>
              snapshot = "bound" /\ lastSeen' = lastSeen /\ lastSeen <= Retain
        BY <2>3, <3>4 DEF LoopWrites, Retained
      <4>2. missed' # 0
        BY <1>1, <2>3, <3>4 DEF LoopWrites, OneMore
      <4>3. QED BY <1>1, <1>2, <2>1, <3>1, <3>2, <4>1, <4>2 DEF SnapshotFresh
    <3>5. QED BY <2>3, <3>3, <3>4 DEF LoopWrites
  <2>4. CASE LoopRaises
    <3>1. /\ UNCHANGED <<snapshot, lastSeen>>
          /\ raised' = raised + 1 /\ missed' # 0
          /\ slept' = 0 /\ fetched'["loop"] = "idle"
      BY <1>1, <2>4 DEF LoopRaises, Done, OneMore
    <3>2. SincePass' = 0
      BY <3>1 DEF SincePass
    <3>3. QED BY <1>1, <1>2, <1>3, <2>1, <3>1, <3>2 DEF SnapshotFresh
  <2>5. CASE ColdWrites \/ ColdRaises
    <3>1. SincePass' = SincePass /\ raised' = raised
      BY <1>1, <2>5 DEF ColdWrites, ColdRaises, Done, SincePass
    <3>2. CASE ColdWrites /\ fetched["cold"] = "found"
      <4>1. lastSeen' = 0
        BY <3>2 DEF ColdWrites
      <4>2. sinceAlive <= Stale + MaxPass
        BY <1>1, <1>2, <3>2 DEF FoundFresh
      <4>3. QED BY <1>1, <1>2, <1>3, <2>1, <3>1, <4>1, <4>2 DEF SnapshotFresh
    <3>3. CASE ColdWrites /\ fetched["cold"] # "found"
      BY <3>3 DEF ColdWrites, SnapshotFresh
    <3>4. CASE ColdRaises
      <4>1. UNCHANGED <<snapshot, lastSeen, missed>>
        BY <3>4 DEF ColdRaises
      <4>2. QED BY <1>1, <1>2, <1>3, <2>1, <3>1, <4>1 DEF SnapshotFresh
    <3>5. QED BY <2>5, <3>2, <3>3, <3>4
  <2>6. QED BY <1>6, <2>2, <2>3, <2>4, <2>5 DEF RouterStep, RouterNext
<1>7. CASE (NodeStep \/ UNCHANGED vars) /\ ~Tick
  BY <1>4, <1>7, HistoryStep DEF NodeStep, vars, router
<1>8. QED BY <1>5, <1>6, <1>7, StepShape

LEMMA RouterInvariant == Spec => []RouterInv
<1>1. RouterInv /\ [Next]_vars => RouterInv'
  BY StepTyped, HistoryStep, HeartbeatStep, FoundStep, SnapshotStep DEF RouterInv
<1>2. QED BY InitTyped, <1>1, PTL DEF Spec

-----------------------------------------------------------------------------
(* The theorems.                                                           *)

\* The router, its passes and the node it follows are type correct, for any bounds; and a
\* backend has a process of its own or an adopted one, never both.
THEOREM RouterTyped == Spec => []TypeOK
<1>1. RouterInv => TypeOK
  BY DEF RouterInv
<1>2. QED BY <1>1, RouterInvariant, PTL

\* The router never offers a specialist whose backend has been down for longer than the
\* heartbeats, passes and the retention add up to: heartbeats that fail, passes that raise
\* or miss, the cold start that races with the loop, a daemon that crashes.
THEOREM RoutedRecently == Spec => []RoutedIsRecent
<1>1. ASSUME RouterInv
      PROVE  RoutedIsRecent
  <2>1. /\ sinceAlive \in Nat /\ lastSeen \in Nat /\ raised \in 0..MaxRaised
        /\ fetched \in [Threads -> {"idle", "asking", "found", "missed"}]
        /\ lasting \in [Threads -> 0..MaxPass] /\ slept \in 0..RefreshEvery
    BY <1>1 DEF RouterInv, TypeOK, HistoryOK
  <2> DEFINE R == raised * Passes
  <2>2. /\ R \in Nat /\ Passes \in Nat /\ Stale \in Nat /\ Passes = RefreshEvery + MaxPass
        /\ R + Passes <= Passes * (MaxRaised + 1) /\ Passes * (MaxRaised + 1) \in Nat
    BY <2>1, Multiples
  <2>3. SincePass \in 0..Passes
    BY <2>1, <2>2 DEF SincePass
  <2>4. snapshot = "bound" => /\ sinceAlive <= Stale + MaxPass + lastSeen
                             /\ lastSeen <= Retain + R + SincePass
    BY <1>1 DEF RouterInv, SnapshotFresh
  <2> HIDE DEF R
  <2>5. snapshot = "bound" => sinceAlive <= Stale + MaxPass + Retain + Passes * (MaxRaised + 1)
    BY <2>1, <2>2, <2>3, <2>4
  <2>6. QED BY <2>5 DEF RoutedIsRecent, Stale
<1>2. QED BY <1>1, RouterInvariant, PTL

\* One missed pass drops no route, where the retention lasts for a period and a pass: with
\* the default of twice the period, where no pass takes longer than the period.
THEOREM OneMissDropsNothing ==
  ASSUME Retain >= Passes
  PROVE  Spec => MissedOnceKept
<1>1. ASSUME RouterInv, LoopWrites, snapshot = "bound", snapshot' = "unbound"
      PROVE  missed >= 1
  <2>1. /\ missed \in 0..2 /\ lastSeen \in Nat
        /\ fetched \in [Threads -> {"idle", "asking", "found", "missed"}]
        /\ lasting \in [Threads -> 0..MaxPass] /\ slept \in 0..RefreshEvery
    BY <1>1 DEF RouterInv, TypeOK, HistoryOK
  <2>2. Passes = RefreshEvery + MaxPass /\ Passes \in Nat
    BY Multiples
  <2>3. SincePass \in 0..Passes
    BY <2>1, <2>2 DEF SincePass
  <2>4. ~(Retain > 0 /\ lastSeen <= Retain)
    BY <1>1 DEF LoopWrites, Retained
  <2>5. missed = 0 => lastSeen <= SincePass
    BY <1>1 DEF RouterInv, SnapshotFresh
  <2>6. QED BY <2>1, <2>2, <2>3, <2>4, <2>5
<1>2. RouterInv /\ [Next]_vars
        => [LoopWrites /\ snapshot = "bound" /\ snapshot' = "unbound" => missed >= 1]_vars
  BY <1>1
<1>3. QED BY <1>2, RouterInvariant, PTL DEF Spec, MissedOnceKept
=============================================================================
