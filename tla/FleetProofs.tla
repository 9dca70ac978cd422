----------------------------- MODULE FleetProofs -----------------------------
(***************************************************************************)
(* The bargain of the GPU reservations, for any nodes, jobs, memory, tags  *)
(* and lease: a node on which everybody keeps to it is not overcommitted.  *)
(*                                                                         *)
(* The sums of ReservedGb and UsedGb are folds over sets.  They are taken  *)
(* as the number of units in a set of pairs, one pair for each unit that a *)
(* job needs, so that more jobs need more memory is a fact about subsets.  *)
(*                                                                         *)
(* And what the allocator promises, for any hardware, catalog and traffic: *)
(* the invariant of a run of its greedy loops.                             *)
(***************************************************************************)
EXTENDS GpuCoordination, Allocator, FiniteSetTheorems, TLAPS

USE GpuAssumption

-----------------------------------------------------------------------------
(* Sums of memory, as the number of units the jobs need.                   *)

Units(K) == {p \in K \X Nat : p[2] \in 1..Need[p[1]]}

LEMMA UnitsOfOne ==
  ASSUME NEW j \in Jobs
  PROVE  /\ IsFiniteSet({j} \X (1..Need[j]))
         /\ Cardinality({j} \X (1..Need[j])) = Need[j]
<1>1. Need[j] \in Nat
  OBVIOUS
<1>2. IsFiniteSet({j}) /\ Cardinality({j}) = 1
  BY FS_Singleton
<1>3. IsFiniteSet(1..Need[j]) /\ Cardinality(1..Need[j]) = Need[j]
  BY <1>1, FS_Interval
<1>4. /\ IsFiniteSet({j} \X (1..Need[j]))
      /\ Cardinality({j} \X (1..Need[j])) = 1 * Need[j]
  <2>1. /\ IsFiniteSet({j} \X (1..Need[j]))
        /\ Cardinality({j} \X (1..Need[j])) = Cardinality({j}) * Cardinality(1..Need[j])
    BY <1>2, <1>3, FS_Product
  <2> QED
    BY <2>1, <1>2, <1>3
<1> QED
  BY <1>1, <1>4

LEMMA UnitsAdd ==
  ASSUME NEW K \in SUBSET Jobs, IsFiniteSet(Units(K)), NEW j \in Jobs, j \notin K
  PROVE  /\ IsFiniteSet(Units(K \cup {j}))
         /\ Cardinality(Units(K \cup {j})) = Need[j] + Cardinality(Units(K))
<1> DEFINE one == {j} \X (1..Need[j])
<1>1. Need[j] \in Nat
  OBVIOUS
<1>2. Units(K \cup {j}) = Units(K) \cup one
  BY DEF Units
<1>3. Units(K) \cap one = {}
  BY DEF Units
<1>4. IsFiniteSet(one) /\ Cardinality(one) = Need[j]
  BY UnitsOfOne
<1> HIDE DEF one
<1>5. /\ IsFiniteSet(Units(K) \cup one)
      /\ Cardinality(Units(K) \cup one)
           = Cardinality(Units(K)) + Cardinality(one) - Cardinality(Units(K) \cap one)
  BY <1>4, FS_Union
<1>6. Cardinality(Units(K) \cap one) = 0 /\ Cardinality(Units(K)) \in Nat
  BY <1>3, FS_EmptySet, FS_CardinalityType
<1>7. Cardinality(Units(K) \cup one) = Need[j] + Cardinality(Units(K))
  BY <1>1, <1>4, <1>5, <1>6
<1> QED
  BY <1>2, <1>5, <1>7

\* A finite set has the smallest sets of any family of its subsets.
LEMMA SmallestOf ==
  ASSUME NEW S, IsFiniteSet(S), NEW W \in SUBSET SUBSET S, W # {}
  PROVE  \E s \in W : \A x \in s : s \ {x} \notin W
<1> DEFINE R == StrictSubsetOrdering(S)
<1>1. IsWellFoundedOn(R, FiniteSubsetsOf(S))
  BY FS_StrictSubsetOrderingWellFounded
<1>2. W \subseteq FiniteSubsetsOf(S)
  BY FS_Subset DEF FiniteSubsetsOf
<1>3. \A s \in W : \A x \in s : <<s \ {x}, s>> \in R
  BY DEF StrictSubsetOrdering
<1> HIDE DEF R
<1>4. PICK s \in W : \A r \in W : ~(<<r, s>> \in R)
  BY <1>1, <1>2, WFMin
<1> QED
  BY <1>3, <1>4

LEMMA UnitsFinite ==
  ASSUME NEW K \in SUBSET Jobs, IsFiniteSet(K)
  PROVE  IsFiniteSet(Units(K))
<1> DEFINE W == {s \in SUBSET K : ~IsFiniteSet(Units(s))}
<1> SUFFICES ASSUME W # {}
             PROVE  FALSE
  OBVIOUS
<1>1. PICK s \in W : \A x \in s : s \ {x} \notin W
  BY SmallestOf
<1>2. CASE s = {}
  <2>1. Units({}) = {}
    BY DEF Units
  <2> QED
    BY <1>1, <1>2, <2>1, FS_EmptySet
<1>3. CASE s # {}
  <2>1. PICK j \in s : TRUE
    BY <1>3
  <2>2. /\ s \ {j} \in SUBSET Jobs /\ IsFiniteSet(Units(s \ {j}))
        /\ j \in Jobs /\ (s \ {j}) \cup {j} = s
    BY <1>1, <2>1
  <2>3. IsFiniteSet(Units(s))
    BY <2>2, UnitsAdd
  <2> QED
    BY <1>1, <2>3
<1> QED
  BY <1>2, <1>3

LEMMA UnitsBound ==
  ASSUME NEW K \in SUBSET Jobs, IsFiniteSet(K), NEW L \in SUBSET K
  PROVE  /\ Cardinality(Units(L)) \in Nat /\ Cardinality(Units(K)) \in Nat
         /\ Cardinality(Units(L)) <= Cardinality(Units(K))
<1>1. IsFiniteSet(Units(K)) /\ Units(L) \subseteq Units(K)
  BY UnitsFinite DEF Units
<1> QED
  BY <1>1, FS_Subset, FS_CardinalityType

-----------------------------------------------------------------------------
(* The fold that adds up what the jobs key[x] need, x \in S.               *)

First(s) == CHOOSE x \in s : TRUE
Adds(S, key, g) ==
  g = [s \in SUBSET S |-> IF s = {} THEN 0 ELSE Need[key[First(s)]] + g[s \ {First(s)}]]
Keys(key, s) == {key[x] : x \in s}
Counts(S, key) == [s \in SUBSET S |-> Cardinality(Units(Keys(key, s)))]

LEMMA CountsAdds ==
  ASSUME NEW S, IsFiniteSet(S), NEW key \in [S -> Jobs],
         \A x, y \in S : key[x] = key[y] => x = y
  PROVE  Adds(S, key, Counts(S, key))
<1> DEFINE f == Counts(S, key)
<1>1. \A s \in SUBSET S : f[s] = Cardinality(Units(Keys(key, s)))
  BY DEF Counts
<1>2. ASSUME NEW s \in SUBSET S
      PROVE  f[s] = IF s = {} THEN 0 ELSE Need[key[First(s)]] + f[s \ {First(s)}]
  <2>1. CASE s = {}
    <3>1. Units(Keys(key, s)) = {}
      BY <2>1 DEF Units, Keys
    <3> QED
      BY <1>1, <2>1, <3>1, FS_EmptySet
  <2>2. CASE s # {}
    <3> DEFINE x == First(s)
               r == s \ {x}
    <3>1. x \in s
      BY <2>2 DEF First
    <3> HIDE DEF x
    <3>2. /\ Keys(key, s) = Keys(key, r) \cup {key[x]}
          /\ Keys(key, r) \in SUBSET Jobs /\ key[x] \in Jobs /\ key[x] \notin Keys(key, r)
      BY <3>1 DEF Keys
    <3>3. IsFiniteSet(Keys(key, r))
      <4> DEFINE onto == [y \in r |-> key[y]]
      <4>1. IsFiniteSet(r)
        BY FS_Subset
      <4>2. onto \in Surjection(r, Keys(key, r))
        BY DEF Surjection, Keys
      <4> QED
        BY <4>1, <4>2, FS_Surjection
    <3>4. Cardinality(Units(Keys(key, s))) = Need[key[x]] + Cardinality(Units(Keys(key, r)))
      BY <3>2, <3>3, UnitsFinite, UnitsAdd
    <3>5. f[s] = Need[key[x]] + f[r]
      BY <1>1, <3>4
    <3> QED
      BY <2>2, <3>5 DEF x
  <2> QED
    BY <2>1, <2>2
<1>3. f = [s \in SUBSET S |-> f[s]]
  BY DEF Counts
<1> HIDE DEF f
<1> QED
  BY <1>2, <1>3 DEF Adds, f

LEMMA AddsOnce ==
  ASSUME NEW S, IsFiniteSet(S), NEW key, NEW g, NEW f, Adds(S, key, g), Adds(S, key, f)
  PROVE  g[S] = f[S]
<1> DEFINE W == {s \in SUBSET S : g[s] # f[s]}
<1> SUFFICES ASSUME W # {}
             PROVE  FALSE
  OBVIOUS
<1>1. PICK s \in W : \A x \in s : s \ {x} \notin W
  BY SmallestOf
<1>2. s \in SUBSET S /\ g[s] # f[s]
  BY <1>1
<1>3. /\ g[s] = IF s = {} THEN 0 ELSE Need[key[First(s)]] + g[s \ {First(s)}]
      /\ f[s] = IF s = {} THEN 0 ELSE Need[key[First(s)]] + f[s \ {First(s)}]
  BY <1>2 DEF Adds
<1>4. s # {} => First(s) \in s
  BY DEF First
<1>5. s # {} => g[s \ {First(s)}] = f[s \ {First(s)}]
  BY <1>1, <1>2, <1>4
<1> QED
  BY <1>2, <1>3, <1>5

LEMMA SumOf ==
  ASSUME NEW S, IsFiniteSet(S), NEW key \in [S -> Jobs],
         \A x, y \in S : key[x] = key[y] => x = y,
         NEW g, Adds(S, key, g)
  PROVE  g[S] = Cardinality(Units(Keys(key, S)))
<1>1. Adds(S, key, Counts(S, key))
  BY CountsAdds
<1>2. g[S] = Counts(S, key)[S]
  BY <1>1, AddsOnce
<1> QED
  BY <1>2 DEF Counts

-----------------------------------------------------------------------------
(* The memory in use, and the memory reserved.                             *)

Running(n) == {j \in Jobs : on[j] = n /\ state[j] = "running"}
Reserving(n) == {r.job : r \in Active(n)}

LEMMA UsedIs ==
  ASSUME NEW n, IsFiniteSet(Running(n))
  PROVE  UsedGb(n) = Cardinality(Units(Running(n)))
<1> DEFINE S == {j \in Jobs : on[j] = n /\ state[j] = "running"}
           Folds(g) == g = [s \in SUBSET S |->
             IF s = {} THEN 0
             ELSE Need[CHOOSE x \in s : TRUE] + g[s \ {CHOOSE x \in s : TRUE}]]
           fold == CHOOSE g : Folds(g)
           key == [x \in S |-> x]
<1>1. UsedGb(n) = fold[S]
  BY DEF UsedGb, MapThenSumSet, MapThenFoldSet
<1>2. S = Running(n)
  BY DEF Running
<1>3. key \in [S -> Jobs] /\ \A x, y \in S : key[x] = key[y] => x = y
  OBVIOUS
<1>4. \A x \in S : key[x] = x
  OBVIOUS
<1> HIDE DEF key, S
<1>5. ASSUME NEW g
      PROVE  Folds(g) <=> Adds(S, key, g)
  <2> DEFINE a(s) == IF s = {} THEN 0 ELSE Need[key[First(s)]] + g[s \ {First(s)}]
             b(s) == IF s = {} THEN 0
                     ELSE Need[CHOOSE x \in s : TRUE] + g[s \ {CHOOSE x \in s : TRUE}]
  <2>1. ASSUME NEW s \in SUBSET S
        PROVE  a(s) = b(s)
    <3>1. First(s) = CHOOSE x \in s : TRUE
      BY DEF First
    <3>2. s # {} => key[First(s)] = First(s)
      BY <1>4 DEF First
    <3> QED
      BY <3>1, <3>2
  <2>2. Adds(S, key, g) <=> g = [s \in SUBSET S |-> a(s)]
    BY DEF Adds
  <2>3. Folds(g) <=> g = [s \in SUBSET S |-> b(s)]
    OBVIOUS
  <2> HIDE DEF a, b, Folds
  <2> QED
    BY <2>1, <2>2, <2>3
<1>6. Adds(S, key, Counts(S, key))
  BY <1>2, <1>3, CountsAdds
<1> HIDE DEF Folds
<1>7. Folds(Counts(S, key))
  BY <1>5, <1>6
<1>10. Folds(fold)
  BY <1>7
<1>8. Keys(key, S) = S
  BY <1>4 DEF Keys
<1> HIDE DEF fold
<1>9. Adds(S, key, fold)
  BY <1>5, <1>10
<1> QED
  BY <1>1, <1>2, <1>3, <1>8, <1>9, SumOf

LEMMA ReservedIs ==
  ASSUME NEW n, IsFiniteSet(Active(n)), \A r \in Active(n) : r.job \in Jobs,
         \A q, r \in Active(n) : q.job = r.job => q = r
  PROVE  ReservedGb(n) = Cardinality(Units(Reserving(n)))
<1> DEFINE S == Active(n)
           Folds(g) == g = [s \in SUBSET S |->
             IF s = {} THEN 0
             ELSE Need[(CHOOSE x \in s : TRUE).job] + g[s \ {CHOOSE x \in s : TRUE}]]
           fold == CHOOSE g : Folds(g)
           key == [x \in S |-> x.job]
<1>1. ReservedGb(n) = fold[S]
  BY DEF ReservedGb, MapThenSumSet, MapThenFoldSet
<1>2. Keys(key, S) = Reserving(n)
  BY DEF Keys, Reserving
<1>3. /\ IsFiniteSet(S) /\ key \in [S -> Jobs]
      /\ \A x, y \in S : key[x] = key[y] => x = y
  OBVIOUS
<1>4. \A x \in S : key[x] = x.job
  OBVIOUS
<1> HIDE DEF key, S
<1>5. ASSUME NEW g
      PROVE  Folds(g) <=> Adds(S, key, g)
  <2> DEFINE a(s) == IF s = {} THEN 0 ELSE Need[key[First(s)]] + g[s \ {First(s)}]
             b(s) == IF s = {} THEN 0
                     ELSE Need[(CHOOSE x \in s : TRUE).job] + g[s \ {CHOOSE x \in s : TRUE}]
  <2>1. ASSUME NEW s \in SUBSET S
        PROVE  a(s) = b(s)
    <3>1. First(s) = CHOOSE x \in s : TRUE
      BY DEF First
    <3>2. s # {} => key[First(s)] = First(s).job
      BY <1>4 DEF First
    <3> QED
      BY <3>1, <3>2
  <2>2. Adds(S, key, g) <=> g = [s \in SUBSET S |-> a(s)]
    BY DEF Adds
  <2>3. Folds(g) <=> g = [s \in SUBSET S |-> b(s)]
    OBVIOUS
  <2> HIDE DEF a, b, Folds
  <2> QED
    BY <2>1, <2>2, <2>3
<1>6. Adds(S, key, Counts(S, key))
  BY <1>3, CountsAdds
<1> HIDE DEF Folds
<1>7. Folds(Counts(S, key))
  BY <1>5, <1>6
<1>8. Folds(fold)
  BY <1>7
<1> HIDE DEF fold
<1>9. Adds(S, key, fold)
  BY <1>5, <1>8
<1> QED
  BY <1>1, <1>2, <1>3, <1>9, SumOf

-----------------------------------------------------------------------------
(* The inductive invariant.                                                *)

Gb(K) == Cardinality(Units(K))

Phases ==
  {"idle", "waiting", "granted", "viewing", "placed", "reserved", "running", "gone"}
Told == {"granted", "viewing", "placed"}
Late == {"reserved", "running", "gone"}

GpuTyped ==
  /\ state \in [Jobs -> Phases]
  /\ on \in [Jobs -> Nodes]
  /\ files \in [Nodes -> SUBSET Reservation]
  /\ view = [n \in Nodes |-> view[n]]

\* A job reserves once.
OneEach ==
  \A n \in Nodes :
    /\ IsFiniteSet(files[n])
    /\ \A q, r \in files[n] : q.job = r.job => q = r
    /\ \A r \in files[n] : state[r.job] \in Late

\* Nobody has been told anything before asking.
NobodyKnows == \A j \in Jobs : j \in fresh => state[j] # "idle"

Backed(n) == Running(n) \subseteq Reserving(n)
Within(n) == Gb(Reserving(n)) <= Total

\* Whom a poll or a heartbeat told that there is room finds it.
RoomFor(n) ==
  \A j \in Jobs : j \in fresh /\ state[j] \in Told /\ on[j] = n
                    => Gb(Reserving(n)) + Need[j] <= Total
Reported(n) == n \in fresh => view[n] \in Int /\ Gb(Reserving(n)) <= view[n]

NodeSound(n) == Backed(n) /\ Within(n) /\ RoomFor(n) /\ Reported(n)

GpuInv ==
  /\ GpuTyped /\ OneEach /\ NobodyKnows
  /\ \A n \in Nodes : n \notin excused => NodeSound(n)

-----------------------------------------------------------------------------
(* What the invariant says of a node's memory.                             *)

LEMMA ActiveSound ==
  ASSUME GpuTyped, OneEach, NEW n \in Nodes
  PROVE  /\ Reserving(n) \in SUBSET Jobs
         /\ IsFiniteSet(Reserving(n))
         /\ ReservedGb(n) = Gb(Reserving(n))
<1>1. /\ Active(n) \subseteq files[n]
      /\ files[n] \subseteq Reservation
      /\ IsFiniteSet(files[n])
      /\ \A q, r \in files[n] : q.job = r.job => q = r
  BY DEF Active, GpuTyped, OneEach
<1>2. IsFiniteSet(Active(n))
  BY <1>1, FS_Subset
<1>3. \A r \in Active(n) : r.job \in Jobs
  BY <1>1 DEF Reservation
<1>4. IsFiniteSet(Reserving(n))
  <2> DEFINE onto == [r \in Active(n) |-> r.job]
  <2>1. onto \in Surjection(Active(n), Reserving(n))
    BY DEF Surjection, Reserving
  <2> QED
    BY <1>2, <2>1, FS_Surjection
<1>5. ReservedGb(n) = Cardinality(Units(Reserving(n)))
  BY <1>1, <1>2, <1>3, ReservedIs
<1> QED
  BY <1>3, <1>4, <1>5 DEF Gb, Reserving

LEMMA HeldIs ==
  ASSUME GpuTyped, OneEach, NEW n \in Nodes, Backed(n)
  PROVE  /\ Gb(Reserving(n)) \in Nat
         /\ Held(n) = Gb(Reserving(n))
         /\ UsedGb(n) \in Nat /\ UsedGb(n) <= Gb(Reserving(n))
<1>1. /\ Reserving(n) \in SUBSET Jobs
      /\ IsFiniteSet(Reserving(n))
      /\ ReservedGb(n) = Gb(Reserving(n))
  BY ActiveSound
<1>2. Running(n) \in SUBSET Reserving(n) /\ IsFiniteSet(Running(n))
  BY <1>1, FS_Subset DEF Backed
<1>3. UsedGb(n) = Gb(Running(n))
  BY <1>2, UsedIs DEF Gb
<1>4. Gb(Running(n)) \in Nat /\ Gb(Reserving(n)) \in Nat /\ Gb(Running(n)) <= Gb(Reserving(n))
  BY <1>1, <1>2, UnitsBound DEF Gb
<1> QED
  BY <1>1, <1>3, <1>4 DEF Held

LEMMA SoundIsWithin ==
  GpuInv => WithinMemory
<1> SUFFICES ASSUME GpuInv, NEW n \in Nodes, n \notin excused
             PROVE  UsedGb(n) <= Total
  BY DEF WithinMemory
<1>1. GpuTyped /\ OneEach /\ Backed(n) /\ Within(n)
  BY DEF GpuInv, NodeSound
<1>2. /\ Gb(Reserving(n)) \in Nat
      /\ UsedGb(n) \in Nat /\ UsedGb(n) <= Gb(Reserving(n))
  BY <1>1, HeldIs
<1>3. Gb(Reserving(n)) <= Total
  BY <1>1 DEF Within
<1> QED
  BY <1>2, <1>3

-----------------------------------------------------------------------------
(* The steps.                                                              *)

Shrinks == \A n \in Nodes : files'[n] \subseteq files[n]

\* What every step of one job does to the phases.
Moves(j) ==
  /\ state' = [state EXCEPT ![j] = state'[j]] /\ state'[j] \in Phases
  /\ state[j] # "gone"
  /\ state[j] \in Late => state'[j] \in Late

LEMMA PrunedShrinks ==
  ASSUME GpuTyped, NEW n \in Nodes, files' = Pruned(n)
  PROVE  files' \in [Nodes -> SUBSET Reservation] /\ Shrinks
<1>1. Active(n) \subseteq files[n] /\ files \in [Nodes -> SUBSET Reservation]
  BY DEF Active, GpuTyped
<1> QED
  BY <1>1 DEF Pruned, Shrinks

\* Every step of a job but the writing of a reservation.
JobStep(j) ==
  \/ Wait(j) \/ WaitPolls(j) \/ WaitTimesOut(j) \/ StartJob(j) \/ EndJob(j) \/ Release(j)
  \/ Place(j) \/ GetGpuCluster(j) \/ ClusterReserve(j)

LEMMA JobStepForm ==
  ASSUME GpuTyped, NEW j \in Jobs, JobStep(j)
  PROVE  /\ GpuTyped' /\ Shrinks /\ view' = view
         /\ state' = state \/ Moves(j)
<1>0. /\ state \in [Jobs -> Phases] /\ on \in [Jobs -> Nodes] /\ Home \in [Jobs -> Nodes]
      /\ files \in [Nodes -> SUBSET Reservation] /\ view = [n \in Nodes |-> view[n]]
  BY DEF GpuTyped
<1>1. CASE Wait(j)
  BY <1>0, <1>1 DEF Wait, Become, GpuTyped, Shrinks, Moves, Phases, Late
<1>2. CASE WaitPolls(j)
  <2>1. files' \in [Nodes -> SUBSET Reservation] /\ Shrinks
    BY <1>0, <1>2, PrunedShrinks DEF WaitPolls
  <2> QED
    BY <1>0, <1>2, <2>1 DEF WaitPolls, Become, GpuTyped, Moves, Phases, Late
<1>3. CASE WaitTimesOut(j)
  BY <1>0, <1>3 DEF WaitTimesOut, Leave, Become, GpuTyped, Shrinks, Moves, Phases, Late
<1>4. CASE StartJob(j)
  BY <1>0, <1>4 DEF StartJob, Become, GpuTyped, Shrinks, Moves, Phases, Late
<1>5. CASE EndJob(j)
  BY <1>0, <1>5 DEF EndJob, Leave, Become, GpuTyped, Shrinks, Moves, Phases, Late
<1>6. CASE Release(j)
  BY <1>0, <1>6 DEF Release, GpuTyped, Shrinks
<1>7. CASE Place(j)
  BY <1>0, <1>7 DEF Place, Choose, Best, Become, GpuTyped, Shrinks, Moves, Phases, Late
<1>8. CASE GetGpuCluster(j)
  BY <1>0, <1>8 DEF GetGpuCluster, Choose, Best, Become, GpuTyped, Shrinks, Moves, Phases, Late
<1>9. CASE ClusterReserve(j)
  BY <1>0, <1>9 DEF ClusterReserve, Leave, Become, GpuTyped, Shrinks, Moves, Phases, Late
<1> QED
  BY <1>1, <1>2, <1>3, <1>4, <1>5, <1>6, <1>7, <1>8, <1>9 DEF JobStep

LEMMA HeartbeatForm ==
  ASSUME GpuTyped, NEW n \in Nodes, Heartbeat(n)
  PROVE  GpuTyped' /\ Shrinks
<1>1. files' \in [Nodes -> SUBSET Reservation] /\ Shrinks
  BY PrunedShrinks DEF Heartbeat
<1> QED
  BY <1>1 DEF Heartbeat, GpuTyped

LEMMA TickForm ==
  ASSUME GpuTyped, Tick
  PROVE  GpuTyped'
<1>1. \A l \in 0..Lease : Aged(l) \in 0..Lease
  BY DEF Aged
<1>2. \A n \in Nodes : {[r EXCEPT !.left = Aged(@)] : r \in files[n]} \subseteq Reservation
  BY <1>1 DEF GpuTyped, Reservation
<1>3. files' \in [Nodes -> SUBSET Reservation]
  BY <1>2 DEF Tick
<1> QED
  BY <1>3 DEF Tick, GpuTyped

Reserves(j) == \E pid \in BOOLEAN : Reserve(j, pid)

LEMMA ReserveForm ==
  ASSUME GpuTyped, NEW j \in Jobs, state[j] # "gone", Reserves(j)
  PROVE  /\ GpuTyped' /\ Moves(j)
<1>1. PICK pid \in BOOLEAN : Reserve(j, pid)
  BY DEF Reserves
<1>2. [job |-> j, left |-> Lease, pid |-> pid] \in Reservation
  BY DEF Reservation
<1>3. files' \in [Nodes -> SUBSET Reservation]
  BY <1>1, <1>2 DEF Reserve, GpuTyped
<1> QED
  BY <1>1, <1>3 DEF Reserve, Become, GpuTyped, Moves, Phases, Late

\* The steps of the system, in these terms.
LEMMA StepForms ==
  ASSUME GpuTyped, Step
  PROVE  \/ \E j \in Jobs : JobStep(j)
         \/ \E j \in Jobs : state[j] \in {"idle", "granted", "placed"} /\ Reserves(j)
         \/ \E n \in Nodes : Heartbeat(n)
         \/ Tick
<1>1. ASSUME NEW j \in Jobs, AutoReserve(j) \/ Claim(j)
      PROVE  state[j] \in {"idle", "granted", "placed"} /\ Reserves(j)
  <2>1. (j \in Named) \in BOOLEAN
    OBVIOUS
  <2>2. CASE AutoReserve(j)
    BY <2>2 DEF AutoReserve, Reserves
  <2>3. CASE Claim(j)
    <3>1. Reserve(j, j \in Named)
      BY <2>3 DEF Claim
    <3>2. Reserves(j)
      BY <2>1, <3>1, Zenon DEF Reserves
    <3> QED
      BY <2>3, <3>2 DEF Claim
  <2> QED
    BY <1>1, <2>2, <2>3
<1> QED
  BY <1>1 DEF Step, JobStep

DeadStayDead == \A i \in Jobs : state[i] = "gone" => state'[i] = "gone"

LEMMA MovesFacts ==
  ASSUME GpuTyped, NEW j \in Jobs, state' = state \/ Moves(j)
  PROVE  DeadStayDead /\ \A i \in Jobs : state[i] \in Late => state'[i] \in Late
BY DEF GpuTyped, Moves, DeadStayDead, Late

-----------------------------------------------------------------------------
(* A job reserves once.                                                    *)

LEMMA OneEachShrinks ==
  ASSUME GpuTyped, OneEach, Shrinks, \A i \in Jobs : state[i] \in Late => state'[i] \in Late
  PROVE  OneEach'
<1> SUFFICES ASSUME NEW n \in Nodes
             PROVE  /\ IsFiniteSet(files'[n])
                    /\ \A q, r \in files'[n] : q.job = r.job => q = r
                    /\ \A r \in files'[n] : state'[r.job] \in Late
  BY DEF OneEach
<1>1. files'[n] \subseteq files[n] /\ files[n] \subseteq Reservation
  BY DEF Shrinks, GpuTyped
<1>2. IsFiniteSet(files'[n])
  BY <1>1, FS_Subset DEF OneEach
<1>3. \A r \in files[n] : r.job \in Jobs
  BY <1>1 DEF Reservation
<1> QED
  BY <1>1, <1>2, <1>3 DEF OneEach

LEMMA OneEachTick ==
  ASSUME GpuTyped, OneEach, Tick
  PROVE  OneEach'
<1> SUFFICES ASSUME NEW n \in Nodes
             PROVE  /\ IsFiniteSet(files'[n])
                    /\ \A q, r \in files'[n] : q.job = r.job => q = r
                    /\ \A r \in files'[n] : state'[r.job] \in Late
  BY DEF OneEach
<1> DEFINE older(r) == [r EXCEPT !.left = Aged(@)]
           aged == [r \in files[n] |-> older(r)]
<1>1. /\ files'[n] = {aged[r] : r \in files[n]}
      /\ \A r \in files[n] : aged[r].job = r.job
      /\ state' = state
  <2>1. files'[n] = {older(r) : r \in files[n]} /\ state' = state
    BY DEF Tick
  <2>2. \A r \in files[n] : r \in Reservation
    BY DEF GpuTyped
  <2>3. \A r \in Reservation : older(r).job = r.job
    BY DEF Reservation
  <2> HIDE DEF older
  <2>4. \A r \in files[n] : aged[r] = older(r)
    OBVIOUS
  <2> HIDE DEF aged
  <2>5. files'[n] = {aged[r] : r \in files[n]}
    BY <2>1, <2>4
  <2>6. \A r \in files[n] : aged[r].job = r.job
    BY <2>2, <2>3, <2>4
  <2> QED
    BY <2>1, <2>5, <2>6
<1> HIDE DEF older, aged
<1>2. DOMAIN aged = files[n] /\ aged = [r \in files[n] |-> aged[r]]
  BY DEF aged
<1>3. aged \in Surjection(files[n], files'[n])
  BY <1>1, <1>2 DEF Surjection
<1>4. IsFiniteSet(files'[n])
  BY <1>3, FS_Surjection DEF OneEach
<1> QED
  BY <1>1, <1>4 DEF OneEach

LEMMA OneEachReserve ==
  ASSUME GpuTyped, OneEach, NEW j \in Jobs, state[j] \notin Late, Reserves(j)
  PROVE  OneEach'
<1>1. PICK pid \in BOOLEAN : Reserve(j, pid)
  BY DEF Reserves
<1> DEFINE new == [job |-> j, left |-> Lease, pid |-> pid]
<1>2. /\ \A n \in Nodes : files'[n] \subseteq files[n] \cup {new}
      /\ state'[j] = "reserved" /\ \A i \in Jobs : i # j => state'[i] = state[i]
  BY <1>1 DEF Reserve, Become, GpuTyped
<1>3. new.job = j
  OBVIOUS
<1> HIDE DEF new
<1> SUFFICES ASSUME NEW n \in Nodes
             PROVE  /\ IsFiniteSet(files'[n])
                    /\ \A q, r \in files'[n] : q.job = r.job => q = r
                    /\ \A r \in files'[n] : state'[r.job] \in Late
  BY DEF OneEach
<1>4. /\ IsFiniteSet(files[n])
      /\ \A q, r \in files[n] : q.job = r.job => q = r
      /\ \A r \in files[n] : r.job \in Jobs /\ state[r.job] \in Late
  BY DEF OneEach, GpuTyped, Reservation
<1>5. IsFiniteSet(files[n] \cup {new})
  BY <1>4, FS_AddElement
<1>6. IsFiniteSet(files'[n])
  BY <1>2, <1>5, FS_Subset
<1>7. \A r \in files[n] : r.job # j
  BY <1>4
<1> QED
  BY <1>2, <1>3, <1>4, <1>6, <1>7 DEF Late

-----------------------------------------------------------------------------
(* Who still holds memory on a node.                                       *)

LEMMA ReservingShrinks ==
  ASSUME GpuTyped, Shrinks, DeadStayDead, NEW n \in Nodes
  PROVE  Reserving(n)' \subseteq Reserving(n)
<1>1. files'[n] \subseteq files[n] /\ \A r \in files[n] : r.job \in Jobs
  BY DEF Shrinks, GpuTyped, Reservation
<1>2. Active(n)' \subseteq Active(n)
  BY <1>1 DEF Active, DeadStayDead
<1> QED
  BY <1>2 DEF Reserving

LEMMA ReservingTick ==
  ASSUME GpuTyped, Tick, NEW n \in Nodes
  PROVE  Reserving(n)' \subseteq Reserving(n)
<1> SUFFICES ASSUME NEW j \in Reserving(n)'
             PROVE  j \in Reserving(n)
  OBVIOUS
<1>1. PICK r \in Active(n)' : r.job = j
  BY DEF Reserving
<1>2. r \in files'[n] /\ r.left > 0 /\ ~(r.pid /\ state'[r.job] = "gone")
  BY <1>1 DEF Active
<1>3. PICK q \in files[n] : r = [q EXCEPT !.left = Aged(@)]
  BY <1>2 DEF Tick
<1>4. q \in Reservation
  BY <1>3 DEF GpuTyped
<1>5. q.job = r.job /\ q.pid = r.pid /\ r.left = Aged(q.left) /\ q.left \in Nat
  BY <1>3, <1>4 DEF Reservation
<1>6. q.left > 0
  BY <1>2, <1>5 DEF Aged
<1>7. q \in Active(n)
  BY <1>2, <1>3, <1>5, <1>6 DEF Active, Tick
<1> QED
  BY <1>1, <1>5, <1>7 DEF Reserving

LEMMA ReservingReserve ==
  ASSUME GpuTyped, NEW j \in Jobs, state[j] # "gone", Reserves(j), NEW n \in Nodes
  PROVE  /\ n # on[j] => Reserving(n)' \subseteq Reserving(n)
         /\ Reserving(n)' \subseteq Reserving(n) \cup {j}
<1>1. PICK pid \in BOOLEAN : Reserve(j, pid)
  BY DEF Reserves
<1> DEFINE new == [job |-> j, left |-> Lease, pid |-> pid]
<1>2. /\ files'[n] \subseteq files[n] \cup {new}
      /\ n # on[j] => files'[n] = files[n]
      /\ \A r \in files[n] : r.job \in Jobs
  BY <1>1 DEF Reserve, GpuTyped, Reservation
<1>3. new.job = j
  OBVIOUS
<1>4. \A i \in Jobs : state[i] = "gone" => state'[i] = "gone"
  BY <1>1 DEF Reserve, Become, GpuTyped
<1> HIDE DEF new
<1>5. /\ Active(n)' \subseteq Active(n) \cup {new}
      /\ n # on[j] => Active(n)' \subseteq Active(n)
  BY <1>2, <1>4 DEF Active
<1> QED
  BY <1>3, <1>5 DEF Reserving

-----------------------------------------------------------------------------
(* The bargain of one node.                                                *)

\* On a node that the step leaves unexcused, what runs has a reservation that still holds,
\* and whoever wrote one had been told of the room.
LEMMA NotExcused ==
  ASSUME GpuTyped', Next, NEW n \in Nodes, n \notin excused'
  PROVE  /\ n \notin excused
         /\ Backed(n)'
         /\ \A j \in Jobs : on'[j] = n => ~Races(j)
<1>1. n \notin excused /\ ~Unreserved(n)' /\ \A j \in Jobs : on'[j] = n => ~Races(j)
  BY DEF Next
<1>2. Backed(n)'
  BY <1>1 DEF Unreserved, Backed, Running, Reserving
<1> QED
  BY <1>1, <1>2

LEMMA NodeKeeps ==
  ASSUME GpuTyped, OneEach, NEW n \in Nodes, NodeSound(n), Backed(n)',
         Reserving(n)' \subseteq Reserving(n),
         \A j \in Jobs : j \in fresh' /\ state'[j] \in Told /\ on'[j] = n
                           => Gb(Reserving(n)) + Need[j] <= Total,
         n \in fresh' => view'[n] \in Int /\ Gb(Reserving(n)) <= view'[n]
  PROVE  NodeSound(n)'
<1> DEFINE now == Gb(Reserving(n))
           then == Gb(Reserving(n)')
<1>1. now \in Nat /\ then \in Nat /\ then <= now
  BY ActiveSound, UnitsBound DEF Gb
<1>2. now <= Total
  BY DEF NodeSound, Within
<1>3. then = Gb(Reserving(n))'
  BY DEF Gb, Units
<1> HIDE DEF now, then
<1>4. \A j \in Jobs : j \in fresh' /\ state'[j] \in Told /\ on'[j] = n
                        => now + Need[j] <= Total
  BY DEF now
<1>5. \A j \in Jobs : j \in fresh' /\ state'[j] \in Told /\ on'[j] = n
                        => then + Need[j] <= Total
  BY <1>1, <1>4
<1>6. n \in fresh' => view'[n] \in Int /\ now <= view'[n]
  BY DEF now
<1>7. Within(n)'
  BY <1>1, <1>2, <1>3 DEF Within
<1>8. RoomFor(n)'
  BY <1>3, <1>5 DEF RoomFor
<1>9. Reported(n)'
  BY <1>1, <1>3, <1>6 DEF Reported
<1> QED
  BY <1>7, <1>8, <1>9 DEF NodeSound

LEMMA NodeJobStep ==
  ASSUME GpuInv, Next, NEW n \in Nodes, n \notin excused', NEW i \in Jobs, JobStep(i)
  PROVE  NodeSound(n)'
<1>1. GpuTyped /\ OneEach /\ GpuTyped' /\ Shrinks /\ view' = view /\ DeadStayDead
  BY JobStepForm, MovesFacts DEF GpuInv
<1>2. n \notin excused /\ Backed(n)' /\ NodeSound(n)
  BY <1>1, NotExcused DEF GpuInv
<1>3. Reserving(n)' \subseteq Reserving(n)
  BY <1>1, ReservingShrinks
<1>4. n \in fresh' => n \in fresh
  BY DEF JobStep, Wait, WaitPolls, WaitTimesOut, StartJob, EndJob, Release, Place,
         GetGpuCluster, Choose, ClusterReserve
<1>5. n \in fresh' => view'[n] \in Int /\ Gb(Reserving(n)) <= view'[n]
  BY <1>1, <1>2, <1>4 DEF NodeSound, Reported
<1> DEFINE Old(j) == j \in fresh /\ state[j] \in Told /\ on[j] = n
           New(j) == j \in fresh' /\ state'[j] \in Told /\ on'[j] = n
<1>6. ASSUME NEW j \in Jobs, New(j), ~Old(j)
      PROVE  Gb(Reserving(n)) + Need[j] <= Total
  <2>1. CASE WaitPolls(i)
    <3>1. j = i /\ on[i] = n /\ Total - Held(n) >= Need[j]
      BY <1>1, <1>6, <2>1 DEF WaitPolls, Become, GpuTyped, Told
    <3>2. Held(n) = Gb(Reserving(n)) /\ Gb(Reserving(n)) \in Nat
      BY <1>1, <1>2, HeldIs DEF NodeSound
    <3> QED
      BY <3>1, <3>2
  <2>2. CASE Place(i) \/ GetGpuCluster(i)
    <3>1. PICK m \in Nodes : Choose(i, m)
      BY <2>2 DEF Place, GetGpuCluster, Best
    <3>2. \A k \in Jobs : k # i => state'[k] = state[k] /\ on'[k] = on[k]
                                   /\ (k \in fresh' => k \in fresh)
      BY <1>1, <2>2, <3>1 DEF Place, GetGpuCluster, Become, Choose, GpuTyped
    <3>3. j = i
      BY <1>6, <3>2
    <3>4. i \notin fresh
      BY <3>1 DEF Choose, GpuInv, NobodyKnows
    <3>5. m = n
      BY <1>1, <1>6, <3>1, <3>3 DEF Choose, GpuTyped
    <3>6. n \in fresh /\ Fits(i, n)
      BY <1>6, <3>1, <3>3, <3>4, <3>5 DEF Choose
    <3>7. /\ Total - view[n] >= Need[j] /\ view[n] \in Int
          /\ Gb(Reserving(n)) <= view[n]
      BY <1>2, <3>3, <3>6 DEF Fits, NodeSound, Reported
    <3>8. Gb(Reserving(n)) \in Nat
      BY <1>1, <1>2, HeldIs DEF NodeSound
    <3> QED
      BY <3>7, <3>8
  <2>3. CASE ClusterReserve(i)
    BY <1>1, <1>6, <2>3 DEF ClusterReserve, Leave, Become, GpuTyped, Told
  <2>4. CASE Wait(i) \/ WaitTimesOut(i) \/ StartJob(i) \/ EndJob(i) \/ Release(i)
    BY <1>1, <1>6, <2>4 DEF Wait, WaitTimesOut, StartJob, EndJob, Release, Leave, Become,
                            GpuTyped, Told
  <2> QED
    BY <2>1, <2>2, <2>3, <2>4 DEF JobStep
<1>7. ASSUME NEW j \in Jobs, Old(j)
      PROVE  Gb(Reserving(n)) + Need[j] <= Total
  BY <1>2, <1>7 DEF NodeSound, RoomFor
<1> QED
  BY <1>1, <1>2, <1>3, <1>5, <1>6, <1>7, NodeKeeps

LEMMA NodeHeartbeat ==
  ASSUME GpuInv, Next, NEW n \in Nodes, n \notin excused', NEW m \in Nodes, Heartbeat(m)
  PROVE  NodeSound(n)'
<1>1. GpuTyped /\ OneEach /\ GpuTyped' /\ Shrinks
  BY HeartbeatForm DEF GpuInv
<1>2. state' = state /\ on' = on /\ fresh' = fresh \cup {m}
      /\ view' = [view EXCEPT ![m] = Held(m)]
  BY DEF Heartbeat
<1>3. n \notin excused /\ Backed(n)' /\ NodeSound(n)
  BY <1>1, NotExcused DEF GpuInv
<1>4. Reserving(n)' \subseteq Reserving(n)
  BY <1>1, <1>2, ReservingShrinks DEF DeadStayDead
<1>5. \A j \in Jobs : j \in fresh' => j \in fresh
  BY <1>2
<1>6. \A j \in Jobs : j \in fresh' /\ state'[j] \in Told /\ on'[j] = n
                        => Gb(Reserving(n)) + Need[j] <= Total
  BY <1>2, <1>3, <1>5 DEF NodeSound, RoomFor
<1>7. n \in fresh' => view'[n] \in Int /\ Gb(Reserving(n)) <= view'[n]
  <2>1. CASE n = m
    <3>1. view'[n] = Held(n)
      BY <1>1, <1>2, <2>1 DEF GpuTyped
    <3>2. Held(n) = Gb(Reserving(n)) /\ Gb(Reserving(n)) \in Nat
      BY <1>1, <1>3, HeldIs DEF NodeSound
    <3> QED
      BY <3>1, <3>2
  <2>2. CASE n # m
    <3>1. view'[n] = view[n] /\ (n \in fresh' => n \in fresh)
      BY <1>1, <1>2, <2>2 DEF GpuTyped
    <3> QED
      BY <1>3, <3>1 DEF NodeSound, Reported
  <2> QED
    BY <2>1, <2>2
<1> QED
  BY <1>1, <1>3, <1>4, <1>6, <1>7, NodeKeeps

LEMMA NodeTick ==
  ASSUME GpuInv, Next, NEW n \in Nodes, n \notin excused', Tick
  PROVE  NodeSound(n)'
<1>1. GpuTyped /\ OneEach /\ GpuTyped'
  BY TickForm DEF GpuInv
<1>2. state' = state /\ on' = on /\ fresh' = fresh /\ view' = view
  BY DEF Tick
<1>3. n \notin excused /\ Backed(n)' /\ NodeSound(n)
  BY <1>1, NotExcused DEF GpuInv
<1>4. Reserving(n)' \subseteq Reserving(n)
  BY <1>1, ReservingTick
<1>5. \A j \in Jobs : j \in fresh' /\ state'[j] \in Told /\ on'[j] = n
                        => Gb(Reserving(n)) + Need[j] <= Total
  BY <1>2, <1>3 DEF NodeSound, RoomFor
<1>6. n \in fresh' => view'[n] \in Int /\ Gb(Reserving(n)) <= view'[n]
  BY <1>2, <1>3 DEF NodeSound, Reported
<1> QED
  BY <1>1, <1>3, <1>4, <1>5, <1>6, NodeKeeps

LEMMA NodeReserve ==
  ASSUME GpuInv, Next, NEW n \in Nodes, n \notin excused',
         NEW i \in Jobs, state[i] \in {"idle", "granted", "placed"}, Reserves(i)
  PROVE  NodeSound(n)'
<1>1. GpuTyped /\ OneEach /\ GpuTyped'
  BY ReserveForm DEF GpuInv
<1>2. n \notin excused /\ Backed(n)' /\ NodeSound(n) /\ \A j \in Jobs : on'[j] = n => ~Races(j)
  BY <1>1, NotExcused DEF GpuInv
<1>3. PICK pid \in BOOLEAN : Reserve(i, pid)
  BY DEF Reserves
<1>4. /\ fresh' = fresh \ ({on[i]} \cup {j \in Jobs : on[j] = on[i]})
      /\ state' = [state EXCEPT ![i] = "reserved"] /\ on' = on /\ view' = view
  BY <1>3 DEF Reserve, Become
<1>5. /\ n # on[i] => Reserving(n)' \subseteq Reserving(n)
      /\ Reserving(n)' \subseteq Reserving(n) \cup {i}
  BY <1>1, ReservingReserve
<1>6. CASE n # on[i]
  <2>1. \A j \in Jobs : j \in fresh' /\ state'[j] \in Told /\ on'[j] = n
                          => j \in fresh /\ state[j] \in Told /\ on[j] = n
    BY <1>1, <1>4 DEF GpuTyped, Told
  <2>2. \A j \in Jobs : j \in fresh' /\ state'[j] \in Told /\ on'[j] = n
                          => Gb(Reserving(n)) + Need[j] <= Total
    BY <1>2, <2>1 DEF NodeSound, RoomFor
  <2>3. n \in fresh' => view'[n] \in Int /\ Gb(Reserving(n)) <= view'[n]
    BY <1>2, <1>4 DEF NodeSound, Reported
  <2> QED
    BY <1>1, <1>2, <1>5, <1>6, <2>2, <2>3, NodeKeeps
<1>7. CASE n = on[i]
  <2>1. i \in fresh
    BY <1>1, <1>2, <1>4, <1>7 DEF Races, GpuTyped
  <2>2. state[i] \in Told
    BY <2>1 DEF GpuInv, NobodyKnows, Told
  <2> DEFINE now == Gb(Reserving(n))
             then == Gb(Reserving(n)')
  <2>3. now \in Nat /\ now + Need[i] <= Total
    BY <1>1, <1>2, <1>7, <2>1, <2>2, HeldIs DEF NodeSound, RoomFor
  <2>4. /\ Reserving(n) \in SUBSET Jobs /\ IsFiniteSet(Reserving(n))
        /\ Reserving(n) \cup {i} \in SUBSET Jobs
    BY <1>1, ActiveSound
  <2>5. i \notin Reserving(n)
    BY <1>1 DEF Reserving, Active, OneEach, Late
  <2>6. Gb(Reserving(n) \cup {i}) = Need[i] + now /\ IsFiniteSet(Reserving(n) \cup {i})
    BY <2>4, <2>5, UnitsFinite, UnitsAdd, FS_AddElement DEF Gb
  <2>7. then \in Nat /\ then <= Gb(Reserving(n) \cup {i})
    BY <1>5, <2>4, <2>6, UnitsBound DEF Gb
  <2>8. then = Gb(Reserving(n))'
    BY DEF Gb, Units
  <2> HIDE DEF now, then
  <2>9. then <= Total
    BY <2>3, <2>6, <2>7
  <2>10. Within(n)'
    BY <2>8, <2>9 DEF Within
  <2>11. RoomFor(n)' /\ Reported(n)'
    BY <1>4, <1>7 DEF RoomFor, Reported
  <2> QED
    BY <1>2, <2>10, <2>11 DEF NodeSound
<1> QED
  BY <1>6, <1>7

-----------------------------------------------------------------------------
(* The invariant holds, and with it the bound.                             *)

LEMMA GpuInitially ==
  Init => GpuInv
<1> SUFFICES ASSUME Init
             PROVE  GpuInv
  OBVIOUS
<1>1. GpuTyped /\ OneEach /\ NobodyKnows
  BY FS_EmptySet DEF Init, GpuTyped, OneEach, NobodyKnows, Phases, NoView
<1>2. ASSUME NEW n \in Nodes
      PROVE  NodeSound(n)
  <2>1. Running(n) = {} /\ Reserving(n) = {}
    BY DEF Init, Running, Reserving, Active
  <2>2. Units({}) = {}
    BY DEF Units
  <2>3. Gb({}) = 0
    BY <2>2, FS_EmptySet DEF Gb
  <2> QED
    BY <2>1, <2>3 DEF Init, NodeSound, Backed, Within, RoomFor, Reported
<1> QED
  BY <1>1, <1>2 DEF GpuInv

LEMMA NobodyStep ==
  ASSUME GpuInv, Step
  PROVE  NobodyKnows'
<1>0. GpuTyped /\ \A j \in Jobs : j \in fresh => state[j] # "idle"
  BY DEF GpuInv, NobodyKnows
<1> SUFFICES ASSUME NEW j \in Jobs, j \in fresh'
             PROVE  state'[j] # "idle"
  BY DEF NobodyKnows
<1>1. ASSUME NEW i \in Jobs, JobStep(i)
      PROVE  state'[j] # "idle"
  <2>1. CASE Place(i) \/ GetGpuCluster(i)
    BY <1>0, <2>1 DEF Place, GetGpuCluster, Choose, Become, GpuTyped
  <2>2. CASE ~(Place(i) \/ GetGpuCluster(i))
    BY <1>0, <1>1, <2>2 DEF JobStep, Wait, WaitPolls, WaitTimesOut, StartJob, EndJob, Release,
                       ClusterReserve, Leave, Become, GpuTyped
  <2> QED
    BY <2>1, <2>2
<1>2. ASSUME NEW i \in Jobs, Reserves(i)
      PROVE  state'[j] # "idle"
  BY <1>0, <1>2 DEF Reserves, Reserve, Become, GpuTyped
<1>3. ASSUME NEW n \in Nodes, Heartbeat(n)
      PROVE  state'[j] # "idle"
  BY <1>0, <1>3 DEF Heartbeat
<1>4. CASE Tick
  BY <1>0, <1>4 DEF Tick
<1> QED
  BY <1>0, <1>1, <1>2, <1>3, <1>4, StepForms

LEMMA GpuStep ==
  ASSUME GpuInv, Next
  PROVE  GpuInv'
<1>0. GpuTyped /\ OneEach /\ Step
  BY DEF GpuInv, Next
<1>1. NobodyKnows'
  BY <1>0, NobodyStep
<1>2. ASSUME NEW j \in Jobs, JobStep(j)
      PROVE  GpuInv'
  <2>1. GpuTyped' /\ Shrinks /\ \A i \in Jobs : state[i] \in Late => state'[i] \in Late
    BY <1>0, <1>2, JobStepForm, MovesFacts
  <2>2. OneEach'
    BY <1>0, <2>1, OneEachShrinks
  <2>3. \A n \in Nodes : n \notin excused' => NodeSound(n)'
    BY <1>2, NodeJobStep
  <2> QED
    BY <1>1, <2>1, <2>2, <2>3 DEF GpuInv
<1>3. ASSUME NEW j \in Jobs, state[j] \in {"idle", "granted", "placed"}, Reserves(j)
      PROVE  GpuInv'
  <2>1. state[j] \notin Late /\ state[j] # "gone"
    BY <1>3 DEF Late
  <2>2. GpuTyped' /\ OneEach'
    BY <1>0, <1>3, <2>1, ReserveForm, OneEachReserve
  <2>3. \A n \in Nodes : n \notin excused' => NodeSound(n)'
    BY <1>3, NodeReserve
  <2> QED
    BY <1>1, <2>2, <2>3 DEF GpuInv
<1>4. ASSUME NEW m \in Nodes, Heartbeat(m)
      PROVE  GpuInv'
  <2>1. GpuTyped' /\ Shrinks /\ state' = state
    BY <1>0, <1>4, HeartbeatForm DEF Heartbeat
  <2>2. OneEach'
    BY <1>0, <2>1, OneEachShrinks
  <2>3. \A n \in Nodes : n \notin excused' => NodeSound(n)'
    BY <1>4, NodeHeartbeat
  <2> QED
    BY <1>1, <2>1, <2>2, <2>3 DEF GpuInv
<1>5. CASE Tick
  <2>1. GpuTyped' /\ OneEach'
    BY <1>0, <1>5, TickForm, OneEachTick
  <2>2. \A n \in Nodes : n \notin excused' => NodeSound(n)'
    BY <1>5, NodeTick
  <2> QED
    BY <1>1, <2>1, <2>2 DEF GpuInv
<1> QED
  BY <1>0, <1>2, <1>3, <1>4, <1>5, StepForms

LEMMA GpuStutters ==
  ASSUME GpuInv, UNCHANGED vars
  PROVE  GpuInv'
BY DEF vars, GpuInv, GpuTyped, OneEach, NobodyKnows, NodeSound, Backed, Within, RoomFor,
       Reported, Running, Reserving, Active, Gb, Units

(* The social contract, for any nodes, jobs, memory and lease: a node      *)
(* where every workload runs under a reservation that holds, and where no  *)
(* reservation was written between another one and the poll or heartbeat   *)
(* it rests on, never uses more memory than it has                         *)
(* (reservations.py, gpu/cli.py, cluster.py).                              *)
THEOREM ContractKeepsMemory ==
  Spec => []WithinMemory
<1>1. GpuInv /\ [Next]_vars => GpuInv'
  BY GpuStep, GpuStutters
<1>2. Spec => []GpuInv
  BY <1>1, GpuInitially, PTL DEF Spec
<1> QED
  BY <1>2, SoundIsWithin, PTL
-----------------------------------------------------------------------------
(* The allocator: the choice of the best.                                  *)

HIDE GpuAssumption

\* A finite set that a relation orders totally has a first element.
LEMMA FirstOf ==
  ASSUME NEW S, IsFiniteSet(S), S # {}, NEW R,
         \A x, y \in S : x = y \/ <<x, y>> \in R \/ <<y, x>> \in R,
         \A x, y, z \in S : <<x, y>> \in R /\ <<y, z>> \in R => <<x, z>> \in R
  PROVE  \E x \in S : \A y \in S : y = x \/ <<x, y>> \in R
<1> DEFINE Leads(T) == \E x \in T : \A y \in T : y = x \/ <<x, y>> \in R
           W == {T \in SUBSET S : T # {} /\ ~Leads(T)}
<1> SUFFICES ASSUME W # {}
             PROVE  FALSE
  OBVIOUS
<1>1. PICK T \in W : \A x \in T : T \ {x} \notin W
  <2> HIDE DEF W
  <2>1. W \in SUBSET SUBSET S
    BY DEF W
  <2> QED
    BY <2>1, SmallestOf
<1>2. PICK z \in T : TRUE
  BY <1>1
<1>3. CASE T \ {z} = {}
  BY <1>1, <1>2, <1>3
<1>4. CASE T \ {z} # {}
  <2>1. PICK x \in T \ {z} : \A y \in T \ {z} : y = x \/ <<x, y>> \in R
    BY <1>1, <1>2, <1>4
  <2>2. x \in S /\ z \in S /\ x # z /\ T \in SUBSET S
    BY <1>1, <1>2, <2>1
  <2>3. CASE <<x, z>> \in R
    BY <1>1, <2>1, <2>2, <2>3
  <2>4. CASE <<z, x>> \in R
    <3>1. \A y \in T : y = z \/ <<z, y>> \in R
      BY <2>1, <2>2, <2>4
    <3> QED
      BY <1>1, <1>2, <3>1
  <2> QED
    BY <2>2, <2>3, <2>4
<1> QED
  BY <1>3, <1>4

\* What the registry gives the allocator.
InputsTyped == hardware \in Seq(Hardware) /\ catalog \in Seq(Cards)

LEMMA PlacesAre ==
  ASSUME InputsTyped, NEW p \in Places
  PROVE  /\ p = <<p[1], p[2]>> /\ p[1] \in DOMAIN hardware /\ p[2] \in DOMAIN catalog
         /\ p[1] \in Nat /\ p[2] \in Nat
         /\ hardware[p[1]] \in Hardware /\ catalog[p[2]] \in Cards
         /\ catalog[p[2]] \in ToSet(catalog)
BY DEF InputsTyped, Places, ToSet

LEMMA PlacesFinite == InputsTyped => IsFiniteSet(Places)
<1>1. SUFFICES ASSUME InputsTyped
               PROVE  IsFiniteSet(Places)
  OBVIOUS
<1>2. IsFiniteSet(DOMAIN hardware) /\ IsFiniteSet(DOMAIN catalog)
  BY <1>1, FS_Interval DEF InputsTyped
<1> QED
  BY <1>2, FS_Product DEF Places

LEMMA MemoryIs ==
  ASSUME NEW node \in Hardware
  PROVE  Memory(node) \in Int
BY AllocatorAssumption DEF Memory, AtLeastZero

LEMMA ScoreIs ==
  ASSUME NEW spec \in Cards, NEW node \in Hardware, NEW cov, IsFiniteSet(cov)
  PROVE  Score(spec, node, cov) \in Int
<1>1. /\ spec.runtime \in Nat \ {0} /\ spec.weight \in Int /\ node.speed \in Int
      /\ Memory(node) \in Int
  BY AllocatorAssumption, MemoryIs
<1>2. Hosting(spec.domain, cov) \in Nat
  BY FS_Subset, FS_CardinalityType DEF Hosting
<1> DEFINE hosts == Hosting(spec.domain, cov)
           spare == (30 * (Memory(node) - spec.runtime)) \div spec.runtime
           need == IF hosts = 0 THEN 360 ELSE 120 \div (1 + hosts)
           fast == 45 * AtLeastZero(node.speed - spec.weight)
           near == IF node.far THEN 9 ELSE 18
<1>3. need \in Int
  <2>1. hosts \in Nat
    BY <1>2
  <2> HIDE DEF hosts
  <2> QED
    BY <2>1
<1>4. spare \in Int
  <2> DEFINE all == 30 * (Memory(node) - spec.runtime)
  <2>1. all \in Int
    BY <1>1
  <2> HIDE DEF all
  <2>2. all \div spec.runtime \in Int
    BY <1>1, <2>1
  <2> QED
    BY <2>2 DEF all
<1>5. fast \in Int /\ near \in Int
  BY <1>1 DEF AtLeastZero
<1>6. Score(spec, node, cov) = need + fast + (IF spare < 60 THEN spare ELSE 60) + near
  BY DEF Score
<1> HIDE DEF need, fast, spare, near
<1> QED
  BY <1>3, <1>4, <1>5, <1>6

\* The best of some placements is one of them.
LEMMA BestIs ==
  ASSUME InputsTyped, NEW S \in SUBSET Places, S # {}, NEW cov, IsFiniteSet(cov)
  PROVE  BestOf(S, cov) \in S
<1> DEFINE At(p) == Score(catalog[p[2]], hardware[p[1]], cov)
           R == {pq \in Places \X Places : Before(pq[1], pq[2], cov)}
<1>1. IsFiniteSet(S)
  BY PlacesFinite, FS_Subset
<1>2. \A p \in S : /\ At(p) \in Int /\ p[1] \in Nat /\ p[2] \in Nat /\ p = <<p[1], p[2]>>
                   /\ p \in Places
  BY PlacesAre, ScoreIs
<1>3. \A p, q \in S : /\ <<p, q>> \in R <=> Before(p, q, cov)
                      /\ Before(p, q, cov) <=>
                           \/ At(p) > At(q)
                           \/ At(p) = At(q) /\ (p[1] < q[1] \/ (p[1] = q[1] /\ p[2] < q[2]))
  BY <1>2 DEF Before
<1> HIDE DEF At, R
<1>4. \A x, y \in S : x = y \/ <<x, y>> \in R \/ <<y, x>> \in R
  <2> SUFFICES ASSUME NEW x \in S, NEW y \in S, ~(<<x, y>> \in R), ~(<<y, x>> \in R)
               PROVE  x = y
    OBVIOUS
  <2>1. x[1] = y[1] /\ x[2] = y[2]
    BY <1>2, <1>3
  <2> QED
    BY <1>2, <2>1
<1>5. \A x, y, z \in S : <<x, y>> \in R /\ <<y, z>> \in R => <<x, z>> \in R
  BY <1>2, <1>3
<1>6. \E x \in S : \A y \in S : y = x \/ <<x, y>> \in R
  BY <1>1, <1>4, <1>5, FirstOf
<1>7. \E x \in S : \A y \in S : y = x \/ Before(x, y, cov)
  BY <1>3, <1>6
<1> QED
  BY <1>7 DEF BestOf

-----------------------------------------------------------------------------
(* The inductive invariant of a run.                                       *)

Strategies == {"tiered", "full_set", "best_per_machine"}

PhasesOf(strategy) ==
  CASE strategy = "tiered" -> {"tier1", "tier2", "tier3", "seconds", "rest"}
    [] strategy = "full_set" -> {"all", "rest"}
    [] OTHER -> {"rest"}

RunTyped ==
  /\ run = [strategy |-> run.strategy, mix |-> run.mix, phase |-> run.phase, done |-> run.done,
            looked |-> run.looked, cov |-> run.cov, got |-> run.got]
  /\ run.strategy \in Strategies /\ run.phase \in PhasesOf(run.strategy)
  /\ run.done \in Seq(DOMAIN hardware) /\ run.looked \in 0..Len(run.done)
  /\ IsFiniteSet(run.cov)
  /\ run.got = [i \in ToSet(run.done) |-> run.got[i]]
  /\ \A i \in DOMAIN run.got :
       run.got[i] = [primary |-> run.got[i].primary, secondaries |-> run.got[i].secondaries,
                     alternates |-> run.got[i].alternates]

\* No node comes twice, and those not looked at have no second specialist.
OneTurn ==
  /\ \A a, b \in 1..Len(run.done) : run.done[a] = run.done[b] => a = b
  /\ \A a \in 1..Len(run.done) : a > run.looked => run.got[run.done[a]].secondaries = {}

\* A suggestion to the i-th node.
Sound(i, g) ==
  /\ g.primary = NoSpec <=> \A s \in ToSet(catalog) : ~Eligible(s, hardware[i])
  /\ \A s \in Hosted(g) \cup g.alternates : s \in ToSet(catalog) /\ Eligible(s, hardware[i])

\* Covered is what some node hosts.
CoveredIs ==
  Covered(run.cov) = {s.domain : s \in UNION {Hosted(run.got[i]) : i \in DOMAIN run.got}}

SecondsFit ==
  \A i \in DOMAIN run.got : \A s \in run.got[i].secondaries :
    /\ s # NoSpec
    /\ s.runtime + run.got[i].primary.runtime <= Memory(hardware[i])
    /\ s.domain # run.got[i].primary.domain
    /\ \A j \in DOMAIN run.got \ {i} : \A t \in run.got[j].secondaries : t.domain # s.domain

\* What the i-th node could still cover.
Open(i, s) ==
  s \in ToSet(catalog) /\ s.domain \notin Covered(run.cov) /\ Eligible(s, hardware[i])

Essential(s) == run.strategy = "full_set" \/ Tier(s.domain) < 3

Useful(i) == \E s \in ToSet(catalog) : Open(i, s) /\ Essential(s)

\* Nodes that could cover more have different primaries ...
Spread ==
  run.strategy # "best_per_machine" =>
    \A i, j \in DOMAIN run.got :
      Useful(i) /\ Useful(j) /\ run.got[i].primary.domain = run.got[j].primary.domain => i = j

\* ... because a phase ends only when no node that is left can cover what it wants.
Past(s) ==
  \/ run.strategy = "full_set" /\ run.phase = "rest"
  \/ /\ run.strategy = "tiered"
     /\ \/ Tier(s.domain) = 1 /\ run.phase # "tier1"
        \/ Tier(s.domain) = 2 /\ run.phase \notin {"tier1", "tier2"}

Closed == \A i \in Left : \A s \in ToSet(catalog) : Open(i, s) => ~Past(s)

AllSound == \A i \in DOMAIN run.got : Sound(i, run.got[i])

RunInv == RunTyped /\ OneTurn /\ AllSound /\ CoveredIs /\ SecondsFit /\ Spread /\ Closed

AllocatorInv ==
  /\ InputsTyped
  /\ run = Idle \/ (RunInv /\ allocation = None)
  /\ AllocationComplete /\ DomainsSpread /\ SecondaryFits

-----------------------------------------------------------------------------
(* The steps of a run.                                                     *)

LEMMA StrategyFacts ==
  ASSUME RunTyped
  PROVE  /\ run.strategy = "tiered" => run.phase \in {"tier1", "tier2", "tier3", "seconds", "rest"}
         /\ run.strategy = "full_set" => run.phase \in {"all", "rest"}
         /\ run.strategy = "best_per_machine" => run.phase = "rest"
BY DEF RunTyped, PhasesOf, Strategies

LEMMA DoneIs ==
  ASSUME InputsTyped, RunTyped
  PROVE  /\ Len(run.done) \in Nat /\ DOMAIN run.done = 1..Len(run.done)
         /\ \A a \in 1..Len(run.done) : run.done[a] \in DOMAIN hardware
         /\ \A j : j \in ToSet(run.done) <=> \E a \in 1..Len(run.done) : run.done[a] = j
         /\ DOMAIN run.got = ToSet(run.done) /\ DOMAIN run.got \subseteq DOMAIN hardware
         /\ Left = DOMAIN hardware \ DOMAIN run.got
<1>1. run.done \in Seq(DOMAIN hardware) /\ run.got = [i \in ToSet(run.done) |-> run.got[i]]
  BY DEF RunTyped
<1>2. DOMAIN run.got = ToSet(run.done)
  BY <1>1
<1> QED
  BY <1>1, <1>2 DEF ToSet, Left

\* A node with a primary that passes every filter hosts it.
LEMMA UsefulHosts ==
  ASSUME RunInv, NEW j \in DOMAIN run.got, Useful(j)
  PROVE  run.got[j].primary \in Hosted(run.got[j])
<1>1. run.got[j].primary # NoSpec
  BY DEF RunInv, AllSound, Sound, Useful, Open
<1> QED
  BY <1>1 DEF Hosted

LEMMA CoveredGrows ==
  ASSUME NEW cov, NEW d, NEW i
  PROVE  Covered(cov \cup {<<d, i>>}) = Covered(cov) \cup {d}
<1> DEFINE new == cov \cup {<<d, i>>}
<1>1. \A x \in Covered(new) : x \in Covered(cov) \cup {d}
  BY DEF Covered
<1>2. \A x \in Covered(cov) : x \in Covered(new)
  BY DEF Covered
<1>3. d \in Covered(new)
  <2>1. <<d, i>> \in new /\ <<d, i>>[1] = d
    OBVIOUS
  <2> HIDE DEF new
  <2> QED
    BY <2>1 DEF Covered
<1> QED
  BY <1>1, <1>2, <1>3

LEMMA HostedCovered ==
  ASSUME RunInv, NEW j \in DOMAIN run.got, NEW s \in Hosted(run.got[j])
  PROVE  s.domain \in Covered(run.cov)
BY DEF RunInv, CoveredIs

\* The next node gets its suggestion.
LEMMA AssignKeeps ==
  ASSUME InputsTyped, RunInv, NEW i \in Left, NEW primary, NEW alternates,
         Assign(i, primary, alternates), UNCHANGED <<hardware, catalog>>,
         Sound(i, [primary |-> primary, secondaries |-> {}, alternates |-> alternates]),
         run.strategy # "best_per_machine" /\ Useful(i) =>
           \A j \in DOMAIN run.got : Useful(j) => run.got[j].primary.domain # primary.domain
  PROVE  RunInv'
<1> DEFINE new == [primary |-> primary, secondaries |-> {}, alternates |-> alternates]
           n == Len(run.done)
<1>0. RunTyped /\ OneTurn /\ CoveredIs /\ SecondsFit /\ Spread /\ Closed
  BY DEF RunInv
<1>1. /\ n \in Nat /\ DOMAIN run.done = 1..n /\ i \in DOMAIN hardware /\ i \notin DOMAIN run.got
      /\ \A a \in 1..n : run.done[a] \in DOMAIN hardware /\ run.done[a] # i
      /\ \A j : j \in ToSet(run.done) <=> \E a \in 1..n : run.done[a] = j
      /\ DOMAIN run.got = ToSet(run.done) /\ run.looked \in 0..n
      /\ run.done \in Seq(DOMAIN hardware) /\ IsFiniteSet(run.cov)
  BY <1>0, DoneIs DEF RunTyped
<1>2. run' = [strategy |-> run.strategy, mix |-> run.mix, phase |-> run.phase,
              done |-> Append(run.done, i), looked |-> run.looked,
              cov |-> IF primary = NoSpec THEN run.cov
                      ELSE run.cov \cup {<<primary.domain, i>>},
              got |-> [j \in DOMAIN run.got \cup {i} |-> IF j = i THEN new ELSE run.got[j]]]
  BY <1>0 DEF Assign, RunTyped
<1>3. /\ run'.strategy = run.strategy /\ run'.mix = run.mix /\ run'.phase = run.phase
      /\ run'.done = Append(run.done, i) /\ run'.looked = run.looked
      /\ run'.cov = (IF primary = NoSpec THEN run.cov ELSE run.cov \cup {<<primary.domain, i>>})
      /\ DOMAIN run'.got = DOMAIN run.got \cup {i}
      /\ run'.got[i] = new
      /\ \A j \in DOMAIN run.got : run'.got[j] = run.got[j]
      /\ hardware' = hardware /\ catalog' = catalog
  BY <1>1, <1>2
<1>4. /\ run'.done \in Seq(DOMAIN hardware) /\ Len(run'.done) = n + 1
      /\ \A a \in 1..n : run'.done[a] = run.done[a]
      /\ run'.done[n + 1] = i
      /\ ToSet(run'.done) = DOMAIN run.got \cup {i}
  <2>1. /\ run'.done \in Seq(DOMAIN hardware) /\ Len(run'.done) = n + 1
        /\ \A a \in 1..n : run'.done[a] = run.done[a]
        /\ run'.done[n + 1] = i
    BY <1>1, <1>3
  <2>2. DOMAIN run'.done = 1..n + 1
    BY <1>1, <2>1
  <2>3. \A j : j \in ToSet(run'.done) <=> \E a \in 1..n + 1 : run'.done[a] = j
    BY <2>2 DEF ToSet
  <2>4. \A a \in 1..n + 1 : a \in 1..n \/ a = n + 1
    BY <1>1
  <2>5. n + 1 \in 1..n + 1 /\ \A a \in 1..n : a \in 1..n + 1
    BY <1>1
  <2>6. \A j : j \in ToSet(run'.done) <=> j \in DOMAIN run.got \cup {i}
    <3> HIDE DEF n
    <3> QED
      BY <1>1, <2>1, <2>3, <2>4, <2>5
  <2> QED
    BY <2>1, <2>6
<1> HIDE DEF n
<1>5. RunTyped'
  <2>1. IsFiniteSet(run'.cov)
    <3>1. IsFiniteSet(run.cov \cup {<<primary.domain, i>>})
      BY <1>1, FS_AddElement
    <3> QED
      BY <1>1, <1>3, <3>1
  <2>2. /\ run'.strategy \in Strategies /\ run'.phase \in PhasesOf(run'.strategy)
        /\ run'.looked \in 0..Len(run'.done)
    BY <1>0, <1>1, <1>3, <1>4 DEF RunTyped
  <2>3. run'.got = [j \in ToSet(run'.done) |-> run'.got[j]]
    BY <1>2, <1>4
  <2>4. \A j \in DOMAIN run'.got :
          run'.got[j] = [primary |-> run'.got[j].primary, secondaries |-> run'.got[j].secondaries,
                         alternates |-> run'.got[j].alternates]
    BY <1>0, <1>3 DEF RunTyped
  <2>5. run' = [strategy |-> run'.strategy, mix |-> run'.mix, phase |-> run'.phase,
                done |-> run'.done, looked |-> run'.looked, cov |-> run'.cov, got |-> run'.got]
    BY <1>2
  <2> QED
    BY <1>3, <1>4, <2>1, <2>2, <2>3, <2>4, <2>5 DEF RunTyped
<1>6. OneTurn'
  <2>1. \A a \in 1..n + 1 : a \in 1..n \/ a = n + 1
    BY <1>1
  <2>2. \A a, b \in 1..n + 1 : run'.done[a] = run'.done[b] => a = b
    <3>1. \A a, b \in 1..n : run.done[a] = run.done[b] => a = b
      BY <1>0 DEF OneTurn, n
    <3>2. \A a \in 1..n : run'.done[a] = run.done[a] /\ run'.done[a] # i
      BY <1>1, <1>4
    <3>3. \A a, b \in 1..n : run'.done[a] = run'.done[b] => a = b
      BY <3>1, <3>2
    <3>4. run'.done[n + 1] = i
      BY <1>4
    <3> HIDE DEF n
    <3> QED
      BY <2>1, <3>2, <3>3, <3>4
  <2>3. ASSUME NEW a \in 1..n + 1, a > run.looked
        PROVE  run'.got[run'.done[a]].secondaries = {}
    <3>1. CASE a = n + 1
      BY <1>3, <1>4, <3>1
    <3>2. CASE a \in 1..n
      <4>1. run.done[a] \in DOMAIN run.got /\ run'.done[a] = run.done[a]
        BY <1>1, <1>4, <3>2
      <4>2. run.got[run.done[a]].secondaries = {}
        BY <1>0, <2>3, <3>2 DEF OneTurn, n
      <4> QED
        BY <1>3, <4>1, <4>2
    <3> QED
      BY <2>1, <3>1, <3>2
  <2> QED
    BY <1>3, <1>4, <2>2, <2>3 DEF OneTurn
<1>7. Covered(run'.cov) = Covered(run.cov) \cup {s.domain : s \in Hosted(new)}
  <2>1. Hosted(new) = {primary} \ {NoSpec}
    BY DEF Hosted
  <2>2. CASE primary = NoSpec
    BY <1>3, <2>1, <2>2 DEF Covered
  <2>3. CASE primary # NoSpec
    <3>1. run'.cov = run.cov \cup {<<primary.domain, i>>}
      BY <1>3, <2>3
    <3>2. Covered(run'.cov) = Covered(run.cov) \cup {primary.domain}
      <4>1. Covered(run.cov \cup {<<primary.domain, i>>}) = Covered(run.cov) \cup {primary.domain}
        BY CoveredGrows
      <4> QED
        BY <3>1, <4>1, Zenon
    <3> HIDE DEF new
    <3>3. Hosted(new) = {primary}
      BY <2>1, <2>3
    <3> QED
      BY <3>2, <3>3
  <2> QED
    BY <2>2, <2>3
<1>8. CoveredIs'
  <2> DEFINE all == UNION {Hosted(run.got[j]) : j \in DOMAIN run.got}
             all1 == UNION {Hosted(run'.got[j]) : j \in DOMAIN run'.got}
             more == Hosted(new)
  <2>1. /\ Hosted(run'.got[i]) = more
        /\ \A j \in DOMAIN run.got : Hosted(run'.got[j]) = Hosted(run.got[j])
    BY <1>3
  <2>2. all1 = all \cup more
    <3> HIDE DEF new, more
    <3> QED
      BY <1>1, <1>3, <2>1
  <2>3. Covered(run.cov) = {s.domain : s \in all}
    BY <1>0 DEF CoveredIs
  <2>4. Covered(run'.cov) = Covered(run.cov) \cup {s.domain : s \in more}
    BY <1>7
  <2> HIDE DEF new, more, all, all1
  <2>5. Covered(run'.cov) = {s.domain : s \in all1}
    BY <2>2, <2>3, <2>4
  <2> QED
    BY <2>5 DEF CoveredIs, all1
<1>9. SecondsFit'
  <2>1. run'.got[i].secondaries = {}
    BY <1>3
  <2> HIDE DEF new
  <2> QED
    BY <1>0, <1>1, <1>3, <2>1 DEF SecondsFit
<1>10. \A j, s : Open(j, s)' => Open(j, s)
  BY <1>3, <1>7 DEF Open
<1>11. \A j : Useful(j)' => Useful(j)
  BY <1>3, <1>10 DEF Useful, Essential
<1>12. Spread'
  <2> SUFFICES ASSUME run.strategy # "best_per_machine",
                      NEW j \in DOMAIN run'.got, NEW k \in DOMAIN run'.got, Useful(j)', Useful(k)',
                      run'.got[j].primary.domain = run'.got[k].primary.domain
               PROVE  j = k
    BY <1>3 DEF Spread
  <2>1. Useful(j) /\ Useful(k)
    BY <1>11
  <2>2. run'.got[i].primary = primary
    BY <1>3
  <2> HIDE DEF new
  <2>3. CASE j \in DOMAIN run.got /\ k \in DOMAIN run.got
    BY <1>0, <1>3, <2>1, <2>3 DEF Spread
  <2>4. CASE j = i /\ k \in DOMAIN run.got
    BY <1>3, <2>1, <2>2, <2>4
  <2>5. CASE k = i /\ j \in DOMAIN run.got
    BY <1>3, <2>1, <2>2, <2>5
  <2> QED
    BY <1>3, <2>3, <2>4, <2>5
<1>13. Closed'
  <2>1. \A j \in Left' : j \in Left
    BY <1>1, <1>3, <1>4 DEF Left
  <2>2. \A s : Past(s)' => Past(s)
    BY <1>3 DEF Past
  <2> QED
    BY <1>0, <1>3, <1>10, <2>1, <2>2 DEF Closed
<1>14. AllSound'
  <2>1. Sound(i, run'.got[i])
    BY <1>3
  <2>2. \A j \in DOMAIN run.got : Sound(j, run'.got[j])
    <3> HIDE DEF new
    <3> QED
      BY <1>3 DEF RunInv, AllSound
  <2> HIDE DEF new
  <2>3. \A j \in DOMAIN run'.got : Sound(j, run'.got[j])
    BY <1>3, <2>1, <2>2
  <2> QED
    BY <1>3, <2>3 DEF AllSound, Sound
<1> QED
  BY <1>5, <1>6, <1>8, <1>9, <1>12, <1>13, <1>14 DEF RunInv

LEMMA AlternatesSound ==
  ASSUME InputsTyped, NEW i \in DOMAIN hardware, NEW primary, NEW cov
  PROVE  \A s \in Alternates(i, primary, cov) : s \in ToSet(catalog) /\ Eligible(s, hardware[i])
BY PlacesAre DEF Alternates, FitsOn, Suits

\* Who passes a filter on a node has a place there.
LEMMA SuitsSomewhere ==
  ASSUME InputsTyped, NEW i \in DOMAIN hardware, NEW s \in ToSet(catalog)
  PROVE  \E p \in Places : p[1] = i /\ catalog[p[2]] = s
<1>1. PICK k \in DOMAIN catalog : catalog[k] = s
  BY DEF ToSet
<1>2. <<i, k>> \in Places
  BY DEF Places
<1> QED
  BY <1>1, <1>2

LEMMA CoverKeeps ==
  ASSUME InputsTyped, RunInv, CoverNext, UNCHANGED <<hardware, catalog>>
  PROVE  RunInv'
<1> DEFINE p == BestOf(Openings, run.cov)
           spec == catalog[p[2]]
           alternates == Alternates(p[1], spec, run.cov \cup {<<spec.domain, p[1]>>})
<1>1. p \in Openings
  <2>1. Openings \in SUBSET Places /\ Openings # {} /\ IsFiniteSet(run.cov)
    BY DEF CoverNext, Openings, RunInv, RunTyped
  <2> QED
    BY <2>1, BestIs
<1>2. Assign(p[1], spec, alternates)
  BY DEF CoverNext
<1>3. \A s \in alternates : s \in ToSet(catalog) /\ Eligible(s, hardware[p[1]])
  BY <1>1, PlacesAre, AlternatesSound DEF Openings
<1> HIDE DEF p, alternates
<1>4. /\ p[1] \in Left /\ spec \in ToSet(catalog) /\ Eligible(spec, hardware[p[1]])
      /\ spec.domain \notin Covered(run.cov) /\ spec # NoSpec
  BY <1>1, PlacesAre, AllocatorAssumption DEF Openings, Suits
<1> HIDE DEF spec
<1>5. Sound(p[1], [primary |-> spec, secondaries |-> {}, alternates |-> alternates])
  BY <1>3, <1>4 DEF Sound, Hosted
<1>6. \A j \in DOMAIN run.got : Useful(j) => run.got[j].primary.domain # spec.domain
  BY <1>4, UsefulHosts, HostedCovered
<1> QED
  BY <1>2, <1>4, <1>5, <1>6, AssignKeeps

LEMMA RestKeeps ==
  ASSUME InputsTyped, RunInv, FillRest, UNCHANGED <<hardware, catalog>>
  PROVE  RunInv'
<1>1. PICK i \in Left :
        LET places == Replica(FitsOn(i))
            primary == IF places = {} THEN NoSpec ELSE catalog[BestOf(places, run.cov)[2]]
        IN Assign(i, primary, Alternates(i, primary, run.cov))
  BY DEF FillRest
<1> DEFINE places == Replica(FitsOn(i))
           primary == IF places = {} THEN NoSpec ELSE catalog[BestOf(places, run.cov)[2]]
           alternates == Alternates(i, primary, run.cov)
<1>2. Assign(i, primary, alternates) /\ i \in DOMAIN hardware
  BY <1>1 DEF Left
<1>3. \A s \in alternates : s \in ToSet(catalog) /\ Eligible(s, hardware[i])
  BY <1>2, AlternatesSound
<1>4. places \subseteq FitsOn(i) /\ (places = {} => FitsOn(i) = {})
  BY DEF Replica, Heavy
<1>5. CASE places = {}
  <2>1. primary = NoSpec
    BY <1>5
  <2>2. \A s \in ToSet(catalog) : ~Eligible(s, hardware[i])
    BY <1>2, <1>4, <1>5, SuitsSomewhere DEF FitsOn, Suits
  <2> HIDE DEF primary, alternates, places
  <2>3. ~Useful(i)
    BY <2>2 DEF Useful, Open
  <2>4. alternates = {}
    BY <1>3, <2>2
  <2>5. Sound(i, [primary |-> primary, secondaries |-> {}, alternates |-> alternates])
    BY <2>1, <2>2, <2>4 DEF Sound, Hosted
  <2> QED
    BY <1>2, <2>3, <2>5, AssignKeeps
<1>6. CASE places # {}
  <2>1. BestOf(places, run.cov) \in places
    <3>1. places \in SUBSET Places /\ IsFiniteSet(run.cov)
      BY <1>4 DEF FitsOn, RunInv, RunTyped
    <3> QED
      BY <1>6, <3>1, BestIs
  <2>2. primary \in ToSet(catalog) /\ Eligible(primary, hardware[i]) /\ primary # NoSpec
    <3> DEFINE b == BestOf(places, run.cov)
    <3>1. b \in Places /\ b[1] = i /\ Suits(b) /\ primary = catalog[b[2]]
      BY <1>4, <1>6, <2>1 DEF FitsOn
    <3> HIDE DEF b, primary
    <3> QED
      BY <3>1, PlacesAre, AllocatorAssumption DEF Suits
  <2> HIDE DEF primary, alternates, places
  <2>3. run.strategy # "best_per_machine" => ~Useful(i)
    <3> SUFFICES ASSUME run.strategy # "best_per_machine", NEW s \in ToSet(catalog),
                        Open(i, s), Essential(s)
                 PROVE  FALSE
      BY DEF Useful
    <3>1. run.phase = "rest" /\ run.strategy \in {"tiered", "full_set"}
      BY DEF FillRest, RunInv, RunTyped, Strategies
    <3>2. ~Past(s)
      BY DEF RunInv, Closed
    <3>3. Tier(s.domain) \in {1, 2, 3}
      BY DEF Tier
    <3> QED
      BY <3>1, <3>2, <3>3 DEF Past, Essential
  <2>4. Sound(i, [primary |-> primary, secondaries |-> {}, alternates |-> alternates])
    BY <1>3, <2>2 DEF Sound, Hosted
  <2> QED
    BY <1>2, <2>3, <2>4, AssignKeeps
<1> QED
  BY <1>5, <1>6

LEMMA PhaseEndKeeps ==
  ASSUME InputsTyped, RunInv, PhaseEnds, UNCHANGED <<hardware, catalog>>
  PROVE  RunInv'
<1>0. RunTyped /\ OneTurn /\ CoveredIs /\ SecondsFit /\ Spread /\ Closed
  BY DEF RunInv
<1>1. /\ run'.strategy = run.strategy /\ run'.mix = run.mix /\ run'.phase = After[run.phase]
      /\ run'.done = run.done /\ run'.looked = run.looked /\ run'.cov = run.cov
      /\ run'.got = run.got
      /\ run' = [strategy |-> run'.strategy, mix |-> run'.mix, phase |-> run'.phase,
                 done |-> run'.done, looked |-> run'.looked, cov |-> run'.cov, got |-> run'.got]
      /\ hardware' = hardware /\ catalog' = catalog
  BY <1>0 DEF PhaseEnds, RunTyped
<1>2. \/ run.strategy = "full_set" /\ run.phase = "all" /\ run'.phase = "rest" /\ Openings = {}
      \/ run.strategy = "tiered" /\ run.phase = "tier1" /\ run'.phase = "tier2" /\ Openings = {}
      \/ run.strategy = "tiered" /\ run.phase = "tier2" /\ run'.phase = "tier3" /\ Openings = {}
      \/ run.strategy = "tiered" /\ run.phase = "tier3" /\ run'.phase = "seconds"
      \/ run.strategy = "tiered" /\ run.phase = "seconds" /\ run'.phase = "rest"
  <2>1. run.phase \in Covering \cup {"seconds"} /\ (run.phase \in Covering => Openings = {})
    BY DEF PhaseEnds, Covering
  <2>2. run.strategy \in {"tiered", "full_set", "best_per_machine"}
    BY <1>0 DEF RunTyped, Strategies
  <2> QED
    BY <1>0, <1>1, <2>1, <2>2, StrategyFacts DEF Covering, After
<1>3. RunTyped'
  <2>1. run'.phase \in PhasesOf(run.strategy)
    BY <1>2 DEF PhasesOf
  <2> QED
    BY <1>0, <1>1, <2>1 DEF RunTyped
<1>4. OneTurn' /\ CoveredIs' /\ SecondsFit'
  <2>1. OneTurn'
    BY <1>0, <1>1 DEF OneTurn
  <2>2. CoveredIs'
    BY <1>0, <1>1 DEF CoveredIs
  <2>3. SecondsFit'
    BY <1>0, <1>1 DEF SecondsFit
  <2> QED
    BY <2>1, <2>2, <2>3
<1>5. Spread'
  BY <1>0, <1>1 DEF Spread, Useful, Open, Essential
<1>6. Closed'
  <2> SUFFICES ASSUME NEW i \in Left, NEW s \in ToSet(catalog), Open(i, s), Past(s)'
               PROVE  FALSE
    BY <1>1 DEF Closed, Left, Open
  <2>1. ~Past(s)
    BY <1>0 DEF Closed
  <2>2. i \in DOMAIN hardware
    BY DEF Left
  <2>3. PICK p \in Places : p[1] = i /\ catalog[p[2]] = s
    BY <2>2, SuitsSomewhere
  <2>4. p \in Openings <=> Wanted(s)
    BY <2>3 DEF Openings, Open, Suits
  <2>5. Openings = {} => ~Wanted(s)
    BY <2>4
  <2> QED
    BY <1>1, <1>2, <2>1, <2>5 DEF Past, Wanted
<1>7. AllSound'
  BY <1>1 DEF RunInv, AllSound, Sound
<1> QED
  BY <1>3, <1>4, <1>5, <1>6, <1>7 DEF RunInv

\* A node gets a second specialist, or does not.
LEMMA SecondKeeps ==
  ASSUME InputsTyped, RunInv, FillSecondary, UNCHANGED <<hardware, catalog>>
  PROVE  RunInv'
<1> DEFINE i == run.done[run.looked + 1]
           n == Len(run.done)
           places == Seconds(i, run.got[i].primary)
           spec == catalog[BestOf(places, run.cov)[2]]
<1>0. RunTyped /\ OneTurn /\ AllSound /\ CoveredIs /\ SecondsFit /\ Spread /\ Closed
  BY DEF RunInv
<1>1. /\ n \in Nat /\ DOMAIN run.done = 1..n /\ run.looked \in 0..n
      /\ \A a \in 1..n : run.done[a] \in DOMAIN run.got
      /\ DOMAIN run.got = ToSet(run.done) /\ DOMAIN run.got \subseteq DOMAIN hardware
      /\ run.done \in Seq(DOMAIN hardware) /\ IsFiniteSet(run.cov)
  BY <1>0, DoneIs DEF RunTyped
<1>2. /\ run.looked < n /\ run.looked + 1 \in 1..n /\ i \in DOMAIN run.got /\ i \in DOMAIN hardware
      /\ run.phase = "seconds"
  <2>1. run.phase = "seconds" /\ run.looked < n
    BY DEF FillSecondary
  <2>2. run.looked + 1 \in 1..n
    BY <1>1, <2>1
  <2>3. i \in DOMAIN run.got
    BY <1>1, <2>2
  <2> QED
    BY <1>1, <2>1, <2>2, <2>3
<1>3. run.got[i].secondaries = {}
  BY <1>0, <1>1, <1>2 DEF OneTurn
<1>4. \A a \in 1..n : a > run.looked + 1 => run.done[a] # i
  BY <1>0, <1>1, <1>2 DEF OneTurn
<1>5. CASE places = {}
  <2>1. /\ run'.strategy = run.strategy /\ run'.mix = run.mix /\ run'.phase = run.phase
        /\ run'.done = run.done /\ run'.looked = run.looked + 1 /\ run'.cov = run.cov
        /\ run'.got = run.got
        /\ run' = [strategy |-> run'.strategy, mix |-> run'.mix, phase |-> run'.phase,
                   done |-> run'.done, looked |-> run'.looked, cov |-> run'.cov, got |-> run'.got]
        /\ hardware' = hardware /\ catalog' = catalog
    BY <1>0, <1>5 DEF FillSecondary, RunTyped
  <2>2. RunTyped'
    BY <1>0, <1>1, <1>2, <2>1 DEF RunTyped
  <2>3. OneTurn'
    BY <1>0, <1>1, <1>2, <2>1 DEF OneTurn
  <2>4. AllSound'
    BY <1>0, <2>1 DEF AllSound, Sound
  <2>5. CoveredIs'
    BY <1>0, <2>1 DEF CoveredIs
  <2>6. SecondsFit'
    BY <1>0, <2>1 DEF SecondsFit
  <2>7. Spread'
    BY <1>0, <2>1 DEF Spread, Useful, Open, Essential
  <2>8. Closed'
    BY <1>0, <2>1 DEF Closed, Left, Open, Past
  <2> QED
    BY <2>2, <2>3, <2>4, <2>5, <2>6, <2>7, <2>8 DEF RunInv
<1>6. CASE places # {}
  <2> DEFINE g == run.got[i]
             new == [primary |-> g.primary, secondaries |-> {spec}, alternates |-> g.alternates]
  <2>1. /\ run'.strategy = run.strategy /\ run'.mix = run.mix /\ run'.phase = run.phase
        /\ run'.done = run.done /\ run'.looked = run.looked + 1
        /\ run'.cov = run.cov \cup {<<spec.domain, i>>}
        /\ run'.got = [run.got EXCEPT ![i].secondaries = {spec}]
        /\ run' = [strategy |-> run'.strategy, mix |-> run'.mix, phase |-> run'.phase,
                   done |-> run'.done, looked |-> run'.looked, cov |-> run'.cov, got |-> run'.got]
        /\ hardware' = hardware /\ catalog' = catalog
    <3> HIDE DEF i, spec
    <3>1. run' = [run EXCEPT !.looked = @ + 1, !.cov = @ \cup {<<spec.domain, i>>},
                             !.got[i].secondaries = {spec}]
      BY <1>6 DEF FillSecondary, i, spec
    <3> QED
      BY <1>0, <3>1 DEF RunTyped
  <2>2. BestOf(places, run.cov) \in places
    <3>1. places \in SUBSET Places
      BY DEF Seconds, FitsOn
    <3> QED
      BY <1>1, <1>6, <3>1, BestIs
  <2>3. /\ spec \in ToSet(catalog) /\ Eligible(spec, hardware[i]) /\ spec # NoSpec
        /\ spec.domain \notin Covered(run.cov) /\ g.primary # NoSpec
        /\ spec \in Cards /\ FitsBeside(spec, hardware[i], g.primary)
    <3> DEFINE b == BestOf(places, run.cov)
    <3>1. /\ b \in Places /\ b[1] = i /\ Suits(b) /\ spec = catalog[b[2]]
          /\ catalog[b[2]].domain \notin Covered(run.cov) /\ g.primary # NoSpec
          /\ FitsBeside(catalog[b[2]], hardware[i], g.primary)
      BY <2>2 DEF FitsOn, Seconds
    <3> HIDE DEF b, spec, i, g
    <3> QED
      BY <3>1, PlacesAre, AllocatorAssumption DEF Suits
  <2> HIDE DEF i, spec, places
  <2>4. /\ g.primary \in Hosted(g) /\ g.primary \in Cards /\ g.primary.domain \in Covered(run.cov)
        /\ g.primary \in ToSet(catalog) /\ Eligible(g.primary, hardware[i])
    <3>1. g.primary \in Hosted(g)
      BY <2>3 DEF Hosted
    <3>2. g.primary \in ToSet(catalog) /\ Eligible(g.primary, hardware[i])
      BY <1>0, <1>2, <3>1 DEF AllSound, Sound
    <3>3. ToSet(catalog) \subseteq Cards
      BY DEF InputsTyped, ToSet
    <3> QED
      BY <1>2, <3>1, <3>2, <3>3, HostedCovered
  <2>5. /\ DOMAIN run'.got = DOMAIN run.got /\ run'.got[i] = new
        /\ \A j \in DOMAIN run.got \ {i} : run'.got[j] = run.got[j]
        /\ run'.got = [j \in DOMAIN run.got |-> run'.got[j]]
    <3>1. g = [primary |-> g.primary, secondaries |-> g.secondaries, alternates |-> g.alternates]
      BY <1>0, <1>2 DEF RunTyped
    <3>2. run.got = [j \in ToSet(run.done) |-> run.got[j]]
      BY <1>0 DEF RunTyped
    <3> QED
      BY <1>1, <1>2, <2>1, <3>1, <3>2
  <2>6. RunTyped'
    <3>1. IsFiniteSet(run'.cov)
      <4>1. IsFiniteSet(run.cov \cup {<<spec.domain, i>>})
        BY <1>1, FS_AddElement
      <4> QED
        BY <2>1, <4>1
    <3>2. run'.looked \in 0..Len(run'.done)
      BY <1>1, <1>2, <2>1
    <3>3. \A j \in DOMAIN run'.got :
            run'.got[j] = [primary |-> run'.got[j].primary, secondaries |-> run'.got[j].secondaries,
                           alternates |-> run'.got[j].alternates]
      BY <1>0, <2>5 DEF RunTyped
    <3> QED
      BY <1>0, <1>1, <2>1, <2>5, <3>1, <3>2, <3>3 DEF RunTyped
  <2>7. OneTurn'
    <3>1. \A a \in 1..n : a > run.looked + 1 => run'.got[run.done[a]].secondaries = {}
      <4> SUFFICES ASSUME NEW a \in 1..n, a > run.looked + 1
                   PROVE  run'.got[run.done[a]].secondaries = {}
        OBVIOUS
      <4>1. run.done[a] \in DOMAIN run.got \ {i} /\ a > run.looked
        BY <1>1, <1>4
      <4> QED
        BY <1>0, <1>1, <2>5, <4>1 DEF OneTurn
    <3> QED
      BY <1>0, <2>1, <3>1 DEF OneTurn
  <2>8. Hosted(new) = Hosted(g) \cup {spec}
    BY <1>3, <2>3 DEF Hosted
  <2>9. Covered(run'.cov) = Covered(run.cov) \cup {spec.domain}
    <3>1. Covered(run.cov \cup {<<spec.domain, i>>}) = Covered(run.cov) \cup {spec.domain}
      BY CoveredGrows
    <3>2. run'.cov = run.cov \cup {<<spec.domain, i>>}
      BY <2>1
    <3> QED
      BY <3>1, <3>2, Zenon
  <2>10. AllSound'
    <3>1. Sound(i, new)
      BY <1>0, <1>2, <2>3, <2>8 DEF AllSound, Sound
    <3> HIDE DEF new, g
    <3>2. \A j \in DOMAIN run'.got : Sound(j, run'.got[j])
      BY <1>0, <2>5, <3>1 DEF AllSound
    <3> QED
      BY <2>1, <3>2 DEF AllSound, Sound
  <2>11. CoveredIs'
    <3> DEFINE all == UNION {Hosted(run.got[j]) : j \in DOMAIN run.got}
               all1 == UNION {Hosted(run'.got[j]) : j \in DOMAIN run'.got}
    <3>1. Hosted(run'.got[i]) = Hosted(run.got[i]) \cup {spec}
      BY <2>5, <2>8
    <3>2. \A j \in DOMAIN run.got \ {i} : Hosted(run'.got[j]) = Hosted(run.got[j])
      BY <2>5
    <3>3. all1 = all \cup {spec}
      <4> HIDE DEF new, g
      <4> QED
        BY <1>2, <2>5, <3>1, <3>2
    <3>4. Covered(run.cov) = {s.domain : s \in all}
      BY <1>0 DEF CoveredIs
    <3> HIDE DEF new, g, all, all1
    <3>5. Covered(run'.cov) = {s.domain : s \in all1}
      BY <2>9, <3>3, <3>4
    <3> QED
      BY <3>5 DEF CoveredIs, all1
  <2>12. SecondsFit'
    <3>1. spec.runtime + g.primary.runtime <= Memory(hardware[i])
      <4>1. /\ spec.runtime \in Int /\ g.primary.runtime \in Int /\ Memory(hardware[i]) \in Int
        BY <1>2, <2>3, <2>4, MemoryIs, AllocatorAssumption DEF InputsTyped
      <4> QED
        BY <2>3, <4>1 DEF FitsBeside
    <3>2. spec.domain # g.primary.domain
      BY <2>3, <2>4
    <3>3. \A j \in DOMAIN run.got : \A t \in run.got[j].secondaries : t.domain # spec.domain
      <4>1. \A j \in DOMAIN run.got : \A t \in run.got[j].secondaries : t \in Hosted(run.got[j])
        BY <1>0 DEF SecondsFit, Hosted
      <4> QED
        BY <2>3, <4>1, HostedCovered
    <3>4. run'.got[i].secondaries = {spec} /\ run'.got[i].primary = g.primary
      BY <2>5
    <3> HIDE DEF new
    <3> SUFFICES ASSUME NEW j \in DOMAIN run.got, NEW s \in run'.got[j].secondaries
                 PROVE  /\ s # NoSpec
                        /\ s.runtime + run'.got[j].primary.runtime <= Memory(hardware[j])
                        /\ s.domain # run'.got[j].primary.domain
                        /\ \A k \in DOMAIN run.got \ {j} :
                             \A t \in run'.got[k].secondaries : t.domain # s.domain
      BY <2>1, <2>5 DEF SecondsFit
    <3>5. CASE j = i
      <4>1. s = spec
        BY <3>4, <3>5
      <4>2. \A k \in DOMAIN run.got \ {i} : run'.got[k] = run.got[k]
        BY <2>5
      <4> QED
        BY <2>3, <3>1, <3>2, <3>3, <3>4, <3>5, <4>1, <4>2
    <3>6. CASE j # i
      <4>1. run'.got[j] = run.got[j] /\ s \in run.got[j].secondaries
        BY <2>5, <3>6
      <4>2. \A k \in DOMAIN run.got \ {j} :
              \A t \in run'.got[k].secondaries : t.domain # s.domain
        <5> SUFFICES ASSUME NEW k \in DOMAIN run.got \ {j}, NEW t \in run'.got[k].secondaries
                     PROVE  t.domain # s.domain
          OBVIOUS
        <5>1. CASE k = i
          BY <3>3, <3>4, <4>1, <5>1
        <5>2. CASE k # i
          BY <1>0, <2>5, <4>1, <5>2 DEF SecondsFit
        <5> QED
          BY <5>1, <5>2
      <4> QED
        BY <1>0, <4>1, <4>2 DEF SecondsFit
    <3> QED
      BY <3>5, <3>6
  <2>13. \A j, s : Open(j, s)' => Open(j, s)
    BY <2>1, <2>9 DEF Open
  <2>14. Spread'
    <3>1. \A j : Useful(j)' => Useful(j)
      BY <2>1, <2>13 DEF Useful, Essential
    <3>2. \A j \in DOMAIN run.got : run'.got[j].primary = run.got[j].primary
      BY <1>2, <2>5
    <3> HIDE DEF new, g
    <3> QED
      BY <1>0, <2>1, <2>5, <3>1, <3>2 DEF Spread
  <2>15. Closed'
    <3>1. Left' = Left
      BY <2>1 DEF Left
    <3>2. \A s : Past(s)' => Past(s)
      BY <2>1 DEF Past
    <3> QED
      BY <1>0, <2>1, <2>13, <3>1, <3>2 DEF Closed
  <2> QED
    BY <2>6, <2>7, <2>10, <2>11, <2>12, <2>14, <2>15 DEF RunInv
<1> QED
  BY <1>5, <1>6

-----------------------------------------------------------------------------
(* What is recorded, and the theorems.                                     *)

LEMMA RecordKeeps ==
  ASSUME InputsTyped, RunInv, RecordAllocation
  PROVE  AllocationComplete' /\ DomainsSpread' /\ SecondaryFits'
<1>0. RunTyped /\ OneTurn /\ AllSound /\ CoveredIs /\ SecondsFit /\ Spread /\ Closed
  BY DEF RunInv
<1>1. /\ DOMAIN run.got = DOMAIN hardware
      /\ allocation'.strategy = run.strategy /\ allocation'.got = run.got
      /\ hardware' = hardware /\ catalog' = catalog
  BY <1>0, DoneIs DEF RecordAllocation
<1>2. AllocationComplete'
  BY <1>0, <1>1 DEF AllocationComplete, AllSound, Sound
<1>3. SecondaryFits'
  BY <1>0, <1>1 DEF SecondaryFits, SecondsFit
<1>4. DomainsSpread'
  <2> DEFINE missing == {s \in ToSet(catalog) :
                           /\ run.strategy = "full_set" \/ Tier(s.domain) < 3
                           /\ \A i \in DOMAIN hardware :
                                \A h \in Hosted(run.got[i]) : h.domain # s.domain}
  <2>1. ASSUME NEW i \in DOMAIN hardware, NEW s \in missing, Eligible(s, hardware[i])
        PROVE  Useful(i)
    <3>1. s.domain \notin Covered(run.cov)
      BY <1>0, <1>1 DEF CoveredIs
    <3> QED
      BY <2>1, <3>1 DEF Useful, Open, Essential
  <2>2. run.strategy # "best_per_machine" =>
          \A i, j \in DOMAIN hardware :
            /\ \E s \in missing : Eligible(s, hardware[i])
            /\ \E s \in missing : Eligible(s, hardware[j])
            /\ run.got[i].primary.domain = run.got[j].primary.domain
            => i = j
    <3> HIDE DEF missing
    <3> QED
      BY <1>0, <1>1, <2>1 DEF Spread
  <2> QED
    BY <1>1, <2>2 DEF DomainsSpread
<1> QED
  BY <1>2, <1>3, <1>4

LEMMA AllocatorStarts == AllocatorInit => AllocatorInv
BY DEF AllocatorInit, AllocatorInv, InputsTyped, AllocationComplete, DomainsSpread, SecondaryFits

LEMMA RunStarts ==
  ASSUME InputsTyped, NEW strategy \in Strategies, NEW mix, RunAllocator(strategy, mix)
  PROVE  RunInv'
<1>1. /\ run' = [strategy |-> strategy, mix |-> mix, phase |-> FirstPhase[strategy],
                 done |-> <<>>, looked |-> 0, cov |-> {}, got |-> <<>>]
      /\ hardware' = hardware /\ catalog' = catalog
  BY DEF RunAllocator
<1>2. /\ run'.strategy = strategy /\ run'.phase = FirstPhase[strategy] /\ run'.done = <<>>
      /\ run'.looked = 0 /\ run'.cov = {} /\ run'.got = <<>> /\ run'.mix = mix
  BY <1>1
<1>3. /\ FirstPhase[strategy] \in PhasesOf(strategy) /\ Len(run'.done) = 0 /\ DOMAIN run'.got = {}
      /\ ToSet(run'.done) = {} /\ IsFiniteSet({})
  BY <1>2, FS_EmptySet DEF Strategies, FirstPhase, PhasesOf, ToSet
<1>4. RunTyped'
  <2>1. run'.got = [i \in ToSet(run'.done) |-> run'.got[i]]
    BY <1>2, <1>3
  <2>2. run'.done \in Seq(DOMAIN hardware') /\ run'.looked \in 0..Len(run'.done)
    BY <1>2, <1>3
  <2> QED
    BY <1>1, <1>2, <1>3, <2>1, <2>2 DEF RunTyped
<1>5. OneTurn' /\ AllSound' /\ SecondsFit' /\ Spread'
  BY <1>3 DEF OneTurn, AllSound, SecondsFit, Spread
<1>6. CoveredIs'
  BY <1>2, <1>3 DEF CoveredIs, Covered
<1>7. Closed'
  <2>1. \A s : ~Past(s)'
    BY <1>2 DEF Past, FirstPhase, Strategies
  <2> QED
    BY <2>1 DEF Closed
<1> QED
  BY <1>4, <1>5, <1>6, <1>7 DEF RunInv

LEMMA AllocatorStep ==
  ASSUME AllocatorInv, [AllocatorNext]_allocatorVars
  PROVE  AllocatorInv'
<1>0. InputsTyped /\ AllocationComplete /\ DomainsSpread /\ SecondaryFits
  BY DEF AllocatorInv
<1>1. ASSUME NEW node \in Hardware, HeardOf(node)
      PROVE  AllocatorInv'
  <2>1. run' = Idle /\ allocation' = None /\ catalog' = catalog
    BY <1>1 DEF HeardOf
  <2>2. hardware' \in Seq(Hardware)
    BY <1>0, <1>1 DEF HeardOf, Put, InputsTyped
  <2> QED
    BY <1>0, <2>1, <2>2
       DEF AllocatorInv, InputsTyped, AllocationComplete, DomainsSpread, SecondaryFits
<1>2. ASSUME NEW card \in Cards, RegisterCatalog(card)
      PROVE  AllocatorInv'
  <2>1. run' = Idle /\ allocation' = None /\ hardware' = hardware
    BY <1>2 DEF RegisterCatalog
  <2>2. catalog' \in Seq(Cards)
    BY <1>0, <1>2 DEF RegisterCatalog, Put, InputsTyped
  <2> QED
    BY <1>0, <2>1, <2>2
       DEF AllocatorInv, InputsTyped, AllocationComplete, DomainsSpread, SecondaryFits
<1>3. ASSUME NEW strategy \in Strategies, NEW mix, RunAllocator(strategy, mix)
      PROVE  AllocatorInv'
  <2>1. RunInv'
    BY <1>0, <1>3, RunStarts
  <2>2. allocation' = None /\ hardware' = hardware /\ catalog' = catalog
    BY <1>3 DEF RunAllocator
  <2> QED
    BY <1>0, <2>1, <2>2
       DEF AllocatorInv, InputsTyped, AllocationComplete, DomainsSpread, SecondaryFits
<1>4. ASSUME AllocateCluster
      PROVE  AllocatorInv'
  <2>1. RunInv /\ allocation = None
    <3>1. run.phase \in Covering \cup {"seconds", "rest"}
      BY <1>4 DEF AllocateCluster, CoverNext, FillSecondary, PhaseEnds, FillRest
    <3>2. run # Idle
      BY <3>1 DEF Idle, Covering
    <3> QED
      BY <3>2 DEF AllocatorInv
  <2>2. hardware' = hardware /\ catalog' = catalog /\ allocation' = allocation
    BY <1>4 DEF AllocateCluster
  <2>3. RunInv'
    BY <1>0, <1>4, <2>1, <2>2, CoverKeeps, SecondKeeps, PhaseEndKeeps, RestKeeps
       DEF AllocateCluster
  <2> QED
    BY <1>0, <2>1, <2>2, <2>3
       DEF AllocatorInv, InputsTyped, AllocationComplete, DomainsSpread, SecondaryFits
<1>5. ASSUME RecordAllocation
      PROVE  AllocatorInv'
  <2>1. RunInv
    BY <1>5 DEF AllocatorInv, RecordAllocation, Idle
  <2>2. run' = Idle /\ hardware' = hardware /\ catalog' = catalog
    BY <1>5 DEF RecordAllocation
  <2> QED
    BY <1>0, <1>5, <2>1, <2>2, RecordKeeps DEF AllocatorInv, InputsTyped
<1>6. ASSUME UNCHANGED allocatorVars
      PROVE  AllocatorInv'
  <2>1. hardware' = hardware /\ catalog' = catalog /\ run' = run /\ allocation' = allocation
    BY <1>6 DEF allocatorVars
  <2>2. InputsTyped' /\ AllocationComplete' /\ DomainsSpread' /\ SecondaryFits'
    BY <1>0, <2>1 DEF InputsTyped, AllocationComplete, DomainsSpread, SecondaryFits
  <2>3. ASSUME RunInv
        PROVE  RunInv'
    <3>0. RunTyped /\ OneTurn /\ AllSound /\ CoveredIs /\ SecondsFit /\ Spread /\ Closed
      BY <2>3 DEF RunInv
    <3>1. RunTyped' /\ OneTurn' /\ CoveredIs' /\ SecondsFit'
      BY <2>1, <3>0 DEF RunTyped, OneTurn, CoveredIs, SecondsFit
    <3>2. AllSound'
      BY <2>1, <3>0 DEF AllSound, Sound
    <3>3. Spread'
      BY <2>1, <3>0 DEF Spread, Useful, Open, Essential
    <3>4. Closed'
      BY <2>1, <3>0 DEF Closed, Left, Open, Past
    <3> QED
      BY <3>1, <3>2, <3>3, <3>4 DEF RunInv
  <2> QED
    BY <2>1, <2>2, <2>3 DEF AllocatorInv
<1> QED
  BY <1>1, <1>2, <1>3, <1>4, <1>5, <1>6 DEF AllocatorNext, Strategies

LEMMA AllocatorAlways == AllocatorSpec => []AllocatorInv
  BY AllocatorStarts, AllocatorStep, PTL DEF AllocatorSpec

(* For any nodes, cards, traffic and strategy: every node gets a           *)
(* suggestion, one without a primary only where no card passes the hard    *)
(* filters, and nothing is suggested that fails them (allocator.py).       *)
THEOREM AllocationsAlwaysComplete == AllocatorSpec => []AllocationComplete
<1>1. AllocatorInv => AllocationComplete
  BY DEF AllocatorInv
<1> QED
  BY <1>1, AllocatorAlways, PTL

(* The greedy loops cover a domain again only where they must: among nodes *)
(* that could have covered one that nobody hosts, no two share the domain  *)
(* of their primaries, whatever the tiers, secondaries and replicas did.   *)
THEOREM DomainsAlwaysSpread == AllocatorSpec => []DomainsSpread
<1>1. AllocatorInv => DomainsSpread
  BY DEF AllocatorInv
<1> QED
  BY <1>1, AllocatorAlways, PTL

(* A second specialist fits beside the first, and serves a domain that no  *)
(* other second specialist of the cluster serves.                          *)
THEOREM SecondariesAlwaysFit == AllocatorSpec => []SecondaryFits
<1>1. AllocatorInv => SecondaryFits
  BY DEF AllocatorInv
<1> QED
  BY <1>1, AllocatorAlways, PTL
=============================================================================
