--------------------------- MODULE DecisionProofs ---------------------------
(***************************************************************************)
(* Decisions that sort and choose: which route serves a request, for any   *)
(* fleet, and which rows of a batch become the exam, for any batch.  Both  *)
(* rest on what a sorted set is: a list of all of its elements, each after *)
(* those that precede it.                                                  *)
(***************************************************************************)
EXTENDS MeshSelect, Curation, TLAPS, FiniteSetTheorems, WellFoundedInduction

-----------------------------------------------------------------------------
(* Sorted sets.                                                            *)

\* The relation puts the elements of the set in a row.
Orders(R, S) ==
  /\ \A x \in S : <<x, x>> \notin R
  /\ \A x, y \in S : x = y \/ <<x, y>> \in R \/ <<y, x>> \in R
  /\ \A x, y, z \in S : <<x, y>> \in R /\ <<y, z>> \in R => <<x, z>> \in R

Precede(R, S, x) == {y \in S : <<y, x>> \in R}

\* Who precedes another is preceded by fewer.
LEMMA FewerPrecede ==
  ASSUME NEW S, IsFiniteSet(S), NEW R, Orders(R, S), NEW x \in S
  PROVE  /\ IsFiniteSet(Precede(R, S, x))
         /\ Cardinality(Precede(R, S, x)) \in 0..(Cardinality(S) - 1)
         /\ \A y \in S : <<y, x>> \in R =>
              Cardinality(Precede(R, S, y)) < Cardinality(Precede(R, S, x))
<1>1. ASSUME NEW y \in S
      PROVE  /\ IsFiniteSet(Precede(R, S, y)) /\ Cardinality(Precede(R, S, y)) \in Nat
             /\ IsFiniteSet(Precede(R, S, y) \cup {y})
             /\ Cardinality(Precede(R, S, y) \cup {y}) = Cardinality(Precede(R, S, y)) + 1
  <2>1. Precede(R, S, y) \in SUBSET S /\ y \notin Precede(R, S, y)
    BY DEF Precede, Orders
  <2>2. IsFiniteSet(Precede(R, S, y))
    BY <2>1, FS_Subset
  <2> QED
    BY <2>1, <2>2, FS_AddElement, FS_CardinalityType
<1>2. Precede(R, S, x) \cup {x} \in SUBSET S
  BY DEF Precede
<1>3. Cardinality(Precede(R, S, x) \cup {x}) <= Cardinality(S) /\ Cardinality(S) \in Nat
  BY <1>2, FS_Subset, FS_CardinalityType
<1>4. ASSUME NEW y \in S, <<y, x>> \in R
      PROVE  Cardinality(Precede(R, S, y)) < Cardinality(Precede(R, S, x))
  <2>1. Precede(R, S, y) \cup {y} \in SUBSET Precede(R, S, x)
    BY <1>4 DEF Precede, Orders
  <2>2. Cardinality(Precede(R, S, y) \cup {y}) <= Cardinality(Precede(R, S, x))
    BY <2>1, <1>1, FS_Subset
  <2>3. \A a, b \in Nat : a + 1 <= b => a < b
    OBVIOUS
  <2> QED
    BY <2>2, <2>3, <1>1, Zenon
<1>5. Cardinality(Precede(R, S, x)) \in 0..(Cardinality(S) - 1)
  <2> DEFINE c == Cardinality(Precede(R, S, x))
             d == Cardinality(Precede(R, S, x) \cup {x})
             n == Cardinality(S)
  <2>1. c \in Nat /\ d = c + 1 /\ d <= n /\ n \in Nat
    BY <1>1, <1>3
  <2> HIDE DEF c, d, n
  <2>2. c \in 0..(n - 1)
    BY <2>1
  <2> QED
    BY <2>2 DEF c, n
<1> QED
  BY <1>1, <1>4, <1>5

\* A sorted set lists each of its elements, and each after those that precede it.
LEMMA SortedLists ==
  ASSUME NEW S, IsFiniteSet(S), NEW R, Orders(R, S)
  PROVE  /\ Cardinality(S) \in Nat
         /\ Sorted(S, R) \in [1..Cardinality(S) -> S]
         /\ \A x \in S : \E k \in 1..Cardinality(S) : Sorted(S, R)[k] = x
         /\ \A i, j \in 1..Cardinality(S) :
              i < j => <<Sorted(S, R)[i], Sorted(S, R)[j]>> \in R
<1> DEFINE n == Cardinality(S)
           rank == [x \in S |-> Cardinality(Precede(R, S, x))]
           s == Sorted(S, R)
<1>1. n \in Nat
  BY FS_CardinalityType
<1>2. rank \in [S -> 0..(n - 1)]
  BY FewerPrecede
<1>3. \A x, y \in S : <<y, x>> \in R => rank[y] < rank[x]
  BY FewerPrecede
<1> HIDE DEF rank, n
<1>4. \A x, y \in S : rank[x] = rank[y] => x = y
  <2> TAKE x, y \in S
  <2>1. rank[x] \in Int /\ rank[y] \in Int
    BY <1>1, <1>2
  <2>2. x = y \/ <<x, y>> \in R \/ <<y, x>> \in R
    BY DEF Orders
  <2>3. <<x, y>> \in R => rank[x] < rank[y]
    BY <1>3
  <2>4. <<y, x>> \in R => rank[y] < rank[x]
    BY <1>3
  <2> QED
    BY <2>1, <2>2, <2>3, <2>4
<1>5. IsFiniteSet(0..(n - 1)) /\ Cardinality(0..(n - 1)) = n
  <2>1. 0 \in Int /\ n - 1 \in Int
    BY <1>1
  <2>2. /\ IsFiniteSet(0..(n - 1))
        /\ Cardinality(0..(n - 1)) = IF 0 > n - 1 THEN 0 ELSE (n - 1) - 0 + 1
    BY <2>1, FS_Interval
  <2> QED
    BY <2>2, <1>1
<1>6. rank \in Surjection(S, 0..(n - 1))
  <2>1. rank \in Injection(S, 0..(n - 1))
    BY <1>2, <1>4 DEF Injection, IsInjective
  <2> QED
    BY <2>1, <1>5, FS_Injection DEF n
<1>7. \A i \in 0..(n - 1) : \E x \in S : rank[x] = i
  BY <1>6 DEF Surjection
<1>8. s = [k \in 1..n |-> CHOOSE x \in S : Cardinality(Precede(R, S, x)) = k - 1]
  BY DEF Sorted, n, Precede
<1>9. \A k \in 1..n : s[k] \in S /\ rank[s[k]] = k - 1
  <2> TAKE k \in 1..n
  <2>1. k - 1 \in 0..(n - 1)
    BY <1>1
  <2>2. \E x \in S : Cardinality(Precede(R, S, x)) = k - 1
    BY <2>1, <1>7 DEF rank
  <2>3. s[k] = CHOOSE x \in S : Cardinality(Precede(R, S, x)) = k - 1
    BY <1>8
  <2>4. s[k] \in S /\ Cardinality(Precede(R, S, s[k])) = k - 1
    BY <2>2, <2>3, Zenon
  <2> QED
    BY <2>4 DEF rank
<1>10. s \in [1..n -> S]
  BY <1>8, <1>9
<1>11. ASSUME NEW x \in S
       PROVE  \E k \in 1..n : s[k] = x
  <2>1. rank[x] + 1 \in 1..n /\ (rank[x] + 1) - 1 = rank[x]
    BY <1>1, <1>2
  <2>2. rank[s[rank[x] + 1]] = rank[x] /\ s[rank[x] + 1] \in S
    BY <2>1, <1>9
  <2> QED
    BY <2>1, <2>2, <1>4
<1>12. ASSUME NEW i \in 1..n, NEW j \in 1..n, i < j
       PROVE  <<s[i], s[j]>> \in R
  <2>1. s[i] \in S /\ s[j] \in S /\ rank[s[i]] = i - 1 /\ rank[s[j]] = j - 1
    BY <1>9
  <2>2. ~(rank[s[j]] < rank[s[i]]) /\ rank[s[i]] # rank[s[j]]
    BY <2>1, <1>12
  <2> QED
    BY <2>1, <2>2, <1>3 DEF Orders
<1> QED
  BY <1>1, <1>10, <1>11, <1>12 DEF n
-----------------------------------------------------------------------------
(* The order of the route table.                                           *)

LEMMA LeastNatural ==
  ASSUME NEW T \in SUBSET Nat, T # {}
  PROVE  \E m \in T : \A k \in T : m <= k
<1> DEFINE R == OpToRel(<, Nat)
<1>1. IsWellFoundedOn(R, Nat)
  BY NatLessThanWellFounded
<1>2. \A i, j \in Nat : i < j => <<i, j>> \in R
  BY DEF OpToRel
<1> HIDE DEF R
<1>3. PICK m \in T : \A k \in T : ~(<<k, m>> \in R)
  BY <1>1, WFMin
<1>4. \A k \in T : ~(k < m) /\ k \in Nat /\ m \in Nat
  BY <1>2, <1>3
<1> QED
  BY <1>4

Heartbeats == Reports \cup {[r EXCEPT !.healthy = FALSE] : r \in Reports}

SelectionTyped ==
  /\ beats \in Seq(Heartbeats)
  /\ observed \in [DOMAIN Profiles -> Scores \cup {NoReply, Missing}]
  /\ round \in Seq(DOMAIN Profiles)

LEMMA HeartbeatFields ==
  ASSUME SelectionAssumption, NEW b \in Heartbeats
  PROVE  /\ b.depth \in Nat /\ b.p95 \in Measure
         /\ Len(b.loaded) \in Nat /\ DOMAIN b.loaded = 1..Len(b.loaded)
<1>1. PICK r \in Reports : b = r \/ b = [r EXCEPT !.healthy = FALSE]
  BY DEF Heartbeats
<1>2. /\ r = [node |-> r.node, healthy |-> r.healthy, depth |-> r.depth, p95 |-> r.p95,
              loaded |-> r.loaded]
      /\ r.depth \in Nat /\ r.p95 \in Measure
      /\ r.loaded \in Seq(ToSet(r.loaded))
  BY DEF SelectionAssumption
<1>3. b.depth = r.depth /\ b.p95 = r.p95 /\ b.loaded = r.loaded
  BY <1>1, <1>2
<1>4. Len(r.loaded) \in Nat /\ DOMAIN r.loaded = 1..Len(r.loaded)
  BY <1>2
<1> QED
  BY <1>2, <1>3, <1>4

LEMMA BeatsAre ==
  ASSUME SelectionAssumption, SelectionTyped, NEW i \in DOMAIN beats
  PROVE  /\ i \in Nat /\ beats[i] \in Heartbeats
         /\ beats[i].depth \in Nat /\ beats[i].p95 \in Measure
         /\ DOMAIN beats[i].loaded \subseteq Nat
<1>1. beats[i] \in Heartbeats /\ i \in Nat
  BY DEF SelectionTyped
<1>2. /\ beats[i].depth \in Nat /\ beats[i].p95 \in Measure
      /\ Len(beats[i].loaded) \in Nat /\ DOMAIN beats[i].loaded = 1..Len(beats[i].loaded)
  BY <1>1, HeartbeatFields
<1> QED
  BY <1>1, <1>2

LEMMA PlacesAre ==
  ASSUME SelectionAssumption, SelectionTyped, NEW s
  PROVE  /\ \A p \in Places(s) :
              /\ p[1] \in DOMAIN beats /\ p[2] \in DOMAIN beats[p[1]].loaded
              /\ beats[p[1]].loaded[p[2]] = s
              /\ p[1] \in Nat /\ p[2] \in Nat /\ p = <<p[1], p[2]>>
         /\ \A i \in DOMAIN beats : \A j \in DOMAIN beats[i].loaded :
              beats[i].loaded[j] = s => <<i, j>> \in Places(s)
<1>1. ASSUME NEW p \in Places(s)
      PROVE  /\ p[1] \in DOMAIN beats /\ p[2] \in DOMAIN beats[p[1]].loaded
             /\ beats[p[1]].loaded[p[2]] = s
             /\ p = <<p[1], p[2]>>
  BY DEF Places
<1>2. \A p \in Places(s) : p[1] \in Nat /\ p[2] \in Nat
  BY <1>1, BeatsAre
<1>3. ASSUME NEW i \in DOMAIN beats, NEW j \in DOMAIN beats[i].loaded, beats[i].loaded[j] = s
      PROVE  <<i, j>> \in Places(s)
  BY <1>3 DEF Places
<1> QED
  BY <1>1, <1>2, <1>3

\* A specialist that is listed at all is listed somewhere first.
LEMMA FirstPlace ==
  ASSUME SelectionAssumption, SelectionTyped, NEW s, Places(s) # {}
  PROVE  \E p \in Places(s) : \A q \in Places(s) : q = p \/ Earlier(p, q)
<1> DEFINE I == {p[1] : p \in Places(s)}
<1>1. I \in SUBSET Nat /\ I # {}
  BY PlacesAre
<1>2. PICK i \in I : \A k \in I : i <= k
  BY <1>1, LeastNatural
<1> DEFINE J == {p[2] : p \in {q \in Places(s) : q[1] = i}}
<1>3. J \in SUBSET Nat /\ J # {}
  BY <1>2, PlacesAre
<1>4. PICK j \in J : \A k \in J : j <= k
  BY <1>3, LeastNatural
<1>5. PICK p \in Places(s) : p[1] = i /\ p[2] = j
  BY <1>4
<1>6. ASSUME NEW q \in Places(s)
      PROVE  q = p \/ Earlier(p, q)
  <2>1. /\ p = <<p[1], p[2]>> /\ q = <<q[1], q[2]>>
        /\ p[1] \in Nat /\ p[2] \in Nat /\ q[1] \in Nat /\ q[2] \in Nat
    BY PlacesAre
  <2>2. i <= q[1] /\ (q[1] = i => j <= q[2])
    BY <1>2, <1>4
  <2>3. CASE q[1] = i /\ q[2] = j
    BY <2>1, <2>3, <1>5
  <2>4. CASE q[1] # i \/ q[2] # j
    BY <2>1, <2>2, <2>4, <1>5 DEF Earlier
  <2> QED
    BY <2>3, <2>4
<1> QED
  BY <1>5, <1>6

LEMMA ListedInOrder ==
  ASSUME SelectionAssumption, SelectionTyped
  PROVE  /\ \A s : ~ListedBefore(s, s)
         /\ \A s, t, u : ListedBefore(s, t) /\ ListedBefore(t, u) => ListedBefore(s, u)
         /\ \A s, t : Places(s) # {} /\ Places(t) # {} =>
              s = t \/ ListedBefore(s, t) \/ ListedBefore(t, s)
<1>1. \A s : \A p \in Places(s) : p[1] \in Nat /\ p[2] \in Nat /\ p = <<p[1], p[2]>>
  BY PlacesAre
<1>2. ASSUME NEW s, ListedBefore(s, s)
      PROVE  FALSE
  <2>1. PICK p \in Places(s) : Earlier(p, p)
    BY <1>2 DEF ListedBefore
  <2> QED
    BY <2>1, <1>1 DEF Earlier
<1>3. ASSUME NEW s, NEW t, NEW u, ListedBefore(s, t), ListedBefore(t, u)
      PROVE  ListedBefore(s, u)
  <2>1. PICK p \in Places(s) : \A q \in Places(t) : Earlier(p, q)
    BY <1>3 DEF ListedBefore
  <2>2. PICK q \in Places(t) : \A r \in Places(u) : Earlier(q, r)
    BY <1>3 DEF ListedBefore
  <2>3. ASSUME NEW r \in Places(u)
        PROVE  Earlier(p, r)
    BY <2>1, <2>2, <1>1 DEF Earlier
  <2> QED
    BY <2>3 DEF ListedBefore
<1>4. ASSUME NEW s, NEW t, Places(s) # {}, Places(t) # {}, s # t
      PROVE  ListedBefore(s, t) \/ ListedBefore(t, s)
  <2>1. PICK p \in Places(s) : \A q \in Places(s) : q = p \/ Earlier(p, q)
    BY <1>4, FirstPlace
  <2>2. PICK q \in Places(t) : \A r \in Places(t) : r = q \/ Earlier(q, r)
    BY <1>4, FirstPlace
  <2>3. p # q
    BY <1>4, PlacesAre
  <2>4. Earlier(p, q) \/ Earlier(q, p)
    BY <2>3, <1>1 DEF Earlier
  <2>5. CASE Earlier(p, q)
    <3>1. ASSUME NEW r \in Places(t)
          PROVE  Earlier(p, r)
      BY <2>2, <2>5, <1>1 DEF Earlier
    <3> QED
      BY <3>1 DEF ListedBefore
  <2>6. CASE Earlier(q, p)
    <3>1. ASSUME NEW r \in Places(s)
          PROVE  Earlier(q, r)
      BY <2>1, <2>6, <1>1 DEF Earlier
    <3> QED
      BY <3>1 DEF ListedBefore
  <2> QED
    BY <2>4, <2>5, <2>6
<1> QED
  BY <1>2, <1>3, <1>4

LEMMA BindingsAre ==
  ASSUME SelectionAssumption, SelectionTyped, NEW b \in Bindings
  PROVE  /\ b = <<b[1], b[2]>> /\ b[1] \in Nat /\ b[1] \in DOMAIN beats /\ b[2] \in DOMAIN Profiles
         /\ beats[b[1]].healthy /\ b[2] \in ToSet(beats[b[1]].loaded)
         /\ Places(b[2]) # {}
         /\ Route(b).queue \in Nat /\ Route(b).p95 \in Measure
         /\ Known(Route(b).p95, 99999) \in Int
<1>1. /\ b = <<b[1], b[2]>> /\ b[1] \in DOMAIN beats /\ b[2] \in DOMAIN Profiles
      /\ beats[b[1]].healthy /\ b[2] \in ToSet(beats[b[1]].loaded)
  BY DEF Bindings
<1>2. b[1] \in Nat /\ beats[b[1]].depth \in Nat /\ beats[b[1]].p95 \in Measure
  BY <1>1, BeatsAre
<1>3. PICK j \in DOMAIN beats[b[1]].loaded : beats[b[1]].loaded[j] = b[2]
  BY <1>1 DEF ToSet
<1>4. Places(b[2]) # {}
  BY <1>1, <1>3, PlacesAre
<1>5. Route(b).queue = 500 * beats[b[1]].depth /\ Route(b).p95 = beats[b[1]].p95
  BY DEF Route
<1>6. Route(b).queue \in Nat /\ Route(b).p95 \in Measure
  BY <1>2, <1>5
<1>7. Known(Route(b).p95, 99999) \in Int
  BY <1>6 DEF Known, Measure, Missing
<1> QED
  BY <1>1, <1>2, <1>4, <1>6, <1>7

LEMMA TableInOrder ==
  ASSUME SelectionAssumption, SelectionTyped
  PROVE  /\ \A a \in Bindings : ~TableBefore(a, a)
         /\ \A a, b \in Bindings : a = b \/ TableBefore(a, b) \/ TableBefore(b, a)
         /\ \A a, b, c \in Bindings :
              TableBefore(a, b) /\ TableBefore(b, c) => TableBefore(a, c)
<1> DEFINE q(a) == Route(a).queue
           l(a) == Known(Route(a).p95, 99999)
           Within(a, b) == \/ q(a) < q(b)
                           \/ q(a) = q(b) /\ l(a) < l(b)
                           \/ q(a) = q(b) /\ l(a) = l(b) /\ a[1] < b[1]
<1>1. \A a \in Bindings :
        a = <<a[1], a[2]>> /\ a[1] \in Nat /\ Places(a[2]) # {} /\ q(a) \in Nat /\ l(a) \in Int
  BY BindingsAre
<1>2. ASSUME NEW a \in Bindings, NEW b \in Bindings
      PROVE  TableBefore(a, b) <=> ListedBefore(a[2], b[2]) \/ (a[2] = b[2] /\ Within(a, b))
  <2>1. q(a) \in Nat /\ q(b) \in Nat /\ l(a) \in Int /\ l(b) \in Int
    BY <1>1
  <2> QED
    BY <2>1 DEF TableBefore
<1> HIDE DEF q, l
<1>3. ASSUME NEW a \in Bindings
      PROVE  ~TableBefore(a, a)
  <2>1. ~Within(a, a)
    BY <1>1
  <2> QED
    BY <2>1, <1>2, ListedInOrder
<1>4. ASSUME NEW a \in Bindings, NEW b \in Bindings
      PROVE  a = b \/ TableBefore(a, b) \/ TableBefore(b, a)
  <2>1. CASE a[2] = b[2]
    <3>1. a[1] = b[1] => a = b
      BY <1>1, <2>1
    <3>2. Within(a, b) \/ Within(b, a) \/ a[1] = b[1]
      BY <1>1
    <3> HIDE DEF Within
    <3> QED
      BY <3>1, <3>2, <2>1, <1>2
  <2>2. CASE a[2] # b[2]
    BY <2>2, <1>1, <1>2, ListedInOrder
  <2> QED
    BY <2>1, <2>2
<1>5. ASSUME NEW a \in Bindings, NEW b \in Bindings, NEW c \in Bindings,
             TableBefore(a, b), TableBefore(b, c)
      PROVE  TableBefore(a, c)
  <2>1. Within(a, b) /\ Within(b, c) => Within(a, c)
    BY <1>1
  <2> HIDE DEF Within
  <2>2. /\ ListedBefore(a[2], b[2]) \/ (a[2] = b[2] /\ Within(a, b))
        /\ ListedBefore(b[2], c[2]) \/ (b[2] = c[2] /\ Within(b, c))
    BY <1>2, <1>5
  <2>3. ListedBefore(a[2], b[2]) /\ ListedBefore(b[2], c[2]) => ListedBefore(a[2], c[2])
    BY ListedInOrder
  <2>4. ListedBefore(a[2], c[2]) \/ (a[2] = c[2] /\ Within(a, c))
    BY <2>1, <2>2, <2>3
  <2> QED
    BY <2>4, <1>2
<1> QED
  BY <1>3, <1>4, <1>5

LEMMA BindingsFinite ==
  ASSUME SelectionAssumption, SelectionTyped, NEW S \in SUBSET Bindings
  PROVE  IsFiniteSet(S)
<1>1. Len(beats) \in Nat /\ DOMAIN beats = 1..Len(beats)
  BY DEF SelectionTyped
<1>2. 1 \in Int /\ Len(beats) \in Int
  BY <1>1
<1>3. IsFiniteSet(DOMAIN beats)
  BY <1>1, <1>2, FS_Interval
<1>4. IsFiniteSet((DOMAIN beats) \X (DOMAIN Profiles))
  BY <1>3, FS_Product DEF SelectionAssumption
<1>5. S \in SUBSET ((DOMAIN beats) \X (DOMAIN Profiles))
  BY DEF Bindings
<1> QED
  BY <1>4, <1>5, FS_Subset

\* A chain holds the routes of the bindings it is made from, the best first.
LEMMA ChainOf ==
  ASSUME SelectionAssumption, SelectionTyped, NEW S \in SUBSET Bindings,
         NEW value \in [S -> Int]
  PROVE  /\ RoutesOf(S, value) \in Seq({Route(b) : b \in S})
         /\ S # {} => /\ Len(RoutesOf(S, value)) >= 1
                      /\ \E b \in S : /\ RoutesOf(S, value)[1] = Route(b)
                                       /\ \A c \in S : value[c] <= value[b]
<1> DEFINE R == Better(S, value)
           n == Cardinality(S)
           order == Sorted(S, R)
<1>1. \A a, b \in S : <<a, b>> \in R <=>
        value[a] > value[b] \/ (value[a] = value[b] /\ TableBefore(a, b))
  BY DEF Better
<1>2. IsFiniteSet(S)
  BY BindingsFinite
<1>3. Orders(R, S)
  <2> HIDE DEF R
  <2>1. \A x \in S : <<x, x>> \notin R
    BY <1>1, TableInOrder
  <2>2. ASSUME NEW x \in S, NEW y \in S
        PROVE  x = y \/ <<x, y>> \in R \/ <<y, x>> \in R
    <3>1. value[x] \in Int /\ value[y] \in Int
      OBVIOUS
    <3>2. x = y \/ TableBefore(x, y) \/ TableBefore(y, x)
      BY TableInOrder
    <3>3. value[x] > value[y] \/ value[y] > value[x] \/ value[x] = value[y]
      BY <3>1
    <3> QED
      BY <3>2, <3>3, <1>1
  <2>3. \A x, y, z \in S : <<x, y>> \in R /\ <<y, z>> \in R => <<x, z>> \in R
    BY <1>1, TableInOrder
  <2> QED
    BY <2>1, <2>2, <2>3 DEF Orders
<1>4. /\ n \in Nat /\ order \in [1..n -> S]
      /\ \A x \in S : \E k \in 1..n : order[k] = x
      /\ \A i, j \in 1..n : i < j => <<order[i], order[j]>> \in R
  <2> HIDE DEF R
  <2> QED
    BY <1>2, <1>3, SortedLists
<1>5. RoutesOf(S, value) = [k \in 1..n |-> Route(order[k])]
  <2>1. DOMAIN order = 1..n
    BY <1>4
  <2> QED
    BY <2>1 DEF RoutesOf
<1> HIDE DEF R, order, n
<1>6. RoutesOf(S, value) \in Seq({Route(b) : b \in S}) /\ Len(RoutesOf(S, value)) = n
  <2>1. RoutesOf(S, value) \in [1..n -> {Route(b) : b \in S}]
    BY <1>4, <1>5
  <2> QED
    BY <2>1, <1>4
<1>7. ASSUME S # {}
      PROVE  /\ n >= 1
             /\ \E b \in S : /\ RoutesOf(S, value)[1] = Route(b)
                             /\ \A c \in S : value[c] <= value[b]
  <2>1. n >= 1 /\ 1 \in 1..n
    BY <1>7, <1>4
  <2>2. order[1] \in S /\ RoutesOf(S, value)[1] = Route(order[1])
    BY <2>1, <1>4, <1>5
  <2>3. ASSUME NEW c \in S
        PROVE  value[c] <= value[order[1]]
    <3>1. PICK k \in 1..n : order[k] = c
      BY <1>4
    <3>2. k = 1 \/ 1 < k
      BY <3>1, <1>4
    <3>3. c = order[1] \/ <<order[1], c>> \in R
      BY <3>1, <3>2, <2>1, <1>4
    <3>4. value[c] \in Int /\ value[order[1]] \in Int
      BY <2>2
    <3> QED
      BY <3>3, <3>4, <2>2, <1>1
  <2> QED
    BY <2>1, <2>2, <2>3
<1> QED
  BY <1>6, <1>7

-----------------------------------------------------------------------------
(* The chain of a request.                                                 *)

LEMMA CandidatesAre ==
  ASSUME NEW domain, NEW difficulty
  PROVE  /\ CandidateRoutes(domain, difficulty) \subseteq Bindings
         /\ RankedRoutes(domain, difficulty) # {} =>
              CandidateRoutes(domain, difficulty) = RankedRoutes(domain, difficulty)
<1>1. \A d, t : RankedRoutes(d, t) \subseteq Bindings
  BY DEF RankedRoutes
<1> QED
  BY <1>1 DEF CandidateRoutes, Else

LEMMA ClampedIs ==
  ASSUME SelectionAssumption, NEW client \in Prefs \ {NoPref}, NEW ceiling \in Ceilings
  PROVE  LET pref == Clamp(client, ceiling)
         IN /\ pref.max_p95 \in Measure /\ pref.quality_weight \in Weight
            /\ pref.min_context = client.min_context
            /\ pref.capabilities = client.capabilities
            /\ \A top \in {client.max_p95, ceiling.max_p95} \ {Missing} :
                 pref.max_p95 # Missing /\ pref.max_p95 <= top
<1>1. /\ client = [max_p95 |-> client.max_p95, quality_weight |-> client.quality_weight,
                   capabilities |-> client.capabilities, min_context |-> client.min_context,
                   allow_fallbacks |-> client.allow_fallbacks]
      /\ client.max_p95 \in Measure /\ client.quality_weight \in Weight
      /\ ceiling.max_p95 \in Measure /\ ceiling.quality_weight_min \in Weight
  BY DEF SelectionAssumption
<1> DEFINE pref == Clamp(client, ceiling)
<1>2. /\ pref.max_p95 = Lower(client.max_p95, ceiling.max_p95)
      /\ pref.quality_weight = Higher(client.quality_weight, ceiling.quality_weight_min)
      /\ pref.min_context = client.min_context
      /\ pref.capabilities = client.capabilities
  BY <1>1 DEF Clamp
<1>3. Lower(client.max_p95, ceiling.max_p95) \in Measure
  BY <1>1 DEF Lower
<1>4. Higher(client.quality_weight, ceiling.quality_weight_min) \in Weight
  BY <1>1 DEF Higher
<1>5. \A top \in {client.max_p95, ceiling.max_p95} \ {Missing} :
        /\ Lower(client.max_p95, ceiling.max_p95) # Missing
        /\ Lower(client.max_p95, ceiling.max_p95) <= top
  BY <1>1 DEF Lower, Measure, Missing
<1> QED
  BY <1>2, <1>3, <1>4, <1>5

\* What may be in the chain, and how it is ranked.
Passing(request, client, ceiling) ==
  IF client = NoPref
    THEN {b \in CandidateRoutes(request.domain, request.difficulty) :
            WithinBudget(Route(b), request.class)}
    ELSE {b \in CandidateRoutes(request.domain, request.difficulty) :
            WithinBudget(Route(b), request.class) /\ Meets(Route(b), Clamp(client, ceiling))}

Worth(b, request, client, ceiling) ==
  IF client = NoPref THEN -RouteCost(Route(b), request.class)
  ELSE PrefScore(Route(b), Clamp(client, ceiling))

LEMMA QualityIs ==
  ASSUME SelectionAssumption, SelectionTyped, NEW s \in DOMAIN Profiles
  PROVE  QualityNorm(s) \in Int
<1>1. observed[s] \in Int
  <2>1. Scores \subseteq 0..20
    BY DEF SelectionAssumption
  <2>2. observed[s] \in Scores \cup {NoReply, Missing}
    BY DEF SelectionTyped
  <2>3. \A score \in Scores : score \in Int
    BY <2>1
  <2>4. NoReply \in Int /\ Missing \in Int
    BY DEF NoReply, Missing
  <2> QED
    BY <2>2, <2>3, <2>4
<1>2. Profiles[s].reported \in Measure
  BY DEF SelectionAssumption
<1>3. Profiles[s].reported \div 2 \in Int
  BY <1>2 DEF Measure, Missing
<1>4. EffectiveQuality(s) \in Int
  BY <1>1, <1>3 DEF EffectiveQuality
<1> QED
  BY <1>4 DEF QualityNorm

LEMMA CostIs ==
  ASSUME SelectionAssumption, SelectionTyped, NEW b \in Bindings, NEW class
  PROVE  RouteCost(Route(b), class) \in Int
<1>1. Route(b).queue \in Nat /\ Route(b).p95 \in Measure
  BY BindingsAre
<1>2. Known(Route(b).p95, 500) \in Int
  BY <1>1 DEF Known, Measure, Missing
<1>3. Route(b).queue \div 2 \in Int
  BY <1>1
<1> DEFINE q == Route(b).queue
           p == Known(Route(b).p95, 500)
           h == Route(b).queue \div 2
<1>4. RouteCost(Route(b), class) \in {2 * q + 10 * p, h + 2 * p, q + 4 * p}
  <2> HIDE DEF Route
  <2> QED
    BY DEF RouteCost
<1>5. q \in Int /\ p \in Int /\ h \in Int
  BY <1>1, <1>2, <1>3
<1> HIDE DEF q, p, h
<1>6. 2 * q + 10 * p \in Int /\ h + 2 * p \in Int /\ q + 4 * p \in Int
  BY <1>5
<1> QED
  BY <1>4, <1>6

LEMMA WorthIs ==
  ASSUME SelectionAssumption, SelectionTyped, NEW b \in Bindings, NEW request,
         NEW client \in Prefs, NEW ceiling \in Ceilings
  PROVE  Worth(b, request, client, ceiling) \in Int
<1>1. CASE client = NoPref
  <2>1. RouteCost(Route(b), request.class) \in Int
    BY CostIs
  <2>2. -RouteCost(Route(b), request.class) \in Int
    BY <2>1
  <2> QED
    BY <1>1, <2>2 DEF Worth
<1>2. CASE client # NoPref
  <2> DEFINE pref == Clamp(client, ceiling)
  <2>1. pref.quality_weight \in Weight
    BY <1>2, ClampedIs
  <2>2. Route(b).p95 \in Measure /\ Route(b).spec = b[2] /\ b[2] \in DOMAIN Profiles
    BY BindingsAre DEF Route
  <2>3. QualityNorm(Route(b).spec) \in Int
    BY <2>2, QualityIs
  <2> DEFINE w == IF pref.quality_weight = Missing THEN 2 ELSE pref.quality_weight
             over == (IF Route(b).p95 = Missing THEN 800 ELSE Route(b).p95) - 200
             late == IF over < 0 THEN 0 ELSE IF over > 2700 THEN 2700 ELSE over
  <2>4. w \in 0..4
    BY <2>1 DEF Weight, Missing
  <2>5. over \in Int
    BY <2>2 DEF Measure, Missing
  <2>6. late \in Int
    BY <2>5
  <2>7. PrefScore(Route(b), pref) = w * 150 * QualityNorm(Route(b).spec) + (4 - w) * (3000 - late)
    BY DEF PrefScore
  <2> HIDE DEF w, over, late, pref
  <2>8. PrefScore(Route(b), pref) \in Int
    BY <2>3, <2>4, <2>6, <2>7
  <2> QED
    BY <1>2, <2>8 DEF Worth, pref
<1> QED
  BY <1>1, <1>2

\* A chain of the routes of bindings P and the cloud that starts with the worthiest, if any.
ChainFrom(chosen, P, request, client, ceiling) ==
  /\ \A route \in ToSet(chosen) : route = Cloud \/ \E b \in P : route = Route(b)
  /\ P # {} => \E b \in P :
       /\ chosen[1] = Route(b)
       /\ \A c \in P :
            Worth(c, request, client, ceiling) <= Worth(b, request, client, ceiling)

LEMMA ChosenFrom ==
  ASSUME SelectionAssumption, SelectionTyped, NEW request,
         NEW client \in Prefs, NEW ceiling \in Ceilings
  PROVE  ChainFrom(SelectMeshRouteWithPref(request, client, ceiling),
                   Passing(request, client, ceiling), request, client, ceiling)
<1> DEFINE P == Passing(request, client, ceiling)
           value == [b \in P |-> Worth(b, request, client, ceiling)]
           routes == RoutesOf(P, value)
           chosen == SelectMeshRouteWithPref(request, client, ceiling)
<1>1. P \in SUBSET Bindings
  BY CandidatesAre DEF Passing
<1>2. value \in [P -> Int]
  BY <1>1, WorthIs
<1>3. /\ routes \in Seq({Route(b) : b \in P})
      /\ P # {} => /\ Len(routes) >= 1
                   /\ \E b \in P : routes[1] = Route(b) /\ \A c \in P : value[c] <= value[b]
  <2> HIDE DEF P, value
  <2> QED
    BY <1>1, <1>2, ChainOf
<1>4. chosen = Append(routes, Cloud) \/ chosen = routes
  <2>1. CASE client = NoPref
    <3>1. /\ P = {b \in CandidateRoutes(request.domain, request.difficulty) :
                   WithinBudget(Route(b), request.class)}
          /\ value = [b \in P |-> -RouteCost(Route(b), request.class)]
      BY <2>1 DEF Passing, Worth
    <3> QED
      BY <2>1, <3>1 DEF SelectMeshRouteWithPref, SelectMeshRoute
  <2>2. CASE client # NoPref
    <3>1. /\ P = {b \in CandidateRoutes(request.domain, request.difficulty) :
                   WithinBudget(Route(b), request.class) /\ Meets(Route(b), Clamp(client, ceiling))}
          /\ value = [b \in P |-> PrefScore(Route(b), Clamp(client, ceiling))]
      BY <2>2 DEF Passing, Worth
    <3> QED
      BY <2>2, <3>1 DEF SelectMeshRouteWithPref
  <2> QED
    BY <2>1, <2>2
<1> HIDE DEF routes, chosen
<1>5. \A route \in ToSet(chosen) : route = Cloud \/ \E b \in P : route = Route(b)
  <2>1. Len(routes) \in Nat /\ \A i \in 1..Len(routes) : \E b \in P : routes[i] = Route(b)
    BY <1>3
  <2>2. \A i \in DOMAIN Append(routes, Cloud) :
          Append(routes, Cloud)[i] = Cloud \/ (i \in 1..Len(routes) /\ Append(routes, Cloud)[i] = routes[i])
    <3>1. /\ DOMAIN Append(routes, Cloud) = 1..(Len(routes) + 1)
          /\ Append(routes, Cloud)[Len(routes) + 1] = Cloud
          /\ \A i \in 1..Len(routes) : Append(routes, Cloud)[i] = routes[i]
      BY <1>3
    <3>2. \A i \in 1..(Len(routes) + 1) : i = Len(routes) + 1 \/ i \in 1..Len(routes)
      BY <2>1
    <3> QED
      BY <3>1, <3>2
  <2>3. DOMAIN routes = 1..Len(routes)
    BY <1>3
  <2> QED
    BY <1>4, <2>1, <2>2, <2>3 DEF ToSet
<1>6. P # {} => chosen[1] = routes[1]
  BY <1>3, <1>4
<1>7. P # {} => \E b \in P :
        /\ chosen[1] = Route(b)
        /\ \A c \in P : Worth(c, request, client, ceiling) <= Worth(b, request, client, ceiling)
  BY <1>3, <1>6
<1> QED
  BY <1>5, <1>7 DEF chosen, ChainFrom

LEMMA TypedKeepsCeilings == SelectionAssumption /\ SelectionTyped => ChainWithinCeilings
<1> SUFFICES ASSUME SelectionAssumption, SelectionTyped,
                    NEW request \in Requests, NEW client \in Prefs, NEW ceiling \in Ceilings,
                    NEW route \in
                      ToSet(SelectMeshRouteWithPref(request, client, ceiling)) \ {Cloud}
             PROVE  LET card == Profiles[route.spec]
                        tops == {MaxOf(request.class)} \cup
                                (IF client = NoPref THEN {}
                                 ELSE {client.max_p95, ceiling.max_p95})
                    IN /\ \E b \in ToSet(beats) :
                            /\ b.healthy /\ b.node = route.node
                            /\ route.spec \in ToSet(b.loaded) /\ b.depth <= 4
                       /\ \A top \in tops \ {Missing} : route.p95 <= top
                       /\ client # NoPref =>
                            /\ client.capabilities \subseteq card.capabilities
                            /\ card.context >= client.min_context
  BY DEF ChainWithinCeilings
<1>0. \A r \in ToSet(SelectMeshRouteWithPref(request, client, ceiling)) :
        r = Cloud \/ \E b \in Passing(request, client, ceiling) : r = Route(b)
  <2>1. ChainFrom(SelectMeshRouteWithPref(request, client, ceiling),
                  Passing(request, client, ceiling), request, client, ceiling)
    BY ChosenFrom
  <2> QED
    BY <2>1, Zenon DEF ChainFrom
<1>1. PICK a \in Passing(request, client, ceiling) : route = Route(a)
  BY <1>0
<1>2. /\ a \in Bindings /\ WithinBudget(route, request.class)
      /\ client # NoPref => Meets(route, Clamp(client, ceiling))
  BY <1>1, CandidatesAre DEF Passing
<1> DEFINE beat == beats[a[1]]
<1>3. /\ beat \in ToSet(beats) /\ beat.healthy /\ a[2] \in ToSet(beat.loaded)
      /\ beat.depth \in Nat /\ route.p95 \in Measure
  <2>1. /\ a[1] \in DOMAIN beats /\ beat.healthy /\ a[2] \in ToSet(beat.loaded)
        /\ route.p95 \in Measure
    BY <1>1, <1>2, BindingsAre
  <2>2. beat \in ToSet(beats)
    BY <2>1 DEF ToSet
  <2>3. beat.depth \in Nat
    BY <2>1, BeatsAre
  <2> QED
    BY <2>1, <2>2, <2>3
<1>4. /\ route.node = beat.node /\ route.spec = a[2]
      /\ route.queue = 500 * beat.depth
  BY <1>1 DEF Route
<1>5. beat.depth <= 4
  BY <1>2, <1>3, <1>4 DEF WithinBudget, MaxQueueMs
<1>6. MaxOf(request.class) # Missing => route.p95 <= MaxOf(request.class)
  BY <1>2 DEF WithinBudget
<1>7. ASSUME client # NoPref
      PROVE  /\ \A top \in {client.max_p95, ceiling.max_p95} \ {Missing} : route.p95 <= top
             /\ client.capabilities \subseteq Profiles[route.spec].capabilities
             /\ Profiles[route.spec].context >= client.min_context
  <2> DEFINE pref == Clamp(client, ceiling)
  <2>1. /\ pref.max_p95 \in Measure
        /\ pref.min_context = client.min_context /\ pref.capabilities = client.capabilities
        /\ \A top \in {client.max_p95, ceiling.max_p95} \ {Missing} :
             pref.max_p95 # Missing /\ pref.max_p95 <= top
    BY <1>7, ClampedIs
  <2> HIDE DEF pref
  <2>2. Meets(route, pref)
    BY <1>2, <1>7 DEF pref
  <2>3. client.max_p95 \in Measure /\ ceiling.max_p95 \in Measure
    BY <1>7 DEF SelectionAssumption
  <2>4. ASSUME NEW top \in {client.max_p95, ceiling.max_p95} \ {Missing}
        PROVE  route.p95 <= top
    <3>1. pref.max_p95 # Missing /\ pref.max_p95 <= top
      BY <2>1
    <3>2. route.p95 <= pref.max_p95
      BY <2>2, <3>1 DEF Meets
    <3>3. top \in Int /\ pref.max_p95 \in Int /\ route.p95 \in Int
      BY <2>1, <2>3, <1>3 DEF Measure, Missing
    <3> QED
      BY <3>1, <3>2, <3>3
  <2> QED
    BY <2>1, <2>2, <2>4 DEF Meets
<1>8. \E b \in ToSet(beats) :
        /\ b.healthy /\ b.node = route.node
        /\ route.spec \in ToSet(b.loaded) /\ b.depth <= 4
  BY <1>3, <1>4, <1>5
<1> QED
  BY <1>6, <1>7, <1>8

LateBy(p95) ==
  IF p95 - 200 < 0 THEN 0 ELSE IF p95 - 200 > 2700 THEN 2700 ELSE p95 - 200

ScoreFrom(w, quality, p95) == w * 150 * quality + (4 - w) * (3000 - LateBy(p95))

LEMMA BetterScores ==
  ASSUME NEW w \in 0..4, NEW x \in Nat, NEW y \in Nat, NEW p \in Int, NEW q \in Int,
         x < y, p > q, w = 0 => ToldApart(y)
  PROVE  ScoreFrom(w, p, x) > ScoreFrom(w, q, y)
<1>1. /\ LateBy(x) \in Int /\ LateBy(y) \in Int /\ LateBy(x) <= LateBy(y)
      /\ w = 0 => LateBy(x) < LateBy(y)
  BY DEF LateBy, ToldApart
<1>2. w = 0 \/ w = 1 \/ w = 2 \/ w = 3 \/ w = 4
  OBVIOUS
<1>3. p >= q + 1
  OBVIOUS
<1>4. CASE w = 0
  BY <1>1, <1>4 DEF ScoreFrom
<1>5. CASE w = 1
  BY <1>1, <1>3, <1>5 DEF ScoreFrom
<1>6. CASE w = 2
  BY <1>1, <1>3, <1>6 DEF ScoreFrom
<1>7. CASE w = 3
  BY <1>1, <1>3, <1>7 DEF ScoreFrom
<1>8. CASE w = 4
  BY <1>1, <1>3, <1>8 DEF ScoreFrom
<1> QED
  BY <1>2, <1>4, <1>5, <1>6, <1>7, <1>8

\* What is better on every axis is worth more.
LEMMA BetterIsWorthMore ==
  ASSUME SelectionAssumption, SelectionTyped, NEW request,
         NEW client \in Prefs, NEW ceiling \in Ceilings, NEW a \in Bindings, NEW b \in Bindings,
         0 < Route(a).p95, Route(a).p95 < Route(b).p95, Route(a).queue <= Route(b).queue,
         QualityNorm(Route(a).spec) > QualityNorm(Route(b).spec),
         client # NoPref /\ Clamp(client, ceiling).quality_weight = 0 =>
           ToldApart(Route(b).p95)
  PROVE  Worth(a, request, client, ceiling) > Worth(b, request, client, ceiling)
<1> DEFINE ra == Route(a)
           rb == Route(b)
<1>1. /\ ra.queue \in Nat /\ ra.p95 \in Measure /\ rb.queue \in Nat /\ rb.p95 \in Measure
      /\ ra.spec \in DOMAIN Profiles /\ rb.spec \in DOMAIN Profiles
  BY BindingsAre DEF Route
<1>2. QualityNorm(ra.spec) \in Int /\ QualityNorm(rb.spec) \in Int
  BY <1>1, QualityIs
<1> HIDE DEF ra, rb
<1>3. /\ 0 < ra.p95 /\ ra.p95 < rb.p95 /\ ra.queue <= rb.queue
      /\ QualityNorm(ra.spec) > QualityNorm(rb.spec)
      /\ client # NoPref /\ Clamp(client, ceiling).quality_weight = 0 => ToldApart(rb.p95)
  BY DEF ra, rb
<1>4. ra.p95 \in Nat /\ rb.p95 \in Nat /\ ra.p95 # 0 /\ rb.p95 # 0
  BY <1>1, <1>3 DEF Measure, Missing
<1>5. CASE client = NoPref
  <2>1. Known(ra.p95, 500) = ra.p95 /\ Known(rb.p95, 500) = rb.p95
    BY <1>4 DEF Known, Missing
  <2>2. ra.queue \div 2 <= rb.queue \div 2 /\ ra.queue \div 2 \in Int /\ rb.queue \div 2 \in Int
    BY <1>1, <1>3
  <2>3. RouteCost(ra, request.class) < RouteCost(rb, request.class)
    <3>1. CASE request.class = "hot_interactive"
      BY <3>1, <2>1, <1>1, <1>3, <1>4 DEF RouteCost
    <3>2. CASE request.class = "batch"
      BY <3>2, <2>1, <2>2, <1>4, <1>3 DEF RouteCost
    <3>3. CASE request.class \notin {"hot_interactive", "batch"}
      BY <3>3, <2>1, <1>1, <1>3, <1>4 DEF RouteCost
    <3> QED
      BY <3>1, <3>2, <3>3
  <2>4. RouteCost(ra, request.class) \in Int /\ RouteCost(rb, request.class) \in Int
    BY CostIs DEF ra, rb
  <2>5. -RouteCost(ra, request.class) > -RouteCost(rb, request.class)
    BY <2>3, <2>4
  <2> QED
    BY <1>5, <2>5 DEF Worth, ra, rb
<1>6. CASE client # NoPref
  <2> DEFINE pref == Clamp(client, ceiling)
             w == IF pref.quality_weight = Missing THEN 2 ELSE pref.quality_weight
             qa == QualityNorm(ra.spec)
             qb == QualityNorm(rb.spec)
  <2>1. pref.quality_weight \in Weight
    BY <1>6, ClampedIs
  <2>2. w \in 0..4 /\ (w = 0 => pref.quality_weight = 0)
    BY <2>1 DEF Weight, Missing
  <2>3. ra.p95 # Missing /\ rb.p95 # Missing
    BY <1>4 DEF Missing
  <2>4. /\ PrefScore(ra, pref) = ScoreFrom(w, qa, ra.p95)
        /\ PrefScore(rb, pref) = ScoreFrom(w, qb, rb.p95)
    BY <2>3 DEF PrefScore, LateBy, ScoreFrom
  <2>5. w = 0 => ToldApart(rb.p95)
    BY <1>3, <1>6, <2>2
  <2>6. qa \in Int /\ qb \in Int /\ qa > qb
    BY <1>2, <1>3
  <2> HIDE DEF w, qa, qb, pref
  <2>7. ScoreFrom(w, qa, ra.p95) > ScoreFrom(w, qb, rb.p95)
    BY <1>3, <1>4, <2>2, <2>5, <2>6, BetterScores, Zenon
  <2>8. PrefScore(ra, pref) > PrefScore(rb, pref)
    BY <2>4, <2>7, Zenon
  <2> QED
    BY <1>6, <2>8 DEF Worth, ra, rb, pref
<1> QED
  BY <1>5, <1>6

LEMMA TypedServesBest == SelectionAssumption /\ SelectionTyped => BestServes
<1> SUFFICES ASSUME SelectionAssumption, SelectionTyped,
                    NEW request \in Requests, NEW client \in Prefs, NEW ceiling \in Ceilings
             PROVE
    LET pref == IF client = NoPref THEN NoPref ELSE Clamp(client, ceiling)
        winner == SelectMeshRouteWithPref(request, client, ceiling)[1]
    IN Able(request, pref) # {} =>
         /\ winner # Cloud /\ Serves(winner.spec, request)
         /\ \A r \in Able(request, pref) : ~Dominates(r, winner, pref)
  BY DEF BestServes
<1> DEFINE pref == IF client = NoPref THEN NoPref ELSE Clamp(client, ceiling)
           able == Able(request, pref)
           P == Passing(request, client, ceiling)
           winner == SelectMeshRouteWithPref(request, client, ceiling)[1]
           Like(b, r) ==
             Route(b).spec = r.spec /\ Route(b).queue = r.queue /\ Route(b).p95 = r.p95
<1>1. client # NoPref => pref # NoPref
  <2>1. ASSUME client # NoPref
        PROVE  Clamp(client, ceiling) # NoPref
    <3>1. /\ client = [max_p95 |-> client.max_p95, quality_weight |-> client.quality_weight,
                       capabilities |-> client.capabilities, min_context |-> client.min_context,
                       allow_fallbacks |-> client.allow_fallbacks]
      BY <2>1 DEF SelectionAssumption
    <3>2. "max_p95" \in DOMAIN Clamp(client, ceiling)
      BY <3>1 DEF Clamp
    <3>3. "max_p95" \notin DOMAIN NoPref
      BY DEF NoPref
    <3> QED
      BY <3>2, <3>3
  <2> QED
    BY <2>1
<1>2. ASSUME NEW r \in able
      PROVE  \E b \in P : b \in RankedRoutes(request.domain, request.difficulty) /\ Like(b, r)
  <2>0. PICK c \in ToSet(beats) : c.healthy /\ \E s \in ToSet(c.loaded) :
          r = [spec |-> s, queue |-> 500 * c.depth, p95 |-> c.p95]
    BY DEF Able, Offered
  <2>1. PICK s \in ToSet(c.loaded) :
          c.healthy /\ r = [spec |-> s, queue |-> 500 * c.depth, p95 |-> c.p95]
    BY <2>0
  <2>2. PICK i \in DOMAIN beats : c = beats[i]
    BY DEF ToSet
  <2>3. r.spec = s /\ r.queue = 500 * c.depth /\ r.p95 = c.p95 /\ Serves(s, request)
    BY <2>1 DEF Able
  <2> DEFINE b == <<i, s>>
  <2>4. b \in Bindings /\ b[1] = i /\ b[2] = s
    BY <2>1, <2>2, <2>3 DEF Bindings, Serves
  <2>5. Like(b, r)
    BY <2>2, <2>3, <2>4 DEF Route
  <2>6. b \in RankedRoutes(request.domain, request.difficulty)
    BY <2>3, <2>4 DEF RankedRoutes, Serves
  <2>7. b \in CandidateRoutes(request.domain, request.difficulty)
    BY <2>6, CandidatesAre
  <2>8. WithinBudget(Route(b), request.class)
    <3>1. WithinBudget(r, request.class)
      BY DEF Able
    <3> QED
      BY <3>1, <2>5 DEF WithinBudget
  <2>9. client # NoPref => Meets(Route(b), Clamp(client, ceiling))
    <3>1. client # NoPref => Meets(r, Clamp(client, ceiling))
      BY <1>1 DEF Able
    <3> QED
      BY <3>1, <2>5 DEF Meets
  <2>10. b \in P
    BY <2>7, <2>8, <2>9 DEF Passing
  <2> QED
    BY <2>5, <2>6, <2>10
<1>3. P \subseteq CandidateRoutes(request.domain, request.difficulty)
  BY DEF Passing
<1>4. P \subseteq Bindings
  BY <1>3, CandidatesAre
<1>5. P # {} => \E b \in P :
        /\ winner = Route(b)
        /\ \A c \in P : Worth(c, request, client, ceiling) <= Worth(b, request, client, ceiling)
  BY ChosenFrom DEF ChainFrom
<1> HIDE DEF P
<1> SUFFICES ASSUME able # {}
             PROVE  /\ winner # Cloud /\ Serves(winner.spec, request)
                    /\ \A r \in able : ~Dominates(r, winner, pref)
  OBVIOUS
<1>6. P # {} /\ RankedRoutes(request.domain, request.difficulty) # {}
  BY <1>2
<1>7. PICK b \in P :
        /\ winner = Route(b)
        /\ \A c \in P : Worth(c, request, client, ceiling) <= Worth(b, request, client, ceiling)
  BY <1>5, <1>6
<1>8. b \in RankedRoutes(request.domain, request.difficulty) /\ b \in Bindings
  BY <1>3, <1>4, <1>6, CandidatesAre
<1>9. Serves(winner.spec, request)
  BY <1>7, <1>8, BindingsAre DEF RankedRoutes, Route, Serves
<1>10. winner # Cloud
  <2>1. "spec" \in DOMAIN Route(b)
    BY DEF Route
  <2>2. "spec" \notin DOMAIN Cloud
    BY DEF Cloud
  <2> QED
    BY <1>7, <2>1, <2>2
<1>11. ASSUME NEW r \in able, Dominates(r, winner, pref)
       PROVE  FALSE
  <2>0. /\ 0 < r.p95 /\ r.p95 < winner.p95 /\ r.queue <= winner.queue
        /\ QualityNorm(r.spec) > QualityNorm(winner.spec)
        /\ pref # NoPref /\ pref.quality_weight = 0 => ToldApart(winner.p95)
    BY <1>11 DEF Dominates
  <2>1. PICK a \in P : Like(a, r)
    BY <1>2
  <2>2. a \in Bindings
    BY <1>4
  <2>3. client # NoPref /\ Clamp(client, ceiling).quality_weight = 0 => ToldApart(Route(b).p95)
    BY <1>1, <1>7, <2>0
  <2>4. Worth(a, request, client, ceiling) > Worth(b, request, client, ceiling)
    <3>1. /\ 0 < Route(a).p95 /\ Route(a).p95 < Route(b).p95
          /\ Route(a).queue <= Route(b).queue
          /\ QualityNorm(Route(a).spec) > QualityNorm(Route(b).spec)
      BY <1>7, <2>0, <2>1
    <3> QED
      BY <3>1, <2>2, <2>3, <1>8, BetterIsWorthMore
  <2>5. Worth(a, request, client, ceiling) <= Worth(b, request, client, ceiling)
    BY <1>7
  <2>6. /\ Worth(a, request, client, ceiling) \in Int
        /\ Worth(b, request, client, ceiling) \in Int
    BY <2>2, <1>8, WorthIs
  <2> QED
    BY <2>4, <2>5, <2>6
<1> QED
  BY <1>9, <1>10, <1>11

-----------------------------------------------------------------------------
(* Heartbeats, silence and probe rounds.                                   *)

LEMMA SelectionStarts == SelectionInit => SelectionTyped
<1> SUFFICES ASSUME SelectionInit
             PROVE  SelectionTyped
  OBVIOUS
<1>1. beats = <<>> /\ round = <<>> /\ observed = [s \in DOMAIN Profiles |-> Missing]
  BY DEF SelectionInit
<1> QED
  BY <1>1 DEF SelectionTyped

LEMMA SilentIsHeartbeat ==
  ASSUME SelectionAssumption, NEW b \in Heartbeats
  PROVE  [b EXCEPT !.healthy = FALSE] \in Heartbeats
<1>1. PICK r \in Reports : b = r \/ b = [r EXCEPT !.healthy = FALSE]
  BY DEF Heartbeats
<1>2. r = [node |-> r.node, healthy |-> r.healthy, depth |-> r.depth, p95 |-> r.p95,
           loaded |-> r.loaded]
  BY DEF SelectionAssumption
<1>3. [b EXCEPT !.healthy = FALSE] = [r EXCEPT !.healthy = FALSE]
  BY <1>1, <1>2
<1> QED
  BY <1>3 DEF Heartbeats

LEMMA SelectionStep ==
  SelectionAssumption /\ SelectionTyped /\ [SelectionNext]_selectionVars => SelectionTyped'
<1> SUFFICES ASSUME SelectionAssumption, SelectionTyped, [SelectionNext]_selectionVars
             PROVE  SelectionTyped'
  OBVIOUS
<1>1. /\ beats \in Seq(Heartbeats)
      /\ observed \in [DOMAIN Profiles -> Scores \cup {NoReply, Missing}]
      /\ round \in Seq(DOMAIN Profiles)
  BY DEF SelectionTyped
<1>2. Len(beats) \in Nat /\ DOMAIN beats = 1..Len(beats)
      /\ \A i \in DOMAIN beats : beats[i] \in Heartbeats
  BY <1>1
<1>3. Reports \subseteq Heartbeats
  BY DEF Heartbeats
<1>4. ASSUME NEW latest \in Reports, Report(latest)
      PROVE  SelectionTyped'
  <2>1. latest \in Heartbeats
    BY <1>3
  <2>2. Append(beats, latest) \in Seq(Heartbeats)
    BY <1>1, <2>1
  <2>3. [i \in DOMAIN beats |-> IF beats[i].node = latest.node THEN latest ELSE beats[i]]
          \in [1..Len(beats) -> Heartbeats]
    BY <1>2, <2>1
  <2>4. [i \in DOMAIN beats |-> IF beats[i].node = latest.node THEN latest ELSE beats[i]]
          \in Seq(Heartbeats)
    BY <1>2, <2>3
  <2>5. beats' \in Seq(Heartbeats)
    BY <1>4, <2>2, <2>4 DEF Report
  <2> QED
    BY <1>1, <1>4, <2>5 DEF Report, SelectionTyped
<1>5. ASSUME NEW i \in DOMAIN beats, NodeLeft(i)
      PROVE  SelectionTyped'
  <2>1. i \in 1..Len(beats)
    BY <1>2
  <2>2. SubSeq(beats, 1, i - 1) \in Seq(Heartbeats)
    BY <1>1, <1>2, <2>1
  <2>3. SubSeq(beats, i + 1, Len(beats)) \in Seq(Heartbeats)
    BY <1>1, <1>2, <2>1
  <2>4. beats' \in Seq(Heartbeats)
    BY <1>5, <2>2, <2>3 DEF NodeLeft, RemoveAt
  <2> QED
    BY <1>1, <1>5, <2>4 DEF NodeLeft, SelectionTyped
<1>6. ASSUME NEW i \in DOMAIN beats, GoSilent(i)
      PROVE  SelectionTyped'
  <2>1. [beats[i] EXCEPT !.healthy = FALSE] \in Heartbeats
    BY <1>2, SilentIsHeartbeat
  <2>2. beats' = [beats EXCEPT ![i] = [beats[i] EXCEPT !.healthy = FALSE]]
    BY <1>6 DEF GoSilent
  <2>3. beats' \in Seq(Heartbeats)
    BY <1>1, <2>1, <2>2
  <2> QED
    BY <1>1, <1>6, <2>3 DEF GoSilent, SelectionTyped
<1>7. ASSUME FetchRegistry
      PROVE  SelectionTyped'
  <2> DEFINE S == {s \in DOMAIN Profiles : Places(s) # {}}
             n == Cardinality(S)
  <2>1. S \in SUBSET DOMAIN Profiles
    OBVIOUS
  <2>2. IsFiniteSet(S)
    BY <2>1, FS_Subset DEF SelectionAssumption
  <2> HIDE DEF S
  <2>3. n \in Nat /\ ExistsBijection(1..n, S)
    BY <2>2, FS_CardinalityType
  <2>4. \E f \in [1..n -> S] : IsInjective(f)
    BY <2>3 DEF ExistsBijection, Bijection, Injection
  <2>5. SetToSeq(S) \in [1..n -> S]
    BY <2>4 DEF SetToSeq
  <2>6. SetToSeq(S) \in Seq(DOMAIN Profiles)
    BY <2>1, <2>3, <2>5
  <2>7. round' \in Seq(DOMAIN Profiles)
    BY <1>7, <2>6 DEF FetchRegistry, S
  <2> QED
    BY <1>1, <1>7, <2>7 DEF FetchRegistry, SelectionTyped
<1>8. ASSUME ObservationLost
      PROVE  SelectionTyped'
  BY <1>1, <1>8 DEF ObservationLost, SelectionTyped
<1>9. ASSUME NEW score \in ProbeOne, PostQualityObservation(score)
      PROVE  SelectionTyped'
  <2>1. Tail(round) \in Seq(DOMAIN Profiles) /\ Head(round) \in DOMAIN Profiles
    BY <1>1, <1>9 DEF PostQualityObservation
  <2>2. score \in Scores \cup {NoReply, Missing}
    BY DEF ProbeOne
  <2> QED
    BY <1>1, <1>9, <2>1, <2>2 DEF PostQualityObservation, SelectionTyped
<1>10. ASSUME UNCHANGED selectionVars
       PROVE  SelectionTyped'
  BY <1>1, <1>10 DEF selectionVars, SelectionTyped
<1> QED
  BY <1>4, <1>5, <1>6, <1>7, <1>8, <1>9, <1>10 DEF SelectionNext

LEMMA SelectionTypedAlways == SelectionSpec => []SelectionTyped
<1>1. SelectionAssumption
  BY SelectionAssumption
<1> QED
  BY <1>1, SelectionStarts, SelectionStep, PTL DEF SelectionSpec

\* select.py: no ceiling of the client or the admin and no budget is lost between the
\* fall-through, the filters and the fallback chain, however the table changes.
THEOREM CeilingsHoldDownTheChain == SelectionSpec => []ChainWithinCeilings
<1>1. SelectionTyped => ChainWithinCeilings
  BY TypedKeepsCeilings, SelectionAssumption
<1> QED
  BY <1>1, SelectionTypedAlways, PTL

\* select.py: whoever can be served in the mesh is not sent elsewhere, and is served by a
\* binding that no other one beats on every axis.
THEOREM BestAlwaysServes == SelectionSpec => []BestServes
<1>1. SelectionTyped => BestServes
  BY TypedServesBest, SelectionAssumption
<1> QED
  BY <1>1, SelectionTypedAlways, PTL

-----------------------------------------------------------------------------
(* The exam of a batch.  Its rows are determined by the set of the rows:   *)
(* the hardest row of each real prompt, and of these the hardest.          *)

\* What is assumed of a batch, in any order.
IsBatch(rows) ==
  /\ rows \in Seq(ToSet(rows))
  /\ \A row \in ToSet(rows) :
       /\ ScoreOf(row) \in Int /\ row.prompt \in Int /\ row.key \in Int
       /\ \A other \in ToSet(rows) : row.key = other.key => row = other

LEMMA BatchesAre ==
  ASSUME CurationAssumption, NEW rows \in Batches
  PROVE  IsBatch(rows)
BY DEF CurationAssumption, IsBatch, ScoreOf

LEMMA PlacesInBatch ==
  ASSUME NEW rows, IsBatch(rows)
  PROVE  /\ Len(rows) \in Nat /\ DOMAIN rows = 1..Len(rows)
         /\ IsFiniteSet(DOMAIN rows)
         /\ \A i \in DOMAIN rows : rows[i] \in ToSet(rows)
<1>1. Len(rows) \in Nat /\ DOMAIN rows = 1..Len(rows)
  BY DEF IsBatch
<1>2. 1 \in Int /\ Len(rows) \in Int
  BY <1>1
<1>3. IsFiniteSet(1..Len(rows))
  BY <1>2, FS_Interval
<1> QED
  BY <1>1, <1>3 DEF ToSet

\* Of two rows that differ one is harder, and the harder than a harder one is harder.
LEMMA HarderOrders ==
  ASSUME NEW rows, IsBatch(rows), NEW r \in ToSet(rows), NEW s \in ToSet(rows)
  PROVE  /\ ~Harder(r, r)
         /\ Harder(r, s) => ~Harder(s, r)
         /\ r = s \/ Harder(r, s) \/ Harder(s, r)
         /\ \A t \in ToSet(rows) : Harder(r, s) /\ Harder(s, t) => Harder(r, t)
<1>1. \A t \in ToSet(rows) : ScoreOf(t) \in Int /\ t.prompt \in Int /\ t.key \in Int
  BY DEF IsBatch
<1>2. r.key = s.key => r = s
  BY DEF IsBatch
<1> QED
  BY <1>1, <1>2 DEF Harder

LEMMA RankIs ==
  ASSUME NEW rows, IsBatch(rows), NEW i \in DOMAIN rows, NEW j \in DOMAIN rows
  PROVE  <<i, j>> \in RankByDifficulty(rows) <=>
           Harder(rows[i], rows[j]) \/ (rows[i] = rows[j] /\ i < j)
<1>1. rows[i] \in ToSet(rows) /\ rows[j] \in ToSet(rows)
  BY PlacesInBatch
<1>2. <<i, j>> \in RankByDifficulty(rows) <=>
        Harder(rows[i], rows[j]) \/ (~Harder(rows[j], rows[i]) /\ i < j)
  BY DEF RankByDifficulty
<1> QED
  BY <1>1, <1>2, HarderOrders

LEMMA RankOrders ==
  ASSUME NEW rows, IsBatch(rows), NEW P \in SUBSET (DOMAIN rows)
  PROVE  Orders(RankByDifficulty(rows), P) /\ IsFiniteSet(P)
<1> DEFINE R == RankByDifficulty(rows)
<1>1. \A i \in DOMAIN rows : i \in Int /\ rows[i] \in ToSet(rows)
  BY PlacesInBatch
<1>2. \A i, j \in DOMAIN rows :
        <<i, j>> \in R <=> Harder(rows[i], rows[j]) \/ (rows[i] = rows[j] /\ i < j)
  BY RankIs
<1> HIDE DEF R
<1>3. \A i \in P : <<i, i>> \notin R
  BY <1>1, <1>2, HarderOrders
<1>4. ASSUME NEW i \in P, NEW j \in P
      PROVE  i = j \/ <<i, j>> \in R \/ <<j, i>> \in R
  <2>1. i \in Int /\ j \in Int /\ rows[i] \in ToSet(rows) /\ rows[j] \in ToSet(rows)
    BY <1>1
  <2>2. rows[i] = rows[j] \/ Harder(rows[i], rows[j]) \/ Harder(rows[j], rows[i])
    BY <2>1, HarderOrders
  <2>3. i = j \/ i < j \/ j < i
    BY <2>1
  <2> QED
    BY <2>2, <2>3, <1>2
<1>5. \A i, j, k \in P : <<i, j>> \in R /\ <<j, k>> \in R => <<i, k>> \in R
  BY <1>1, <1>2, HarderOrders
<1>6. IsFiniteSet(P)
  BY PlacesInBatch, FS_Subset
<1> QED
  BY <1>3, <1>4, <1>5, <1>6 DEF Orders, R

LEMMA RealRowsAre ==
  ASSUME NEW rows
  PROVE  /\ RealRows(rows) \in SUBSET (DOMAIN rows)
         /\ Entrants(rows) \in SUBSET RealRows(rows)
BY DEF RealRows, Entrants

\* Every real prompt has an entrant, and no prompt has two.
LEMMA OneEntrant ==
  ASSUME NEW rows, IsBatch(rows), NEW t \in RealRows(rows)
  PROVE  \E f \in Entrants(rows) :
           /\ rows[f].prompt = rows[t].prompt
           /\ f = t \/ <<f, t>> \in RankByDifficulty(rows)
<1> DEFINE R == RankByDifficulty(rows)
           P == {j \in RealRows(rows) : rows[j].prompt = rows[t].prompt}
           s == Sorted(P, R)
           n == Cardinality(P)
<1>1. P \in SUBSET (DOMAIN rows) /\ t \in P
  BY RealRowsAre
<1>2. Orders(R, P) /\ IsFiniteSet(P)
  BY <1>1, RankOrders
<1>3. /\ n \in Nat
      /\ s \in [1..n -> P]
      /\ \A x \in P : \E k \in 1..n : s[k] = x
      /\ \A i, j \in 1..n : i < j => <<s[i], s[j]>> \in R
  BY <1>2, SortedLists
<1> HIDE DEF R, s, n
<1>4. 1 \in 1..n
  BY <1>1, <1>3
<1>5. s[1] \in P
  BY <1>3, <1>4
<1>6. \A x \in P : x = s[1] \/ <<s[1], x>> \in R
  <2> TAKE x \in P
  <2>1. PICK k \in 1..n : s[k] = x
    BY <1>3
  <2> QED
    BY <2>1, <1>3, <1>4
<1>7. s[1] \in Entrants(rows)
  <2>1. \A x \in P : ~(<<x, s[1]>> \in R)
    BY <1>2, <1>5, <1>6 DEF Orders
  <2> QED
    BY <2>1, <1>5 DEF Entrants, R
<1> QED
  BY <1>1, <1>5, <1>6, <1>7 DEF R

LEMMA EntrantsDiffer ==
  ASSUME NEW rows, IsBatch(rows), NEW i \in Entrants(rows), NEW j \in Entrants(rows), i # j
  PROVE  /\ rows[i].prompt # rows[j].prompt
         /\ rows[i] # rows[j]
         /\ <<i, j>> \in RankByDifficulty(rows) => Harder(rows[i], rows[j])
<1>1. i \in DOMAIN rows /\ j \in DOMAIN rows /\ i \in RealRows(rows) /\ j \in RealRows(rows)
  BY RealRowsAre
<1>2. <<i, j>> \in RankByDifficulty(rows) \/ <<j, i>> \in RankByDifficulty(rows)
  BY <1>1, RankOrders DEF Orders
<1>3. rows[i].prompt # rows[j].prompt
  BY <1>1, <1>2 DEF Entrants
<1> QED
  BY <1>1, <1>3, RankIs

\* As many images as elements, where no two have the same.
LEMMA AsManyImages ==
  ASSUME NEW S, IsFiniteSet(S), NEW T, NEW f,
         \A x \in S : f[x] \in T,
         \A t \in T : \E x \in S : t = f[x],
         \A x, y \in S : f[x] = f[y] => x = y
  PROVE  IsFiniteSet(T) /\ Cardinality(T) = Cardinality(S)
<1> DEFINE g == [x \in S |-> f[x]]
<1>1. g \in Surjection(S, T)
  BY DEF Surjection
<1>2. g \in Injection(S, T)
  BY DEF Injection, IsInjective
<1> QED
  BY <1>1, <1>2, FS_Surjection

LEMMA TargetIs ==
  ASSUME CurationAssumption, NEW rows, IsBatch(rows)
  PROVE  /\ Target(rows) \in Nat
         /\ MinHoldout <= MaxHoldout => MinHoldout <= Target(rows)
<1> DEFINE n == Cardinality(RealRows(rows))
           wanted == Rounded(HoldoutPercent, n)
<1>1. n \in Nat
  BY RealRowsAre, RankOrders, FS_CardinalityType
<1>2. wanted \in Int
  <2> HIDE DEF n
  <2>1. HoldoutPercent * n \in Int
    BY <1>1 DEF CurationAssumption
  <2>2. \A m \in Int : m \div 100 \in Int
    OBVIOUS
  <2> QED
    BY <2>1, <2>2 DEF Rounded
<1>3. MinHoldout \in Nat /\ MaxHoldout \in Nat
  BY DEF CurationAssumption
<1>4. Target(rows) = AtMost(AtLeast(wanted, MinHoldout), MaxHoldout)
  BY DEF Target
<1> HIDE DEF wanted
<1> QED
  BY <1>2, <1>3, <1>4 DEF AtMost, AtLeast

\* The exam is a head of the entrants, as long as the target where there are enough.
LEMMA ExamIs ==
  ASSUME CurationAssumption, NEW rows, IsBatch(rows)
  PROVE  /\ IsFiniteSet(Entrants(rows))
         /\ Exam(rows) \in SUBSET Entrants(rows)
         /\ Cardinality(Exam(rows)) = AtMost(Target(rows), Cardinality(Entrants(rows)))
         /\ \A i \in Exam(rows), j \in Entrants(rows) \ Exam(rows) :
              <<i, j>> \in RankByDifficulty(rows)
<1> DEFINE R == RankByDifficulty(rows)
           E == Entrants(rows)
           s == Sorted(E, R)
           n == Cardinality(E)
           m == AtMost(Target(rows), n)
<1>1. Orders(R, E) /\ IsFiniteSet(E)
  BY RealRowsAre, RankOrders
<1>2. /\ n \in Nat
      /\ s \in [1..n -> E]
      /\ \A x \in E : \E k \in 1..n : s[k] = x
      /\ \A i, j \in 1..n : i < j => <<s[i], s[j]>> \in R
  BY <1>1, SortedLists
<1>3. Target(rows) \in Nat
  BY TargetIs
<1>4. m \in Nat /\ m <= n
  BY <1>2, <1>3 DEF AtMost
<1>5. Exam(rows) = {s[k] : k \in 1..m}
  BY DEF Exam
<1> HIDE DEF R, E, s, n, m
<1>6. Exam(rows) \in SUBSET E
  BY <1>2, <1>4, <1>5
<1>7. \A i, j \in 1..m : s[i] = s[j] => i = j
  <2> TAKE i, j \in 1..m
  <2>1. i \in 1..n /\ j \in 1..n /\ s[i] \in E /\ <<s[i], s[i]>> \notin R
    BY <1>1, <1>2, <1>4 DEF Orders
  <2> QED
    BY <2>1, <1>2
<1>8. IsFiniteSet(1..m) /\ Cardinality(1..m) = m
  <2>1. 1 \in Int /\ m \in Int
    BY <1>4
  <2>2. IsFiniteSet(1..m) /\ Cardinality(1..m) = IF 1 > m THEN 0 ELSE m - 1 + 1
    BY <2>1, FS_Interval
  <2> QED
    BY <2>2, <1>4
<1>9. Cardinality(Exam(rows)) = m
  <2>1. /\ \A k \in 1..m : s[k] \in Exam(rows)
        /\ \A i \in Exam(rows) : \E k \in 1..m : i = s[k]
    BY <1>5
  <2> DEFINE I == 1..m
             T == Exam(rows)
  <2>a. /\ IsFiniteSet(I)
        /\ \A k \in I : s[k] \in T
        /\ \A i \in T : \E k \in I : i = s[k]
        /\ \A i, j \in I : s[i] = s[j] => i = j
    BY <2>1, <1>7, <1>8
  <2> HIDE DEF I, T
  <2>b. Cardinality(T) = Cardinality(I)
    BY <2>a, AsManyImages
  <2>2. Cardinality(Exam(rows)) = Cardinality(1..m)
    BY <2>b DEF I, T
  <2> QED
    BY <2>2, <1>8
<1>10. ASSUME NEW i \in Exam(rows), NEW j \in E \ Exam(rows)
       PROVE  <<i, j>> \in R
  <2>1. PICK a \in 1..m : i = s[a]
    BY <1>5
  <2>2. PICK b \in 1..n : j = s[b]
    BY <1>2
  <2>3. b \notin 1..m
    BY <2>2, <1>5, <1>10
  <2>4. a \in 1..n /\ a < b
    BY <2>1, <2>2, <2>3, <1>2, <1>4
  <2> QED
    BY <2>1, <2>2, <2>4, <1>2
<1> QED
  BY <1>1, <1>6, <1>9, <1>10 DEF R, E, m, n

\* The hardest row of each real prompt.
FirstRows(S) ==
  {r \in S : /\ ~r.synthetic
             /\ \A s \in S : ~s.synthetic /\ s.prompt = r.prompt => ~Harder(s, r)}

LEMMA EntrantsAreFirst ==
  ASSUME NEW rows, IsBatch(rows)
  PROVE  RowsAt(rows, Entrants(rows)) = FirstRows(ToSet(rows))
<1> DEFINE R == RankByDifficulty(rows)
<1>1. ASSUME NEW i \in Entrants(rows)
      PROVE  rows[i] \in FirstRows(ToSet(rows))
  <2>1. i \in RealRows(rows) /\ i \in DOMAIN rows /\ rows[i] \in ToSet(rows) /\ ~rows[i].synthetic
    BY <1>1, RealRowsAre, PlacesInBatch DEF RealRows
  <2>2. ASSUME NEW s \in ToSet(rows), ~s.synthetic, s.prompt = rows[i].prompt, Harder(s, rows[i])
        PROVE  FALSE
    <3>1. PICK j \in DOMAIN rows : s = rows[j]
      BY DEF ToSet
    <3>2. j \in RealRows(rows) /\ <<j, i>> \in RankByDifficulty(rows)
      BY <2>1, <2>2, <3>1, RankIs DEF RealRows
    <3> QED
      BY <2>2, <3>1, <3>2 DEF Entrants
  <2> QED
    BY <2>1, <2>2 DEF FirstRows
<1>2. ASSUME NEW r \in FirstRows(ToSet(rows))
      PROVE  \E i \in Entrants(rows) : r = rows[i]
  <2> DEFINE T == {i \in DOMAIN rows : rows[i] = r}
  <2>1. r \in ToSet(rows) /\ ~r.synthetic
    BY DEF FirstRows
  <2>2. T \in SUBSET Nat /\ T # {}
    BY <2>1, PlacesInBatch DEF ToSet
  <2>3. PICK i \in T : \A k \in T : i <= k
    BY <2>2, LeastNatural
  <2>4. i \in RealRows(rows) /\ i \in DOMAIN rows /\ rows[i] = r /\ i \in Nat
    BY <2>1, <2>2, <2>3 DEF RealRows
  <2>5. ASSUME NEW j \in RealRows(rows), <<j, i>> \in R, rows[j].prompt = rows[i].prompt
        PROVE  FALSE
    <3>1. j \in DOMAIN rows /\ j \in Nat /\ rows[j] \in ToSet(rows) /\ ~rows[j].synthetic
      BY <2>5, RealRowsAre, PlacesInBatch DEF RealRows
    <3>2. ~Harder(rows[j], r)
      BY <2>4, <2>5, <3>1 DEF FirstRows
    <3>3. rows[j] = r /\ j < i
      BY <2>4, <2>5, <3>1, <3>2, RankIs
    <3> QED
      BY <2>3, <2>4, <3>1, <3>3
  <2>6. i \in Entrants(rows)
    BY <2>4, <2>5 DEF Entrants
  <2> QED
    BY <2>4, <2>6
<1> QED
  BY <1>1, <1>2 DEF RowsAt

\* The first of a list, by difficulty.
Heads(Y, X) == Y \subseteq X /\ \A y \in Y, x \in X \ Y : Harder(y, x)

LEMMA SameHeads ==
  ASSUME NEW rows, IsBatch(rows), NEW X \in SUBSET ToSet(rows), IsFiniteSet(X),
         NEW Y, NEW Z, Heads(Y, X), Heads(Z, X), Cardinality(Y) = Cardinality(Z)
  PROVE  Y = Z
<1>1. Y \in SUBSET X /\ Z \in SUBSET X /\ IsFiniteSet(Y) /\ IsFiniteSet(Z)
  BY FS_Subset DEF Heads
<1>2. Y \subseteq Z \/ Z \subseteq Y
  <2> SUFFICES ASSUME NEW y \in Y, y \notin Z, NEW z \in Z, z \notin Y
               PROVE  FALSE
    OBVIOUS
  <2>1. Harder(y, z) /\ Harder(z, y) /\ y \in ToSet(rows) /\ z \in ToSet(rows)
    BY <1>1 DEF Heads
  <2> QED
    BY <2>1, HarderOrders
<1> QED
  BY <1>1, <1>2, FS_Subset

LEMMA ExamRowsAre ==
  ASSUME CurationAssumption, NEW rows, IsBatch(rows)
  PROVE  /\ Heads(RowsAt(rows, Exam(rows)), FirstRows(ToSet(rows)))
         /\ IsFiniteSet(FirstRows(ToSet(rows)))
         /\ Cardinality(RowsAt(rows, Exam(rows)))
              = AtMost(Target(rows), Cardinality(FirstRows(ToSet(rows))))
         /\ Cardinality(PromptsIn(rows, Exam(rows))) = Cardinality(Exam(rows))
<1> DEFINE E == Entrants(rows)
           X == Exam(rows)
<1>1. /\ IsFiniteSet(E) /\ X \in SUBSET E
      /\ Cardinality(X) = AtMost(Target(rows), Cardinality(E))
      /\ \A i \in X, j \in E \ X : <<i, j>> \in RankByDifficulty(rows)
  BY ExamIs
<1>2. IsFiniteSet(X)
  BY <1>1, FS_Subset
<1>3. \A i, j \in E :
        i # j => /\ rows[i].prompt # rows[j].prompt
                 /\ rows[i] # rows[j]
                 /\ (<<i, j>> \in RankByDifficulty(rows) => Harder(rows[i], rows[j]))
  BY EntrantsDiffer
<1>4. RowsAt(rows, E) = FirstRows(ToSet(rows))
  BY EntrantsAreFirst
<1> HIDE DEF E, X
<1>5. ASSUME NEW P \in SUBSET E, IsFiniteSet(P)
      PROVE  IsFiniteSet(RowsAt(rows, P)) /\ Cardinality(RowsAt(rows, P)) = Cardinality(P)
  <2>1. /\ \A i \in P : rows[i] \in RowsAt(rows, P)
        /\ \A t \in RowsAt(rows, P) : \E i \in P : t = rows[i]
        /\ \A i, j \in P : rows[i] = rows[j] => i = j
    BY <1>3 DEF RowsAt
  <2> QED
    BY <1>5, <2>1, AsManyImages
<1>6. Cardinality(PromptsIn(rows, X)) = Cardinality(X)
  <2> DEFINE f == [i \in X |-> rows[i].prompt]
  <2>1. \A i \in X : f[i] = rows[i].prompt /\ i \in E
    BY <1>1
  <2> HIDE DEF f
  <2>2. /\ \A i \in X : f[i] \in PromptsIn(rows, X)
        /\ \A t \in PromptsIn(rows, X) : \E i \in X : t = f[i]
        /\ \A i, j \in X : f[i] = f[j] => i = j
    BY <2>1, <1>3 DEF PromptsIn
  <2> QED
    BY <1>2, <2>2, AsManyImages
<1>7. Heads(RowsAt(rows, X), RowsAt(rows, E))
  <2>1. RowsAt(rows, X) \subseteq RowsAt(rows, E)
    BY <1>1 DEF RowsAt
  <2>2. ASSUME NEW y \in RowsAt(rows, X), NEW x \in RowsAt(rows, E), x \notin RowsAt(rows, X)
        PROVE  Harder(y, x)
    <3>1. PICK i \in X : y = rows[i]
      BY <2>2 DEF RowsAt
    <3>2. PICK j \in E : x = rows[j]
      BY <2>2 DEF RowsAt
    <3>3. j \notin X /\ i \in E /\ i # j
      BY <2>2, <3>1, <3>2, <1>1 DEF RowsAt
    <3> QED
      BY <3>1, <3>2, <3>3, <1>1, <1>3
  <2> QED
    BY <2>1, <2>2 DEF Heads
<1>8. /\ IsFiniteSet(RowsAt(rows, E)) /\ Cardinality(RowsAt(rows, E)) = Cardinality(E)
      /\ Cardinality(RowsAt(rows, X)) = Cardinality(X)
  BY <1>1, <1>2, <1>5
<1> QED
  BY <1>1, <1>4, <1>6, <1>7, <1>8 DEF X

-----------------------------------------------------------------------------
(* The same batch from its other end.                                      *)

LEMMA MirrorIs ==
  ASSUME NEW rows, IsBatch(rows)
  PROVE  /\ DOMAIN Reverse(rows) = DOMAIN rows
         /\ \A i \in DOMAIN rows :
              /\ Len(rows) + 1 - i \in DOMAIN rows
              /\ Len(rows) + 1 - (Len(rows) + 1 - i) = i
              /\ Reverse(rows)[i] = rows[Len(rows) + 1 - i]
         /\ ToSet(Reverse(rows)) = ToSet(rows)
         /\ IsBatch(Reverse(rows))
<1> DEFINE n == Len(rows)
<1>1. n \in Nat /\ DOMAIN rows = 1..n
  BY PlacesInBatch
<1>2. Reverse(rows) = [i \in 1..n |-> rows[(n - i) + 1]]
  BY DEF Reverse
<1> HIDE DEF n
<1>3. \A i \in 1..n : n + 1 - i \in 1..n /\ n + 1 - (n + 1 - i) = i /\ (n - i) + 1 = n + 1 - i
  BY <1>1
<1>4. DOMAIN Reverse(rows) = 1..n /\ \A i \in 1..n : Reverse(rows)[i] = rows[n + 1 - i]
  BY <1>2, <1>3
<1>5. ToSet(Reverse(rows)) = ToSet(rows)
  <2>1. ASSUME NEW r \in ToSet(rows)
        PROVE  r \in ToSet(Reverse(rows))
    <3>1. PICK i \in 1..n : r = rows[i]
      BY <1>1 DEF ToSet
    <3>2. n + 1 - i \in 1..n /\ Reverse(rows)[n + 1 - i] = r
      BY <1>3, <1>4, <3>1
    <3> QED
      BY <3>2, <1>4 DEF ToSet
  <2>2. ASSUME NEW r \in ToSet(Reverse(rows))
        PROVE  r \in ToSet(rows)
    BY <1>1, <1>3, <1>4 DEF ToSet
  <2> QED
    BY <2>1, <2>2
<1>6. Reverse(rows) \in Seq(ToSet(rows))
  <2>1. \A i \in 1..n : rows[(n - i) + 1] \in ToSet(rows)
    BY <1>1, <1>3 DEF ToSet
  <2> QED
    BY <1>1, <1>2, <2>1
<1>7. IsBatch(Reverse(rows))
  BY <1>5, <1>6 DEF IsBatch
<1> QED
  BY <1>1, <1>3, <1>4, <1>5, <1>7 DEF n

LEMMA MirrorCounts ==
  ASSUME NEW rows, IsBatch(rows), NEW P \in SUBSET (DOMAIN rows), NEW Q \in SUBSET (DOMAIN rows),
         \A i \in DOMAIN rows : i \in Q <=> Len(rows) + 1 - i \in P
  PROVE  Cardinality(Q) = Cardinality(P)
<1> DEFINE f == [i \in Q |-> Len(rows) + 1 - i]
<1>1. \A i \in DOMAIN rows : /\ i \in Int /\ Len(rows) \in Int
                             /\ Len(rows) + 1 - i \in DOMAIN rows
                             /\ Len(rows) + 1 - (Len(rows) + 1 - i) = i
  BY MirrorIs, PlacesInBatch
<1>2. \A i \in Q : f[i] = Len(rows) + 1 - i
  OBVIOUS
<1> HIDE DEF f
<1>3. \A i \in Q : f[i] \in P
  BY <1>1, <1>2
<1>4. ASSUME NEW t \in P
      PROVE  \E i \in Q : t = f[i]
  <2>1. Len(rows) + 1 - t \in Q
    BY <1>1
  <2> QED
    BY <2>1, <1>1, <1>2
<1>5. ASSUME NEW i \in Q, NEW j \in Q, f[i] = f[j]
      PROVE  i = j
  BY <1>1, <1>2, <1>5
<1>6. IsFiniteSet(Q)
  BY RankOrders
<1> QED
  BY <1>3, <1>4, <1>5, <1>6, AsManyImages

LEMMA MirrorSplits ==
  ASSUME CurationAssumption, NEW rows, IsBatch(rows)
  PROVE  /\ RowsAt(Reverse(rows), Exam(Reverse(rows))) = RowsAt(rows, Exam(rows))
         /\ Split(rows).done => Split(Reverse(rows)).done
         /\ \A any : IsBatch(any) /\ Split(any).done => Split(any).exam = Exam(any)
<1> DEFINE mirror == Reverse(rows)
           n == Len(rows)
           X == FirstRows(ToSet(rows))
<1>1. /\ DOMAIN mirror = DOMAIN rows
      /\ \A i \in DOMAIN rows : n + 1 - i \in DOMAIN rows /\ mirror[i] = rows[n + 1 - i]
      /\ ToSet(mirror) = ToSet(rows) /\ IsBatch(mirror)
  BY MirrorIs
<1> HIDE DEF mirror
<1>2. Cardinality(RealRows(mirror)) = Cardinality(RealRows(rows))
  <2>1. /\ RealRows(rows) \in SUBSET (DOMAIN rows) /\ RealRows(mirror) \in SUBSET (DOMAIN rows)
        /\ \A i \in DOMAIN rows : i \in RealRows(mirror) <=> n + 1 - i \in RealRows(rows)
    BY <1>1 DEF RealRows
  <2> QED
    BY <2>1, MirrorCounts
<1>3. Target(mirror) = Target(rows)
  BY <1>2 DEF Target
<1>4. RowsAt(mirror, Exam(mirror)) = RowsAt(rows, Exam(rows))
  <2>1. /\ Heads(RowsAt(rows, Exam(rows)), X) /\ IsFiniteSet(X)
        /\ Cardinality(RowsAt(rows, Exam(rows))) = AtMost(Target(rows), Cardinality(X))
    BY ExamRowsAre
  <2>2. /\ Heads(RowsAt(mirror, Exam(mirror)), X)
        /\ Cardinality(RowsAt(mirror, Exam(mirror))) = AtMost(Target(rows), Cardinality(X))
    BY <1>1, <1>3, ExamRowsAre
  <2>3. X \in SUBSET ToSet(rows)
    BY DEF FirstRows
  <2> HIDE DEF X
  <2> QED
    BY <2>1, <2>2, <2>3, SameHeads
<1>5. Cardinality(Train(mirror, Exam(mirror))) = Cardinality(Train(rows, Exam(rows)))
  <2>1. PromptsIn(mirror, Exam(mirror)) = PromptsIn(rows, Exam(rows))
    <3>1. \A any, P : PromptsIn(any, P) = {r.prompt : r \in RowsAt(any, P)}
      BY DEF PromptsIn, RowsAt
    <3> QED
      BY <3>1, <1>4
  <2>2. /\ Train(rows, Exam(rows)) \in SUBSET (DOMAIN rows)
        /\ Train(mirror, Exam(mirror)) \in SUBSET (DOMAIN rows)
        /\ \A i \in DOMAIN rows :
             i \in Train(mirror, Exam(mirror)) <=> n + 1 - i \in Train(rows, Exam(rows))
    BY <1>1, <1>4, <2>1 DEF Train
  <2> QED
    BY <2>2, MirrorCounts
<1>6. \A any : Split(any).done <=>
        ~(\/ MaxHoldout < MinHoldout
          \/ Cardinality(RealRows(any)) < MinHoldout + MinTrain
          \/ Cardinality(Train(any, Exam(any))) < MinTrain)
  BY DEF Split, Refused
<1>7. \A any : Split(any).done => Split(any).exam = Exam(any)
  BY DEF Split, Refused
<1> QED
  BY <1>2, <1>4, <1>5, <1>6, <1>7 DEF mirror

-----------------------------------------------------------------------------
(* What is curated is the split of the batch.                              *)

Curated ==
  curated.done =>
    /\ IsBatch(batch) /\ Split(batch).done
    /\ curated.exam = Exam(batch) /\ curated.train = Train(batch, Exam(batch))
    /\ curated.synthetic \cap PromptsIn(batch, Exam(batch)) = {}

LEMMA CuratedSound == CurationAssumption /\ Curated => ExamSound
<1> SUFFICES ASSUME CurationAssumption, Curated, curated.done
             PROVE  ExamSound
  BY DEF ExamSound
<1> DEFINE exam == Exam(batch)
           train == Train(batch, Exam(batch))
           real == RealRows(batch)
           E == Entrants(batch)
<1>1. /\ IsBatch(batch) /\ Split(batch).done /\ curated.exam = exam /\ curated.train = train
      /\ curated.synthetic \cap PromptsIn(batch, exam) = {}
  BY DEF Curated
<1>2. /\ IsFiniteSet(E) /\ exam \in SUBSET E /\ E \in SUBSET real /\ real \in SUBSET (DOMAIN batch)
      /\ Cardinality(exam) = AtMost(Target(batch), Cardinality(E))
      /\ \A i \in exam, j \in E \ exam : <<i, j>> \in RankByDifficulty(batch)
  BY <1>1, ExamIs, RealRowsAre
<1>3. Cardinality(PromptsIn(batch, exam)) = Cardinality(exam)
  BY <1>1, ExamRowsAre
<1>4. PromptsIn(batch, exam) \cap (PromptsIn(batch, train) \cup curated.synthetic) = {}
  <2>1. \A t \in train : batch[t].prompt \notin PromptsIn(batch, exam)
    BY DEF Train
  <2>2. \A p \in PromptsIn(batch, train) : \E t \in train : p = batch[t].prompt
    BY DEF PromptsIn
  <2> HIDE DEF exam, train
  <2> QED
    BY <1>1, <2>1, <2>2
<1>5. \A t \in real : \E f \in E :
        /\ batch[f].prompt = batch[t].prompt
        /\ f = t \/ <<f, t>> \in RankByDifficulty(batch)
  BY <1>1, OneEntrant
<1>6. Cardinality(exam) >= MinHoldout \/ PromptsIn(batch, exam) = PromptsIn(batch, real)
  <2>1. Target(batch) \in Nat /\ MinHoldout <= Target(batch) /\ MinHoldout \in Nat
    <3>1. ~(MaxHoldout < MinHoldout)
      BY <1>1 DEF Split, Refused
    <3>2. MinHoldout \in Nat /\ MaxHoldout \in Nat
      BY DEF CurationAssumption
    <3> QED
      BY <1>1, <3>1, <3>2, TargetIs
  <2>2. Cardinality(E) \in Nat
    BY <1>2, FS_CardinalityType
  <2>3. CASE Target(batch) <= Cardinality(E)
    BY <1>2, <2>1, <2>2, <2>3 DEF AtMost
  <2>4. CASE ~(Target(batch) <= Cardinality(E))
    <3>1. Cardinality(exam) = Cardinality(E)
      BY <1>2, <2>1, <2>2, <2>4 DEF AtMost
    <3>2. exam = E
      BY <1>2, <3>1, FS_Subset
    <3>3. PromptsIn(batch, E) = PromptsIn(batch, real)
      <4> HIDE DEF E, real
      <4>1. \A f \in E : f \in real
        BY <1>2
      <4>2. \A t \in real : \E f \in E : batch[f].prompt = batch[t].prompt
        BY <1>5
      <4> QED
        BY <4>1, <4>2 DEF PromptsIn
    <3> QED
      BY <3>2, <3>3
  <2> QED
    BY <2>3, <2>4
<1>7. ASSUME NEW e \in exam, NEW t \in train \cap real
      PROVE  ~Harder(batch[t], batch[e])
  <2> HIDE DEF E, real, train
  <2>1. PICK f \in E : /\ batch[f].prompt = batch[t].prompt
                       /\ f = t \/ <<f, t>> \in RankByDifficulty(batch)
    BY <1>5
  <2>2. batch[t].prompt \notin PromptsIn(batch, exam)
    BY DEF Train, train
  <2>3. f \notin exam
    BY <2>1, <2>2 DEF PromptsIn
  <2>4. /\ e \in DOMAIN batch /\ f \in DOMAIN batch /\ t \in DOMAIN batch
        /\ <<e, f>> \in RankByDifficulty(batch)
    BY <1>2, <2>1, <2>3
  <2>5. /\ batch[e] \in ToSet(batch) /\ batch[f] \in ToSet(batch) /\ batch[t] \in ToSet(batch)
    BY <1>1, <2>4, PlacesInBatch
  <2>6. Harder(batch[e], batch[f]) \/ batch[e] = batch[f]
    BY <1>1, <2>4, RankIs
  <2>7. Harder(batch[f], batch[t]) \/ batch[f] = batch[t]
    BY <1>1, <2>1, <2>4, RankIs
  <2> QED
    BY <1>1, <2>5, <2>6, <2>7, HarderOrders
<1>8. RowsAt(Reverse(batch), Split(Reverse(batch)).exam) = RowsAt(batch, exam)
  <2>1. IsBatch(Reverse(batch)) /\ Split(Reverse(batch)).done
    BY <1>1, MirrorIs, MirrorSplits
  <2>2. Split(Reverse(batch)).exam = Exam(Reverse(batch))
    BY <1>1, <2>1, MirrorSplits
  <2> QED
    BY <1>1, <2>2, MirrorSplits
<1> HIDE DEF exam, train, real
<1> QED
  BY <1>1, <1>2, <1>3, <1>4, <1>6, <1>7, <1>8 DEF ExamSound, real

LEMMA CurationStep == CurationAssumption /\ Curated /\ [CurationNext]_curationVars => Curated'
<1> SUFFICES ASSUME CurationAssumption, Curated, [CurationNext]_curationVars
             PROVE  Curated'
  OBVIOUS
<1>1. CASE UNCHANGED curationVars
  BY <1>1 DEF Curated, curationVars
<1>2. CASE CurationNext
  <2> DEFINE split == Split(batch')
  <2>1. batch' \in Batches /\ IsBatch(batch')
    BY <1>2, BatchesAre DEF CurationNext, Curate
  <2>2. CASE ~split.done
    <3>1. curated' = Refused
      BY <1>2, <2>2 DEF CurationNext, Curate
    <3> QED
      BY <3>1 DEF Curated, Refused
  <2>3. CASE split.done
    <3>1. PICK generated \in [1..NBands -> Generations] :
            curated' = [split EXCEPT !.synthetic = FillGaps(batch', split, generated)]
      BY <1>2, <2>3 DEF CurationNext, Curate
    <3>2. split = [exam |-> Exam(batch'), train |-> Train(batch', Exam(batch')),
                   synthetic |-> {}, done |-> TRUE]
      BY <2>3 DEF Split, Refused
    <3>3. /\ curated'.exam = Exam(batch') /\ curated'.train = Train(batch', Exam(batch'))
          /\ curated'.synthetic = FillGaps(batch', split, generated)
      BY <3>1, <3>2
    <3>4. FillGaps(batch', split, generated) \cap PromptsIn(batch', split.exam \cup split.train) = {}
      BY DEF FillGaps
    <3>5. PromptsIn(batch', Exam(batch')) \subseteq PromptsIn(batch', split.exam \cup split.train)
      BY <3>2 DEF PromptsIn
    <3> QED
      BY <2>1, <2>3, <3>3, <3>4, <3>5 DEF Curated
  <2> QED
    BY <2>2, <2>3
<1> QED
  BY <1>1, <1>2

\* The exam of every curated cluster is sound (ExamSound), for any batches, whose rows are
\* told apart by their keys, and any generator, bounds and near duplicates.
THEOREM ExamsAlwaysSound == CurationSpec => []ExamSound
<1>1. CurationInit => Curated
  BY DEF CurationInit, Curated, Refused
<1>2. Curated /\ [CurationNext]_curationVars => Curated'
  BY CurationAssumption, CurationStep
<1>3. Curated => ExamSound
  BY CurationAssumption, CuratedSound
<1> QED
  BY <1>1, <1>2, <1>3, PTL DEF CurationSpec
=============================================================================
