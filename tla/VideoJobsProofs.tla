-------------------------- MODULE VideoJobsProofs --------------------------
(***************************************************************************)
(* Video jobs, for any number of handlers, loops, jobs and rows, any batch *)
(* and any lease that is longer than the deadline of a DELETE: types, one  *)
(* caller at a time that deletes, no upstream job with two cleanup rows,   *)
(* and none that the owner still has forgotten by the table.               *)
(*                                                                         *)
(* The second part is about rows.  They never go unnoticed: of two rows    *)
(* for one job, whoever made the second one, listed the first or is about  *)
(* to write knows of it, and the order in which expire_due visits rows     *)
(* decides which one remains.                                              *)
(***************************************************************************)
EXTENDS VideoJobs, TLAPS, FiniteSetTheorems

-----------------------------------------------------------------------------
(* The inductive invariant.                                                *)

Deleting == {"claimed", "deleting", "confirming"}

\* A claim is on every row that could be claimed no more, and no row is from the future.
Kept(t, n) ==
  /\ TableType(t)
  /\ \A x \in DOMAIN t : x < n /\ (t[x].pending = "quarantined" => t[x].claim = NoCaller)

\* The lease of a claim outlasts the call made under it.
Outlasts(row, state) ==
  /\ row.left >= 1
  /\ state.pc = "claimed" => row.left = Lease
  /\ state.pc = "deleting" => row.left >= state.left + (Lease - Deadline)

\* Whoever deletes through a row that is still there has the claim on it.
Leased ==
  \A c \in Callers :
    caller[c].pc \in Deleting =>
      /\ caller[c].row < nextRow
      /\ caller[c].row \in DOMAIN table =>
           table[caller[c].row].claim = c /\ Outlasts(table[caller[c].row], caller[c])

Exclusive ==
  \A c, d \in Callers :
    caller[c].pc \in Deleting /\ caller[d].pc \in Deleting /\ caller[c].row = caller[d].row
      => c = d

\* Whoever is creating a job knows which.
Known(state) == state.pc \in {"persisting", "compensating", "enqueuing"} => state.job \in Jobs
Creators == \A c \in Callers : Known(caller[c])

VInv == TypeOK /\ Kept(table, nextRow) /\ Leased /\ Exclusive /\ Creators

-----------------------------------------------------------------------------
(* What a step does to the table.                                          *)

\* Rows go, or keep their claims.
Untouched(t, u) ==
  /\ DOMAIN u \subseteq DOMAIN t
  /\ \A x \in DOMAIN u : u[x].claim = t[x].claim /\ u[x].left = t[x].left

\* Rows that are there keep their claims, but for those that c may claim or give back.
Spares(c, t, u, n) ==
  \A x \in DOMAIN u :
    IF x \in DOMAIN t
      THEN \/ u[x].claim = t[x].claim /\ u[x].left = t[x].left
           \/ t[x].claim \in {c, NoCaller} \/ t[x].left = 0
      ELSE x >= n

LEMMA NewRowType ==
  ASSUME NEW job \in Jobs, NEW at \in Nat, NEW pending \in {"active", "cleanup"}
  PROVE  NewRow(job, at, pending) \in Row
<1>1. 0 \in 0..Lease
  BY StoreAssumption
<1> QED
  BY <1>1 DEF NewRow, Row

LEMMA RowsOf ==
  ASSUME NEW t, TableType(t)
  PROVE  /\ \A x \in DOMAIN t : t[x] \in Row
         /\ DOMAIN t \subseteq RowIds
  BY DEF TableType

\* u is t without the rows `dropped`, and with those of `kept` due for cleanup.
Drops(t, u, kept, dropped) ==
  /\ \A x \in kept : t[x].pending = "active"
  /\ u = [x \in DOMAIN t \ dropped |->
            IF x \in kept THEN [t[x] EXCEPT !.pending = "cleanup"] ELSE t[x]]

\* _cleanup_expired drops some of the rows it listed, and keeps some for cleanup.
LEMMA ExpireForm ==
  ASSUME NEW t, NEW listed, NEW merging
  PROVE  \E kept, dropped \in SUBSET listed :
           Drops(t, Expire(t, listed, merging), kept, dropped)
<1> DEFINE rest == Delete(t, listed \cap merging)
           due == {x \in listed \cap DOMAIN rest : rest[x].pending = "active"}
           kept == {x \in due :
                      /\ ~HasCleanupRow(rest, x)
                      /\ \A y \in due : SameOwner(rest[x], rest[y]) => ~Before(rest, y, x)}
           dropped == (due \ kept) \cup (listed \cap merging)
           u == Expire(t, listed, merging)
<1>1. u = [x \in DOMAIN rest \ (due \ kept) |->
             IF x \in kept THEN [rest[x] EXCEPT !.pending = "cleanup"] ELSE rest[x]]
  BY DEF Expire
<1>2. /\ DOMAIN rest = DOMAIN t \ (listed \cap merging)
      /\ \A x \in DOMAIN rest : rest[x] = t[x]
  BY DEF Delete
<1>3. /\ kept \subseteq due /\ due \subseteq listed \cap DOMAIN rest
      /\ \A x \in due : rest[x].pending = "active"
  OBVIOUS
<1> HIDE DEF rest, due, kept, u
<1>4. DOMAIN rest \ (due \ kept) = DOMAIN t \ dropped
  BY <1>2, <1>3
<1>5. u = [x \in DOMAIN t \ dropped |->
             IF x \in kept THEN [t[x] EXCEPT !.pending = "cleanup"] ELSE t[x]]
  BY <1>1, <1>2, <1>3, <1>4
<1>6. \A x \in kept : t[x].pending = "active"
  BY <1>2, <1>3
<1>7. kept \subseteq listed /\ dropped \subseteq listed
  BY <1>3
<1>8. Drops(t, u, kept, dropped)
  BY <1>5, <1>6 DEF Drops
<1> QED
  BY <1>7, <1>8 DEF u

LEMMA ExpireKeeps ==
  ASSUME NEW t, NEW n, Kept(t, n), NEW listed, NEW merging
  PROVE  Kept(Expire(t, listed, merging), n) /\ Untouched(t, Expire(t, listed, merging))
<1> DEFINE u == Expire(t, listed, merging)
<1>0. PICK kept \in SUBSET listed, dropped \in SUBSET listed : Drops(t, u, kept, dropped)
  BY ExpireForm
<1> HIDE DEF u
<1>1. /\ \A x \in kept : t[x].pending = "active"
      /\ u = [x \in DOMAIN t \ dropped |->
                IF x \in kept THEN [t[x] EXCEPT !.pending = "cleanup"] ELSE t[x]]
      /\ kept \subseteq listed /\ dropped \subseteq listed
  BY <1>0 DEF Drops
<1>2. \A x \in DOMAIN t : t[x] \in Row
  BY RowsOf DEF Kept
<1>3. DOMAIN u = DOMAIN t \ dropped
  BY <1>1
<1>4. ASSUME NEW x \in DOMAIN u
      PROVE  /\ u[x] \in Row
             /\ u[x].claim = t[x].claim /\ u[x].left = t[x].left
             /\ u[x].pending = "quarantined" => t[x].pending = "quarantined"
  <2>1. u[x] = IF x \in kept THEN [t[x] EXCEPT !.pending = "cleanup"] ELSE t[x]
    BY <1>1, <1>3
  <2>2. t[x] \in Row
    BY <1>2, <1>3
  <2>3. CASE x \in kept
    BY <2>1, <2>2, <2>3 DEF Row
  <2>4. CASE x \notin kept
    BY <2>1, <2>2, <2>4
  <2> QED
    BY <2>3, <2>4
<1>5. u \in [DOMAIN u -> Row]
  <2>1. u = [x \in DOMAIN u |-> u[x]]
    BY <1>1, <1>3
  <2> QED
    BY <1>4, <2>1
<1>6. Kept(u, n)
  BY <1>3, <1>4, <1>5 DEF Kept, TableType
<1>7. Untouched(t, u)
  BY <1>3, <1>4 DEF Untouched
<1> QED
  BY <1>6, <1>7 DEF u

LEMMA InsertKeeps ==
  ASSUME NEW t, NEW n \in RowIds, Kept(t, n), NEW row \in Row, row.pending # "quarantined"
  PROVE  /\ Kept(Insert(t, n, row), n + 1)
         /\ \A c : Spares(c, t, Insert(t, n, row), n)
<1> DEFINE u == Insert(t, n, row)
<1>1. u = [x \in DOMAIN t \cup {n} |-> IF x = n THEN row ELSE t[x]]
  BY DEF Insert
<1> HIDE DEF u
<1>2. /\ DOMAIN u = DOMAIN t \cup {n}
      /\ u[n] = row
      /\ \A x \in DOMAIN t : x # n => u[x] = t[x]
  BY <1>1
<1>3. /\ \A x \in DOMAIN t : x \in Nat /\ x < n /\ x # n /\ t[x] \in Row
      /\ n \in Nat /\ DOMAIN t \subseteq RowIds
  BY RowsOf, StoreAssumption DEF Kept, RowIds
<1>4. u \in [DOMAIN u -> Row]
  BY <1>1, <1>2, <1>3
<1>5. Kept(u, n + 1)
  <2>1. TableType(u)
    BY <1>2, <1>3, <1>4 DEF TableType
  <2>2. ASSUME NEW x \in DOMAIN u
        PROVE  x < n + 1 /\ (u[x].pending = "quarantined" => u[x].claim = NoCaller)
    <3>1. CASE x = n
      BY <1>2, <1>3, <3>1
    <3>2. CASE x # n
      BY <1>2, <1>3, <3>2 DEF Kept
    <3> QED
      BY <3>1, <3>2
  <2> QED
    BY <2>1, <2>2 DEF Kept
<1>6. ASSUME NEW c PROVE Spares(c, t, u, n)
  BY <1>2, <1>3 DEF Spares
<1> QED
  BY <1>5, <1>6 DEF u

\* One row of the table is replaced.
LEMMA ReplaceKeeps ==
  ASSUME NEW t, NEW n, Kept(t, n), NEW y \in DOMAIN t, NEW row \in Row,
         row.pending = "quarantined" => row.claim = NoCaller,
         NEW u, u = [t EXCEPT ![y] = row]
  PROVE  /\ Kept(u, n)
         /\ DOMAIN u = DOMAIN t
         /\ \A x \in DOMAIN t : u[x] = IF x = y THEN row ELSE t[x]
<1>1. t \in [DOMAIN t -> Row] /\ DOMAIN t \subseteq RowIds
  BY DEF Kept, TableType
<1>2. /\ DOMAIN u = DOMAIN t
      /\ \A x \in DOMAIN t : u[x] = IF x = y THEN row ELSE t[x]
      /\ u \in [DOMAIN t -> Row]
  BY <1>1
<1>3. Kept(u, n)
  BY <1>1, <1>2 DEF Kept, TableType
<1> QED
  BY <1>2, <1>3

\* What a caller does with its claim, or to rows that have none, spares all others.
LEMMA ReplaceSpares ==
  ASSUME NEW c, NEW t, NEW n, NEW y \in DOMAIN t, NEW row, NEW u,
         DOMAIN u = DOMAIN t,
         \A x \in DOMAIN t : u[x] = IF x = y THEN row ELSE t[x],
         t[y].claim \in {c, NoCaller} \/ t[y].left = 0
  PROVE  Spares(c, t, u, n)
  BY DEF Spares

LEMMA EnqueueKeeps ==
  ASSUME NEW t, NEW n \in RowIds, Kept(t, n), NEW job \in Jobs, NEW now \in Nat,
         NEW u \in Enqueue(t, n, job, now)
  PROVE  /\ Kept(u, IF n \in DOMAIN u THEN n + 1 ELSE n)
         /\ \A c : Spares(c, t, u, n)
<1> DEFINE fresh == NewRow(job, now, "cleanup")
           same == {x \in DOMAIN t : SameOwner(t[x], fresh)}
           shelved == {x \in same : t[x].pending = "quarantined"}
<1>1. fresh \in Row /\ fresh.pending = "cleanup"
  BY NewRowType DEF NewRow
<1>2. \/ u = Insert(t, n, fresh)
      \/ u = t
      \/ \E y \in shelved : u = [t EXCEPT ![y] = fresh]
  BY DEF Enqueue
<1> HIDE DEF fresh
<1>3. /\ n \notin DOMAIN t /\ n \in Nat
      /\ \A x \in DOMAIN t : t[x].pending = "quarantined" => t[x].claim = NoCaller
  BY RowsOf DEF Kept, RowIds
<1>4. CASE u = Insert(t, n, fresh)
  <2>1. Kept(u, n + 1) /\ \A c : Spares(c, t, u, n)
    BY <1>1, <1>4, InsertKeeps
  <2>2. n \in DOMAIN u
    BY <1>4 DEF Insert
  <2> QED
    BY <2>1, <2>2
<1>5. CASE u = t
  BY <1>3, <1>5 DEF Spares
<1>6. CASE \E y \in shelved : u = [t EXCEPT ![y] = fresh]
  <2>1. PICK y \in DOMAIN t : t[y].pending = "quarantined" /\ u = [t EXCEPT ![y] = fresh]
    BY <1>6
  <2>2. /\ Kept(u, n) /\ DOMAIN u = DOMAIN t
        /\ \A x \in DOMAIN t : u[x] = IF x = y THEN fresh ELSE t[x]
    BY <1>1, <2>1, ReplaceKeeps
  <2>3. \A c : Spares(c, t, u, n)
    BY <1>3, <2>1, <2>2, ReplaceSpares
  <2> QED
    BY <1>3, <2>2, <2>3
<1> QED
  BY <1>2, <1>4, <1>5, <1>6

-----------------------------------------------------------------------------
(* What a step does to one caller.                                         *)

\* The other variables have their types, and no row id is given out again.
Rising ==
  /\ clock' \in Nat
  /\ nextRow' \in 1..(MaxRows + 1) /\ nextRow' >= nextRow
  /\ owner' \in [Jobs -> {"unborn", "alive", "gone"}]
  /\ strayed' \subseteq Jobs

\* If caller c, now in state s, deletes, then it alone does and under its lease.
Entitled(c, s) ==
  s.pc \in Deleting =>
    /\ s.row < nextRow'
    /\ s.row \in DOMAIN table' =>
         table'[s.row].claim = c /\ Outlasts(table'[s.row], s)
    /\ \A d \in Callers \ {c} : caller[d].pc \in Deleting => caller[d].row # s.row

LEMMA OneCallerSteps ==
  ASSUME VInv, Rising, NEW c \in Callers, NEW s \in CallerState, Known(s),
         caller' = [caller EXCEPT ![c] = s],
         Kept(table', nextRow'), Spares(c, table, table', nextRow), Entitled(c, s)
  PROVE  VInv'
<1>1. /\ caller \in [Callers -> CallerState] /\ nextRow \in Nat /\ nextRow' \in Nat
      /\ TableType(table) /\ TableType(table')
  BY StoreAssumption DEF VInv, TypeOK, Kept, Rising
<1>2. /\ caller'[c] = s
      /\ \A d \in Callers \ {c} : caller'[d] = caller[d]
  BY <1>1
<1>3. TypeOK'
  <2>1. caller' \in [Callers -> CallerState]
    BY <1>1
  <2> QED
    BY <1>1, <2>1 DEF TypeOK, Rising
<1>4. Leased'
  <2> SUFFICES ASSUME NEW d \in Callers, caller'[d].pc \in Deleting
      PROVE  /\ caller'[d].row < nextRow'
             /\ caller'[d].row \in DOMAIN table' =>
                  /\ table'[caller'[d].row].claim = d
                  /\ Outlasts(table'[caller'[d].row], caller'[d])
    BY DEF Leased
  <2>1. CASE d = c
    BY <1>2, <2>1 DEF Entitled
  <2>2. CASE d # c
    <3>1. /\ caller'[d] = caller[d]
          /\ caller[d].pc \in Deleting
      BY <1>2, <2>2
    <3> DEFINE r == caller[d].row
    <3>2. r \in Nat /\ r < nextRow
      BY <1>1, <3>1, StoreAssumption DEF VInv, Leased, CallerState, RowIds
    <3>3. r < nextRow'
      BY <1>1, <3>2 DEF Rising
    <3>4. ASSUME r \in DOMAIN table'
          PROVE  table'[r].claim = d /\ Outlasts(table'[r], caller[d])
      <4>1. r \in DOMAIN table
        BY <1>1, <3>2, <3>4 DEF Spares
      <4>2. table[r].claim = d /\ Outlasts(table[r], caller[d])
        BY <3>1, <4>1 DEF VInv, Leased
      <4>3. d \notin {c, NoCaller} /\ table[r].left # 0
        BY <2>2, <4>2, StoreAssumption DEF Outlasts
      <4>4. table'[r].claim = table[r].claim /\ table'[r].left = table[r].left
        BY <3>4, <4>1, <4>2, <4>3 DEF Spares
      <4> QED
        BY <4>2, <4>4 DEF Outlasts
    <3> QED
      BY <3>1, <3>3, <3>4
  <2> QED
    BY <2>1, <2>2
<1>5. Exclusive'
  <2> SUFFICES ASSUME NEW d \in Callers, NEW e \in Callers,
                      caller'[d].pc \in Deleting, caller'[e].pc \in Deleting,
                      caller'[d].row = caller'[e].row, d # e
               PROVE  FALSE
    BY DEF Exclusive
  <2>1. CASE d # c /\ e # c
    BY <1>2, <2>1 DEF VInv, Exclusive
  <2>2. CASE d = c \/ e = c
    BY <1>2, <2>2 DEF Entitled
  <2> QED
    BY <2>1, <2>2
<1>6. Creators'
  BY <1>2 DEF VInv, Creators
<1> QED
  BY <1>3, <1>4, <1>5, <1>6 DEF VInv, Rising

\* A caller that does not delete is entitled to anything.
LEMMA QuietCallerSteps ==
  ASSUME VInv, Rising, NEW c \in Callers,
         NEW s \in CallerState, Known(s), s.pc \notin Deleting,
         caller' = [caller EXCEPT ![c] = s],
         Kept(table', nextRow'), Spares(c, table, table', nextRow)
  PROVE  VInv'
BY OneCallerSteps DEF Entitled

\* Rows that go or keep their claims are spared, and so is an unchanged table.
LEMMA UntouchedSpares ==
  ASSUME NEW c, NEW t, NEW u, NEW n, Untouched(t, u)
  PROVE  Spares(c, t, u, n)
BY DEF Untouched, Spares

\* What spares all claims of a table with fewer rows spares those of the whole.
LEMMA SparesAll ==
  ASSUME NEW c, NEW t, NEW u, NEW v, NEW n, NEW row, Untouched(t, u),
         v = Insert(u, n, row), n \in Nat, \A x \in DOMAIN t : x # n
  PROVE  Spares(c, t, v, n)
BY DEF Untouched, Spares, Insert

LEMMA SameTableSteps ==
  ASSUME VInv, Rising, NEW c \in Callers,
         NEW s \in CallerState, Known(s), s.pc \notin Deleting,
         caller' = [caller EXCEPT ![c] = s], UNCHANGED <<table, nextRow>>
  PROVE  VInv'
<1>1. Kept(table', nextRow')
  BY DEF VInv
<1>2. Spares(c, table, table', nextRow)
  BY DEF Spares
<1> QED
  BY <1>1, <1>2, QuietCallerSteps

\* The states the caller can be put in.
LEMMA IdleState ==
  /\ Idle \in CallerState /\ Asleep \in CallerState
  /\ Idle.pc = "idle" /\ Asleep.pc = "asleep" /\ Known(Idle) /\ Known(Asleep)
<1>1. 0 \in 0..Deadline
  BY VideoAssumption
<1> QED
  BY <1>1 DEF Idle, Asleep, CallerState, Known

LEMMA GotoState ==
  ASSUME caller \in [Callers -> CallerState], NEW c \in Callers,
         NEW pc \in {"enqueuing", "confirming", "releasing"}, Goto(c, pc),
         pc = "enqueuing" => caller[c].job \in Jobs
  PROVE  \E s \in CallerState :
           /\ s.pc = pc /\ s.row = caller[c].row /\ Known(s)
           /\ caller' = [caller EXCEPT ![c] = s]
<1> DEFINE s == [caller[c] EXCEPT !.pc = pc, !.left = 0,
                                  !.job = IF pc = "releasing" THEN NoJob ELSE @]
<1>1. 0 \in 0..Deadline
  BY VideoAssumption
<1>2. caller[c] \in CallerState
  OBVIOUS
<1>3. s \in CallerState /\ s.pc = pc /\ s.row = caller[c].row /\ Known(s)
  BY <1>1, <1>2 DEF CallerState, Known
<1>4. caller' = [caller EXCEPT ![c] = s]
  BY DEF Goto
<1> QED
  BY <1>3, <1>4

LEMMA CallState ==
  ASSUME NEW c \in Callers, NEW job \in Jobs \cup {NoJob}, NEW row \in RowIds \cup {0},
         NEW pc \in {"persisting", "polling", "reloading"}, Call(c, pc, job, row),
         pc = "persisting" => job \in Jobs
  PROVE  \E s \in CallerState :
           s.pc = pc /\ Known(s) /\ caller' = [caller EXCEPT ![c] = s]
<1> DEFINE s == [Idle EXCEPT !.pc = pc, !.job = job, !.row = row]
<1>1. s \in CallerState /\ s.pc = pc /\ Known(s)
  BY IdleState DEF CallerState, Idle, Known
<1> QED
  BY <1>1 DEF Call

LEMMA SelectedState ==
  ASSUME VInv, NEW state \in CallerState
  PROVE  Selected(state) \in CallerState /\ Selected(state).pc = state.pc
<1>1. Listed(table, clock) \subseteq DOMAIN table /\ DOMAIN table \subseteq RowIds
  BY DEF Listed, Due, VInv, Kept, TableType
<1>2. Listed(table, clock) \in SUBSET RowIds
      /\ Merging(table, Listed(table, clock)) \in SUBSET RowIds
      /\ Alone(table, Listed(table, clock)) \in SUBSET RowIds
  BY <1>1 DEF Merging, Alone, First
<1> QED
  BY <1>2 DEF Selected, CallerState

LEMMA ExpiredSpares ==
  ASSUME VInv, NEW h
  PROVE  /\ Kept(Expired(h), nextRow)
         /\ Untouched(table, Expired(h))
BY ExpireKeeps DEF Expired, VInv

-----------------------------------------------------------------------------
(* Each step keeps the invariant.                                          *)

LEMMA TypesOf ==
  ASSUME VInv
  PROVE  /\ table \in [DOMAIN table -> Row] /\ DOMAIN table \subseteq RowIds
         /\ clock \in Nat /\ nextRow \in 1..(MaxRows + 1) /\ nextRow \in Nat
         /\ owner \in [Jobs -> {"unborn", "alive", "gone"}]
         /\ caller \in [Callers -> CallerState]
         /\ strayed \subseteq Jobs
         /\ Kept(table, nextRow)
         /\ MaxRows \in Nat
BY StoreAssumption DEF VInv, TypeOK, TableType

LEMMA OwnerTypes ==
  ASSUME owner \in [Jobs -> {"unborn", "alive", "gone"}], NEW job,
         Starts(job) \/ Ends(job) \/ MayEnd(job)
  PROVE  owner' \in [Jobs -> {"unborn", "alive", "gone"}]
BY DEF Starts, Ends, MayEnd

LEMMA HandlersCall ==
  ASSUME NEW h \in Handlers
  PROVE  h \in Callers
BY VideoAssumption

\* A call that goes to rest, or on to another call, without a touch of the table.
LEMMA RestSteps ==
  ASSUME VInv, Rising, NEW c \in Callers, Rest(c), UNCHANGED <<table, nextRow>>
  PROVE  VInv'
BY IdleState, SameTableSteps DEF Rest, Deleting

LEMMA CreateSteps ==
  ASSUME VInv, NEW h \in Handlers,
         \/ \E job \in Jobs : NodeAccepts(h, job) \/ NodeAnswerLost(h, job)
         \/ Persist(h) \/ PersistFails(h) \/ Compensated(h) \/ CompensationFails(h)
         \/ EnqueueCleanup(h) \/ EnqueueFails(h)
  PROVE  VInv'
<1>1. h \in Callers
  BY HandlersCall
<1>2. caller[h] \in CallerState /\ Known(caller[h])
  BY <1>1, TypesOf DEF VInv, Creators
<1>3. CASE \E job \in Jobs : NodeAccepts(h, job)
  <2>1. PICK job \in Jobs : NodeAccepts(h, job)
    BY <1>3
  <2>2. Rising
    BY <2>1, TypesOf, OwnerTypes DEF NodeAccepts, Rising
  <2>3. PICK s \in CallerState :
          s.pc = "persisting" /\ Known(s) /\ caller' = [caller EXCEPT ![h] = s]
    <3>1. Call(h, "persisting", job, 0)
      BY <2>1 DEF NodeAccepts
    <3> QED
      BY <1>1, <3>1, CallState
  <2> QED
    BY <1>1, <2>1, <2>2, <2>3, SameTableSteps DEF NodeAccepts, Deleting
<1>4. CASE \E job \in Jobs : NodeAnswerLost(h, job)
  <2>1. PICK job \in Jobs : NodeAnswerLost(h, job)
    BY <1>4
  <2>2. Rising
    BY <2>1, TypesOf, OwnerTypes DEF NodeAnswerLost, Rising
  <2>3. UNCHANGED <<table, nextRow, caller>>
    BY <2>1 DEF NodeAnswerLost
  <2> QED
    BY <2>2, <2>3 DEF VInv, TypeOK, Leased, Exclusive, Creators, Rising
<1>5. CASE Persist(h)
  <2>1. /\ nextRow \in RowIds /\ nextRow' = nextRow + 1
        /\ table' = Insert(Expired(h), nextRow, NewRow(caller[h].job, clock + Ttl, "active"))
        /\ caller[h].pc = "persisting"
    BY <1>5, TypesOf DEF Persist, RowIds
  <2>2. Rising
    BY <1>5, <2>1, TypesOf DEF Persist, Rising, RowIds
  <2>3. Kept(Expired(h), nextRow) /\ Untouched(table, Expired(h))
    BY ExpiredSpares
  <2> DEFINE row == NewRow(caller[h].job, clock + Ttl, "active")
  <2>4. row \in Row /\ row.pending # "quarantined"
    <3>1. caller[h].job \in Jobs
      BY <1>2, <2>1 DEF Known
    <3>2. clock + Ttl \in Nat
      BY TypesOf, StoreAssumption
    <3> QED
      BY <3>1, <3>2, NewRowType DEF NewRow
  <2> HIDE DEF row
  <2>5. table' = Insert(Expired(h), nextRow, row)
    BY <2>1 DEF row
  <2>6. Kept(table', nextRow') /\ \A c : Spares(c, Expired(h), table', nextRow)
    BY <2>1, <2>3, <2>4, <2>5, InsertKeeps
  <2>7. Spares(h, table, table', nextRow)
    <3>1. \A x \in DOMAIN table : x # nextRow
      BY TypesOf DEF Kept, RowIds
    <3> QED
      BY <2>3, <2>5, <3>1, TypesOf, SparesAll
  <2> QED
    BY <1>1, <1>5, <2>2, <2>6, <2>7, IdleState, QuietCallerSteps DEF Persist, Rest, Deleting
<1>6. CASE PersistFails(h)
  <2> DEFINE s == [Idle EXCEPT !.pc = "compensating", !.job = caller[h].job, !.left = Deadline]
  <2>1. /\ caller' = [caller EXCEPT ![h] = s] /\ caller[h].pc = "persisting"
        /\ UNCHANGED <<table, nextRow>>
    BY <1>6 DEF PersistFails
  <2>2. Rising
    BY <1>6, TypesOf DEF PersistFails, Rising
  <2>3. s \in CallerState /\ Known(s) /\ s.pc \notin Deleting
    <3>1. Deadline \in 0..Deadline /\ caller[h].job \in Jobs
      BY <1>2, <2>1, VideoAssumption DEF Known
    <3> QED
      BY <3>1, IdleState DEF CallerState, Idle, Known, Deleting
  <2> QED
    BY <1>1, <2>1, <2>2, <2>3, SameTableSteps
<1>7. CASE Compensated(h)
  <2>1. Rising
    BY <1>7, TypesOf, OwnerTypes DEF Compensated, Rising
  <2> QED
    BY <1>1, <1>7, <2>1, RestSteps DEF Compensated
<1>8. CASE CompensationFails(h)
  <2>1. Rising
    BY <1>8, TypesOf, OwnerTypes DEF CompensationFails, Rising
  <2>2. caller[h].job \in Jobs /\ Goto(h, "enqueuing")
    BY <1>2, <1>8 DEF CompensationFails, Known
  <2>3. PICK s \in CallerState :
          s.pc = "enqueuing" /\ Known(s) /\ caller' = [caller EXCEPT ![h] = s]
    BY <1>1, <2>2, TypesOf, GotoState
  <2> QED
    BY <1>1, <1>8, <2>1, <2>3, SameTableSteps DEF CompensationFails, Deleting
<1>9. CASE EnqueueCleanup(h)
  <2>1. /\ nextRow \in RowIds /\ caller[h].job \in Jobs /\ clock \in Nat
        /\ table' \in Enqueue(table, nextRow, caller[h].job, clock)
        /\ nextRow' = IF nextRow \in DOMAIN table' THEN nextRow + 1 ELSE nextRow
    BY <1>2, <1>9, TypesOf DEF EnqueueCleanup, Known, RowIds
  <2>2. Rising
    BY <1>9, <2>1, TypesOf DEF EnqueueCleanup, Rising, RowIds
  <2>3. Kept(table', nextRow') /\ Spares(h, table, table', nextRow)
    BY <2>1, TypesOf, EnqueueKeeps
  <2> QED
    BY <1>1, <1>9, <2>2, <2>3, IdleState, QuietCallerSteps DEF EnqueueCleanup, Rest, Deleting
<1>10. CASE EnqueueFails(h)
  <2>1. Rising
    BY <1>10, TypesOf DEF EnqueueFails, Rising, Alive
  <2> QED
    BY <1>1, <1>10, <2>1, RestSteps DEF EnqueueFails
<1> QED
  BY <1>3, <1>4, <1>5, <1>6, <1>7, <1>8, <1>9, <1>10

\* Calls of the store that only expire rows, and requests that come in or end.
LEMMA BeginSteps ==
  ASSUME VInv, NEW h \in Callers, NEW id \in RowIds \cup {0},
         NEW pc \in {"loading", "updating", "claiming"}, Begin(h, pc, id)
  PROVE  VInv'
<1> DEFINE asked == [Idle EXCEPT !.pc = pc, !.row = id]
<1>1. asked \in CallerState /\ asked.pc = pc
  BY IdleState DEF Idle, CallerState
<1> HIDE DEF asked
<1> DEFINE s == Selected(asked)
<1>2. s \in CallerState /\ s.pc = pc
  BY <1>1, SelectedState
<1>3. caller' = [caller EXCEPT ![h] = s] /\ UNCHANGED <<table, clock, nextRow, owner, strayed>>
  BY DEF Begin, asked
<1>4. Rising
  BY <1>3, TypesOf DEF Rising
<1>5. Known(s) /\ s.pc \notin Deleting
  BY <1>2 DEF Known, Deleting
<1> HIDE DEF s
<1> QED
  BY <1>2, <1>3, <1>4, <1>5, SameTableSteps

LEMMA ReadSteps ==
  ASSUME VInv, NEW h \in Handlers,
         \/ Select(h)
         \/ \E id \in RowIds : AskRead(h, id) \/ AskDelete(h, id)
         \/ LoadVideoJob(h) \/ ReadEnds(h) \/ StatusAnswered(h) \/ UpdateStatus(h)
         \/ Reload(h) \/ StoreFails(h) \/ OwnerUnavailable(h)
  PROVE  VInv'
<1>1. h \in Callers
  BY HandlersCall
<1>2. caller[h] \in CallerState /\ Known(caller[h])
  BY <1>1, TypesOf DEF VInv, Creators
<1>3. Kept(Expired(h), nextRow) /\ Spares(h, table, Expired(h), nextRow)
  BY ExpiredSpares, UntouchedSpares
<1>4. ASSUME UNCHANGED <<clock, nextRow, owner, strayed>>
      PROVE  Rising
  BY <1>4, TypesOf DEF Rising
<1>5. CASE Select(h)
  <2> DEFINE s == Selected(caller[h])
  <2>1. s \in CallerState /\ s.pc = caller[h].pc
    BY <1>2, SelectedState
  <2>2. s.job = caller[h].job
    BY <1>2 DEF Selected, CallerState
  <2>3. /\ caller' = [caller EXCEPT ![h] = s] /\ UNCHANGED <<table, nextRow>> /\ Rising
        /\ caller[h].pc \in StoreCalls
    BY <1>4, <1>5 DEF Select
  <2>4. Known(s) /\ s.pc \notin Deleting
    BY <1>2, <2>1, <2>2, <2>3 DEF Known, StoreCalls, Deleting
  <2> HIDE DEF s
  <2> QED
    BY <1>1, <2>1, <2>3, <2>4, SameTableSteps
<1>6. CASE \E id \in RowIds : AskRead(h, id) \/ AskDelete(h, id)
  BY <1>1, <1>6, BeginSteps DEF AskRead, AskDelete
<1>7. CASE LoadVideoJob(h)
  <2>1. table' = Expired(h) /\ UNCHANGED nextRow /\ Rising
    BY <1>4, <1>7 DEF LoadVideoJob
  <2>2. CASE Rest(h)
    BY <1>1, <1>3, <2>1, <2>2, IdleState, QuietCallerSteps DEF Rest, Deleting
  <2>3. CASE Call(h, "polling", NoJob, caller[h].row)
    <3>1. caller[h].row \in RowIds \cup {0}
      BY <1>2 DEF CallerState
    <3>2. PICK s \in CallerState :
            s.pc = "polling" /\ Known(s) /\ caller' = [caller EXCEPT ![h] = s]
      BY <1>1, <2>3, <3>1, CallState
    <3> QED
      BY <1>1, <1>3, <2>1, <3>2, QuietCallerSteps DEF Deleting
  <2> QED
    BY <1>7, <2>2, <2>3 DEF LoadVideoJob
<1>8. CASE ReadEnds(h)
  BY <1>1, <1>4, <1>8, RestSteps DEF ReadEnds
<1>9. CASE StatusAnswered(h)
  <2>1. caller[h].row \in RowIds \cup {0}
    BY <1>2 DEF CallerState
  <2> QED
    BY <1>1, <1>9, <2>1, BeginSteps DEF StatusAnswered
<1>10. CASE UpdateStatus(h)
  <2>1. table' = Expired(h) /\ UNCHANGED nextRow /\ Rising
    BY <1>4, <1>10 DEF UpdateStatus
  <2>2. Call(h, "reloading", NoJob, 0)
    BY <1>10 DEF UpdateStatus
  <2>3. PICK s \in CallerState :
          s.pc = "reloading" /\ Known(s) /\ caller' = [caller EXCEPT ![h] = s]
    BY <1>1, <2>2, CallState
  <2> QED
    BY <1>1, <1>3, <2>1, <2>3, QuietCallerSteps DEF Deleting
<1>11. CASE Reload(h)
  <2>1. table' = Expired(h) /\ UNCHANGED nextRow /\ Rising /\ Rest(h)
    BY <1>4, <1>11 DEF Reload
  <2> QED
    BY <1>1, <1>3, <2>1, IdleState, QuietCallerSteps DEF Rest, Deleting
<1>12. CASE StoreFails(h)
  BY <1>1, <1>4, <1>12, RestSteps DEF StoreFails
<1>13. CASE OwnerUnavailable(h)
  <2>1. Goto(h, "releasing") /\ UNCHANGED <<table, nextRow>> /\ Rising
    BY <1>4, <1>13 DEF OwnerUnavailable
  <2>2. PICK s \in CallerState :
          s.pc = "releasing" /\ Known(s) /\ caller' = [caller EXCEPT ![h] = s]
    BY <1>1, <2>1, TypesOf, GotoState
  <2> QED
    BY <1>1, <2>1, <2>2, SameTableSteps DEF Deleting
<1> QED
  BY <1>5, <1>6, <1>7, <1>8, <1>9, <1>10, <1>11, <1>12, <1>13

\* A claim of a row that nobody else could be deleting through.
LEMMA ClaimSteps ==
  ASSUME VInv, Rising, UNCHANGED nextRow, NEW c \in Callers,
         NEW u, Kept(u, nextRow), Untouched(table, u),
         NEW id \in DOMAIN u, Unclaimed(u[id]), u[id].pending # "quarantined",
         table' = Claim(u, id, c), Hold(c, id, u[id])
  PROVE  VInv'
<1> DEFINE s == [Idle EXCEPT !.pc = "claimed", !.job = u[id].job,
                             !.row = id, !.foreign = u[id].foreign]
           row == [u[id] EXCEPT !.claim = c, !.left = Lease]
<1>1. u[id] \in Row /\ id \in RowIds /\ id < nextRow /\ id \in DOMAIN table
  BY RowsOf DEF Kept, Untouched
<1>2. s \in CallerState /\ Known(s) /\ s.pc = "claimed" /\ s.row = id
  BY <1>1, IdleState DEF CallerState, Idle, Row, Known
<1>3. /\ row \in Row /\ row.claim = c /\ row.left = Lease
      /\ row.pending # "quarantined"
  <2>1. Lease \in 0..Lease
    BY StoreAssumption
  <2> QED
    BY <1>1, <2>1 DEF Row
<1>4. table' = [u EXCEPT ![id] = row]
  BY DEF Claim
<1>5. caller' = [caller EXCEPT ![c] = s]
  BY DEF Hold
<1> HIDE DEF s, row
<1>6. /\ Kept(table', nextRow') /\ DOMAIN table' = DOMAIN u
      /\ \A x \in DOMAIN u : table'[x] = IF x = id THEN row ELSE u[x]
  <2>1. row.pending = "quarantined" => row.claim = NoCaller
    BY <1>3
  <2>2. /\ Kept(table', nextRow) /\ DOMAIN table' = DOMAIN u
        /\ \A x \in DOMAIN u : table'[x] = IF x = id THEN row ELSE u[x]
    <3>1. Kept(u, nextRow) /\ id \in DOMAIN u /\ row \in Row
      BY <1>3
    <3> QED
      BY ONLY <1>4, <2>1, <3>1, ReplaceKeeps
  <2> QED
    BY <2>2
<1>7. table[id].claim = NoCaller \/ table[id].left = 0
  BY DEF Unclaimed, Untouched
<1>8. Spares(c, table, table', nextRow)
  BY <1>6, <1>7 DEF Spares, Untouched
<1>9. Entitled(c, s)
  <2>1. Outlasts(row, s)
    BY <1>2, <1>3, StoreAssumption DEF Outlasts
  <2>2. ASSUME NEW d \in Callers \ {c}, caller[d].pc \in Deleting
        PROVE  caller[d].row # id
    <3>1. NoCaller \notin Callers
      BY StoreAssumption
    <3> QED
      BY <1>1, <1>7, <2>2, <3>1 DEF VInv, Leased, Outlasts
  <2> QED
    BY <1>1, <1>2, <1>3, <1>6, <2>1, <2>2 DEF Entitled
<1> QED
  BY <1>2, <1>5, <1>6, <1>8, <1>9, OneCallerSteps

LEMMA ClaimDeleteSteps ==
  ASSUME VInv, NEW h \in Handlers, ClaimDelete(h)
  PROVE  VInv'
<1> DEFINE u == Expired(h)
           id == caller[h].row
<1>1. h \in Callers
  BY HandlersCall
<1>2. /\ UNCHANGED <<clock, nextRow, owner, strayed>>
      /\ \/ Claimable(u, id, clock) /\ table' = Claim(u, id, h) /\ Hold(h, id, u[id])
         \/ table' = u /\ Rest(h)
  BY DEF ClaimDelete
<1>3. Rising
  BY <1>2, TypesOf DEF Rising
<1>4. Kept(u, nextRow) /\ Untouched(table, u)
  BY ExpiredSpares
<1> HIDE DEF u, id
<1>5. CASE Claimable(u, id, clock) /\ table' = Claim(u, id, h) /\ Hold(h, id, u[id])
  BY <1>1, <1>2, <1>3, <1>4, <1>5, ClaimSteps DEF Claimable, Visible
<1>6. CASE table' = u /\ Rest(h)
  <2>1. Spares(h, table, u, nextRow)
    BY <1>4, UntouchedSpares
  <2> QED
    BY <1>1, <1>2, <1>3, <1>4, <1>6, <2>1, IdleState, QuietCallerSteps DEF Rest, Deleting
<1> QED
  BY <1>2, <1>5, <1>6

\* A caller gives up a row, or leaves it.
LEMMA GiveUpSteps ==
  ASSUME VInv, Rising, UNCHANGED nextRow, NEW c \in Callers, Rest(c),
         NEW id,
         table' \in {table, Release(table, id, c), Quarantine(table, id, c), Confirm(table, id, c)}
  PROVE  VInv'
<1>1. Kept(table, nextRow) /\ \A x \in DOMAIN table : table[x] \in Row
  BY RowsOf, TypesOf DEF Kept
<1>2. 0 \in 0..Lease /\ NoCaller \in Callers \cup {NoCaller}
  BY StoreAssumption
<1>3. CASE table' = table \/ ~Holds(table, id, c)
  <2>1. table' = table
    BY <1>3 DEF Release, Quarantine, Confirm
  <2> QED
    BY <2>1, RestSteps
<1>4. CASE Holds(table, id, c) /\ table' = Confirm(table, id, c)
  <2>1. table' = [x \in DOMAIN table \ {id} |-> table[x]]
    BY <1>4 DEF Confirm, Delete
  <2>2. Kept(table', nextRow)
    BY <1>1, <2>1 DEF Kept, TableType
  <2>3. Spares(c, table, table', nextRow)
    BY <2>1 DEF Spares
  <2> QED
    BY <2>2, <2>3, IdleState, QuietCallerSteps DEF Rest, Deleting
<1>5. CASE /\ Holds(table, id, c)
           /\ \E row \in Row : row.claim = NoCaller /\ table' = [table EXCEPT ![id] = row]
  <2>1. PICK row \in Row : row.claim = NoCaller /\ table' = [table EXCEPT ![id] = row]
    BY <1>5
  <2>2. id \in DOMAIN table /\ table[id].claim \in {c, NoCaller}
    BY <1>5 DEF Holds
  <2>3. /\ Kept(table', nextRow) /\ DOMAIN table' = DOMAIN table
        /\ \A x \in DOMAIN table : table'[x] = IF x = id THEN row ELSE table[x]
    BY <1>1, <2>1, <2>2, ReplaceKeeps
  <2>4. Spares(c, table, table', nextRow)
    BY <2>2, <2>3, ReplaceSpares
  <2>5. Kept(table', nextRow')
    BY <2>3
  <2> QED
    BY <2>4, <2>5, IdleState, QuietCallerSteps DEF Rest, Deleting
<1>6. CASE Holds(table, id, c) /\ table' = Release(table, id, c)
  <2> DEFINE row == [table[id] EXCEPT !.claim = NoCaller, !.left = 0]
  <2>1. table' = [table EXCEPT ![id] = row]
    BY <1>6 DEF Release
  <2>2. row \in Row /\ row.claim = NoCaller
    BY <1>1, <1>2, <1>6 DEF Row, Holds
  <2> QED
    BY <1>5, <1>6, <2>1, <2>2
<1>7. CASE Holds(table, id, c) /\ table' = Quarantine(table, id, c) /\ table' # table
  <2> DEFINE row == [table[id] EXCEPT !.pending = "quarantined",
                                      !.claim = NoCaller, !.left = 0]
  <2>1. table' = [table EXCEPT ![id] = row]
    BY <1>7 DEF Quarantine
  <2>2. row \in Row /\ row.claim = NoCaller
    BY <1>1, <1>2, <1>7 DEF Row, Holds
  <2> QED
    BY <1>5, <1>7, <2>1, <2>2
<1> QED
  BY <1>3, <1>4, <1>6, <1>7

LEMMA CleanupSteps ==
  ASSUME VInv, NEW w \in Loops, CleanupStep(w)
  PROVE  VInv'
<1>1. w \in Callers
  BY VideoAssumption
<1>2. ASSUME UNCHANGED <<clock, nextRow, owner, strayed>>
      PROVE  Rising
  BY <1>2, TypesOf DEF Rising
<1>3. CASE ClaimCleanup(w)
  <2> DEFINE u == ExpireNow(table, clock)
  <2>1. Kept(u, nextRow) /\ Untouched(table, u)
    BY ExpireKeeps, TypesOf DEF ExpireNow
  <2>2. /\ UNCHANGED <<clock, nextRow, owner, strayed>>
        /\ \/ table' = u /\ caller' = [caller EXCEPT ![w] = Asleep]
           \/ \E id \in NextCleanup(u) : table' = Claim(u, id, w) /\ Hold(w, id, u[id])
    BY <1>3 DEF ClaimCleanup
  <2> HIDE DEF u
  <2>3. CASE table' = u /\ caller' = [caller EXCEPT ![w] = Asleep]
    <3>1. Spares(w, table, u, nextRow)
      BY <2>1, UntouchedSpares
    <3> QED
      BY <1>1, <1>2, <2>1, <2>2, <2>3, <3>1, IdleState, QuietCallerSteps DEF Deleting
  <2>4. CASE \E id \in NextCleanup(u) : table' = Claim(u, id, w) /\ Hold(w, id, u[id])
    <3>1. PICK id \in NextCleanup(u) : table' = Claim(u, id, w) /\ Hold(w, id, u[id])
      BY <2>4
    <3>2. id \in DOMAIN u /\ Unclaimed(u[id]) /\ u[id].pending # "quarantined"
      BY <3>1 DEF NextCleanup, CleanupQueue
    <3> QED
      BY <1>1, <1>2, <2>1, <2>2, <3>1, <3>2, ClaimSteps
  <2> QED
    BY <2>2, <2>3, <2>4
<1>4. CASE QuarantineCleanup(w)
  <2>1. /\ table' \in {Quarantine(table, caller[w].row, w)} /\ Rest(w)
        /\ UNCHANGED nextRow /\ Rising
    BY <1>2, <1>4 DEF QuarantineCleanup
  <2> QED
    BY <1>1, <2>1, GiveUpSteps
<1>5. CASE CleanupOwnerAbsent(w)
  BY <1>1, <1>2, <1>5, RestSteps DEF CleanupOwnerAbsent
<1>6. CASE CleanupCancelled(w)
  <2>1. Goto(w, "releasing") /\ UNCHANGED <<table, nextRow>> /\ Rising
    BY <1>2, <1>6 DEF CleanupCancelled
  <2>2. PICK s \in CallerState :
          s.pc = "releasing" /\ Known(s) /\ caller' = [caller EXCEPT ![w] = s]
    BY <1>1, <2>1, TypesOf, GotoState
  <2> QED
    BY <1>1, <2>1, <2>2, SameTableSteps DEF Deleting
<1>7. CASE CleanupStoreFails(w)
  <2>1. UNCHANGED <<table, nextRow>> /\ Rising /\ caller' = [caller EXCEPT ![w] = Asleep]
    BY <1>2, <1>7 DEF CleanupStoreFails
  <2> QED
    BY <1>1, <2>1, IdleState, SameTableSteps DEF Deleting
<1> QED
  BY <1>3, <1>4, <1>5, <1>6, <1>7 DEF CleanupStep

\* The upstream DELETE, under the lease of the claim.
LEMMA DeleteSteps ==
  ASSUME VInv, NEW c \in Callers, DeleteStep(c)
  PROVE  VInv'
<1>1. caller[c] \in CallerState /\ Kept(table, nextRow)
  BY TypesOf
<1>2. \A n : Spares(c, table, table, n)
  BY DEF Spares
<1>3. CASE StartDelete(c)
  <2> DEFINE s == [caller[c] EXCEPT !.pc = "deleting", !.left = Deadline]
  <2>1. s \in CallerState /\ s.pc = "deleting" /\ s.left = Deadline /\ s.row = caller[c].row
    <3>1. Deadline \in 0..Deadline
      BY VideoAssumption
    <3> QED
      BY <1>1, <3>1 DEF CallerState
  <2>2. /\ caller' = [caller EXCEPT ![c] = s] /\ caller[c].pc = "claimed"
        /\ UNCHANGED <<table, clock, nextRow, owner, strayed>>
    BY <1>3 DEF StartDelete
  <2>3. Rising
    BY <2>2, TypesOf DEF Rising
  <2> HIDE DEF s
  <2>4. Entitled(c, s)
    <3>1. Lease - Deadline + Deadline = Lease /\ Lease >= 1
      BY StoreAssumption, VideoAssumption
    <3>2. ASSUME s.row \in DOMAIN table
          PROVE  table[s.row].claim = c /\ Outlasts(table[s.row], s)
      <4>1. table[s.row].claim = c /\ table[s.row].left = Lease
        BY <2>1, <2>2, <3>2 DEF VInv, Leased, Deleting, Outlasts
      <4>2. table[s.row].left >= s.left + (Lease - Deadline)
        BY <2>1, <4>1, StoreAssumption, VideoAssumption
      <4> QED
        BY <2>1, <3>1, <4>1, <4>2 DEF Outlasts
    <3> QED
      BY <2>1, <2>2, <3>2 DEF Entitled, VInv, Leased, Exclusive, Deleting
  <2>5. Known(s)
    BY <2>1 DEF Known
  <2> QED
    BY <1>1, <1>2, <2>1, <2>2, <2>3, <2>4, <2>5, OneCallerSteps
<1>4. CASE NodeDeletes(c)
  <2>1. Rising
    BY <1>4, TypesOf, OwnerTypes DEF NodeDeletes, Rising
  <2>2. Goto(c, "confirming") /\ UNCHANGED <<table, nextRow>> /\ caller[c].pc = "deleting"
    BY <1>4 DEF NodeDeletes
  <2>3. PICK s \in CallerState : /\ s.pc = "confirming" /\ s.row = caller[c].row /\ Known(s)
                                 /\ caller' = [caller EXCEPT ![c] = s]
    BY <2>2, TypesOf, GotoState
  <2>4. Entitled(c, s)
    BY <2>2, <2>3 DEF Entitled, VInv, Leased, Exclusive, Deleting, Outlasts
  <2> QED
    BY <1>1, <1>2, <2>1, <2>2, <2>3, <2>4, OneCallerSteps
<1>5. CASE DeleteFails(c)
  <2>1. Rising
    BY <1>5, TypesOf, OwnerTypes DEF DeleteFails, Rising
  <2>2. UNCHANGED <<table, nextRow>> /\ (Goto(c, "releasing") \/ Rest(c))
    BY <1>5 DEF DeleteFails
  <2>3. CASE Goto(c, "releasing")
    <3>1. PICK s \in CallerState :
            s.pc = "releasing" /\ Known(s) /\ caller' = [caller EXCEPT ![c] = s]
      BY <2>3, TypesOf, GotoState
    <3> QED
      BY <2>1, <2>2, <3>1, SameTableSteps DEF Deleting
  <2> QED
    BY <2>1, <2>2, <2>3, RestSteps
<1>6. CASE ConfirmDelete(c) \/ ReleaseDelete(c)
  <2>1. /\ UNCHANGED <<clock, nextRow, owner, strayed>> /\ Rest(c)
        /\ table' \in {table, Release(table, caller[c].row, c), Confirm(table, caller[c].row, c)}
    BY <1>6 DEF ConfirmDelete, ReleaseDelete
  <2>2. Rising
    BY <2>1, TypesOf DEF Rising
  <2>3. table' \in {table, Release(table, caller[c].row, c), Quarantine(table, caller[c].row, c),
                    Confirm(table, caller[c].row, c)}
    BY <2>1
  <2> QED
    BY <2>1, <2>2, <2>3, GiveUpSteps
<1> QED
  BY <1>3, <1>4, <1>5, <1>6 DEF DeleteStep

LEMMA RestartedStates ==
  /\ Restarted \in [Callers -> CallerState]
  /\ \A c \in Callers : Restarted[c].pc \notin Deleting /\ Known(Restarted[c])
BY IdleState DEF Restarted, Deleting

LEMMA CrashSteps ==
  ASSUME VInv, Crash
  PROVE  VInv'
<1>1. /\ caller' = Restarted /\ UNCHANGED <<table, clock, nextRow, owner>>
      /\ strayed' \subseteq Jobs
  BY TypesOf DEF Crash, Alive
<1>2. TypeOK'
  BY <1>1, RestartedStates DEF VInv, TypeOK
<1>3. Kept(table', nextRow')
  BY <1>1 DEF VInv
<1>4. Leased' /\ Exclusive' /\ Creators'
  BY <1>1, RestartedStates DEF Leased, Exclusive, Creators
<1> QED
  BY <1>2, <1>3, <1>4 DEF VInv

\* Time takes as much from the lease as from the deadline of the DELETE under it, and
\* does not pass while a call that is over is still to be acted upon.
LEMMA TickSteps ==
  ASSUME VInv, Tick
  PROVE  VInv'
<1> DEFINE less(k) == IF k > 0 THEN k - 1 ELSE 0
<1>1. /\ table' = [x \in DOMAIN table |-> [table[x] EXCEPT !.left = less(@)]]
      /\ caller' = [c \in Callers |-> [caller[c] EXCEPT !.left = less(@)]]
      /\ clock' = (IF clock < MaxClock THEN clock + 1 ELSE clock)
      /\ UNCHANGED <<nextRow, owner, strayed>>
      /\ \A c \in Callers : Prompt(c)
  BY DEF Tick
<1>2. ASSUME NEW x \in DOMAIN table
      PROVE  /\ table'[x] \in Row /\ table[x] \in Row
             /\ table'[x].claim = table[x].claim /\ table'[x].pending = table[x].pending
             /\ table'[x].left = less(table[x].left)
  <2>1. table[x] \in Row /\ table[x].left \in 0..Lease
    BY TypesOf DEF Row
  <2>2. less(table[x].left) \in 0..Lease
    BY <2>1, StoreAssumption
  <2> HIDE DEF less
  <2> QED
    BY <1>1, <2>1, <2>2 DEF Row
<1>3. ASSUME NEW c \in Callers
      PROVE  /\ caller'[c] \in CallerState /\ caller[c] \in CallerState
             /\ caller'[c].pc = caller[c].pc /\ caller'[c].row = caller[c].row
             /\ caller'[c].job = caller[c].job
             /\ caller'[c].left = less(caller[c].left)
  <2>1. caller[c] \in CallerState /\ caller[c].left \in 0..Deadline
    BY TypesOf DEF CallerState
  <2>2. less(caller[c].left) \in 0..Deadline
    BY <2>1, VideoAssumption
  <2> HIDE DEF less
  <2> QED
    BY <1>1, <2>1, <2>2 DEF CallerState
<1>4. DOMAIN table' = DOMAIN table
  BY <1>1
<1> HIDE DEF less
<1>5. table' \in [DOMAIN table' -> Row]
  BY <1>1, <1>2, <1>4
<1>6. caller' \in [Callers -> CallerState]
  BY <1>1, <1>3
<1>7. clock' \in Nat
  BY <1>1, TypesOf
<1>8. TypeOK'
  BY <1>1, <1>4, <1>5, <1>6, <1>7, TypesOf DEF TypeOK, TableType
<1>9. Kept(table', nextRow')
  BY <1>1, <1>2, <1>4, <1>8, TypesOf DEF Kept, TypeOK
<1>10. Leased'
  <2> SUFFICES ASSUME NEW c \in Callers, caller'[c].pc \in Deleting
      PROVE  /\ caller'[c].row < nextRow'
             /\ caller'[c].row \in DOMAIN table' =>
                  /\ table'[caller'[c].row].claim = c
                  /\ Outlasts(table'[caller'[c].row], caller'[c])
    BY DEF Leased
  <2>1. /\ caller[c].pc = "deleting" /\ caller'[c].pc = "deleting"
        /\ caller[c].left > 0 /\ caller[c].left \in Nat
    BY <1>1, <1>3 DEF Prompt, Deleting, CallerState
  <2> DEFINE r == caller[c].row
  <2>2. r < nextRow /\ nextRow' = nextRow /\ caller'[c].row = r
    BY <1>1, <1>3, <2>1 DEF VInv, Leased, Deleting
  <2>3. ASSUME r \in DOMAIN table
        PROVE  table'[r].claim = c /\ Outlasts(table'[r], caller'[c])
    <3>1. table[r].claim = c /\ table[r].left >= caller[c].left + (Lease - Deadline)
      BY <2>1, <2>3 DEF VInv, Leased, Deleting, Outlasts
    <3>2. table[r].left \in Nat
      BY <1>2, <2>3, StoreAssumption DEF Row
    <3>3. Lease - Deadline \in Nat /\ Lease - Deadline >= 1
      BY StoreAssumption, VideoAssumption
    <3>4. /\ table'[r].left = table[r].left - 1
          /\ caller'[c].left = caller[c].left - 1
      BY <1>2, <1>3, <2>1, <2>3, <3>1, <3>2, <3>3 DEF less
    <3>5. /\ table'[r].left >= 1
          /\ table'[r].left >= caller'[c].left + (Lease - Deadline)
      BY <2>1, <3>1, <3>2, <3>3, <3>4
    <3> QED
      BY <1>2, <2>1, <2>3, <3>1, <3>5 DEF Outlasts
  <2> QED
    BY <1>4, <2>2, <2>3
<1>11. Exclusive' /\ Creators'
  BY <1>3 DEF VInv, Exclusive, Creators, Known
<1> QED
  BY <1>8, <1>9, <1>10, <1>11 DEF VInv

LEMMA InitHolds ==
  ASSUME Init
  PROVE  VInv
<1>1. /\ Backlog \in Seq([job : Jobs, foreign : BOOLEAN])
      /\ Len(Backlog) \in Nat /\ Len(Backlog) <= MaxRows /\ MaxRows \in Nat
      /\ DOMAIN Backlog = 1..Len(Backlog)
  BY VideoAssumption, StoreAssumption
<1>2. /\ table = [x \in DOMAIN Backlog |->
                    [NewRow(Backlog[x].job, 0, "cleanup") EXCEPT !.foreign = Backlog[x].foreign]]
      /\ nextRow = Len(Backlog) + 1 /\ clock = 0 /\ strayed = {} /\ caller = Restarted
  BY DEF Init
<1>3. ASSUME NEW x \in DOMAIN table
      PROVE  table[x] \in Row /\ table[x].pending = "cleanup"
  <2>1. Backlog[x].job \in Jobs /\ Backlog[x].foreign \in BOOLEAN
    <3>1. Backlog[x] \in [job : Jobs, foreign : BOOLEAN]
      <4> DEFINE entries == [job : Jobs, foreign : BOOLEAN]
      <4>1. Backlog \in Seq(entries) /\ x \in DOMAIN Backlog
        BY <1>1, <1>2
      <4> HIDE DEF entries
      <4>2. Backlog[x] \in entries
        BY <4>1
      <4> QED
        BY <4>2 DEF entries
    <3> QED
      BY <3>1
  <2> DEFINE row == NewRow(Backlog[x].job, 0, "cleanup")
  <2>2. row \in Row /\ row.pending = "cleanup"
    BY <2>1, NewRowType DEF NewRow
  <2>3. table[x] = [row EXCEPT !.foreign = Backlog[x].foreign]
    BY <1>2
  <2> HIDE DEF row
  <2> QED
    BY <2>1, <2>2, <2>3 DEF Row
<1>4. DOMAIN table = 1..Len(Backlog)
  BY <1>1, <1>2
<1>5. table \in [DOMAIN table -> Row]
  BY <1>2, <1>3
<1>6. Kept(table, nextRow)
  BY <1>1, <1>2, <1>3, <1>4, <1>5 DEF Kept, TableType, RowIds
<1>7. owner \in [Jobs -> {"unborn", "alive", "gone"}]
  BY DEF Init
<1>8. TypeOK
  BY <1>1, <1>2, <1>6, <1>7, RestartedStates DEF TypeOK, Kept
<1>9. Leased /\ Exclusive /\ Creators
  BY <1>2, RestartedStates DEF Leased, Exclusive, Creators
<1> QED
  BY <1>6, <1>8, <1>9 DEF VInv

LEMMA NextKeeps ==
  ASSUME VInv, [Next]_vars
  PROVE  VInv'
<1>1. CASE \E h \in Handlers : HandlerStep(h)
  <2>1. PICK h \in Handlers : HandlerStep(h)
    BY <1>1
  <2> QED
    BY <2>1, CreateSteps, ReadSteps, ClaimDeleteSteps DEF HandlerStep
<1>2. CASE \E w \in Loops : CleanupStep(w)
  BY <1>2, CleanupSteps
<1>3. CASE \E c \in Callers : DeleteStep(c)
  BY <1>3, DeleteSteps
<1>4. CASE Crash
  BY <1>4, CrashSteps
<1>5. CASE Tick
  BY <1>5, TickSteps
<1>6. CASE UNCHANGED vars
  BY <1>6 DEF vars, VInv, TypeOK, Leased, Exclusive, Creators
<1> QED
  BY <1>1, <1>2, <1>3, <1>4, <1>5, <1>6 DEF Next

THEOREM AlwaysVInv == Safety => []VInv
<1>1. Init => VInv
  BY InitHolds
<1>2. VInv /\ [Next]_vars => VInv'
  BY NextKeeps
<1> QED
  BY <1>1, <1>2, PTL DEF Safety

-----------------------------------------------------------------------------
(* What a client can still see.  A call lists the rows that are due; until *)
(* it writes, a row it listed may change hands but does not become younger. *)

Lists(state) ==
  /\ state.merging \subseteq state.listed /\ state.alone \subseteq state.listed
  /\ \A x \in state.listed : x < nextRow /\ (x \in DOMAIN table => table[x].expires_at <= clock)

\* Loops claim what clients no longer see.
LoopClaims == \A x \in DOMAIN table : table[x].claim \in Loops => table[x].pending # "active"

Seen == LoopClaims /\ \A c \in Callers : Lists(caller[c])

\* No row becomes younger than now, active again, or a loop's while it is active.
Follows(t, u, n, now) ==
  \A x \in DOMAIN u :
    IF x \in DOMAIN t
      THEN /\ u[x].expires_at = t[x].expires_at \/ u[x].expires_at <= now
           /\ u[x].pending = "active" => t[x].pending = "active"
           /\ u[x].claim \in Loops => u[x].claim = t[x].claim \/ u[x].pending # "active"
      ELSE x >= n /\ u[x].claim = NoCaller

\* What is visible in t is there in u.
Shows(t, u, now) ==
  \A x \in DOMAIN t : Visible(t, x, now) => x \in DOMAIN u /\ u[x].pending = "active"

\* What VisibleRowSurvives says of one step.
Survives ==
  \A x \in DOMAIN table :
    Visible(table, x, clock) /\ ~(x \in DOMAIN table' /\ table'[x].pending = "active") =>
      \E h \in Handlers :
        caller[h].pc = "confirming" /\ caller[h].row = x /\ table[x].claim = h

Empty(state) == state.listed = {} /\ state.merging = {} /\ state.alone = {}
Same(s1, s2) == s1.listed = s2.listed /\ s1.merging = s2.merging /\ s1.alone = s2.alone

\* Of all callers, c alone takes the step, and lists no rows after it, or those it did.
Only(c) == \A d \in Callers \ {c} : caller'[d] = caller[d]
Clear(c) == Only(c) /\ Empty(caller'[c])
GoesOn(c) == Only(c) /\ Same(caller'[c], caller[c])

LEMMA ShownSurvives ==
  ASSUME Shows(table, table', clock)
  PROVE  Survives
BY DEF Shows, Survives

LEMMA TableSteps ==
  ASSUME VInv, Seen, NEW c \in Callers, Clear(c), clock' = clock,
         nextRow' \in {nextRow, nextRow + 1}, Follows(table, table', nextRow, clock)
  PROVE  Seen'
<1>1. nextRow \in Nat /\ nextRow' \in Nat /\ nextRow' >= nextRow
  BY TypesOf
<1>2. LoopClaims'
  <2> SUFFICES ASSUME NEW x \in DOMAIN table', table'[x].claim \in Loops
               PROVE  table'[x].pending # "active"
    BY DEF LoopClaims
  <2>1. NoCaller \notin Loops
    BY StoreAssumption, VideoAssumption
  <2> QED
    BY <2>1 DEF Seen, LoopClaims, Follows
<1>3. ASSUME NEW d \in Callers \ {c}
      PROVE  Lists(caller[d])'
  <2>1. caller'[d] = caller[d] /\ Lists(caller[d])
    BY DEF Clear, Only, Seen
  <2>2. ASSUME NEW x \in caller[d].listed
        PROVE  x < nextRow' /\ (x \in DOMAIN table' => table'[x].expires_at <= clock')
    <3>1. x < nextRow /\ x \in Nat
      <4>1. caller[d] \in CallerState
        BY TypesOf
      <4> QED
        BY <2>1, <2>2, <4>1, StoreAssumption DEF Lists, CallerState, RowIds
    <3>2. ASSUME x \in DOMAIN table'
          PROVE  x \in DOMAIN table
      BY <1>1, <3>1, <3>2 DEF Follows
    <3> QED
      BY <1>1, <2>1, <2>2, <3>1, <3>2 DEF Follows, Lists
  <2> QED
    BY <2>1, <2>2 DEF Lists
<1>4. Lists(caller[c])'
  BY DEF Lists, Clear, Empty
<1> QED
  BY <1>2, <1>3, <1>4 DEF Seen

\* A step of one caller that leaves the table alone.
LEMMA CallerSteps ==
  ASSUME VInv, Seen, NEW c \in Callers, UNCHANGED <<table, clock, nextRow>>,
         Clear(c) \/ GoesOn(c) \/ (Only(c) /\ Lists(caller'[c]))
  PROVE  Seen' /\ Survives
<1>1. Lists(caller'[c])
  BY DEF Seen, Lists, Clear, GoesOn, Empty, Same
<1>2. \A d \in Callers : Lists(caller'[d])
  BY <1>1 DEF Clear, GoesOn, Only, Seen
<1>3. \A d \in Callers : Lists(caller[d])'
  BY <1>2 DEF Lists
<1>4. LoopClaims'
  BY DEF Seen, LoopClaims
<1>5. Survives
  BY DEF Survives, Visible
<1> QED
  BY <1>3, <1>4, <1>5 DEF Seen

\* Everything a caller can be given to do starts without a list.
LEMMA ClearState ==
  ASSUME caller \in [Callers -> CallerState], NEW c \in Callers,
         NEW s, Empty(s), caller' = [caller EXCEPT ![c] = s]
  PROVE  Clear(c)
BY DEF Clear, Only

LEMMA RestIsClear ==
  ASSUME caller \in [Callers -> CallerState], NEW c \in Callers,
         Rest(c) \/ caller' = [caller EXCEPT ![c] = Asleep]
  PROVE  Clear(c)
<1>1. Empty(Idle) /\ Empty(Asleep)
  BY DEF Idle, Asleep, Empty
<1> QED
  BY <1>1, ClearState DEF Rest

LEMMA CallIsClear ==
  ASSUME caller \in [Callers -> CallerState], NEW c \in Callers,
         NEW pc, NEW job, NEW row, Call(c, pc, job, row)
  PROVE  Clear(c)
<1> DEFINE s == [Idle EXCEPT !.pc = pc, !.job = job, !.row = row]
<1>1. Empty(s)
  BY DEF Idle, Empty
<1>2. caller' = [caller EXCEPT ![c] = s]
  BY DEF Call
<1> HIDE DEF s
<1> QED
  BY <1>1, <1>2, ClearState

LEMMA HoldIsClear ==
  ASSUME caller \in [Callers -> CallerState], NEW c \in Callers,
         NEW id, NEW row, Hold(c, id, row)
  PROVE  Clear(c)
<1> DEFINE s == [Idle EXCEPT !.pc = "claimed", !.job = row.job,
                             !.row = id, !.foreign = row.foreign]
<1>1. Empty(s)
  BY DEF Idle, Empty
<1>2. caller' = [caller EXCEPT ![c] = s]
  BY DEF Hold
<1> HIDE DEF s
<1> QED
  BY <1>1, <1>2, ClearState

\* Everything else leaves the list as it is.
LEMMA GotoGoesOn ==
  ASSUME caller \in [Callers -> CallerState], NEW c \in Callers, NEW pc, Goto(c, pc)
  PROVE  GoesOn(c)
<1> DEFINE s == [caller[c] EXCEPT !.pc = pc, !.left = 0,
                                  !.job = IF pc = "releasing" THEN NoJob ELSE @]
<1>1. caller[c] \in CallerState
  OBVIOUS
<1>2. Same(s, caller[c])
  BY <1>1 DEF CallerState, Same
<1>3. caller' = [caller EXCEPT ![c] = s]
  BY DEF Goto
<1> HIDE DEF s
<1> QED
  BY <1>2, <1>3 DEF GoesOn, Only

\* _cleanup_expired leaves alone what clients can see.
LEMMA ExpireFollows ==
  ASSUME NEW t, NEW listed, NEW merging, NEW now \in Nat,
         \A x \in DOMAIN t : t[x] \in Row,
         merging \subseteq listed, \A x \in listed : x \in DOMAIN t => t[x].expires_at <= now
  PROVE  LET u == Expire(t, listed, merging)
         IN  /\ DOMAIN u \subseteq DOMAIN t
             /\ \A x \in DOMAIN u :
                  /\ u[x].expires_at = t[x].expires_at /\ u[x].claim = t[x].claim
                  /\ u[x].pending = "active" => t[x].pending = "active"
             /\ Shows(t, u, now)
<1> DEFINE u == Expire(t, listed, merging)
<1>0. PICK kept \in SUBSET listed, dropped \in SUBSET listed : Drops(t, u, kept, dropped)
  BY ExpireForm
<1> HIDE DEF u
<1>1. /\ \A x \in kept : t[x].pending = "active"
      /\ u = [x \in DOMAIN t \ dropped |->
                IF x \in kept THEN [t[x] EXCEPT !.pending = "cleanup"] ELSE t[x]]
      /\ kept \subseteq listed /\ dropped \subseteq listed
  BY <1>0 DEF Drops
<1>2. DOMAIN u = DOMAIN t \ dropped
  BY <1>1
<1>3. ASSUME NEW x \in DOMAIN u
      PROVE  /\ u[x].expires_at = t[x].expires_at /\ u[x].claim = t[x].claim
             /\ u[x].pending = "active" => t[x].pending = "active"
  <2>1. u[x] = IF x \in kept THEN [t[x] EXCEPT !.pending = "cleanup"] ELSE t[x]
    BY <1>1, <1>2
  <2>2. t[x] \in Row
    BY <1>2
  <2>3. CASE x \in kept
    BY <2>1, <2>2, <2>3 DEF Row
  <2>4. CASE x \notin kept
    BY <2>1, <2>4
  <2> QED
    BY <2>3, <2>4
<1>4. ASSUME NEW x \in DOMAIN t, Visible(t, x, now)
      PROVE  x \in DOMAIN u /\ u[x].pending = "active"
  <2>1. t[x].expires_at > now /\ t[x].expires_at \in Nat /\ t[x].pending = "active"
    BY <1>4 DEF Visible, Row
  <2>2. x \notin listed
    BY <2>1
  <2>3. x \in DOMAIN u
    BY <1>1, <1>2, <2>2
  <2>4. u[x] = t[x]
    BY <1>1, <1>2, <2>2, <2>3
  <2> QED
    BY <2>1, <2>3, <2>4
<1> QED
  BY <1>2, <1>3, <1>4 DEF Shows, u

\* As the transactions of handlers and the claim of a loop use it.
LEMMA ExpiredFollows ==
  ASSUME VInv, Seen, NEW h \in Callers
  PROVE  /\ DOMAIN Expired(h) \subseteq DOMAIN table
         /\ \A x \in DOMAIN Expired(h) :
              /\ Expired(h)[x].expires_at = table[x].expires_at
              /\ Expired(h)[x].claim = table[x].claim
              /\ Expired(h)[x].pending = "active" => table[x].pending = "active"
         /\ Shows(table, Expired(h), clock)
         /\ Follows(table, Expired(h), nextRow, clock)
<1> DEFINE u == Expired(h)
<1>1. /\ clock \in Nat /\ \A x \in DOMAIN table : table[x] \in Row
      /\ Lists(caller[h])
  BY TypesOf, RowsOf DEF Seen, Kept
<1>2. /\ DOMAIN u \subseteq DOMAIN table
      /\ \A x \in DOMAIN u :
           /\ u[x].expires_at = table[x].expires_at /\ u[x].claim = table[x].claim
           /\ u[x].pending = "active" => table[x].pending = "active"
      /\ Shows(table, u, clock)
  BY <1>1, ExpireFollows DEF Lists, Expired
<1> HIDE DEF u
<1>3. Follows(table, u, nextRow, clock)
  BY <1>2 DEF Follows
<1> QED
  BY <1>2, <1>3 DEF u

LEMMA ExpireNowFollows ==
  ASSUME VInv
  PROVE  LET u == ExpireNow(table, clock)
         IN  /\ DOMAIN u \subseteq DOMAIN table
             /\ \A x \in DOMAIN u :
                  /\ u[x].expires_at = table[x].expires_at /\ u[x].claim = table[x].claim
                  /\ u[x].pending = "active" => table[x].pending = "active"
             /\ Shows(table, u, clock)
<1>1. clock \in Nat /\ \A x \in DOMAIN table : table[x] \in Row
  BY TypesOf, RowsOf DEF Kept
<1>2. /\ Merging(table, Listed(table, clock)) \subseteq Listed(table, clock)
      /\ \A x \in Listed(table, clock) : x \in DOMAIN table => table[x].expires_at <= clock
  BY DEF Merging, First, Listed, Due
<1> QED
  BY <1>1, <1>2, ExpireFollows DEF ExpireNow

LEMMA SelectedLists ==
  ASSUME VInv, NEW state \in CallerState
  PROVE  Lists(Selected(state))
<1>1. \A x \in Listed(table, clock) : x \in DOMAIN table /\ table[x].expires_at <= clock
  BY DEF Listed, Due
<1>2. \A x \in DOMAIN table : x < nextRow
  BY TypesOf DEF Kept
<1>3. /\ Merging(table, Listed(table, clock)) \subseteq Listed(table, clock)
      /\ Alone(table, Listed(table, clock)) \subseteq Listed(table, clock)
  BY DEF Merging, Alone, First
<1>4. /\ Selected(state).listed = Listed(table, clock)
      /\ Selected(state).merging = Merging(table, Listed(table, clock))
      /\ Selected(state).alone = Alone(table, Listed(table, clock))
  BY DEF Selected, CallerState
<1> QED
  BY <1>1, <1>2, <1>3, <1>4 DEF Lists

LEMMA HandlerSees ==
  ASSUME VInv, Seen, NEW h \in Handlers, HandlerStep(h)
  PROVE  Seen' /\ Survives
<1>1. h \in Callers /\ NoCaller \notin Loops /\ h \notin Loops
  BY StoreAssumption, VideoAssumption
<1>2. /\ caller \in [Callers -> CallerState] /\ caller[h] \in CallerState
      /\ nextRow \in Nat /\ clock \in Nat /\ nextRow \notin DOMAIN table
  BY <1>1, TypesOf DEF Kept
<1>3. CASE \E job \in Jobs : NodeAccepts(h, job)
  <2>1. PICK job \in Jobs : Call(h, "persisting", job, 0)
    BY <1>3 DEF NodeAccepts
  <2>2. Clear(h)
    BY <1>1, <1>2, <2>1, CallIsClear
  <2> QED
    BY <1>1, <1>3, <2>2, CallerSteps DEF NodeAccepts
<1>4. CASE \E job \in Jobs : NodeAnswerLost(h, job)
  <2>1. UNCHANGED <<table, clock, nextRow, caller>>
    BY <1>4 DEF NodeAnswerLost
  <2> QED
    BY <1>1, <2>1, CallerSteps DEF GoesOn, Only, Same
<1>5. CASE Select(h)
  <2>1. /\ caller' = [caller EXCEPT ![h] = Selected(caller[h])]
        /\ UNCHANGED <<table, clock, nextRow>>
    BY <1>5 DEF Select
  <2>2. Lists(Selected(caller[h]))
    BY <1>2, SelectedLists
  <2>3. Only(h) /\ Lists(caller'[h])
    BY <1>1, <1>2, <2>1, <2>2 DEF Only
  <2> QED
    BY <1>1, <2>1, <2>3, CallerSteps
<1>6. CASE StatusAnswered(h) \/ \E id \in RowIds : AskRead(h, id) \/ AskDelete(h, id)
  <2>1. PICK pc \in {"loading", "updating", "claiming"}, id \in RowIds \cup {0} : Begin(h, pc, id)
    BY <1>2, <1>6 DEF StatusAnswered, AskRead, AskDelete, CallerState
  <2> DEFINE asked == [Idle EXCEPT !.pc = pc, !.row = id]
  <2>2. asked \in CallerState
    BY IdleState DEF Idle, CallerState
  <2>3. caller' = [caller EXCEPT ![h] = Selected(asked)] /\ UNCHANGED <<table, clock, nextRow>>
    BY <2>1 DEF Begin
  <2> HIDE DEF asked
  <2>4. Lists(Selected(asked))
    BY <2>2, SelectedLists
  <2>5. Only(h) /\ Lists(caller'[h])
    BY <1>1, <1>2, <2>3, <2>4 DEF Only
  <2> QED
    BY <1>1, <2>3, <2>5, CallerSteps
<1>7. CASE PersistFails(h)
  <2> DEFINE s == [Idle EXCEPT !.pc = "compensating", !.job = caller[h].job, !.left = Deadline]
  <2>1. caller' = [caller EXCEPT ![h] = s] /\ UNCHANGED <<table, clock, nextRow>>
    BY <1>7 DEF PersistFails
  <2>2. Empty(s)
    BY DEF Idle, Empty
  <2> HIDE DEF s
  <2>3. Clear(h)
    BY <1>1, <1>2, <2>1, <2>2, ClearState
  <2> QED
    BY <1>1, <2>1, <2>3, CallerSteps
<1>8. CASE CompensationFails(h) \/ OwnerUnavailable(h)
  <2>1. /\ Goto(h, "enqueuing") \/ Goto(h, "releasing")
        /\ UNCHANGED <<table, clock, nextRow>>
    BY <1>8 DEF CompensationFails, OwnerUnavailable
  <2>2. GoesOn(h)
    BY <1>1, <1>2, <2>1, GotoGoesOn
  <2> QED
    BY <1>1, <2>1, <2>2, CallerSteps
<1>9. CASE Compensated(h) \/ EnqueueFails(h) \/ ReadEnds(h) \/ StoreFails(h)
  <2>1. Rest(h) /\ UNCHANGED <<table, clock, nextRow>>
    BY <1>9 DEF Compensated, EnqueueFails, ReadEnds, StoreFails
  <2>2. Clear(h)
    BY <1>1, <1>2, <2>1, RestIsClear
  <2> QED
    BY <1>1, <2>1, <2>2, CallerSteps
<1>10. CASE LoadVideoJob(h) \/ UpdateStatus(h) \/ Reload(h)
  <2>1. /\ table' = Expired(h) /\ UNCHANGED <<clock, nextRow>>
        /\ \/ Rest(h)
           \/ Call(h, "polling", NoJob, caller[h].row)
           \/ Call(h, "reloading", NoJob, 0)
    BY <1>10 DEF LoadVideoJob, UpdateStatus, Reload
  <2>2. Clear(h)
    BY <1>1, <1>2, <2>1, RestIsClear, CallIsClear
  <2>3. Follows(table, table', nextRow, clock) /\ Shows(table, table', clock)
    BY <1>1, <2>1, ExpiredFollows
  <2> QED
    BY <1>1, <2>1, <2>2, <2>3, TableSteps, ShownSurvives
<1>11. CASE Persist(h)
  <2> DEFINE row == NewRow(caller[h].job, clock + Ttl, "active")
             u == Expired(h)
  <2>1. /\ table' = Insert(u, nextRow, row) /\ nextRow' = nextRow + 1
        /\ Rest(h) /\ clock' = clock
    BY <1>11 DEF Persist
  <2>2. row.claim = NoCaller
    BY DEF NewRow
  <2>3. /\ DOMAIN u \subseteq DOMAIN table
        /\ Shows(table, u, clock) /\ Follows(table, u, nextRow, clock)
    BY <1>1, ExpiredFollows
  <2> HIDE DEF row, u
  <2>4. /\ DOMAIN table' = DOMAIN u \cup {nextRow}
        /\ table'[nextRow] = row
        /\ \A x \in DOMAIN u : table'[x] = u[x]
    BY <1>2, <2>1, <2>3 DEF Insert
  <2>5. Follows(table, table', nextRow, clock)
    BY <1>2, <2>2, <2>3, <2>4 DEF Follows
  <2>6. Shows(table, table', clock)
    BY <2>3, <2>4 DEF Shows
  <2>7. Clear(h)
    BY <1>1, <1>2, <2>1, RestIsClear
  <2> QED
    BY <1>1, <2>1, <2>5, <2>6, <2>7, TableSteps, ShownSurvives
<1>12. CASE EnqueueCleanup(h)
  <2> DEFINE fresh == NewRow(caller[h].job, clock, "cleanup")
             same == {x \in DOMAIN table : SameOwner(table[x], fresh)}
             shelved == {x \in same : table[x].pending = "quarantined"}
  <2>1. /\ table' \in Enqueue(table, nextRow, caller[h].job, clock)
        /\ nextRow' = IF nextRow \in DOMAIN table' THEN nextRow + 1 ELSE nextRow
        /\ Rest(h) /\ clock' = clock
    BY <1>12 DEF EnqueueCleanup
  <2>2. fresh.claim = NoCaller /\ fresh.expires_at = clock /\ fresh.pending = "cleanup"
    BY DEF NewRow
  <2>3. \/ table' = Insert(table, nextRow, fresh)
        \/ table' = table
        \/ \E y \in shelved : table' = [table EXCEPT ![y] = fresh]
    BY <2>1 DEF Enqueue
  <2> HIDE DEF fresh
  <2>4. Follows(table, table', nextRow, clock) /\ Shows(table, table', clock)
    <3>1. CASE table' = Insert(table, nextRow, fresh)
      BY <1>2, <2>2, <3>1 DEF Insert, Follows, Shows, Visible
    <3>2. CASE table' = table
      BY <3>2 DEF Follows, Shows, Visible
    <3>3. CASE \E y \in shelved : table' = [table EXCEPT ![y] = fresh]
      <4>1. PICK y \in DOMAIN table :
              table[y].pending = "quarantined" /\ table' = [table EXCEPT ![y] = fresh]
        BY <3>3
      <4>2. /\ DOMAIN table' = DOMAIN table
            /\ \A x \in DOMAIN table : table'[x] = IF x = y THEN fresh ELSE table[x]
        BY <4>1, TypesOf
      <4>3. clock <= clock
        BY <1>2
      <4> QED
        BY <1>1, <2>2, <4>1, <4>2, <4>3 DEF Follows, Shows, Visible
    <3> QED
      BY <2>3, <3>1, <3>2, <3>3
  <2>5. Clear(h)
    BY <1>1, <1>2, <2>1, RestIsClear
  <2> QED
    BY <1>1, <2>1, <2>4, <2>5, TableSteps, ShownSurvives
<1>13. CASE ClaimDelete(h)
  <2> DEFINE u == Expired(h)
             id == caller[h].row
  <2>1. /\ clock' = clock /\ nextRow' = nextRow
        /\ \/ Claimable(u, id, clock) /\ table' = Claim(u, id, h) /\ Hold(h, id, u[id])
           \/ table' = u /\ Rest(h)
    BY <1>13 DEF ClaimDelete
  <2>2. /\ DOMAIN u \subseteq DOMAIN table
        /\ Shows(table, u, clock) /\ Follows(table, u, nextRow, clock)
    BY <1>1, ExpiredFollows
  <2>3. Kept(u, nextRow)
    BY ExpiredSpares
  <2> HIDE DEF u, id
  <2>4. Clear(h)
    BY <1>1, <1>2, <2>1, RestIsClear, HoldIsClear
  <2>5. Follows(table, table', nextRow, clock) /\ Shows(table, table', clock)
    <3>1. CASE table' = u
      BY <2>2, <3>1
    <3>2. CASE id \in DOMAIN u /\ table' = Claim(u, id, h)
      <4>1. /\ DOMAIN table' = DOMAIN u
            /\ \A x \in DOMAIN u : /\ table'[x].expires_at = u[x].expires_at
                                   /\ table'[x].pending = u[x].pending
                                   /\ table'[x].claim \in {h, u[x].claim}
        BY <2>3, <3>2 DEF Claim, Kept, TableType, Row
      <4> QED
        BY <1>1, <2>2, <4>1 DEF Follows, Shows
    <3> QED
      BY <2>1, <3>1, <3>2 DEF Claimable, Visible
  <2> QED
    BY <1>1, <2>1, <2>4, <2>5, TableSteps, ShownSurvives
<1> QED
  BY <1>3, <1>4, <1>5, <1>6, <1>7, <1>8, <1>9, <1>10, <1>11, <1>12, <1>13 DEF HandlerStep

\* A claim is given back or lost with its row; what was visible stays so, unless a handler
\* confirms, and what a loop gives up no client could see.
LEMMA GiveUpSees ==
  ASSUME VInv, Seen, NEW c \in Callers, Rest(c), UNCHANGED <<clock, nextRow>>,
         NEW id,
         table' \in {table, Release(table, id, c), Quarantine(table, id, c), Confirm(table, id, c)},
         table' = Confirm(table, id, c) =>
           c \in Loops \/ table' = table \/ (caller[c].pc = "confirming" /\ caller[c].row = id)
  PROVE  Seen' /\ Survives
<1>1. /\ caller \in [Callers -> CallerState] /\ NoCaller \notin Loops
      /\ table \in [DOMAIN table -> Row] /\ nextRow \in Nat
      /\ Callers = Handlers \cup Loops
  BY TypesOf, StoreAssumption, VideoAssumption
<1>2. Clear(c)
  BY <1>1, RestIsClear
<1>3. CASE table' = table
  BY <1>2, <1>3, CallerSteps
<1>4. CASE Holds(table, id, c) /\ table' = Confirm(table, id, c) /\ table' # table
  <2>1. table' = [x \in DOMAIN table \ {id} |-> table[x]]
    BY <1>4 DEF Confirm, Delete
  <2>2. Follows(table, table', nextRow, clock)
    BY <2>1 DEF Follows
  <2>3. id \in DOMAIN table /\ table[id].claim = c
    BY <1>4 DEF Holds
  <2>4. CASE c \in Loops
    <3>1. Shows(table, table', clock)
      BY <2>1, <2>3, <2>4 DEF Shows, Visible, Seen, LoopClaims
    <3> QED
      BY <1>2, <2>2, <3>1, TableSteps, ShownSurvives
  <2>5. CASE c \notin Loops
    <3>1. c \in Handlers /\ caller[c].pc = "confirming" /\ caller[c].row = id
      BY <1>1, <1>4, <2>5
    <3>2. Survives
      BY <2>1, <2>3, <3>1 DEF Survives, Visible
    <3> QED
      BY <1>2, <2>2, <3>2, TableSteps
  <2> QED
    BY <2>4, <2>5
<1>5. CASE /\ Holds(table, id, c) /\ table' # table
           /\ table' \in {Release(table, id, c), Quarantine(table, id, c)}
  <2>1. /\ DOMAIN table' = DOMAIN table
        /\ \A x \in DOMAIN table :
             /\ table'[x].expires_at = table[x].expires_at
             /\ table'[x].claim \in {NoCaller, table[x].claim}
             /\ \/ table'[x].pending = table[x].pending
                \/ table'[x].pending = "quarantined" /\ table[x].pending = "cleanup"
    <3>1. CASE table' = Release(table, id, c)
      BY <1>1, <1>5, <3>1 DEF Release, Row
    <3>2. CASE table' = Quarantine(table, id, c)
      <4>1. /\ table[id].pending = "cleanup"
            /\ table' = [table EXCEPT ![id].pending = "quarantined",
                                      ![id].claim = NoCaller, ![id].left = 0]
        BY <1>5, <3>2 DEF Quarantine
      <4> HIDE DEF Quarantine
      <4>2. DOMAIN table' = DOMAIN table /\ \A x \in DOMAIN table \ {id} : table'[x] = table[x]
        BY <1>1, <4>1
      <4>3. id \in DOMAIN table =>
              /\ table'[id].expires_at = table[id].expires_at
              /\ table'[id].claim = NoCaller /\ table'[id].pending = "quarantined"
        BY <1>1, <4>1 DEF Row
      <4> QED
        BY <4>1, <4>2, <4>3
    <3> QED
      BY <1>5, <3>1, <3>2
  <2>2. Follows(table, table', nextRow, clock)
    BY <1>1, <2>1 DEF Follows
  <2>3. Shows(table, table', clock)
    BY <2>1 DEF Shows, Visible
  <2> QED
    BY <1>2, <2>2, <2>3, TableSteps, ShownSurvives
<1>6. Holds(table, id, c) \/ table' = table
  BY DEF Release, Quarantine, Confirm
<1> QED
  BY <1>3, <1>4, <1>5, <1>6

LEMMA CleanupSees ==
  ASSUME VInv, Seen, NEW w \in Loops, CleanupStep(w)
  PROVE  Seen' /\ Survives
<1>1. w \in Callers /\ caller \in [Callers -> CallerState]
  BY TypesOf, VideoAssumption
<1>2. CASE ClaimCleanup(w)
  <2> DEFINE u == ExpireNow(table, clock)
  <2>1. /\ clock' = clock /\ nextRow' = nextRow
        /\ \/ table' = u /\ caller' = [caller EXCEPT ![w] = Asleep]
           \/ \E id \in NextCleanup(u) : table' = Claim(u, id, w) /\ Hold(w, id, u[id])
    BY <1>2 DEF ClaimCleanup
  <2>2. /\ DOMAIN u \subseteq DOMAIN table
        /\ \A x \in DOMAIN u :
             /\ u[x].expires_at = table[x].expires_at /\ u[x].claim = table[x].claim
             /\ u[x].pending = "active" => table[x].pending = "active"
        /\ Shows(table, u, clock)
    BY ExpireNowFollows
  <2>3. Kept(u, nextRow)
    BY ExpireKeeps, TypesOf DEF ExpireNow
  <2> HIDE DEF u
  <2>4. CASE table' = u /\ caller' = [caller EXCEPT ![w] = Asleep]
    <3>1. Follows(table, table', nextRow, clock)
      BY <2>2, <2>4 DEF Follows
    <3>2. Clear(w)
      BY <1>1, <2>4, RestIsClear
    <3> QED
      BY <1>1, <2>1, <2>2, <2>4, <3>1, <3>2, TableSteps, ShownSurvives
  <2>5. CASE \E id \in NextCleanup(u) : table' = Claim(u, id, w) /\ Hold(w, id, u[id])
    <3>1. PICK id \in NextCleanup(u) : table' = Claim(u, id, w) /\ Hold(w, id, u[id])
      BY <2>5
    <3>2. id \in DOMAIN u /\ u[id].pending = "cleanup"
      BY <3>1 DEF NextCleanup, CleanupQueue
    <3>3. /\ DOMAIN table' = DOMAIN u
          /\ \A x \in DOMAIN u : /\ table'[x].expires_at = u[x].expires_at
                                 /\ table'[x].pending = u[x].pending
                                 /\ x = id \/ table'[x].claim = u[x].claim
      BY <2>3, <3>1, <3>2 DEF Claim, Kept, TableType, Row
    <3>4. Follows(table, table', nextRow, clock) /\ Shows(table, table', clock)
      BY <2>2, <3>2, <3>3 DEF Follows, Shows
    <3>5. Clear(w)
      BY <1>1, <3>1, HoldIsClear
    <3> QED
      BY <1>1, <2>1, <3>4, <3>5, TableSteps, ShownSurvives
  <2> QED
    BY <2>1, <2>4, <2>5
<1>3. CASE QuarantineCleanup(w)
  <2>1. /\ table' = Quarantine(table, caller[w].row, w) /\ Rest(w)
        /\ UNCHANGED <<clock, nextRow>>
    BY <1>3 DEF QuarantineCleanup
  <2>2. table' \in {table, Release(table, caller[w].row, w), Quarantine(table, caller[w].row, w),
                    Confirm(table, caller[w].row, w)}
    BY <2>1
  <2> QED
    BY <1>1, <2>1, <2>2, GiveUpSees
<1>4. CASE CleanupOwnerAbsent(w) \/ CleanupStoreFails(w)
  <2>1. /\ Rest(w) \/ caller' = [caller EXCEPT ![w] = Asleep]
        /\ UNCHANGED <<table, clock, nextRow>>
    BY <1>4 DEF CleanupOwnerAbsent, CleanupStoreFails
  <2> QED
    BY <1>1, <2>1, RestIsClear, CallerSteps
<1>5. CASE CleanupCancelled(w)
  <2>1. Goto(w, "releasing") /\ UNCHANGED <<table, clock, nextRow>>
    BY <1>5 DEF CleanupCancelled
  <2> QED
    BY <1>1, <2>1, GotoGoesOn, CallerSteps
<1> QED
  BY <1>2, <1>3, <1>4, <1>5 DEF CleanupStep

LEMMA DeleteSees ==
  ASSUME VInv, Seen, NEW c \in Callers, DeleteStep(c)
  PROVE  Seen' /\ Survives
<1>1. caller \in [Callers -> CallerState] /\ caller[c] \in CallerState
  BY TypesOf
<1>2. CASE StartDelete(c)
  <2> DEFINE s == [caller[c] EXCEPT !.pc = "deleting", !.left = Deadline]
  <2>1. caller' = [caller EXCEPT ![c] = s] /\ UNCHANGED <<table, clock, nextRow>>
    BY <1>2 DEF StartDelete
  <2>2. Same(s, caller[c])
    BY <1>1 DEF CallerState, Same
  <2> HIDE DEF s
  <2>3. GoesOn(c)
    BY <1>1, <2>1, <2>2 DEF GoesOn, Only
  <2> QED
    BY <2>1, <2>3, CallerSteps
<1>3. CASE NodeDeletes(c) \/ DeleteFails(c)
  <2>1. /\ Goto(c, "confirming") \/ Goto(c, "releasing") \/ Rest(c)
        /\ UNCHANGED <<table, clock, nextRow>>
    BY <1>3 DEF NodeDeletes, DeleteFails
  <2>2. Clear(c) \/ GoesOn(c)
    BY <1>1, <2>1, RestIsClear, GotoGoesOn
  <2> QED
    BY <2>1, <2>2, CallerSteps
<1>4. CASE ConfirmDelete(c) \/ ReleaseDelete(c)
  <2> DEFINE id == caller[c].row
  <2>1. /\ Rest(c) /\ UNCHANGED <<clock, nextRow>>
        /\ \/ table' \in {table, Release(table, id, c)}
           \/ table' = Confirm(table, id, c) /\ caller[c].pc = "confirming"
    BY <1>4 DEF ConfirmDelete, ReleaseDelete
  <2>2. table' \in {table, Release(table, id, c), Quarantine(table, id, c), Confirm(table, id, c)}
    BY <2>1
  <2>3. table' = Confirm(table, id, c) =>
          c \in Loops \/ table' = table \/ (caller[c].pc = "confirming" /\ caller[c].row = id)
    <3>1. CASE table' = Release(table, id, c) /\ table' = Confirm(table, id, c)
      BY <3>1, TypesOf DEF Release, Confirm, Delete, Holds
    <3> QED
      BY <2>1, <3>1
  <2> HIDE DEF id
  <2> QED
    BY <2>1, <2>2, <2>3, GiveUpSees
<1> QED
  BY <1>2, <1>3, <1>4 DEF DeleteStep

LEMMA CrashSees ==
  ASSUME VInv, Seen, Crash
  PROVE  Seen' /\ Survives
<1>1. caller' = Restarted /\ UNCHANGED <<table, clock, nextRow>>
  BY DEF Crash
<1>2. \A c \in Callers : Empty(Restarted[c])
  BY DEF Restarted, Idle, Asleep, Empty
<1>3. \A c \in Callers : Lists(caller[c])'
  BY <1>1, <1>2 DEF Lists, Empty
<1> QED
  BY <1>1, <1>3 DEF Seen, LoopClaims, Survives, Visible

LEMMA TickSees ==
  ASSUME VInv, Seen, Tick
  PROVE  Seen' /\ Survives
<1> DEFINE less(k) == IF k > 0 THEN k - 1 ELSE 0
<1>1. /\ table' = [x \in DOMAIN table |-> [table[x] EXCEPT !.left = less(@)]]
      /\ caller' = [c \in Callers |-> [caller[c] EXCEPT !.left = less(@)]]
      /\ clock' = (IF clock < MaxClock THEN clock + 1 ELSE clock)
      /\ nextRow' = nextRow
  BY DEF Tick
<1> HIDE DEF less
<1>2. /\ table \in [DOMAIN table -> Row] /\ caller \in [Callers -> CallerState]
      /\ clock \in Nat /\ clock' \in Nat /\ clock' >= clock
      /\ \A x \in DOMAIN table : table[x].expires_at \in Nat
  BY <1>1, TypesOf DEF Row
<1>3. /\ DOMAIN table' = DOMAIN table
      /\ \A x \in DOMAIN table : /\ table'[x].expires_at = table[x].expires_at
                                 /\ table'[x].pending = table[x].pending
                                 /\ table'[x].claim = table[x].claim
  BY <1>1, <1>2 DEF Row
<1>4. \A c \in Callers :
        Same(caller'[c], caller[c])
  BY <1>1, <1>2 DEF CallerState, Same
<1>5. LoopClaims'
  BY <1>3 DEF Seen, LoopClaims
<1>6. \A c \in Callers : Lists(caller[c])'
  BY <1>1, <1>2, <1>3, <1>4 DEF Seen, Lists, Same
<1>7. Survives
  BY <1>3 DEF Survives, Visible
<1> QED
  BY <1>5, <1>6, <1>7 DEF Seen

LEMMA InitSeen ==
  ASSUME Init
  PROVE  Seen
<1>1. caller = Restarted
  BY DEF Init
<1>2. \A c \in Callers : Empty(Restarted[c])
  BY DEF Restarted, Idle, Asleep, Empty
<1>3. \A c \in Callers : Lists(caller[c])
  BY <1>1, <1>2 DEF Lists, Empty
<1>4. LoopClaims
  <2> SUFFICES ASSUME NEW x \in DOMAIN table
               PROVE  table[x].pending # "active"
    BY DEF LoopClaims
  <2> DEFINE row == NewRow(Backlog[x].job, 0, "cleanup")
  <2>1. table[x] = [row EXCEPT !.foreign = Backlog[x].foreign]
    BY DEF Init
  <2>2. [row EXCEPT !.foreign = Backlog[x].foreign].pending = "cleanup"
    BY DEF NewRow
  <2> QED
    BY <2>1, <2>2
<1> QED
  BY <1>3, <1>4 DEF Seen

LEMMA NextSees ==
  ASSUME VInv, Seen, [Next]_vars
  PROVE  Seen' /\ Survives
<1>1. CASE \E h \in Handlers : HandlerStep(h)
  BY <1>1, HandlerSees
<1>2. CASE \E w \in Loops : CleanupStep(w)
  BY <1>2, CleanupSees
<1>3. CASE \E c \in Callers : DeleteStep(c)
  BY <1>3, DeleteSees
<1>4. CASE Crash
  BY <1>4, CrashSees
<1>5. CASE Tick
  BY <1>5, TickSees
<1>6. CASE UNCHANGED vars
  BY <1>6 DEF vars, Seen, LoopClaims, Lists, Survives, Visible
<1> QED
  BY <1>1, <1>2, <1>3, <1>4, <1>5, <1>6 DEF Next

-----------------------------------------------------------------------------
(* The theorems.                                                           *)

\* The table, the clock, the owner's jobs and the callers keep their types, for any
\* number of handlers, loops, jobs and rows.
THEOREM TypeCorrect == Safety => []TypeOK
<1>1. VInv => TypeOK
  BY DEF VInv
<1> QED
  BY <1>1, AlwaysVInv, PTL

\* No two callers delete through one row at a time, whatever the lease, as long as the
\* deadline of a DELETE is shorter, whatever expires, is merged or is enqueued meanwhile,
\* and whoever crashes.
THEOREM DeleteAlwaysExclusive == Safety => []DeleteIsExclusive
<1>1. VInv => DeleteIsExclusive
  BY DEF VInv, Exclusive, DeleteIsExclusive, Deleting
<1> QED
  BY <1>1, AlwaysVInv, PTL

\* A row that a client can still see is only ever taken away by the delete request that
\* holds its claim and has the owner's confirmation: not by expiry on a list that has
\* grown stale, not by a merge, an enqueued cleanup, a cleanup loop, a crash or time.
THEOREM VisibleRowAlwaysSurvives == Safety => VisibleRowSurvives
<1>1. Init => Seen
  BY InitSeen
<1>2. VInv /\ Seen /\ [Next]_vars => Seen'
  BY NextSees
<1>3. VInv /\ Seen /\ [Next]_vars =>
        [\A x \in DOMAIN table :
           Visible(table, x, clock) /\ ~(x \in DOMAIN table' /\ table'[x].pending = "active") =>
             \E h \in Handlers :
               caller[h].pc = "confirming" /\ caller[h].row = x /\ table[x].claim = h]_vars
  BY NextSees DEF Survives
<1> QED
  BY <1>1, <1>2, <1>3, AlwaysVInv, PTL DEF Safety, VisibleRowSurvives

-----------------------------------------------------------------------------
(* Rows in the order of ORDER BY expires_at, public_id.                    *)

Rows(t) == DOMAIN t \subseteq Nat /\ \A x \in DOMAIN t : t[x] \in Row

LEMMA BeforeOrders ==
  ASSUME NEW t, Rows(t), NEW x \in DOMAIN t, NEW y \in DOMAIN t
  PROVE  /\ x = y \/ Before(t, x, y) \/ Before(t, y, x)
         /\ ~(Before(t, x, y) /\ Before(t, y, x))
         /\ ~Before(t, x, x)
         /\ Before(t, x, y) => t[x].expires_at <= t[y].expires_at
<1>1. x \in Nat /\ y \in Nat /\ t[x].expires_at \in Nat /\ t[y].expires_at \in Nat
  BY DEF Rows, Row
<1> QED
  BY <1>1 DEF Before

LEMMA BeforeGoesOn ==
  ASSUME NEW t, Rows(t), NEW x \in DOMAIN t, NEW y \in DOMAIN t, NEW z \in DOMAIN t,
         Before(t, x, y), Before(t, y, z)
  PROVE  Before(t, x, z)
<1>1. /\ x \in Nat /\ y \in Nat /\ z \in Nat
      /\ t[x].expires_at \in Nat /\ t[y].expires_at \in Nat /\ t[z].expires_at \in Nat
  BY DEF Rows, Row
<1> QED
  BY <1>1 DEF Before

LEMMA NoneBelow ==
  ASSUME NEW S \in SUBSET Nat, S # {}
  PROVE  \E m \in S : \A n \in S : ~(n < m)
<1> DEFINE R == OpToRel(<, Nat)
<1>1. IsWellFoundedOn(R, Nat)
  BY NatLessThanWellFounded
<1>2. \A m, n \in Nat : n < m => <<n, m>> \in R
  BY DEF OpToRel
<1> HIDE DEF R
<1>3. PICK m \in S : \A n \in S : ~(<<n, m>> \in R)
  BY <1>1, WFMin
<1>4. ASSUME NEW n \in S, n < m
      PROVE  FALSE
  BY <1>2, <1>3, <1>4, Zenon
<1> QED
  BY <1>4, Zenon

LEMMA LeastOf ==
  ASSUME NEW S \in SUBSET Nat, S # {}
  PROVE  \E m \in S : \A n \in S : m <= n
<1>1. PICK m \in S : \A n \in S : ~(n < m)
  BY NoneBelow
<1>2. \A n \in S : n \in Nat /\ m \in Nat
  OBVIOUS
<1> QED
  BY <1>1, <1>2

\* Of some rows one is the oldest.
LEMMA OldestOf ==
  ASSUME NEW t, Rows(t), NEW W \in SUBSET DOMAIN t, W # {}
  PROVE  \E x \in W : \A y \in W : ~Before(t, y, x)
<1> DEFINE times == {t[x].expires_at : x \in W}
<1>1. \A x \in W : t[x].expires_at \in Nat /\ x \in Nat
  BY DEF Rows, Row
<1>2. times \in SUBSET Nat /\ times # {}
  BY <1>1
<1>3. PICK least \in times : \A at \in times : least <= at
  BY <1>2, LeastOf
<1> DEFINE first == {x \in W : t[x].expires_at = least}
<1>4. first \in SUBSET Nat /\ first # {}
  BY <1>1
<1>5. PICK x \in first : \A y \in first : x <= y
  BY <1>4, LeastOf
<1>6. ASSUME NEW y \in W
      PROVE  ~Before(t, y, x)
  <2>1. x \in W /\ t[x].expires_at = least /\ x \in Nat /\ y \in Nat
    BY <1>1, <1>5
  <2>2. t[y].expires_at \in Nat /\ least \in Nat /\ least <= t[y].expires_at
    BY <1>1, <1>2, <1>3
  <2>3. t[y].expires_at = least => x <= y
    BY <1>5
  <2> QED
    BY <2>1, <2>2, <2>3 DEF Before
<1> QED
  BY <1>5, <1>6

-----------------------------------------------------------------------------
(* The inductive invariant, about a table and what became of the jobs.     *)

IsActive(t, x) == x \in DOMAIN t /\ t[x].pending = "active"
IsCleanup(t, x) == x \in DOMAIN t /\ t[x].pending = "cleanup"

OneCleanup(t) ==
  \A x, y \in DOMAIN t : IsCleanup(t, x) /\ IsCleanup(t, y) /\ SameOwner(t[x], t[y]) => x = y

\* Whoever has listed a row has listed the older ones too.
Orders(t, listed) ==
  \A x \in listed : IsActive(t, x) =>
    \A y \in DOMAIN t : IsActive(t, y) /\ Before(t, y, x) => y \in listed

\* A row found alone is the oldest that is listed, and is alone until it is written.
Leads(t, state) ==
  \A x \in state.alone : IsActive(t, x) =>
    /\ ~HasCleanupRow(t, x)
    /\ \A y \in state.listed : IsActive(t, y) /\ y # x => Before(t, x, y)

\* A row to be merged has a cleanup row beside it, unless its job is no more.
Joins(t, o, merging) ==
  \A x \in merging \cap DOMAIN t :
    ~t[x].foreign => o[t[x].job] = "gone" \/ HasCleanupRow(t, x)

\* Whoever deletes through a row deletes the job of that row, and confirms no less.
Owes(t, o, state) ==
  /\ state.pc \in Deleting /\ state.row \in DOMAIN t => SameOwner(state, t[state.row])
  /\ state.pc = "confirming" => state.job \in Jobs /\ o[state.job] = "gone"

Fits(t, o, state) ==
  Orders(t, state.listed) /\ Leads(t, state) /\ Joins(t, o, state.merging) /\ Owes(t, o, state)

RInv ==
  /\ OneCleanup(table)
  /\ \A c \in Callers : Fits(table, owner, caller[c])
  /\ NoJobLost

-----------------------------------------------------------------------------
(* What a step may make of the table.                                      *)

\* Rows keep their owners, and do not become active again; new active rows are young.
Heirs(t, u, n, now) ==
  \A x \in DOMAIN u :
    IF x \in DOMAIN t
      THEN /\ SameOwner(u[x], t[x])
           /\ u[x].pending = "active" =>
                t[x].pending = "active" /\ u[x].expires_at = t[x].expires_at
      ELSE x >= n /\ (u[x].pending = "active" => u[x].expires_at > now)

\* A row becomes a cleanup row before the younger ones of its owner.
Heads(t, u) ==
  \A x, y \in DOMAIN u :
    IsCleanup(u, y) /\ ~IsCleanup(t, y) /\ IsActive(u, x) /\ x \in DOMAIN t
      /\ SameOwner(u[x], u[y])
    => IsActive(t, y) /\ Before(t, y, x)

\* A cleanup row goes when its job is gone.
Retires(t, u, o) ==
  \A y \in DOMAIN t :
    IsCleanup(t, y) /\ ~t[y].foreign /\ ~IsCleanup(u, y) => o[t[y].job] = "gone"

\* The last row of an owner goes when its job is gone.
Remains(t, u, o) ==
  \A x \in DOMAIN t :
    ~t[x].foreign => o[t[x].job] = "gone" \/ \E z \in DOMAIN u : SameOwner(t[x], u[z])

Succeeds(t, u, n, now, o) ==
  Heirs(t, u, n, now) /\ Heads(t, u) /\ Retires(t, u, o) /\ Remains(t, u, o) /\ OneCleanup(u)

LEMMA SameSucceeds ==
  ASSUME NEW t, NEW n, NEW now, NEW o, OneCleanup(t)
  PROVE  Succeeds(t, t, n, now, o)
<1>1. Heirs(t, t, n, now)
  BY DEF Heirs, SameOwner
<1>2. Heads(t, t) /\ Retires(t, t, o)
  BY DEF Heads, Retires
<1>3. Remains(t, t, o)
  BY DEF Remains, SameOwner
<1> QED
  BY <1>1, <1>2, <1>3 DEF Succeeds

\* Claims are no part of it, and rows may be added.
Similar(u, v, n, now) ==
  /\ \A x \in DOMAIN u :
       /\ x \in DOMAIN v
       /\ SameOwner(v[x], u[x]) /\ v[x].pending = u[x].pending /\ v[x].expires_at = u[x].expires_at
  /\ \A x \in DOMAIN v \ DOMAIN u : x >= n /\ v[x].pending = "active" /\ v[x].expires_at > now

LEMMA SimilarSucceeds ==
  ASSUME NEW t, NEW u, NEW v, NEW n \in Nat, NEW now, NEW o,
         Rows(t), \A x \in DOMAIN t : x < n,
         Succeeds(t, u, n, now, o), Similar(u, v, n, now)
  PROVE  Succeeds(t, v, n, now, o)
<1>1. \A x \in DOMAIN t : x \in Nat /\ ~(x >= n)
  BY DEF Rows
<1>2. Heirs(t, v, n, now)
  <2> SUFFICES ASSUME NEW x \in DOMAIN v
               PROVE  IF x \in DOMAIN t
                        THEN /\ SameOwner(v[x], t[x])
                             /\ v[x].pending = "active" =>
                                  t[x].pending = "active" /\ v[x].expires_at = t[x].expires_at
                        ELSE x >= n /\ (v[x].pending = "active" => v[x].expires_at > now)
    BY DEF Heirs
  <2>1. CASE x \in DOMAIN u
    BY <2>1 DEF Succeeds, Heirs, Similar, SameOwner
  <2>2. CASE x \notin DOMAIN u
    BY <1>1, <2>2 DEF Similar
  <2> QED
    BY <2>1, <2>2
<1>3. \A x \in DOMAIN v : IsCleanup(v, x) => IsCleanup(u, x)
  BY DEF Similar, IsCleanup
<1>4. \A x \in DOMAIN v : x \in DOMAIN t => x \in DOMAIN u
  BY <1>1 DEF Similar
<1>5. Heads(t, v)
  <2> SUFFICES ASSUME NEW x \in DOMAIN v, NEW y \in DOMAIN v, IsCleanup(v, y), ~IsCleanup(t, y),
                      IsActive(v, x), x \in DOMAIN t, SameOwner(v[x], v[y])
               PROVE  IsActive(t, y) /\ Before(t, y, x)
    BY DEF Heads
  <2>1. IsCleanup(u, y) /\ x \in DOMAIN u /\ y \in DOMAIN u
    BY <1>3, <1>4 DEF IsCleanup
  <2>2. IsActive(u, x) /\ SameOwner(u[x], u[y])
    BY <2>1 DEF Similar, IsActive, SameOwner
  <2> QED
    BY <2>1, <2>2 DEF Succeeds, Heads
<1>6. \A y \in DOMAIN u : IsCleanup(u, y) => IsCleanup(v, y)
  BY DEF Similar, IsCleanup
<1>7. Retires(t, v, o)
  BY <1>6 DEF Succeeds, Retires, IsCleanup
<1>8. Remains(t, v, o)
  BY DEF Succeeds, Remains, Similar, SameOwner
<1>9. OneCleanup(v)
  <2> SUFFICES ASSUME NEW x \in DOMAIN v, NEW y \in DOMAIN v,
                      IsCleanup(v, x), IsCleanup(v, y), SameOwner(v[x], v[y])
               PROVE  x = y
    BY DEF OneCleanup
  <2>1. IsCleanup(u, x) /\ IsCleanup(u, y) /\ x \in DOMAIN u /\ y \in DOMAIN u
    BY <1>3 DEF IsCleanup
  <2>2. SameOwner(u[x], u[y])
    BY <2>1 DEF Similar, SameOwner
  <2> QED
    BY <2>1, <2>2 DEF Succeeds, OneCleanup
<1> QED
  BY <1>2, <1>5, <1>7, <1>8, <1>9 DEF Succeeds

-----------------------------------------------------------------------------
(* The statements of the store.                                            *)

\* _cleanup_expired, whatever has happened since its SELECTs.
LEMMA ExpireSucceeds ==
  ASSUME NEW t, Rows(t), OneCleanup(t), NEW listed, NEW merging, NEW n, NEW now, NEW o,
         merging \subseteq listed, Orders(t, listed), Joins(t, o, merging)
  PROVE  Succeeds(t, Expire(t, listed, merging), n, now, o)
<1> DEFINE rest == Delete(t, listed \cap merging)
           due == {x \in listed \cap DOMAIN rest : rest[x].pending = "active"}
           kept == {x \in due :
                      /\ ~HasCleanupRow(rest, x)
                      /\ \A y \in due : SameOwner(rest[x], rest[y]) => ~Before(rest, y, x)}
           u == Expire(t, listed, merging)
<1>1. u = [x \in DOMAIN rest \ (due \ kept) |->
             IF x \in kept THEN [rest[x] EXCEPT !.pending = "cleanup"] ELSE rest[x]]
  BY DEF Expire
<1>2. /\ DOMAIN rest = DOMAIN t \ merging
      /\ \A x \in DOMAIN rest : rest[x] = t[x]
  BY DEF Delete
<1>3. \A x : x \in due <=> x \in listed /\ x \in DOMAIN rest /\ t[x].pending = "active"
  BY <1>2
<1>4. \A x \in DOMAIN rest : HasCleanupRow(rest, x) <=>
        \E y \in DOMAIN rest \ {x} : IsCleanup(t, y) /\ SameOwner(t[x], t[y])
  BY <1>2 DEF HasCleanupRow, IsCleanup
<1>5. \A x, y \in DOMAIN rest : Before(rest, x, y) <=> Before(t, x, y)
  BY <1>2 DEF Before
<1>6. \A x : x \in kept <=>
        /\ x \in due
        /\ ~HasCleanupRow(rest, x)
        /\ \A y \in due : SameOwner(t[x], t[y]) => ~Before(t, y, x)
  BY <1>2, <1>3, <1>5
<1> HIDE DEF rest, due, kept, u
<1>7. \A x \in DOMAIN u : /\ x \in DOMAIN rest /\ x \in DOMAIN t
                          /\ x \in due => x \in kept
                          /\ t[x] \in Row
  BY <1>1, <1>2 DEF Rows
<1>8. \A x \in DOMAIN rest : x \in kept \/ x \notin due => x \in DOMAIN u
  BY <1>1
<1>9. \A x \in DOMAIN u :
        /\ SameOwner(u[x], t[x])
        /\ IF x \in kept THEN u[x].pending = "cleanup" ELSE u[x] = t[x]
  <2> SUFFICES ASSUME NEW x \in DOMAIN u
               PROVE  /\ SameOwner(u[x], t[x])
                      /\ IF x \in kept THEN u[x].pending = "cleanup" ELSE u[x] = t[x]
    OBVIOUS
  <2>1. u[x] = IF x \in kept THEN [t[x] EXCEPT !.pending = "cleanup"] ELSE t[x]
    BY <1>1, <1>2, <1>7
  <2> QED
    BY <1>7, <2>1 DEF Row, SameOwner
<1>10. Heirs(t, u, n, now)
  <2> SUFFICES ASSUME NEW x \in DOMAIN u
               PROVE  /\ SameOwner(u[x], t[x])
                      /\ u[x].pending = "active" =>
                           t[x].pending = "active" /\ u[x].expires_at = t[x].expires_at
    BY <1>7 DEF Heirs
  <2> QED
    BY <1>9
<1>11. Heads(t, u)
  <2> SUFFICES ASSUME NEW x \in DOMAIN u, NEW y \in DOMAIN u, IsCleanup(u, y), ~IsCleanup(t, y),
                      IsActive(u, x), SameOwner(u[x], u[y])
               PROVE  IsActive(t, y) /\ Before(t, y, x)
    BY DEF Heads
  <2>1. y \in kept /\ y \in listed /\ IsActive(t, y)
    BY <1>3, <1>6, <1>7, <1>9 DEF IsCleanup, IsActive
  <2>2. x \notin kept /\ IsActive(t, x) /\ x \notin listed
    BY <1>3, <1>7, <1>9 DEF IsActive
  <2>3. ~Before(t, x, y)
    BY <2>1, <2>2 DEF Orders, IsActive
  <2> QED
    BY <1>7, <2>1, <2>2, <2>3, BeforeOrders
<1>12. Retires(t, u, o)
  <2> SUFFICES ASSUME NEW y \in DOMAIN t, IsCleanup(t, y), ~t[y].foreign, ~IsCleanup(u, y)
               PROVE  o[t[y].job] = "gone"
    BY DEF Retires
  <2>1. y \notin due
    BY <1>3 DEF IsCleanup
  <2>2. y \in merging
    BY <1>2, <1>6, <1>8, <1>9, <2>1 DEF IsCleanup
  <2>3. ~HasCleanupRow(t, y)
    BY DEF HasCleanupRow, OneCleanup, IsCleanup
  <2> QED
    BY <2>2, <2>3 DEF Joins
<1>13. Remains(t, u, o)
  <2> SUFFICES ASSUME NEW x \in DOMAIN t, ~t[x].foreign, o[t[x].job] # "gone"
               PROVE  \E z \in DOMAIN u : SameOwner(t[x], u[z])
    BY DEF Remains
  <2>1. \A z \in DOMAIN u : SameOwner(t[x], t[z]) => SameOwner(t[x], u[z])
    BY <1>9 DEF SameOwner
  <2>2. CASE x \in merging
    <3>1. PICK y \in DOMAIN t : IsCleanup(t, y) /\ SameOwner(t[x], t[y])
      BY <2>2 DEF Joins, HasCleanupRow, IsCleanup
    <3>2. IsCleanup(u, y)
      BY <1>12, <3>1 DEF Retires, SameOwner
    <3> QED
      BY <2>1, <3>1, <3>2 DEF IsCleanup
  <2>3. CASE x \in DOMAIN rest /\ x \notin due
    BY <1>8, <2>1, <2>3 DEF SameOwner
  <2>4. CASE x \in due
    <3> DEFINE W == {y \in due : SameOwner(t[x], t[y])}
    <3>1. W \in SUBSET DOMAIN t /\ W # {}
      BY <1>2, <1>3, <2>4 DEF SameOwner
    <3>2. PICK m \in W : \A y \in W : ~Before(t, y, m)
      BY <3>1, OldestOf
    <3>3. m \in due /\ m \in DOMAIN rest /\ SameOwner(t[x], t[m])
      BY <1>3, <3>2
    <3>4. CASE HasCleanupRow(rest, m)
      <4>1. PICK y \in DOMAIN rest : IsCleanup(t, y) /\ SameOwner(t[m], t[y])
        BY <1>4, <3>3, <3>4
      <4>2. y \notin due
        BY <1>3, <4>1 DEF IsCleanup
      <4> QED
        BY <1>8, <2>1, <3>3, <4>1, <4>2 DEF SameOwner
    <3>5. CASE ~HasCleanupRow(rest, m)
      <4>1. \A y \in due : SameOwner(t[m], t[y]) => ~Before(t, y, m)
        BY <3>2, <3>3 DEF SameOwner
      <4>2. m \in kept
        BY <1>6, <3>3, <3>5, <4>1
      <4> QED
        BY <1>8, <2>1, <3>3, <4>2
    <3> QED
      BY <3>4, <3>5
  <2> QED
    BY <1>2, <2>2, <2>3, <2>4
<1>14. OneCleanup(u)
  <2> SUFFICES ASSUME NEW x \in DOMAIN u, NEW y \in DOMAIN u,
                      IsCleanup(u, x), IsCleanup(u, y), SameOwner(u[x], u[y])
               PROVE  x = y
    BY DEF OneCleanup
  <2>1. SameOwner(t[x], t[y]) /\ SameOwner(t[y], t[x])
    BY <1>9 DEF SameOwner
  <2>2. /\ x \in kept \/ IsCleanup(t, x)
        /\ y \in kept \/ IsCleanup(t, y)
    BY <1>7, <1>9 DEF IsCleanup
  <2>3. CASE x \in kept /\ y \in kept
    BY <1>6, <1>7, <2>1, <2>3, BeforeOrders
  <2>4. CASE x \in kept /\ IsCleanup(t, y)
    BY <1>4, <1>6, <1>7, <2>1, <2>4
  <2>5. CASE y \in kept /\ IsCleanup(t, x)
    BY <1>4, <1>6, <1>7, <2>1, <2>5
  <2>6. CASE IsCleanup(t, x) /\ IsCleanup(t, y)
    BY <1>7, <2>1, <2>6 DEF OneCleanup
  <2> QED
    BY <2>2, <2>3, <2>4, <2>5, <2>6
<1> QED
  BY <1>10, <1>11, <1>12, <1>13, <1>14 DEF Succeeds, u

\* The first SELECT lists the oldest rows.
LEMMA ListedOrders ==
  ASSUME NEW t, Rows(t), DOMAIN t \subseteq RowIds, NEW now \in Nat
  PROVE  Orders(t, Listed(t, now))
<1> DEFINE older(x) == {y \in Due(t, now) : Before(t, y, x)}
<1> SUFFICES ASSUME NEW x \in Listed(t, now), NEW y \in DOMAIN t,
                    IsActive(t, x), IsActive(t, y), Before(t, y, x)
             PROVE  y \in Listed(t, now)
  BY DEF Orders
<1>1. /\ x \in DOMAIN t /\ x \in Due(t, now) /\ t[x].expires_at <= now
      /\ Cardinality(older(x)) < Batch
  BY DEF Listed, Due
<1>2. y \in Due(t, now)
  <2>1. t[y].expires_at <= t[x].expires_at /\ t[y].expires_at \in Nat /\ t[x].expires_at \in Nat
    BY <1>1, BeforeOrders DEF Rows, Row
  <2> QED
    BY <1>1, <2>1 DEF Due, IsActive
<1>3. older(y) \subseteq older(x)
  BY <1>1, BeforeGoesOn DEF Due
<1>4. IsFiniteSet(older(x))
  <2>1. IsFiniteSet(RowIds)
    BY FS_Interval, StoreAssumption DEF RowIds
  <2>2. older(x) \subseteq RowIds
    BY DEF Due
  <2> QED
    BY <2>1, <2>2, FS_Subset
<1>5. /\ Cardinality(older(y)) <= Cardinality(older(x))
      /\ Cardinality(older(y)) \in Nat /\ Cardinality(older(x)) \in Nat /\ Batch \in Nat
  BY <1>3, <1>4, FS_Subset, FS_CardinalityType, StoreAssumption
<1>6. Cardinality(older(y)) < Batch
  BY <1>1, <1>5
<1> QED
  BY <1>2, <1>6 DEF Listed

LEMMA MergingJoins ==
  ASSUME NEW t, NEW listed, NEW o
  PROVE  Joins(t, o, Merging(t, listed))
BY DEF Joins, Merging

LEMMA ClaimSimilar ==
  ASSUME NEW u, \A x \in DOMAIN u : u[x] \in Row, NEW id, NEW c, NEW n, NEW now
  PROVE  Similar(u, Claim(u, id, c), n, now)
<1> DEFINE v == Claim(u, id, c)
<1>1. DOMAIN v = DOMAIN u
  BY DEF Claim
<1>2. ASSUME NEW x \in DOMAIN u
      PROVE  SameOwner(v[x], u[x]) /\ v[x].pending = u[x].pending /\ v[x].expires_at = u[x].expires_at
  <2>1. u[x] \in Row
    OBVIOUS
  <2>2. CASE x = id
    <3>1. v[x] = [u[x] EXCEPT !.claim = c, !.left = Lease]
      BY <2>2 DEF Claim
    <3> QED
      BY <2>1, <3>1 DEF Row, SameOwner
  <2>3. CASE x # id
    BY <2>3 DEF Claim, SameOwner
  <2> QED
    BY <2>2, <2>3
<1> QED
  BY <1>1, <1>2 DEF Similar

LEMMA ReleaseSimilar ==
  ASSUME NEW u, \A x \in DOMAIN u : u[x] \in Row, NEW id, NEW c, NEW n, NEW now
  PROVE  Similar(u, Release(u, id, c), n, now)
<1> DEFINE v == Release(u, id, c)
<1>1. DOMAIN v = DOMAIN u
  BY DEF Release
<1>2. ASSUME NEW x \in DOMAIN u
      PROVE  SameOwner(v[x], u[x]) /\ v[x].pending = u[x].pending /\ v[x].expires_at = u[x].expires_at
  <2>1. u[x] \in Row
    OBVIOUS
  <2>2. v[x] = u[x] \/ v[x] = [u[x] EXCEPT !.claim = NoCaller, !.left = 0]
    BY DEF Release, Holds
  <2> QED
    BY <2>1, <2>2 DEF Row, SameOwner
<1> QED
  BY <1>1, <1>2 DEF Similar

LEMMA InsertSimilar ==
  ASSUME NEW u, NEW n \in Nat, n \notin DOMAIN u, NEW now, NEW job, NEW at, at > now
  PROVE  Similar(u, Insert(u, n, NewRow(job, at, "active")), n, now)
<1> DEFINE v == Insert(u, n, NewRow(job, at, "active"))
<1>1. /\ DOMAIN v = DOMAIN u \cup {n} /\ v[n] = NewRow(job, at, "active")
      /\ \A x \in DOMAIN u : v[x] = u[x]
  BY DEF Insert
<1>2. v[n].pending = "active" /\ v[n].expires_at > now
  BY <1>1 DEF NewRow
<1> HIDE DEF v
<1>3. \A x \in DOMAIN u : x \in DOMAIN v /\ v[x] = u[x]
  BY <1>1
<1>4. \A x \in DOMAIN v \ DOMAIN u : x = n
  BY <1>1
<1>5. n >= n
  OBVIOUS
<1> QED
  BY <1>2, <1>3, <1>4, <1>5 DEF Similar, SameOwner, v

\* confirm_delete of a job that is gone.
LEMMA ConfirmSucceeds ==
  ASSUME NEW t, OneCleanup(t), NEW id, NEW c, NEW n, NEW now, NEW o,
         id \in DOMAIN t => o[t[id].job] = "gone"
  PROVE  Succeeds(t, Confirm(t, id, c), n, now, o)
<1>1. CASE ~Holds(t, id, c)
  BY <1>1, SameSucceeds DEF Confirm
<1>2. CASE Holds(t, id, c)
  <2> DEFINE u == Delete(t, {id})
  <2>1. DOMAIN u = DOMAIN t \ {id} /\ \A x \in DOMAIN u : u[x] = t[x]
    BY DEF Delete
  <2>2. u = Confirm(t, id, c) /\ o[t[id].job] = "gone"
    BY <1>2 DEF Confirm, Holds
  <2> HIDE DEF u
  <2>3. Heirs(t, u, n, now)
    BY <2>1 DEF Heirs, SameOwner
  <2>4. Heads(t, u)
    BY <2>1 DEF Heads, IsCleanup
  <2>5. Retires(t, u, o)
    BY <2>1, <2>2 DEF Retires, IsCleanup
  <2>6. Remains(t, u, o)
    BY <2>1, <2>2 DEF Remains, SameOwner
  <2>7. OneCleanup(u)
    BY <2>1 DEF OneCleanup, IsCleanup
  <2> QED
    BY <2>2, <2>3, <2>4, <2>5, <2>6, <2>7 DEF Succeeds
<1> QED
  BY <1>1, <1>2

\* quarantine_cleanup of a row of another protocol.
LEMMA QuarantineSucceeds ==
  ASSUME NEW t, \A x \in DOMAIN t : t[x] \in Row, OneCleanup(t), NEW id, NEW c, NEW n, NEW now,
         NEW o, id \in DOMAIN t => t[id].foreign
  PROVE  Succeeds(t, Quarantine(t, id, c), n, now, o)
<1> DEFINE u == Quarantine(t, id, c)
<1>1. DOMAIN u = DOMAIN t
  BY DEF Quarantine
<1>2. ASSUME NEW x \in DOMAIN t
      PROVE  SameOwner(u[x], t[x]) /\ (u[x] = t[x] \/ (x = id /\ u[x].pending = "quarantined"))
  <2>1. t[x] \in Row
    OBVIOUS
  <2>2. \/ u[x] = t[x]
        \/ x = id /\ u[x] = [t[x] EXCEPT !.pending = "quarantined", !.claim = NoCaller, !.left = 0]
    BY DEF Quarantine, Holds
  <2> HIDE DEF u
  <2>3. CASE u[x] = t[x]
    <3>1. SameOwner(t[x], t[x])
      BY DEF SameOwner
    <3> QED
      BY <2>3, <3>1
  <2>4. CASE x = id /\ u[x] = [t[x] EXCEPT !.pending = "quarantined", !.claim = NoCaller, !.left = 0]
    <3>1. /\ u[x].pending = "quarantined"
          /\ u[x].job = t[x].job /\ u[x].foreign = t[x].foreign
      BY <2>1, <2>4 DEF Row
    <3> QED
      BY <2>4, <3>1 DEF SameOwner
  <2> QED
    BY <2>2, <2>3, <2>4
<1> HIDE DEF u
<1>3. Heirs(t, u, n, now)
  BY <1>1, <1>2 DEF Heirs
<1>4. Heads(t, u)
  BY <1>1, <1>2 DEF Heads, IsCleanup
<1>5. Retires(t, u, o)
  BY <1>1, <1>2 DEF Retires, IsCleanup
<1>6. Remains(t, u, o)
  BY <1>1, <1>2 DEF Remains, SameOwner
<1>7. OneCleanup(u)
  BY <1>1, <1>2 DEF OneCleanup, IsCleanup, SameOwner
<1> QED
  BY <1>3, <1>4, <1>5, <1>6, <1>7 DEF Succeeds, u

\* enqueue_cleanup.
LEMMA EnqueueSucceeds ==
  ASSUME NEW t, \A x \in DOMAIN t : t[x] \in Row, OneCleanup(t),
         NEW n \in Nat, n \notin DOMAIN t, NEW job, NEW now, NEW o,
         NEW u \in Enqueue(t, n, job, now)
  PROVE  /\ Succeeds(t, u, n, now, o)
         /\ \E x \in DOMAIN u : u[x].job = job /\ ~u[x].foreign
<1> DEFINE fresh == NewRow(job, now, "cleanup")
           same == {x \in DOMAIN t : SameOwner(t[x], fresh)}
           shelved == {x \in same : t[x].pending = "quarantined"}
           oldest == {x \in shelved : \A y \in shelved : x <= y}
<1>1. fresh.job = job /\ ~fresh.foreign /\ fresh.pending = "cleanup"
  BY DEF NewRow
<1>2. \/ same = {} /\ u = Insert(t, n, fresh)
      \/ same # {} /\ same # shelved /\ u = t
      \/ same = shelved /\ \E x \in oldest : u = [t EXCEPT ![x] = fresh]
  BY DEF Enqueue
<1>3. \A x : x \in same <=> x \in DOMAIN t /\ SameOwner(t[x], fresh)
  OBVIOUS
<1>4. /\ \A x : x \in shelved <=> x \in same /\ t[x].pending = "quarantined"
      /\ \A x \in oldest : x \in shelved
  OBVIOUS
<1> HIDE DEF fresh, same, shelved, oldest
<1>5. CASE same # {} /\ u = t
  <2>1. PICK x \in DOMAIN t : SameOwner(t[x], fresh)
    BY <1>3, <1>5
  <2>2. x \in DOMAIN u /\ u[x].job = job /\ ~u[x].foreign
    BY <1>1, <1>5, <2>1 DEF SameOwner
  <2> QED
    BY <1>5, <2>2, SameSucceeds
<1>6. ASSUME NEW id, \A x \in DOMAIN t : SameOwner(t[x], fresh) => t[x].pending = "quarantined",
             DOMAIN u = DOMAIN t \cup {id}, u[id] = fresh,
             \A x \in DOMAIN t : x # id => u[x] = t[x],
             id = n \/ (id \in DOMAIN t /\ SameOwner(t[id], fresh))
      PROVE  Succeeds(t, u, n, now, o) /\ \E x \in DOMAIN u : u[x].job = job /\ ~u[x].foreign
  <2>1. n >= n /\ IsCleanup(u, id) /\ ~IsCleanup(t, id)
    BY <1>1, <1>6 DEF IsCleanup
  <2>2. Heirs(t, u, n, now)
    BY <1>1, <1>6, <2>1 DEF Heirs, SameOwner
  <2>3. \A x \in DOMAIN t : IsActive(t, x) \/ IsCleanup(t, x) => ~SameOwner(t[x], fresh) /\ x # id
    BY <1>6 DEF IsActive, IsCleanup
  <2>4. Heads(t, u)
    BY <1>1, <1>6, <2>3 DEF Heads, IsCleanup, IsActive, SameOwner
  <2>5. Retires(t, u, o)
    BY <1>6, <2>3 DEF Retires, IsCleanup
  <2>6. Remains(t, u, o)
    BY <1>6 DEF Remains, SameOwner
  <2>7. OneCleanup(u)
    BY <1>1, <1>6, <2>3 DEF OneCleanup, IsCleanup, SameOwner
  <2> QED
    BY <1>1, <1>6, <2>2, <2>4, <2>5, <2>6, <2>7 DEF Succeeds
<1>7. CASE same = {} /\ u = Insert(t, n, fresh)
  <2>1. /\ DOMAIN u = DOMAIN t \cup {n} /\ u[n] = fresh
        /\ \A x \in DOMAIN t : x # n => u[x] = t[x]
    BY <1>7 DEF Insert
  <2>2. \A x \in DOMAIN t : ~SameOwner(t[x], fresh)
    BY <1>3, <1>7
  <2> QED
    BY <1>6, <2>1, <2>2
<1>8. CASE same = shelved /\ \E x \in oldest : u = [t EXCEPT ![x] = fresh]
  <2>1. PICK id \in oldest : u = [t EXCEPT ![id] = fresh]
    BY <1>8
  <2>2. id \in DOMAIN t /\ SameOwner(t[id], fresh)
    BY <1>3, <1>4, <1>8, <2>1
  <2>3. /\ DOMAIN u = DOMAIN t \cup {id} /\ u[id] = fresh
        /\ \A x \in DOMAIN t : x # id => u[x] = t[x]
    BY <2>1, <2>2
  <2>4. \A x \in DOMAIN t : SameOwner(t[x], fresh) => t[x].pending = "quarantined"
    BY <1>3, <1>4, <1>8
  <2> QED
    BY <1>6, <2>2, <2>3, <2>4
<1> QED
  BY <1>2, <1>5, <1>7, <1>8

-----------------------------------------------------------------------------
(* A step of one caller.                                                   *)

\* A job that is gone stays gone.
Steady(o, p) == \A job \in Jobs : o[job] = "gone" => p[job] = "gone"

\* What a call has listed stays in order, whatever other calls make of the table.
LEMMA OrdersGoesOn ==
  ASSUME NEW t, NEW u, NEW n \in Nat, NEW now \in Nat, Rows(t), Rows(u),
         Heirs(t, u, n, now), NEW listed, Orders(t, listed),
         \A x \in listed : x \in Nat /\ x < n /\ (x \in DOMAIN t => t[x].expires_at <= now)
  PROVE  Orders(u, listed)
<1> SUFFICES ASSUME NEW x \in listed, IsActive(u, x),
                    NEW y \in DOMAIN u, IsActive(u, y), Before(u, y, x)
             PROVE  y \in listed
  BY DEF Orders
<1>1. x \in Nat /\ ~(x >= n) /\ x \in DOMAIN u
  BY DEF IsActive
<1>2. IsActive(t, x) /\ u[x].expires_at = t[x].expires_at
  BY <1>1 DEF Heirs, IsActive
<1>3. /\ u[x].expires_at \in Nat /\ u[x].expires_at <= now
      /\ u[y].expires_at \in Nat /\ u[y].expires_at <= u[x].expires_at
  BY <1>1, <1>2, BeforeOrders DEF Rows, Row, IsActive
<1>4. y \in DOMAIN t
  BY <1>3 DEF Heirs, IsActive
<1>5. IsActive(t, y) /\ u[y].expires_at = t[y].expires_at
  BY <1>4 DEF Heirs, IsActive
<1>6. Before(t, y, x)
  BY <1>2, <1>5 DEF Before
<1> QED
  BY <1>2, <1>4, <1>5, <1>6 DEF Orders

LEMMA LeadsGoesOn ==
  ASSUME NEW t, NEW u, NEW n \in Nat, NEW now \in Nat, Rows(t),
         Heirs(t, u, n, now), Heads(t, u), NEW state, Orders(t, state.listed), Leads(t, state),
         state.alone \subseteq state.listed,
         \A x \in state.listed : x \in Nat /\ x < n
  PROVE  Leads(u, state)
<1>1. ASSUME NEW x \in state.listed, IsActive(u, x)
      PROVE  IsActive(t, x) /\ u[x].expires_at = t[x].expires_at /\ SameOwner(u[x], t[x])
  <2>1. x \in Nat /\ ~(x >= n) /\ x \in DOMAIN u
    BY <1>1 DEF IsActive
  <2> QED
    BY <1>1, <2>1 DEF Heirs, IsActive
<1> SUFFICES ASSUME NEW x \in state.alone, IsActive(u, x)
             PROVE  /\ ~HasCleanupRow(u, x)
                    /\ \A y \in state.listed : IsActive(u, y) /\ y # x => Before(u, x, y)
  BY DEF Leads
<1>2. /\ IsActive(t, x) /\ x \in state.listed /\ x \in DOMAIN t /\ x \in DOMAIN u
      /\ u[x].expires_at = t[x].expires_at /\ SameOwner(u[x], t[x])
  BY <1>1 DEF IsActive
<1>3. \A y \in state.listed : IsActive(u, y) /\ y # x => Before(u, x, y)
  BY <1>1, <1>2 DEF Leads, Before
<1>4. ~HasCleanupRow(u, x)
  <2> SUFFICES ASSUME NEW y \in DOMAIN u, y # x, IsCleanup(u, y), SameOwner(u[x], u[y])
               PROVE  FALSE
    BY DEF HasCleanupRow, IsCleanup
  <2>1. CASE IsCleanup(t, y)
    <3>1. SameOwner(u[y], t[y])
      BY <2>1 DEF Heirs, IsCleanup
    <3>2. SameOwner(t[x], t[y])
      BY <1>2, <3>1 DEF SameOwner
    <3>3. HasCleanupRow(t, x)
      BY <2>1, <3>2 DEF HasCleanupRow, IsCleanup
    <3> QED
      BY <1>2, <3>3 DEF Leads
  <2>2. CASE ~IsCleanup(t, y)
    <3>1. IsActive(t, y) /\ Before(t, y, x) /\ y \in DOMAIN t
      BY <1>2, <2>2 DEF Heads, IsActive
    <3>2. y \in state.listed
      BY <1>2, <3>1 DEF Orders
    <3>3. Before(t, x, y)
      BY <1>2, <3>1, <3>2 DEF Leads
    <3> QED
      BY <1>2, <3>1, <3>3, BeforeOrders
  <2> QED
    BY <2>1, <2>2
<1> QED
  BY <1>3, <1>4

LEMMA JoinsGoesOn ==
  ASSUME NEW t, NEW u, NEW n \in Nat, NEW now, Rows(t), NEW o, NEW p, Steady(o, p),
         Heirs(t, u, n, now), Retires(t, u, p), NEW merging, Joins(t, o, merging),
         \A x \in merging : x \in Nat /\ x < n
  PROVE  Joins(u, p, merging)
<1> SUFFICES ASSUME NEW x \in merging, x \in DOMAIN u, ~u[x].foreign, p[u[x].job] # "gone"
             PROVE  HasCleanupRow(u, x)
  BY DEF Joins
<1>1. x \in DOMAIN t
  <2>1. x \in Nat /\ ~(x >= n)
    OBVIOUS
  <2> QED
    BY <2>1 DEF Heirs
<1>2. u[x].job = t[x].job /\ u[x].foreign = t[x].foreign /\ t[x].job \in Jobs
  BY <1>1 DEF Heirs, SameOwner, Rows, Row
<1>3. HasCleanupRow(t, x)
  BY <1>1, <1>2 DEF Joins, Steady
<1>4. PICK y \in DOMAIN t : y # x /\ IsCleanup(t, y) /\ SameOwner(t[x], t[y])
  BY <1>3 DEF HasCleanupRow, IsCleanup
<1>5. IsCleanup(u, y)
  BY <1>2, <1>4 DEF Retires, SameOwner
<1>6. SameOwner(u[x], u[y])
  BY <1>2, <1>4, <1>5 DEF Heirs, SameOwner, IsCleanup
<1> QED
  BY <1>4, <1>5, <1>6 DEF HasCleanupRow, IsCleanup

LEMMA OwesGoesOn ==
  ASSUME NEW t, NEW u, NEW n \in Nat, NEW now, NEW o, NEW p, Steady(o, p),
         Heirs(t, u, n, now), NEW state, Owes(t, o, state),
         state.pc \in Deleting => state.row \in Nat /\ state.row < n
  PROVE  Owes(u, p, state)
<1>1. ASSUME state.pc \in Deleting, state.row \in DOMAIN u
      PROVE  SameOwner(state, u[state.row])
  <2>1. state.row \in Nat /\ ~(state.row >= n)
    BY <1>1
  <2>2. state.row \in DOMAIN t /\ SameOwner(u[state.row], t[state.row])
    BY <1>1, <2>1 DEF Heirs
  <2> QED
    BY <1>1, <2>2 DEF Owes, SameOwner
<1>2. state.pc = "confirming" => state.job \in Jobs /\ p[state.job] = "gone"
  BY DEF Owes, Steady
<1> QED
  BY <1>1, <1>2 DEF Owes

\* The table as VInv and Seen have it.
LEMMA TableFacts ==
  ASSUME VInv
  PROVE  /\ Rows(table) /\ DOMAIN table \subseteq RowIds
         /\ nextRow \in Nat /\ clock \in Nat /\ nextRow \notin DOMAIN table
         /\ \A x \in DOMAIN table : x < nextRow /\ table[x] \in Row
         /\ caller \in [Callers -> CallerState]
<1>1. /\ DOMAIN table \subseteq RowIds /\ nextRow \in Nat /\ clock \in Nat
      /\ \A x \in DOMAIN table : x < nextRow /\ table[x] \in Row
      /\ caller \in [Callers -> CallerState]
  BY TypesOf, RowsOf DEF Kept
<1>2. nextRow \notin DOMAIN table
  BY <1>1
<1>3. DOMAIN table \subseteq Nat
  BY <1>1 DEF RowIds
<1> QED
  BY <1>1, <1>2, <1>3 DEF Rows

LEMMA CallerFacts ==
  ASSUME VInv, Seen, NEW c \in Callers
  PROVE  /\ caller[c] \in CallerState
         /\ caller[c].merging \subseteq caller[c].listed
         /\ caller[c].alone \subseteq caller[c].listed
         /\ \A x \in caller[c].listed :
              x \in Nat /\ x < nextRow /\ (x \in DOMAIN table => table[x].expires_at <= clock)
         /\ caller[c].pc \in Deleting => caller[c].row \in Nat /\ caller[c].row < nextRow
<1>1. caller[c] \in CallerState
  BY TypesOf
<1>2. /\ caller[c].listed \subseteq RowIds /\ caller[c].row \in RowIds \cup {0}
      /\ RowIds \subseteq Nat
  BY <1>1, StoreAssumption DEF CallerState, RowIds
<1> QED
  BY <1>1, <1>2 DEF Seen, Lists, VInv, Leased

\* What any caller has under way stands whatever another makes of the table.
LEMMA FitsGoesOn ==
  ASSUME VInv, VInv', Seen, RInv, Steady(owner, owner'),
         Succeeds(table, table', nextRow, clock, owner'), NEW c \in Callers
  PROVE  Fits(table', owner', caller[c])
<1>1. Rows(table) /\ nextRow \in Nat /\ clock \in Nat
  BY TableFacts
<1>2. Rows(table')
  <2>1. DOMAIN table' \subseteq RowIds /\ \A x \in DOMAIN table' : table'[x] \in Row
    BY DEF VInv, TypeOK, TableType
  <2>2. RowIds \subseteq Nat
    BY StoreAssumption DEF RowIds
  <2> QED
    BY <2>1, <2>2 DEF Rows
<1>3. Fits(table, owner, caller[c])
  BY DEF RInv
<1>4. Orders(table', caller[c].listed)
  BY <1>1, <1>2, <1>3, OrdersGoesOn, CallerFacts DEF Fits, Succeeds
<1>5. Leads(table', caller[c])
  BY <1>1, <1>3, LeadsGoesOn, CallerFacts DEF Fits, Succeeds
<1>6. Joins(table', owner', caller[c].merging)
  BY <1>1, <1>3, JoinsGoesOn, CallerFacts DEF Fits, Succeeds
<1>7. Owes(table', owner', caller[c])
  BY <1>1, <1>3, OwesGoesOn, CallerFacts DEF Fits, Succeeds
<1> QED
  BY <1>4, <1>5, <1>6, <1>7 DEF Fits

LEMMA EmptyFits ==
  ASSUME NEW t, NEW o, NEW state, Empty(state), Owes(t, o, state)
  PROVE  Fits(t, o, state)
BY DEF Fits, Empty, Orders, Leads, Joins

LEMMA SameFits ==
  ASSUME NEW t, NEW o, NEW s1, NEW s2, Same(s1, s2), Fits(t, o, s2), Owes(t, o, s1)
  PROVE  Fits(t, o, s1)
BY DEF Fits, Same, Orders, Leads, Joins

-----------------------------------------------------------------------------
(* What becomes of the jobs.                                               *)

Creating == {"persisting", "compensating", "enqueuing"}

Minds(state, job) == state.job = job /\ state.pc \in Creating
HasRow(t, job) == \E x \in DOMAIN t : t[x].job = job /\ ~t[x].foreign

\* Caller c answers for every job that the step starts, and hands on the one it minds.
Accounts(c) ==
  \A job \in Jobs :
    owner'[job] = "alive" /\ job \notin strayed' =>
      /\ \/ owner[job] = "alive" /\ job \notin strayed
         \/ c \in Handlers /\ Minds(caller'[c], job)
      /\ Minds(caller[c], job) => Minds(caller'[c], job) \/ HasRow(table', job)

LEMMA RememberedAgain ==
  ASSUME NEW job \in Jobs
  PROVE  Remembered(job) <=> HasRow(table, job) \/ \E h \in Handlers : Minds(caller[h], job)
BY DEF Remembered, HasRow, Minds, Creating

LEMMA RememberedNext ==
  ASSUME NEW job \in Jobs
  PROVE  Remembered(job)' <=> HasRow(table', job) \/ \E h \in Handlers : Minds(caller'[h], job)
BY DEF Remembered, HasRow, Minds, Creating

LEMMA RowStays ==
  ASSUME NEW t, NEW u, NEW o, Remains(t, u, o), NEW job \in Jobs, HasRow(t, job), o[job] # "gone"
  PROVE  HasRow(u, job)
BY DEF HasRow, Remains, SameOwner

LEMMA JobsKept ==
  ASSUME RInv, NEW c \in Callers, Only(c), Accounts(c),
         Remains(table, table', owner')
  PROVE  NoJobLost'
<1> SUFFICES ASSUME NEW job \in Jobs, owner'[job] = "alive", job \notin strayed'
             PROVE  Remembered(job)'
  BY DEF NoJobLost, Alive
<1>1. CASE c \in Handlers /\ Minds(caller'[c], job)
  BY <1>1, RememberedNext
<1>2. CASE owner[job] = "alive" /\ job \notin strayed
  <2>1. Remembered(job)
    BY <1>2 DEF RInv, NoJobLost, Alive
  <2>2. CASE HasRow(table, job)
    <3>1. HasRow(table', job)
      BY <2>2, RowStays
    <3> QED
      BY <3>1, RememberedNext
  <2>3. CASE \E h \in Handlers : Minds(caller[h], job)
    <3>1. PICK h \in Handlers : Minds(caller[h], job)
      BY <2>3
    <3>2. h \in Callers
      BY VideoAssumption
    <3>3. CASE h = c
      <4>1. Minds(caller'[c], job) \/ HasRow(table', job)
        BY <3>1, <3>3 DEF Accounts
      <4> QED
        BY <3>1, <3>3, <4>1, RememberedNext
    <3>4. CASE h # c
      <4>1. Minds(caller'[h], job)
        BY <3>1, <3>2, <3>4 DEF Only
      <4> QED
        BY <3>1, <4>1, RememberedNext
    <3> QED
      BY <3>3, <3>4
  <2> QED
    BY <2>1, <2>2, <2>3, RememberedAgain
<1> QED
  BY <1>1, <1>2 DEF Accounts

LEMMA Turn ==
  ASSUME VInv, VInv', Seen, RInv, NEW c \in Callers, Only(c), Accounts(c),
         Steady(owner, owner'), Succeeds(table, table', nextRow, clock, owner'),
         Fits(table', owner', caller'[c])
  PROVE  RInv'
<1>1. OneCleanup(table')
  BY DEF Succeeds
<1>2. ASSUME NEW d \in Callers
      PROVE  Fits(table', owner', caller'[d])
  <2>1. CASE d = c
    BY <2>1
  <2>2. CASE d # c
    <3>1. caller'[d] = caller[d]
      BY <2>2 DEF Only
    <3> QED
      BY <3>1, FitsGoesOn
  <2> QED
    BY <2>1, <2>2
<1>3. NoJobLost'
  BY JobsKept DEF Succeeds
<1> QED
  BY <1>1, <1>2, <1>3 DEF RInv

\* Most callers end a call of the store, or go on, and promise nothing new.
LEMMA Turns ==
  ASSUME VInv, VInv', Seen, RInv, NEW c \in Callers, Clear(c) \/ GoesOn(c), Accounts(c),
         Steady(owner, owner'), Succeeds(table, table', nextRow, clock, owner'),
         Owes(table', owner', caller'[c])
  PROVE  RInv'
<1>1. CASE Clear(c)
  <2>1. Fits(table', owner', caller'[c])
    BY <1>1, EmptyFits DEF Clear
  <2> QED
    BY <1>1, <2>1, Turn DEF Clear
<1>2. CASE GoesOn(c)
  <2>1. Fits(table', owner', caller[c])
    BY FitsGoesOn
  <2>2. Fits(table', owner', caller'[c])
    BY <1>2, <2>1, SameFits DEF GoesOn
  <2> QED
    BY <1>2, <2>2, Turn DEF GoesOn
<1> QED
  BY <1>1, <1>2

\* The owner node is not concerned.
LEMMA OwnerIdle ==
  ASSUME UNCHANGED <<owner, strayed>>, NEW c,
         caller[c].pc \notin Creating \/ \A job \in Jobs : Minds(caller[c], job) => HasRow(table', job)
  PROVE  Steady(owner, owner') /\ Accounts(c)
BY DEF Steady, Accounts, Minds

\* Nobody is handed a row to delete.
LEMMA NothingOwed ==
  ASSUME NEW t, NEW o, NEW state, state.pc \notin Deleting
  PROVE  Owes(t, o, state)
BY DEF Owes, Deleting

LEMMA TableIdle ==
  ASSUME RInv, UNCHANGED table, NEW o
  PROVE  Succeeds(table, table', nextRow, clock, o)
<1>1. OneCleanup(table)
  BY DEF RInv
<1> QED
  BY <1>1, SameSucceeds

LEMMA ExpiredSucceeds ==
  ASSUME VInv, Seen, RInv, NEW h \in Callers
  PROVE  Succeeds(table, Expired(h), nextRow, clock, owner)
<1>1. /\ OneCleanup(table) /\ Orders(table, caller[h].listed)
      /\ Joins(table, owner, caller[h].merging)
  BY DEF RInv, Fits
<1>2. Rows(table) /\ caller[h].merging \subseteq caller[h].listed
  BY TableFacts, CallerFacts
<1> QED
  BY <1>1, <1>2, ExpireSucceeds DEF Expired

LEMMA ExpireNowSucceeds ==
  ASSUME VInv, RInv
  PROVE  Succeeds(table, ExpireNow(table, clock), nextRow, clock, owner)
<1>1. OneCleanup(table) /\ Rows(table) /\ DOMAIN table \subseteq RowIds /\ clock \in Nat
  BY TableFacts DEF RInv
<1>2. /\ Orders(table, Listed(table, clock))
      /\ Joins(table, owner, Merging(table, Listed(table, clock)))
      /\ Merging(table, Listed(table, clock)) \subseteq Listed(table, clock)
  BY <1>1, ListedOrders, MergingJoins DEF Merging, First
<1> QED
  BY <1>1, <1>2, ExpireSucceeds DEF ExpireNow

\* What was just selected.
LEMMA SelectedFits ==
  ASSUME VInv, NEW state \in CallerState, state.pc \notin Deleting
  PROVE  Fits(table, owner, Selected(state))
<1> DEFINE s == Selected(state)
           l == Listed(table, clock)
<1>1. s.listed = l /\ s.merging = Merging(table, l) /\ s.alone = Alone(table, l) /\ s.pc = state.pc
  BY DEF Selected, CallerState
<1> HIDE DEF s
<1>2. Orders(table, s.listed)
  BY <1>1, ListedOrders, TableFacts
<1>3. Leads(table, s)
  BY <1>1 DEF Leads, Alone, First
<1>4. Joins(table, owner, s.merging)
  BY <1>1, MergingJoins
<1>5. Owes(table, owner, s)
  BY <1>1, NothingOwed
<1> QED
  BY <1>2, <1>3, <1>4, <1>5 DEF Fits, s

-----------------------------------------------------------------------------
(* Where a caller goes.                                                    *)

LEMMA RestCaller ==
  ASSUME caller \in [Callers -> CallerState], NEW c \in Callers,
         Rest(c) \/ caller' = [caller EXCEPT ![c] = Asleep]
  PROVE  Clear(c) /\ caller'[c].pc \in {"idle", "asleep"}
<1>1. Clear(c)
  BY RestIsClear
<1>2. caller'[c] = Idle \/ caller'[c] = Asleep
  BY DEF Rest
<1> QED
  BY <1>1, <1>2, IdleState

LEMMA CallCaller ==
  ASSUME caller \in [Callers -> CallerState], NEW c \in Callers,
         NEW pc, NEW job, NEW row, Call(c, pc, job, row)
  PROVE  Clear(c) /\ caller'[c].pc = pc /\ caller'[c].job = job
<1>1. Clear(c)
  BY CallIsClear
<1>2. caller'[c] = [Idle EXCEPT !.pc = pc, !.job = job, !.row = row]
  BY DEF Call
<1> QED
  BY <1>1, <1>2 DEF Idle

LEMMA HoldCaller ==
  ASSUME caller \in [Callers -> CallerState], NEW c \in Callers, NEW id, NEW row, Hold(c, id, row)
  PROVE  /\ Clear(c) /\ caller'[c].pc = "claimed" /\ caller'[c].row = id
         /\ SameOwner(caller'[c], row)
<1>1. Clear(c)
  BY HoldIsClear
<1>2. caller'[c] = [Idle EXCEPT !.pc = "claimed", !.job = row.job,
                                !.row = id, !.foreign = row.foreign]
  BY DEF Hold
<1>3. /\ caller'[c].pc = "claimed" /\ caller'[c].row = id
      /\ caller'[c].job = row.job /\ caller'[c].foreign = row.foreign
  BY <1>2 DEF Idle
<1> QED
  BY <1>1, <1>3 DEF SameOwner

LEMMA GotoCaller ==
  ASSUME caller \in [Callers -> CallerState], NEW c \in Callers, NEW pc, Goto(c, pc)
  PROVE  /\ GoesOn(c) /\ caller'[c].pc = pc
         /\ caller'[c].row = caller[c].row /\ caller'[c].foreign = caller[c].foreign
         /\ pc # "releasing" => caller'[c].job = caller[c].job
<1>1. GoesOn(c)
  BY GotoGoesOn
<1>2. caller'[c] = [caller[c] EXCEPT !.pc = pc, !.left = 0,
                                     !.job = IF pc = "releasing" THEN NoJob ELSE @]
  BY DEF Goto
<1>3. caller[c] \in CallerState
  OBVIOUS
<1> QED
  BY <1>1, <1>2, <1>3 DEF CallerState

\* Steps that neither start nor end a job, nor what is done about one.
LEMMA QuietTurn ==
  ASSUME VInv, VInv', Seen, RInv, NEW c \in Callers, Clear(c) \/ GoesOn(c),
         UNCHANGED <<owner, strayed>>,
         caller[c].pc \notin Creating \/ \A job \in Jobs : Minds(caller[c], job) => HasRow(table', job),
         Succeeds(table, table', nextRow, clock, owner),
         caller'[c].pc \notin Deleting
  PROVE  RInv'
<1>1. Steady(owner, owner') /\ Accounts(c)
  BY OwnerIdle
<1>2. Owes(table', owner', caller'[c])
  BY NothingOwed
<1>3. Succeeds(table, table', nextRow, clock, owner')
  OBVIOUS
<1> QED
  BY <1>1, <1>2, <1>3, Turns

\* A call of the store begins.
LEMMA SelectTurn ==
  ASSUME VInv, VInv', Seen, RInv, NEW h \in Handlers, NEW state \in CallerState,
         state.pc \notin Deleting, caller' = [caller EXCEPT ![h] = Selected(state)],
         UNCHANGED <<table, owner, strayed>>,
         \A job \in Jobs : Minds(caller[h], job) => Minds(state, job)
  PROVE  RInv'
<1>1. h \in Callers /\ caller \in [Callers -> CallerState]
  BY TypesOf, VideoAssumption
<1>2. Selected(state).pc = state.pc /\ Selected(state).job = state.job
  BY DEF Selected, CallerState
<1>3. Only(h) /\ caller'[h] = Selected(state)
  BY <1>1 DEF Only
<1>4. Steady(owner, owner')
  BY DEF Steady
<1>5. Accounts(h)
  BY <1>2, <1>3 DEF Accounts, Minds
<1>6. Fits(table', owner', caller'[h])
  BY <1>3, SelectedFits
<1>7. Succeeds(table, table', nextRow, clock, owner')
  BY TableIdle
<1> QED
  BY <1>1, <1>3, <1>4, <1>5, <1>6, <1>7, Turn

-----------------------------------------------------------------------------
(* The steps of handlers.                                                  *)

LEMMA AcceptTurn ==
  ASSUME VInv, VInv', Seen, RInv, NEW h \in Handlers, NEW job \in Jobs,
         NodeAccepts(h, job) \/ NodeAnswerLost(h, job)
  PROVE  RInv'
<1>1. h \in Callers /\ caller \in [Callers -> CallerState] /\ UNCHANGED table
  BY TypesOf, VideoAssumption DEF NodeAccepts, NodeAnswerLost
<1>2. /\ caller[h].pc = "idle" /\ owner[job] # "gone" /\ owner' = [owner EXCEPT ![job] = "alive"]
      /\ owner \in [Jobs -> {"unborn", "alive", "gone"}]
  BY TypesOf DEF NodeAccepts, NodeAnswerLost, Starts
<1>3. \A other \in Jobs : owner'[other] = IF other = job THEN "alive" ELSE owner[other]
  BY <1>2
<1>4. Steady(owner, owner')
  BY <1>2, <1>3 DEF Steady
<1>5. Succeeds(table, table', nextRow, clock, owner')
  BY <1>1, TableIdle
<1>6. CASE NodeAccepts(h, job)
  <2>1. Call(h, "persisting", job, 0) /\ strayed' = strayed \ {job}
    BY <1>6 DEF NodeAccepts
  <2>2. Clear(h) /\ caller'[h].pc = "persisting" /\ caller'[h].job = job
    BY <1>1, <2>1, CallCaller
  <2>3. Minds(caller'[h], job) /\ \A other : ~Minds(caller[h], other)
    BY <1>2, <2>2 DEF Minds, Creating
  <2>4. Accounts(h)
    BY <1>3, <2>1, <2>3 DEF Accounts
  <2>5. Owes(table', owner', caller'[h])
    BY <2>2, NothingOwed DEF Deleting
  <2> QED
    BY <1>1, <1>4, <1>5, <2>2, <2>4, <2>5, Turns
<1>7. CASE NodeAnswerLost(h, job)
  <2>1. UNCHANGED caller /\ strayed' = strayed \cup {job}
    BY <1>7 DEF NodeAnswerLost
  <2>2. GoesOn(h)
    BY <2>1 DEF GoesOn, Only, Same
  <2>3. \A other : ~Minds(caller[h], other)
    BY <1>2 DEF Minds, Creating
  <2>4. Accounts(h)
    BY <1>3, <2>1, <2>3 DEF Accounts
  <2>5. Owes(table', owner', caller'[h])
    BY <1>2, <2>1, NothingOwed DEF Deleting
  <2> QED
    BY <1>1, <1>4, <1>5, <2>2, <2>4, <2>5, Turns
<1> QED
  BY <1>6, <1>7

LEMMA BeginTurn ==
  ASSUME VInv, VInv', Seen, RInv, NEW h \in Handlers,
         Select(h) \/ StatusAnswered(h) \/ \E id \in RowIds : AskRead(h, id) \/ AskDelete(h, id)
  PROVE  RInv'
<1>1. h \in Callers /\ caller[h] \in CallerState
  BY TypesOf, VideoAssumption
<1>2. CASE Select(h)
  <2>1. /\ caller[h].pc \in StoreCalls /\ caller' = [caller EXCEPT ![h] = Selected(caller[h])]
        /\ UNCHANGED <<table, owner, strayed>>
    BY <1>2 DEF Select
  <2>2. caller[h].pc \notin Deleting
    BY <2>1 DEF StoreCalls, Deleting
  <2> QED
    BY <1>1, <2>1, <2>2, SelectTurn
<1>3. CASE StatusAnswered(h) \/ \E id \in RowIds : AskRead(h, id) \/ AskDelete(h, id)
  <2>1. PICK pc \in {"loading", "updating", "claiming"}, id \in RowIds \cup {0} : Begin(h, pc, id)
    BY <1>1, <1>3 DEF StatusAnswered, AskRead, AskDelete, CallerState
  <2>2. caller[h].pc \in {"idle", "polling"}
    BY <1>3 DEF StatusAnswered, AskRead, AskDelete
  <2> DEFINE asked == [Idle EXCEPT !.pc = pc, !.row = id]
  <2>3. asked \in CallerState /\ asked.pc = pc
    BY IdleState DEF Idle, CallerState
  <2>4. caller' = [caller EXCEPT ![h] = Selected(asked)] /\ UNCHANGED <<table, owner, strayed>>
    BY <2>1 DEF Begin
  <2> HIDE DEF asked
  <2>5. asked.pc \notin Deleting /\ \A job \in Jobs : ~Minds(caller[h], job)
    BY <2>2, <2>3 DEF Deleting, Minds, Creating
  <2> QED
    BY <2>3, <2>4, <2>5, SelectTurn
<1> QED
  BY <1>2, <1>3

\* The row of a job is written, or undone, or neither.
LEMMA PersistTurn ==
  ASSUME VInv, VInv', Seen, RInv, NEW h \in Handlers, Persist(h)
  PROVE  RInv'
<1> DEFINE u == Expired(h)
           row == NewRow(caller[h].job, clock + Ttl, "active")
<1>1. /\ h \in Callers /\ caller \in [Callers -> CallerState]
      /\ Rows(table) /\ nextRow \in Nat /\ nextRow \notin DOMAIN table /\ clock \in Nat
      /\ \A x \in DOMAIN table : x < nextRow
  BY TableFacts, VideoAssumption
<1>2. /\ caller[h].pc = "persisting" /\ table' = Insert(u, nextRow, row) /\ Rest(h)
      /\ UNCHANGED <<clock, owner, strayed>>
  BY DEF Persist
<1>3. Succeeds(table, u, nextRow, clock, owner) /\ DOMAIN u \subseteq DOMAIN table
  BY <1>1, ExpiredSucceeds, ExpiredFollows
<1> HIDE DEF u
<1>4. Similar(u, table', nextRow, clock)
  <2>1. clock + Ttl > clock
    BY <1>1, StoreAssumption
  <2>2. nextRow \notin DOMAIN u
    BY <1>1, <1>3
  <2> QED
    BY <1>1, <1>2, <2>1, <2>2, InsertSimilar
<1>5. Succeeds(table, table', nextRow, clock, owner)
  BY <1>1, <1>3, <1>4, SimilarSucceeds
<1>6. HasRow(table', caller[h].job)
  <2>1. nextRow \in DOMAIN table' /\ table'[nextRow] = row
    BY <1>2 DEF Insert
  <2> QED
    BY <2>1 DEF HasRow, NewRow
<1>7. \A job \in Jobs : Minds(caller[h], job) => HasRow(table', job)
  BY <1>6 DEF Minds
<1>8. Clear(h) /\ caller'[h].pc \notin Deleting
  BY <1>1, <1>2, RestCaller DEF Deleting
<1> QED
  BY <1>1, <1>2, <1>5, <1>7, <1>8, QuietTurn

LEMMA EnqueueTurn ==
  ASSUME VInv, VInv', Seen, RInv, NEW h \in Handlers, EnqueueCleanup(h)
  PROVE  RInv'
<1>1. /\ h \in Callers /\ caller \in [Callers -> CallerState]
      /\ nextRow \in Nat /\ nextRow \notin DOMAIN table /\ OneCleanup(table)
      /\ \A x \in DOMAIN table : table[x] \in Row
  BY TableFacts, VideoAssumption DEF RInv
<1>2. /\ table' \in Enqueue(table, nextRow, caller[h].job, clock) /\ Rest(h)
      /\ UNCHANGED <<clock, owner, strayed>>
  BY DEF EnqueueCleanup
<1>3. /\ Succeeds(table, table', nextRow, clock, owner)
      /\ \E x \in DOMAIN table' : table'[x].job = caller[h].job /\ ~table'[x].foreign
  BY <1>1, <1>2, EnqueueSucceeds
<1>4. \A job \in Jobs : Minds(caller[h], job) => HasRow(table', job)
  BY <1>3 DEF Minds, HasRow
<1>5. Clear(h) /\ caller'[h].pc \notin Deleting
  BY <1>1, <1>2, RestCaller DEF Deleting
<1> QED
  BY <1>1, <1>2, <1>3, <1>4, <1>5, QuietTurn

LEMMA UndoTurn ==
  ASSUME VInv, VInv', Seen, RInv, NEW h \in Handlers,
         PersistFails(h) \/ Compensated(h) \/ CompensationFails(h) \/ EnqueueFails(h)
  PROVE  RInv'
<1>1. h \in Callers /\ caller \in [Callers -> CallerState] /\ UNCHANGED table
  BY TypesOf, VideoAssumption DEF PersistFails, Compensated, CompensationFails, EnqueueFails
<1>2. owner \in [Jobs -> {"unborn", "alive", "gone"}] /\ strayed \subseteq Jobs
  BY TypesOf
<1>3. \A o : Succeeds(table, table', nextRow, clock, o)
  BY <1>1, TableIdle
<1>4. CASE PersistFails(h)
  <2> DEFINE s == [Idle EXCEPT !.pc = "compensating", !.job = caller[h].job, !.left = Deadline]
  <2>1. caller[h].pc = "persisting" /\ caller' = [caller EXCEPT ![h] = s] /\ UNCHANGED <<owner, strayed>>
    BY <1>4 DEF PersistFails
  <2>2. Empty(s) /\ s.pc = "compensating" /\ s.job = caller[h].job
    BY DEF Idle, Empty
  <2> HIDE DEF s
  <2>3. Clear(h) /\ caller'[h] = s
    BY <1>1, <2>1, <2>2, ClearState
  <2>4. Steady(owner, owner')
    BY <2>1 DEF Steady
  <2>5. Accounts(h)
    BY <2>1, <2>2, <2>3 DEF Accounts, Minds, Creating
  <2>6. Owes(table', owner', caller'[h])
    BY <2>2, <2>3, NothingOwed DEF Deleting
  <2> QED
    BY <1>1, <1>3, <2>3, <2>4, <2>5, <2>6, Turns
<1>5. CASE Compensated(h)
  <2>1. /\ caller[h].job \in Jobs /\ owner' = [owner EXCEPT ![caller[h].job] = "gone"]
        /\ Rest(h) /\ UNCHANGED strayed
    BY <1>5 DEF Compensated, Alive, Ends
  <2>2. Clear(h) /\ caller'[h].pc \notin Deleting
    BY <1>1, <2>1, RestCaller DEF Deleting
  <2>3. \A job \in Jobs : owner'[job] = IF job = caller[h].job THEN "gone" ELSE owner[job]
    BY <1>2, <2>1
  <2>4. Steady(owner, owner')
    BY <2>3 DEF Steady
  <2>5. Accounts(h)
    BY <2>1, <2>3 DEF Accounts, Minds
  <2>6. Owes(table', owner', caller'[h])
    BY <2>2, NothingOwed
  <2> QED
    BY <1>1, <1>3, <2>2, <2>4, <2>5, <2>6, Turns
<1>6. CASE CompensationFails(h)
  <2>1. /\ MayEnd(caller[h].job) /\ Goto(h, "enqueuing") /\ UNCHANGED strayed
        /\ caller[h].pc = "compensating"
    BY <1>6 DEF CompensationFails
  <2>2. GoesOn(h) /\ caller'[h].pc = "enqueuing" /\ caller'[h].job = caller[h].job
    BY <1>1, <2>1, GotoCaller
  <2>3. \A job \in Jobs : owner'[job] = owner[job] \/ owner'[job] = "gone"
    BY <1>2, <2>1 DEF MayEnd, Ends
  <2>4. Steady(owner, owner')
    BY <2>3 DEF Steady
  <2>5. Accounts(h)
    BY <2>1, <2>2, <2>3 DEF Accounts, Minds, Creating
  <2>6. Owes(table', owner', caller'[h])
    BY <2>2, NothingOwed DEF Deleting
  <2> QED
    BY <1>1, <1>3, <2>2, <2>4, <2>5, <2>6, Turns
<1>7. CASE EnqueueFails(h)
  <2>1. strayed' = strayed \cup ({caller[h].job} \cap Alive) /\ Rest(h) /\ UNCHANGED owner
    BY <1>7 DEF EnqueueFails
  <2>2. Clear(h) /\ caller'[h].pc \notin Deleting
    BY <1>1, <2>1, RestCaller DEF Deleting
  <2>3. Steady(owner, owner')
    BY <2>1 DEF Steady
  <2>4. Accounts(h)
    BY <2>1 DEF Accounts, Minds, Alive
  <2>5. Owes(table', owner', caller'[h])
    BY <2>2, NothingOwed
  <2> QED
    BY <1>1, <1>3, <2>2, <2>3, <2>4, <2>5, Turns
<1> QED
  BY <1>4, <1>5, <1>6, <1>7

\* get and update_status expire rows; everything else about a request leaves the table.
LEMMA ReadTurn ==
  ASSUME VInv, VInv', Seen, RInv, NEW h \in Handlers,
         \/ LoadVideoJob(h) \/ ReadEnds(h) \/ UpdateStatus(h) \/ Reload(h)
         \/ StoreFails(h) \/ OwnerUnavailable(h)
  PROVE  RInv'
<1>1. h \in Callers /\ caller \in [Callers -> CallerState]
  BY TypesOf, VideoAssumption
<1>2. UNCHANGED <<clock, owner, strayed>>
  BY DEF LoadVideoJob, ReadEnds, UpdateStatus, Reload, StoreFails, OwnerUnavailable
<1>3. caller[h].pc \notin Creating
  BY DEF LoadVideoJob, ReadEnds, UpdateStatus, Reload, StoreFails, OwnerUnavailable, StoreCalls, Creating
<1>4. Succeeds(table, table', nextRow, clock, owner)
  <2>1. CASE UNCHANGED table
    BY <2>1, TableIdle
  <2>2. CASE table' = Expired(h)
    BY <1>1, <2>2, ExpiredSucceeds
  <2> QED
    BY <2>1, <2>2 DEF LoadVideoJob, ReadEnds, UpdateStatus, Reload, StoreFails, OwnerUnavailable
<1>5. (Clear(h) \/ GoesOn(h)) /\ caller'[h].pc \notin Deleting
  <2>1. CASE Rest(h)
    BY <1>1, <2>1, RestCaller DEF Deleting
  <2>2. CASE Call(h, "polling", NoJob, caller[h].row)
    BY <1>1, <2>2, CallCaller DEF Deleting
  <2>3. CASE Call(h, "reloading", NoJob, 0)
    BY <1>1, <2>3, CallCaller DEF Deleting
  <2>4. CASE Goto(h, "releasing")
    BY <1>1, <2>4, GotoCaller DEF Deleting
  <2> QED
    BY <2>1, <2>2, <2>3, <2>4 DEF LoadVideoJob, ReadEnds, UpdateStatus, Reload, StoreFails, OwnerUnavailable
<1> QED
  BY <1>1, <1>2, <1>3, <1>4, <1>5, QuietTurn

\* A caller takes a row of u, the table it has just expired rows of.
LEMMA HoldTurn ==
  ASSUME VInv, VInv', Seen, RInv, NEW c \in Callers, caller[c].pc \notin Creating,
         UNCHANGED <<clock, owner, strayed>>,
         NEW u, Kept(u, nextRow), Succeeds(table, u, nextRow, clock, owner),
         NEW id \in DOMAIN u, table' = Claim(u, id, c), Hold(c, id, u[id])
  PROVE  RInv'
<1>1. /\ caller \in [Callers -> CallerState] /\ Rows(table) /\ nextRow \in Nat
      /\ \A x \in DOMAIN table : x < nextRow
  BY TableFacts
<1>2. \A x \in DOMAIN u : u[x] \in Row
  BY RowsOf DEF Kept
<1>3. Similar(u, table', nextRow, clock)
  BY <1>2, ClaimSimilar
<1>4. Succeeds(table, table', nextRow, clock, owner')
  BY <1>1, <1>3, SimilarSucceeds
<1>5. Clear(c) /\ caller'[c].pc = "claimed" /\ caller'[c].row = id /\ SameOwner(caller'[c], u[id])
  BY <1>1, HoldCaller
<1>6. Owes(table', owner', caller'[c])
  <2>1. SameOwner(table'[id], u[id])
    BY <1>3 DEF Similar
  <2>2. SameOwner(caller'[c], table'[id])
    BY <1>5, <2>1 DEF SameOwner
  <2> QED
    BY <1>5, <2>2 DEF Owes
<1>7. Steady(owner, owner') /\ Accounts(c)
  BY OwnerIdle
<1> QED
  BY <1>4, <1>5, <1>6, <1>7, Turns

LEMMA ClaimDeleteTurn ==
  ASSUME VInv, VInv', Seen, RInv, NEW h \in Handlers, ClaimDelete(h)
  PROVE  RInv'
<1> DEFINE u == Expired(h)
           id == caller[h].row
<1>1. h \in Callers /\ caller \in [Callers -> CallerState]
  BY TypesOf, VideoAssumption
<1>2. /\ UNCHANGED <<clock, owner, strayed>> /\ caller[h].pc = "claiming"
      /\ \/ Claimable(u, id, clock) /\ table' = Claim(u, id, h) /\ Hold(h, id, u[id])
         \/ table' = u /\ Rest(h)
  BY DEF ClaimDelete
<1>3. Kept(u, nextRow) /\ Succeeds(table, u, nextRow, clock, owner)
  BY <1>1, ExpiredSpares, ExpiredSucceeds
<1>4. caller[h].pc \notin Creating
  BY <1>2 DEF Creating
<1> HIDE DEF u, id
<1>5. CASE Claimable(u, id, clock) /\ table' = Claim(u, id, h) /\ Hold(h, id, u[id])
  <2>1. id \in DOMAIN u
    BY <1>5 DEF Claimable, Visible
  <2> QED
    BY <1>1, <1>2, <1>3, <1>4, <1>5, <2>1, HoldTurn
<1>6. CASE table' = u /\ Rest(h)
  <2>1. Clear(h) /\ caller'[h].pc \notin Deleting
    BY <1>1, <1>6, RestCaller DEF Deleting
  <2> QED
    BY <1>1, <1>2, <1>3, <1>4, <1>6, <2>1, QuietTurn
<1> QED
  BY <1>2, <1>5, <1>6

LEMMA HandlerTurns ==
  ASSUME VInv, VInv', Seen, RInv, NEW h \in Handlers, HandlerStep(h)
  PROVE  RInv'
<1>1. CASE \E job \in Jobs : NodeAccepts(h, job) \/ NodeAnswerLost(h, job)
  BY <1>1, AcceptTurn
<1>2. CASE Select(h) \/ StatusAnswered(h) \/ \E id \in RowIds : AskRead(h, id) \/ AskDelete(h, id)
  BY <1>2, BeginTurn
<1>3. CASE Persist(h)
  BY <1>3, PersistTurn
<1>4. CASE EnqueueCleanup(h)
  BY <1>4, EnqueueTurn
<1>5. CASE PersistFails(h) \/ Compensated(h) \/ CompensationFails(h) \/ EnqueueFails(h)
  BY <1>5, UndoTurn
<1>6. CASE \/ LoadVideoJob(h) \/ ReadEnds(h) \/ UpdateStatus(h) \/ Reload(h)
           \/ StoreFails(h) \/ OwnerUnavailable(h)
  BY <1>6, ReadTurn
<1>7. CASE ClaimDelete(h)
  BY <1>7, ClaimDeleteTurn
<1> QED
  BY <1>1, <1>2, <1>3, <1>4, <1>5, <1>6, <1>7 DEF HandlerStep

-----------------------------------------------------------------------------
(* The steps of loops, and those of the owner's DELETE.                    *)

LEMMA CleanupTurns ==
  ASSUME VInv, VInv', Seen, RInv, NEW w \in Loops, CleanupStep(w)
  PROVE  RInv'
<1>1. /\ w \in Callers /\ caller \in [Callers -> CallerState] /\ OneCleanup(table)
      /\ \A x \in DOMAIN table : table[x] \in Row
  BY TableFacts, VideoAssumption DEF RInv
<1>2. CASE ClaimCleanup(w)
  <2> DEFINE u == ExpireNow(table, clock)
  <2>1. /\ UNCHANGED <<clock, owner, strayed>> /\ caller[w].pc \in {"idle", "asleep"}
        /\ \/ table' = u /\ caller' = [caller EXCEPT ![w] = Asleep]
           \/ \E id \in NextCleanup(u) : table' = Claim(u, id, w) /\ Hold(w, id, u[id])
    BY <1>2 DEF ClaimCleanup
  <2>2. Kept(u, nextRow) /\ Succeeds(table, u, nextRow, clock, owner)
    BY ExpireKeeps, TypesOf, ExpireNowSucceeds DEF ExpireNow
  <2>3. caller[w].pc \notin Creating
    BY <2>1 DEF Creating
  <2> HIDE DEF u
  <2>4. CASE table' = u /\ caller' = [caller EXCEPT ![w] = Asleep]
    <3>1. Clear(w) /\ caller'[w].pc \notin Deleting
      BY <1>1, <2>4, RestCaller DEF Deleting
    <3> QED
      BY <1>1, <2>1, <2>2, <2>3, <2>4, <3>1, QuietTurn
  <2>5. CASE \E id \in NextCleanup(u) : table' = Claim(u, id, w) /\ Hold(w, id, u[id])
    <3>1. PICK id \in NextCleanup(u) : table' = Claim(u, id, w) /\ Hold(w, id, u[id])
      BY <2>5
    <3>2. id \in DOMAIN u
      BY <3>1 DEF NextCleanup, CleanupQueue
    <3> QED
      BY <1>1, <2>1, <2>2, <2>3, <3>1, <3>2, HoldTurn
  <2> QED
    BY <2>1, <2>4, <2>5
<1>3. CASE QuarantineCleanup(w)
  <2> DEFINE id == caller[w].row
  <2>1. /\ caller[w].pc = "claimed" /\ caller[w].foreign /\ table' = Quarantine(table, id, w)
        /\ Rest(w) /\ UNCHANGED <<clock, owner, strayed>>
    BY <1>3 DEF QuarantineCleanup
  <2>2. id \in DOMAIN table => table[id].foreign
    <3>1. Owes(table, owner, caller[w])
      BY <1>1 DEF RInv, Fits
    <3> QED
      BY <2>1, <3>1 DEF Owes, Deleting, SameOwner
  <2> HIDE DEF id
  <2>3. Succeeds(table, table', nextRow, clock, owner)
    BY <1>1, <2>1, <2>2, QuarantineSucceeds
  <2>4. Clear(w) /\ caller'[w].pc \notin Deleting
    BY <1>1, <2>1, RestCaller DEF Deleting
  <2>5. caller[w].pc \notin Creating
    BY <2>1 DEF Creating
  <2> QED
    BY <1>1, <2>1, <2>3, <2>4, <2>5, QuietTurn
<1>4. CASE CleanupOwnerAbsent(w) \/ CleanupStoreFails(w) \/ CleanupCancelled(w)
  <2>1. /\ Rest(w) \/ caller' = [caller EXCEPT ![w] = Asleep] \/ Goto(w, "releasing")
        /\ UNCHANGED <<table, clock, owner, strayed>>
        /\ caller[w].pc \notin Creating
    BY <1>4 DEF CleanupOwnerAbsent, CleanupStoreFails, CleanupCancelled, Creating
  <2>2. (Clear(w) \/ GoesOn(w)) /\ caller'[w].pc \notin Deleting
    BY <1>1, <2>1, RestCaller, GotoCaller DEF Deleting
  <2>3. Succeeds(table, table', nextRow, clock, owner)
    BY <2>1, TableIdle
  <2> QED
    BY <1>1, <2>1, <2>2, <2>3, QuietTurn
<1> QED
  BY <1>2, <1>3, <1>4 DEF CleanupStep

LEMMA DeleteTurns ==
  ASSUME VInv, VInv', Seen, RInv, NEW c \in Callers, DeleteStep(c)
  PROVE  RInv'
<1>1. /\ caller \in [Callers -> CallerState] /\ caller[c] \in CallerState /\ OneCleanup(table)
      /\ \A x \in DOMAIN table : table[x] \in Row
      /\ owner \in [Jobs -> {"unborn", "alive", "gone"}]
  BY TableFacts, TypesOf DEF RInv
<1>2. Owes(table, owner, caller[c])
  BY DEF RInv, Fits
<1>3. /\ caller[c].pc \notin Creating
      /\ \A job : ~Minds(caller[c], job)
  BY DEF DeleteStep, StartDelete, NodeDeletes, DeleteFails, ConfirmDelete, ReleaseDelete, Creating, Minds
<1>4. CASE StartDelete(c)
  <2> DEFINE s == [caller[c] EXCEPT !.pc = "deleting", !.left = Deadline]
  <2>1. /\ caller[c].pc = "claimed" /\ caller' = [caller EXCEPT ![c] = s]
        /\ UNCHANGED <<table, owner, strayed>>
    BY <1>4 DEF StartDelete
  <2>2. /\ Same(s, caller[c]) /\ s.pc = "deleting" /\ s.row = caller[c].row
        /\ s.job = caller[c].job /\ s.foreign = caller[c].foreign
    BY <1>1 DEF CallerState, Same
  <2> HIDE DEF s
  <2>3. GoesOn(c) /\ caller'[c] = s
    BY <1>1, <2>1, <2>2 DEF GoesOn, Only
  <2>4. Owes(table', owner', caller'[c])
    BY <1>2, <2>1, <2>2, <2>3 DEF Owes, Deleting, SameOwner
  <2>5. Steady(owner, owner') /\ Accounts(c)
    BY <1>3, <2>1, OwnerIdle
  <2>6. Succeeds(table, table', nextRow, clock, owner')
    BY <2>1, TableIdle
  <2> QED
    BY <2>3, <2>4, <2>5, <2>6, Turns
<1>5. CASE NodeDeletes(c)
  <2> DEFINE job == caller[c].job
  <2>1. /\ caller[c].pc = "deleting" /\ job \in Jobs /\ owner' = [owner EXCEPT ![job] = "gone"]
        /\ strayed' = strayed \ {job} /\ Goto(c, "confirming") /\ UNCHANGED table
    BY <1>5 DEF NodeDeletes, Alive, Ends
  <2>2. /\ GoesOn(c) /\ caller'[c].pc = "confirming" /\ caller'[c].row = caller[c].row
        /\ caller'[c].foreign = caller[c].foreign /\ caller'[c].job = job
    BY <1>1, <2>1, GotoCaller
  <2>3. \A other \in Jobs : owner'[other] = IF other = job THEN "gone" ELSE owner[other]
    BY <1>1, <2>1
  <2> HIDE DEF job
  <2>4. Steady(owner, owner')
    BY <2>3 DEF Steady
  <2>5. Accounts(c)
    BY <1>3, <2>1, <2>3 DEF Accounts
  <2>6. Owes(table', owner', caller'[c])
    BY <1>2, <2>1, <2>2, <2>3 DEF Owes, Deleting, SameOwner, job
  <2>7. Succeeds(table, table', nextRow, clock, owner')
    BY <2>1, TableIdle
  <2> QED
    BY <2>2, <2>4, <2>5, <2>6, <2>7, Turns
<1>6. CASE DeleteFails(c)
  <2>1. /\ MayEnd(caller[c].job) /\ strayed' = strayed \cap Alive'
        /\ Goto(c, "releasing") \/ Rest(c)
        /\ UNCHANGED table
    BY <1>6 DEF DeleteFails
  <2>2. (Clear(c) \/ GoesOn(c)) /\ caller'[c].pc \notin Deleting
    BY <1>1, <2>1, RestCaller, GotoCaller DEF Deleting
  <2>3. \A job \in Jobs : owner'[job] = owner[job] \/ owner'[job] = "gone"
    BY <1>1, <2>1 DEF MayEnd, Ends
  <2>4. Steady(owner, owner')
    BY <2>3 DEF Steady
  <2>5. Accounts(c)
    BY <1>3, <2>1, <2>3 DEF Accounts, Alive
  <2>6. Owes(table', owner', caller'[c])
    BY <2>2, NothingOwed
  <2>7. Succeeds(table, table', nextRow, clock, owner')
    BY <2>1, TableIdle
  <2> QED
    BY <2>2, <2>4, <2>5, <2>6, <2>7, Turns
<1>7. CASE ConfirmDelete(c) \/ ReleaseDelete(c)
  <2> DEFINE id == caller[c].row
  <2>1. /\ Rest(c) /\ UNCHANGED <<owner, strayed>>
        /\ \/ table' = table
           \/ table' = Release(table, id, c)
           \/ table' = Confirm(table, id, c) /\ caller[c].pc = "confirming"
    BY <1>7 DEF ConfirmDelete, ReleaseDelete
  <2>2. caller[c].pc = "confirming" => (id \in DOMAIN table => owner[table[id].job] = "gone")
    BY <1>2 DEF Owes, Deleting, SameOwner
  <2> HIDE DEF id
  <2>3. Succeeds(table, table', nextRow, clock, owner)
    <3>1. CASE table' = table
      BY <3>1, TableIdle
    <3>2. CASE table' = Release(table, id, c)
      <4>1. Similar(table, table', nextRow, clock)
        BY <1>1, <3>2, ReleaseSimilar
      <4>2. Succeeds(table, table, nextRow, clock, owner)
        BY <1>1, SameSucceeds
      <4> QED
        BY <4>1, <4>2, TableFacts, SimilarSucceeds
    <3>3. CASE table' = Confirm(table, id, c) /\ caller[c].pc = "confirming"
      BY <1>1, <2>2, <3>3, ConfirmSucceeds
    <3> QED
      BY <2>1, <3>1, <3>2, <3>3
  <2>4. Clear(c) /\ caller'[c].pc \notin Deleting
    BY <1>1, <2>1, RestCaller DEF Deleting
  <2> QED
    BY <1>3, <2>1, <2>3, <2>4, QuietTurn
<1> QED
  BY <1>4, <1>5, <1>6, <1>7 DEF DeleteStep

-----------------------------------------------------------------------------
(* Crashes, time and the beginning.                                        *)

LEMMA CrashTurn ==
  ASSUME VInv, RInv, Crash
  PROVE  RInv'
<1>1. /\ caller' = Restarted /\ UNCHANGED <<table, owner>>
      /\ strayed' = strayed \cup
           ({caller[h].job : h \in {x \in Handlers : caller[x].pc \in Creating}} \cap Alive)
  BY DEF Crash, Creating
<1>2. ASSUME NEW c \in Callers
      PROVE  Fits(table', owner', caller'[c])
  <2>1. caller'[c] \in {Idle, Asleep}
    BY <1>1 DEF Restarted
  <2>2. Empty(Idle) /\ Empty(Asleep) /\ Idle.pc \notin Deleting /\ Asleep.pc \notin Deleting
    BY DEF Idle, Asleep, Empty, Deleting
  <2> QED
    BY <2>1, <2>2, EmptyFits, NothingOwed
<1>3. NoJobLost'
  <2> SUFFICES ASSUME NEW job \in Jobs, owner[job] = "alive", job \notin strayed'
               PROVE  Remembered(job)'
    BY <1>1 DEF NoJobLost, Alive
  <2>1. Remembered(job)
    BY <1>1 DEF RInv, NoJobLost, Alive
  <2>2. ~\E h \in Handlers : Minds(caller[h], job)
    BY <1>1 DEF Minds, Alive
  <2>3. HasRow(table', job)
    BY <1>1, <2>1, <2>2, RememberedAgain
  <2> QED
    BY <2>3, RememberedNext
<1> QED
  BY <1>1, <1>2, <1>3 DEF RInv

LEMMA TickTurn ==
  ASSUME VInv, VInv', Seen, RInv, Tick
  PROVE  RInv'
<1> DEFINE less(k) == IF k > 0 THEN k - 1 ELSE 0
<1>1. /\ table' = [x \in DOMAIN table |-> [table[x] EXCEPT !.left = less(@)]]
      /\ caller' = [c \in Callers |-> [caller[c] EXCEPT !.left = less(@)]]
      /\ UNCHANGED <<owner, strayed>>
  BY DEF Tick
<1> HIDE DEF less
<1>2. /\ table \in [DOMAIN table -> Row] /\ caller \in [Callers -> CallerState]
      /\ Rows(table) /\ nextRow \in Nat /\ \A x \in DOMAIN table : x < nextRow
  BY TypesOf, TableFacts
<1>3. Similar(table, table', nextRow, clock)
  BY <1>1, <1>2 DEF Similar, SameOwner, Row
<1>4. Succeeds(table, table', nextRow, clock, owner')
  <2>1. Succeeds(table, table, nextRow, clock, owner')
    BY SameSucceeds DEF RInv
  <2> QED
    BY <1>2, <1>3, <2>1, SimilarSucceeds
<1>5. Steady(owner, owner')
  BY <1>1 DEF Steady
<1>6. \A c \in Callers :
        /\ Same(caller'[c], caller[c]) /\ caller'[c].pc = caller[c].pc
        /\ caller'[c].row = caller[c].row
        /\ caller'[c].job = caller[c].job /\ caller'[c].foreign = caller[c].foreign
  BY <1>1, <1>2 DEF CallerState, Same
<1>7. ASSUME NEW c \in Callers
      PROVE  Fits(table', owner', caller'[c])
  <2>1. Fits(table', owner', caller[c])
    BY <1>4, <1>5, FitsGoesOn
  <2>2. Owes(table', owner', caller'[c])
    BY <1>6, <2>1 DEF Fits, Owes, SameOwner
  <2> QED
    BY <1>6, <2>1, <2>2, SameFits
<1>8. NoJobLost'
  <2> SUFFICES ASSUME NEW job \in Jobs, owner[job] = "alive", job \notin strayed
               PROVE  Remembered(job)'
    BY <1>1 DEF NoJobLost, Alive
  <2>1. Remembered(job)
    BY DEF RInv, NoJobLost, Alive
  <2>2. HasRow(table, job) => HasRow(table', job)
    BY <1>1, <1>4, RowStays DEF Succeeds
  <2>3. \A h \in Handlers : Minds(caller[h], job) => Minds(caller'[h], job)
    BY <1>6, VideoAssumption DEF Minds
  <2> QED
    BY <2>1, <2>2, <2>3, RememberedAgain, RememberedNext
<1> QED
  BY <1>4, <1>7, <1>8 DEF RInv, Succeeds

LEMMA InitTurn ==
  ASSUME Init
  PROVE  RInv
<1>1. /\ DOMAIN table = DOMAIN Backlog
      /\ \A x \in DOMAIN table : table[x].job = Backlog[x].job /\ table[x].foreign = Backlog[x].foreign
  BY DEF Init, NewRow
<1>2. ASSUME NEW x \in DOMAIN Backlog
      PROVE  Backlog[x] \in [job : Jobs, foreign : BOOLEAN]
  <2> DEFINE entries == [job : Jobs, foreign : BOOLEAN]
  <2>1. Backlog \in Seq(entries)
    BY VideoAssumption
  <2> HIDE DEF entries
  <2>2. Backlog[x] \in entries
    BY <2>1
  <2> QED
    BY <2>2 DEF entries
<1>3. OneCleanup(table)
  <2> SUFFICES ASSUME NEW x \in DOMAIN Backlog, NEW y \in DOMAIN Backlog, SameOwner(table[x], table[y])
               PROVE  x = y
    BY <1>1 DEF OneCleanup
  <2>1. Backlog[x].job = Backlog[y].job /\ Backlog[x].foreign = Backlog[y].foreign
    BY <1>1 DEF SameOwner
  <2>2. Backlog[x] = Backlog[y]
    BY <1>2, <2>1
  <2> QED
    BY <2>2, VideoAssumption
<1>4. \A c \in Callers : Fits(table, owner, caller[c])
  <2> SUFFICES ASSUME NEW c \in Callers
               PROVE  Fits(table, owner, caller[c])
    OBVIOUS
  <2>1. caller[c] \in {Idle, Asleep}
    BY DEF Init, Restarted
  <2>2. Empty(Idle) /\ Empty(Asleep) /\ Idle.pc \notin Deleting /\ Asleep.pc \notin Deleting
    BY DEF Idle, Asleep, Empty, Deleting
  <2> QED
    BY <2>1, <2>2, EmptyFits, NothingOwed
<1>5. NoJobLost
  <2> SUFFICES ASSUME NEW job \in Jobs, owner[job] = "alive"
               PROVE  Remembered(job)
    BY DEF NoJobLost, Alive
  <2>1. PICK x \in DOMAIN Backlog : Backlog[x] = [job |-> job, foreign |-> FALSE]
    BY DEF Init
  <2>2. HasRow(table, job)
    BY <1>1, <2>1 DEF HasRow
  <2> QED
    BY <2>2, RememberedAgain
<1> QED
  BY <1>3, <1>4, <1>5 DEF RInv

LEMMA NextTurns ==
  ASSUME VInv, Seen, RInv, [Next]_vars
  PROVE  RInv'
<1>0. VInv'
  BY NextKeeps
<1>1. CASE \E h \in Handlers : HandlerStep(h)
  BY <1>0, <1>1, HandlerTurns
<1>2. CASE \E w \in Loops : CleanupStep(w)
  BY <1>0, <1>2, CleanupTurns
<1>3. CASE \E c \in Callers : DeleteStep(c)
  BY <1>0, <1>3, DeleteTurns
<1>4. CASE Crash
  BY <1>4, CrashTurn
<1>5. CASE Tick
  BY <1>0, <1>5, TickTurn
<1>6. CASE UNCHANGED vars
  BY <1>6 DEF vars, RInv, OneCleanup, Fits, Orders, Leads, Joins, Owes, IsActive, IsCleanup,
              HasCleanupRow, NoJobLost, Remembered, Alive
<1> QED
  BY <1>1, <1>2, <1>3, <1>4, <1>5, <1>6 DEF Next

THEOREM AlwaysRInv == Safety => [](VInv /\ Seen /\ RInv)
<1>1. Init => VInv /\ Seen /\ RInv
  BY InitHolds, InitSeen, InitTurn
<1>2. VInv /\ Seen /\ RInv /\ [Next]_vars => (VInv /\ Seen /\ RInv)'
  BY NextKeeps, NextSees, NextTurns
<1> QED
  BY <1>1, <1>2, PTL DEF Safety

-----------------------------------------------------------------------------
(* The theorems.                                                           *)

\* However many calls expire, merge and enqueue rows of an owner at once, each by SELECTs
\* of its own, the owner has one cleanup row, and no call runs into the unique index.
THEOREM OneCleanupRowAlways == Safety => []OneCleanupRowPerOwner
<1>1. RInv => OneCleanupRowPerOwner
  <2> SUFFICES ASSUME RInv
               PROVE  OneCleanupRowPerOwner
    OBVIOUS
  <2>1. \A h \in Handlers : ~Collides(table, caller[h].alone)
    <3> SUFFICES ASSUME NEW h \in Handlers, NEW x \in caller[h].alone, IsActive(table, x),
                        HasCleanupRow(table, x)
                 PROVE  FALSE
      BY DEF Collides, IsActive
    <3>1. h \in Callers
      BY VideoAssumption
    <3>2. Leads(table, caller[h])
      BY <3>1 DEF RInv, Fits
    <3> QED
      BY <3>2 DEF Leads
  <2>2. OneCleanup(table)
    BY DEF RInv
  <2> QED
    BY <2>1, <2>2 DEF OneCleanupRowPerOwner, OneCleanup, IsCleanup
<1> QED
  BY <1>1, AlwaysRInv, PTL

\* A job that runs on its owner has a row, or a handler still at work on it, for as long
\* as the owner has not deleted it: whatever is merged on a stale SELECT, whoever crashes,
\* and however late the confirmation of a DELETE arrives.
THEOREM NoJobEverLost == Safety => []NoJobLost
<1>1. RInv => NoJobLost
  BY DEF RInv
<1> QED
  BY <1>1, AlwaysRInv, PTL

-----------------------------------------------------------------------------
(* What clients see: the refinement of PublicJobs.                         *)

Answers(t, now) ==
  [x \in {y \in DOMAIN t : Visible(t, y, now)} |->
     [job |-> t[x].job, until |-> t[x].expires_at]]

Over(o) == {job \in Jobs : o[job] = "gone"}

\* A table whose rows come from those of another, and which loses no visible one, answers
\* the same.
LEMMA SameAnswers ==
  ASSUME NEW t, NEW u, NEW n, NEW now, Heirs(t, u, n, now), Shows(t, u, now),
         \A x \in DOMAIN u \ DOMAIN t : u[x].pending # "active"
  PROVE  Answers(u, now) = Answers(t, now)
<1>1. ASSUME NEW x, Visible(u, x, now)
      PROVE  /\ Visible(t, x, now)
             /\ u[x].job = t[x].job /\ u[x].expires_at = t[x].expires_at
  <2>1. x \in DOMAIN u /\ u[x].pending = "active" /\ u[x].expires_at > now
    BY <1>1 DEF Visible
  <2>2. x \in DOMAIN t
    BY <2>1
  <2>3. /\ u[x].job = t[x].job /\ u[x].expires_at = t[x].expires_at
        /\ t[x].pending = "active"
    BY <2>1, <2>2 DEF Heirs, SameOwner
  <2> QED
    BY <2>1, <2>2, <2>3 DEF Visible
<1>2. ASSUME NEW x, Visible(t, x, now)
      PROVE  Visible(u, x, now)
  <2>1. x \in DOMAIN t /\ t[x].expires_at > now
    BY <1>2 DEF Visible
  <2>2. x \in DOMAIN u /\ u[x].pending = "active"
    BY <1>2, <2>1 DEF Shows
  <2>3. u[x].expires_at = t[x].expires_at
    BY <2>1, <2>2 DEF Heirs
  <2> QED
    BY <2>1, <2>2, <2>3 DEF Visible
<1>3. {y \in DOMAIN u : Visible(u, y, now)} = {y \in DOMAIN t : Visible(t, y, now)}
  BY <1>1, <1>2 DEF Visible
<1> QED
  BY <1>1, <1>3 DEF Answers

\* Claims are not seen.
LEMMA ClaimsUnseen ==
  ASSUME NEW u, NEW v, NEW now, DOMAIN v = DOMAIN u,
         \A x \in DOMAIN u : /\ v[x].job = u[x].job /\ v[x].pending = u[x].pending
                             /\ v[x].expires_at = u[x].expires_at
  PROVE  Answers(v, now) = Answers(u, now)
<1>1. \A x : Visible(v, x, now) <=> Visible(u, x, now)
  BY DEF Visible
<1>2. {y \in DOMAIN v : Visible(v, y, now)} = {y \in DOMAIN u : Visible(u, y, now)}
  BY <1>1
<1> QED
  BY <1>2 DEF Answers

LEMMA ClaimUnseen ==
  ASSUME NEW u, \A x \in DOMAIN u : u[x] \in Row, NEW c, NEW id \in DOMAIN u, NEW now
  PROVE  Answers(Claim(u, id, c), now) = Answers(u, now)
<1> DEFINE v == Claim(u, id, c)
<1>1. DOMAIN v = DOMAIN u
  BY DEF Claim
<1>2. \A x \in DOMAIN u : /\ v[x].job = u[x].job /\ v[x].pending = u[x].pending
                          /\ v[x].expires_at = u[x].expires_at
  BY DEF Claim, Row
<1> HIDE DEF v
<1>3. Answers(v, now) = Answers(u, now)
  BY <1>1, <1>2, ClaimsUnseen
<1> QED
  BY <1>3 DEF v

LEMMA ReleaseUnseen ==
  ASSUME NEW u, \A x \in DOMAIN u : u[x] \in Row, NEW c, NEW id, NEW now
  PROVE  Answers(Release(u, id, c), now) = Answers(u, now)
<1> DEFINE v == Release(u, id, c)
<1>1. DOMAIN v = DOMAIN u
  BY DEF Release
<1>2. \A x \in DOMAIN u : /\ v[x].job = u[x].job /\ v[x].pending = u[x].pending
                          /\ v[x].expires_at = u[x].expires_at
  BY DEF Release, Holds, Row
<1> HIDE DEF v
<1>3. Answers(v, now) = Answers(u, now)
  BY <1>1, <1>2, ClaimsUnseen
<1> QED
  BY <1>3 DEF v

\* Expiring rows takes none that a client can see.
LEMMA ExpiredUnseen ==
  ASSUME VInv, Seen, RInv, NEW h \in Callers
  PROVE  Answers(Expired(h), clock) = Answers(table, clock)
<1> DEFINE u == Expired(h)
<1>1. Heirs(table, u, nextRow, clock)
  BY ExpiredSucceeds DEF Succeeds
<1>2. Shows(table, u, clock) /\ DOMAIN u \subseteq DOMAIN table
  BY ExpiredFollows
<1> HIDE DEF u
<1>3. Answers(u, clock) = Answers(table, clock)
  BY <1>1, <1>2, SameAnswers
<1> QED
  BY <1>3 DEF u

LEMMA ExpireNowUnseen ==
  ASSUME VInv, RInv
  PROVE  Answers(ExpireNow(table, clock), clock) = Answers(table, clock)
<1> DEFINE u == ExpireNow(table, clock)
<1>1. Heirs(table, u, nextRow, clock)
  BY ExpireNowSucceeds DEF Succeeds
<1>2. Shows(table, u, clock) /\ DOMAIN u \subseteq DOMAIN table
  BY ExpireNowFollows
<1> HIDE DEF u
<1>3. Answers(u, clock) = Answers(table, clock)
  BY <1>1, <1>2, SameAnswers
<1> QED
  BY <1>3 DEF u

\* A row without clients is written, put back to work or shelved.
LEMMA EnqueueUnseen ==
  ASSUME NEW t, NEW n, n \notin DOMAIN t, NEW job, NEW now, NEW u \in Enqueue(t, n, job, now)
  PROVE  Answers(u, now) = Answers(t, now)
<1> DEFINE fresh == NewRow(job, now, "cleanup")
           shelved == {x \in DOMAIN t : SameOwner(t[x], fresh) /\ t[x].pending = "quarantined"}
<1>1. fresh.pending = "cleanup"
  BY DEF NewRow
<1>2. \/ u = Insert(t, n, fresh)
      \/ u = t
      \/ \E x \in shelved : u = [t EXCEPT ![x] = fresh]
  BY DEF Enqueue
<1> HIDE DEF fresh
<1>3. ASSUME NEW x, \/ u = Insert(t, n, fresh) /\ x = n
                    \/ x \in shelved /\ u = [t EXCEPT ![x] = fresh]
      PROVE  Answers(u, now) = Answers(t, now)
  <2>1. /\ DOMAIN u = DOMAIN t \cup {x} /\ u[x] = fresh
        /\ \A y \in DOMAIN t : y # x => u[y] = t[y]
        /\ x \in DOMAIN t => t[x].pending = "quarantined"
    BY <1>3 DEF Insert
  <2>2. \A y : Visible(u, y, now) <=> Visible(t, y, now)
    BY <2>1, <1>1 DEF Visible
  <2>3. {y \in DOMAIN u : Visible(u, y, now)} = {y \in DOMAIN t : Visible(t, y, now)}
    BY <2>2 DEF Visible
  <2>4. \A y : Visible(t, y, now) => u[y] = t[y]
    BY <2>1 DEF Visible
  <2> QED
    BY <2>3, <2>4 DEF Answers
<1> QED
  BY <1>2, <1>3

LEMMA QuarantineUnseen ==
  ASSUME NEW t, \A x \in DOMAIN t : t[x] \in Row, NEW id, NEW c, NEW now
  PROVE  Answers(Quarantine(t, id, c), now) = Answers(t, now)
<1> DEFINE u == Quarantine(t, id, c)
<1>1. /\ DOMAIN u = DOMAIN t
      /\ \A x \in DOMAIN t : u[x] # t[x] => t[x].pending = "cleanup" /\ u[x].pending = "quarantined"
  BY DEF Quarantine, Holds, Row
<1> HIDE DEF u
<1>2. \A y : Visible(u, y, now) <=> Visible(t, y, now)
  BY <1>1 DEF Visible
<1>3. {y \in DOMAIN u : Visible(u, y, now)} = {y \in DOMAIN t : Visible(t, y, now)}
  BY <1>1, <1>2
<1>4. \A y : Visible(t, y, now) => u[y] = t[y]
  BY <1>1 DEF Visible
<1>5. Answers(u, now) = Answers(t, now)
  BY <1>3, <1>4 DEF Answers
<1> QED
  BY <1>5 DEF u

-----------------------------------------------------------------------------

\* A step that no client can tell.
LEMMA Unseen ==
  ASSUME Answers(table', clock) = Answers(table, clock),
         UNCHANGED <<nextRow, clock, owner>>
  PROVE  UNCHANGED ClientView!vars
BY DEF ClientView!vars, Answers

\* A step of the owner: a job starts, or ends, or neither.
LEMMA OwnerSeen ==
  ASSUME VInv, UNCHANGED <<table, nextRow, clock>>, NEW job,
         \/ UNCHANGED owner
         \/ job \in Jobs /\ Ends(job)
         \/ job \in Jobs /\ Starts(job) /\ owner[job] # "gone"
  PROVE  ClientView!Next \/ UNCHANGED ClientView!vars
<1>1. owner \in [Jobs -> {"unborn", "alive", "gone"}]
  BY TypesOf
<1>2. CASE UNCHANGED owner
  BY <1>2, Unseen
<1>3. CASE job \in Jobs /\ Ends(job)
  <2>1. \A other \in Jobs : owner'[other] = IF other = job THEN "gone" ELSE owner[other]
    BY <1>1, <1>3 DEF Ends
  <2>2. Over(owner') = Over(owner) \cup {job}
    BY <1>3, <2>1 DEF Over
  <2>3. ClientView!End(job)
    BY <2>2 DEF ClientView!End, Over
  <2> QED
    BY <1>3, <2>3 DEF ClientView!Next
<1>4. CASE job \in Jobs /\ Starts(job) /\ owner[job] # "gone"
  <2>1. \A other \in Jobs : owner'[other] = IF other = job THEN "alive" ELSE owner[other]
    BY <1>1, <1>4 DEF Starts
  <2>2. Over(owner') = Over(owner)
    BY <1>4, <2>1 DEF Over
  <2> QED
    BY <2>2 DEF ClientView!vars, Over
<1> QED
  BY <1>2, <1>3, <1>4

\* The ids used: the next one is new, whether a client is told or not.
LEMMA NextUsed ==
  ASSUME VInv, nextRow <= MaxRows
  PROVE  /\ nextRow \in RowIds /\ nextRow \notin 1..(nextRow - 1)
         /\ 1..((nextRow + 1) - 1) = 1..(nextRow - 1) \cup {nextRow}
<1>1. nextRow \in 1..(MaxRows + 1) /\ MaxRows \in Nat
  BY StoreAssumption DEF VInv, TypeOK
<1> QED
  BY <1>1 DEF RowIds

\* The client is given an id.
LEMMA PersistSeen ==
  ASSUME VInv, Seen, RInv, NEW h \in Handlers, Persist(h)
  PROVE  ClientView!Next
<1> DEFINE u == Expired(h)
           row == NewRow(caller[h].job, clock + Ttl, "active")
<1>1. /\ h \in Callers /\ clock \in Nat /\ nextRow \notin DOMAIN table
      /\ caller[h].job \in Jobs
  BY TableFacts, VideoAssumption DEF VInv, Creators, Known, Persist
<1>2. /\ table' = Insert(u, nextRow, row) /\ nextRow' = nextRow + 1 /\ nextRow <= MaxRows
      /\ UNCHANGED <<clock, owner>>
  BY DEF Persist
<1>3. Answers(u, clock) = Answers(table, clock) /\ DOMAIN u \subseteq DOMAIN table
  BY <1>1, ExpiredUnseen, ExpiredFollows
<1>4. /\ row.job = caller[h].job /\ row.pending = "active" /\ row.expires_at = clock + Ttl
      /\ clock + Ttl > clock
  BY <1>1, StoreAssumption DEF NewRow
<1> HIDE DEF u, row
<1>5. /\ DOMAIN table' = DOMAIN u \cup {nextRow} /\ nextRow \notin DOMAIN u
      /\ table'[nextRow] = row /\ \A x \in DOMAIN u : table'[x] = u[x]
  BY <1>1, <1>2, <1>3 DEF Insert
<1>6. \A x : Visible(table', x, clock) <=> x = nextRow \/ Visible(u, x, clock)
  BY <1>4, <1>5 DEF Visible
<1>7. {y \in DOMAIN table' : Visible(table', y, clock)} =
        {y \in DOMAIN u : Visible(u, y, clock)} \cup {nextRow}
  BY <1>5, <1>6
<1>8. Answers(table', clock) =
        [x \in DOMAIN Answers(u, clock) \cup {nextRow} |->
           IF x = nextRow THEN [job |-> caller[h].job, until |-> clock + Ttl]
           ELSE Answers(u, clock)[x]]
  BY <1>4, <1>5, <1>7 DEF Answers
<1>9. Answers(table', clock) =
        [x \in DOMAIN Answers(table, clock) \cup {nextRow} |->
           IF x = nextRow THEN [job |-> caller[h].job, until |-> clock + Ttl]
           ELSE Answers(table, clock)[x]]
  BY <1>3, <1>8
<1>10. PICK id \in RowIds : id = nextRow
  BY <1>2, NextUsed
<1>11. PICK job \in Jobs : job = caller[h].job
  BY <1>1
<1>12. ClientView!Publish(id, job)
  BY <1>2, <1>9, <1>10, <1>11, NextUsed DEF ClientView!Publish, Answers
<1> QED
  BY <1>10, <1>11, <1>12 DEF ClientView!Next

LEMMA EnqueueSeen ==
  ASSUME VInv, RInv, NEW h \in Handlers, EnqueueCleanup(h)
  PROVE  ClientView!Next \/ UNCHANGED ClientView!vars
<1>1. /\ table' \in Enqueue(table, nextRow, caller[h].job, clock) /\ nextRow <= MaxRows
      /\ nextRow' \in {nextRow, nextRow + 1} /\ UNCHANGED <<clock, owner>>
  BY DEF EnqueueCleanup
<1>2. Answers(table', clock) = Answers(table, clock)
  BY <1>1, TableFacts, EnqueueUnseen
<1>3. CASE nextRow' = nextRow
  BY <1>1, <1>2, <1>3, Unseen
<1>4. CASE nextRow' = nextRow + 1
  <2>1. ClientView!Withhold(nextRow)
    BY <1>1, <1>2, <1>4, NextUsed DEF ClientView!Withhold, Answers
  <2> QED
    BY <1>1, <2>1, NextUsed DEF ClientView!Next
<1> QED
  BY <1>1, <1>3, <1>4

\* The row goes when the owner has confirmed that its job is gone.
LEMMA ConfirmSeen ==
  ASSUME VInv, RInv, NEW c \in Callers, caller[c].pc = "confirming",
         table' = Confirm(table, caller[c].row, c), UNCHANGED <<nextRow, clock, owner>>
  PROVE  ClientView!Next \/ UNCHANGED ClientView!vars
<1> DEFINE id == caller[c].row
<1>1. /\ id \in DOMAIN table => table[id].job = caller[c].job
      /\ caller[c].job \in Jobs /\ owner[caller[c].job] = "gone"
  BY DEF RInv, Fits, Owes, Deleting, SameOwner
<1>2. table' = table \/ table' = Delete(table, {id})
  BY DEF Confirm
<1> HIDE DEF id
<1>3. CASE table' = table
  BY <1>3, Unseen
<1>4. CASE table' = Delete(table, {id})
  <2>1. DOMAIN table' = DOMAIN table \ {id} /\ \A x \in DOMAIN table' : table'[x] = table[x]
    BY <1>4 DEF Delete
  <2>2. \A x : Visible(table', x, clock) <=> x # id /\ Visible(table, x, clock)
    BY <2>1 DEF Visible
  <2>3. {y \in DOMAIN table' : Visible(table', y, clock)} =
          {y \in DOMAIN table : Visible(table, y, clock)} \ {id}
    BY <2>1, <2>2
  <2>4. Answers(table', clock) =
          [x \in DOMAIN Answers(table, clock) \ {id} |-> Answers(table, clock)[x]]
    BY <2>1, <2>3 DEF Answers
  <2>5. CASE Visible(table, id, clock)
    <3>1. /\ id \in DOMAIN Answers(table, clock)
          /\ Answers(table, clock)[id].job \in Over(owner)
      BY <1>1, <2>5 DEF Answers, Over, Visible
    <3>2. PICK x \in DOMAIN Answers(table, clock) : x = id
      BY <3>1
    <3>3. ClientView!Withdraw(x)
      BY <2>4, <3>1, <3>2 DEF ClientView!Withdraw, Answers, Over
    <3> QED
      BY <3>2, <3>3 DEF ClientView!Next, Answers
  <2>6. CASE ~Visible(table, id, clock)
    <3>1. id \notin DOMAIN Answers(table, clock)
      BY <2>6 DEF Answers
    <3>2. Answers(table', clock) = Answers(table, clock)
      BY <2>4, <3>1 DEF Answers
    <3> QED
      BY <3>2, Unseen
  <2> QED
    BY <2>5, <2>6
<1> QED
  BY <1>2, <1>3, <1>4

LEMMA TickSeen ==
  ASSUME VInv, Tick
  PROVE  ClientView!Next \/ UNCHANGED ClientView!vars
<1> DEFINE less(k) == IF k > 0 THEN k - 1 ELSE 0
<1>1. /\ table' = [x \in DOMAIN table |-> [table[x] EXCEPT !.left = less(@)]]
      /\ clock' \in {clock, clock + 1} /\ UNCHANGED <<nextRow, owner>>
  BY DEF Tick
<1> HIDE DEF less
<1>2. clock \in Nat /\ \A x \in DOMAIN table : table[x] \in Row
  BY TypesOf, RowsOf DEF Kept
<1>3. /\ DOMAIN table' = DOMAIN table
      /\ \A x \in DOMAIN table : /\ table'[x].job = table[x].job
                                 /\ table'[x].pending = table[x].pending
                                 /\ table'[x].expires_at = table[x].expires_at
                                 /\ table[x].expires_at \in Nat
  BY <1>1, <1>2 DEF Row
<1>4. \A now : Answers(table', now) = Answers(table, now)
  BY <1>3, ClaimsUnseen
<1>5. CASE clock' = clock
  BY <1>1, <1>4, <1>5, Unseen
<1>6. CASE clock' = clock + 1
  <2> DEFINE old == Answers(table, clock)
  <2>1. /\ DOMAIN old = {y \in DOMAIN table : Visible(table, y, clock)}
        /\ \A x \in DOMAIN old : old[x] = [job |-> table[x].job, until |-> table[x].expires_at]
    BY DEF Answers
  <2> HIDE DEF old
  <2>2. ASSUME NEW x
        PROVE  Visible(table, x, clock') <=> x \in DOMAIN old /\ old[x].until > clock'
    <3>1. x \in DOMAIN table => (table[x].expires_at > clock' => table[x].expires_at > clock)
      BY <1>2, <1>3, <1>6
    <3>2. Visible(table, x, clock') <=> Visible(table, x, clock) /\ table[x].expires_at > clock'
      BY <3>1 DEF Visible
    <3>3. x \in DOMAIN old <=> Visible(table, x, clock)
      BY <2>1 DEF Visible
    <3>4. x \in DOMAIN old => old[x].until = table[x].expires_at
      BY <2>1
    <3> QED
      BY <3>2, <3>3, <3>4
  <2>3. {y \in DOMAIN table : Visible(table, y, clock')} = {y \in DOMAIN old : old[y].until > clock'}
    BY <2>1, <2>2
  <2>4. Answers(table, clock') = [x \in {y \in DOMAIN old : old[y].until > clock'} |-> old[x]]
    <3> DEFINE later == {y \in DOMAIN old : old[y].until > clock'}
    <3>1. Answers(table, clock') = [x \in later |-> [job |-> table[x].job, until |-> table[x].expires_at]]
      BY <2>3 DEF Answers
    <3>2. \A x \in later : old[x] = [job |-> table[x].job, until |-> table[x].expires_at]
      BY <2>1
    <3> QED
      BY <3>1, <3>2
  <2>5. Answers(table', clock') = [x \in {y \in DOMAIN old : old[y].until > clock'} |-> old[x]]
    BY <1>4, <2>4
  <2>6. ClientView!Pass
    BY <1>1, <1>6, <2>5 DEF ClientView!Pass, Answers, old
  <2> QED
    BY <2>6 DEF ClientView!Next
<1> QED
  BY <1>1, <1>5, <1>6

LEMMA HandlerSeen ==
  ASSUME VInv, Seen, RInv, NEW h \in Handlers, HandlerStep(h)
  PROVE  ClientView!Next \/ UNCHANGED ClientView!vars
<1>1. h \in Callers /\ \A x \in DOMAIN Expired(h) : Expired(h)[x] \in Row
  BY ExpiredSpares, RowsOf, VideoAssumption DEF Kept
<1>2. CASE \E job \in Jobs : NodeAccepts(h, job) \/ NodeAnswerLost(h, job)
  <2>1. PICK job \in Jobs : Starts(job) /\ owner[job] # "gone" /\ UNCHANGED <<table, nextRow, clock>>
    BY <1>2 DEF NodeAccepts, NodeAnswerLost
  <2> QED
    BY <2>1, OwnerSeen
<1>3. CASE \/ Select(h) \/ StatusAnswered(h) \/ \E id \in RowIds : AskRead(h, id) \/ AskDelete(h, id)
           \/ PersistFails(h) \/ EnqueueFails(h) \/ ReadEnds(h) \/ StoreFails(h) \/ OwnerUnavailable(h)
  <2>1. UNCHANGED <<table, nextRow, clock, owner>>
    BY <1>3 DEF Select, StatusAnswered, AskRead, AskDelete, Begin, PersistFails, EnqueueFails,
                ReadEnds, StoreFails, OwnerUnavailable
  <2> QED
    BY <2>1, Unseen
<1>4. CASE Compensated(h) \/ CompensationFails(h)
  <2>1. /\ UNCHANGED <<table, nextRow, clock>>
        /\ UNCHANGED owner \/ (caller[h].job \in Jobs /\ Ends(caller[h].job))
    BY <1>4 DEF Compensated, CompensationFails, MayEnd, Alive
  <2> QED
    BY <2>1, OwnerSeen
<1>5. CASE LoadVideoJob(h) \/ UpdateStatus(h) \/ Reload(h)
  <2>1. table' = Expired(h) /\ UNCHANGED <<nextRow, clock, owner>>
    BY <1>5 DEF LoadVideoJob, UpdateStatus, Reload
  <2> QED
    BY <1>1, <2>1, ExpiredUnseen, Unseen
<1>6. CASE ClaimDelete(h)
  <2> DEFINE u == Expired(h)
             id == caller[h].row
  <2>1. /\ UNCHANGED <<nextRow, clock, owner>>
        /\ table' = u \/ (Claimable(u, id, clock) /\ table' = Claim(u, id, h))
    BY <1>6 DEF ClaimDelete
  <2>2. Claimable(u, id, clock) => id \in DOMAIN u
    BY DEF Claimable, Visible
  <2>3. Answers(u, clock) = Answers(table, clock) /\ \A x \in DOMAIN u : u[x] \in Row
    BY <1>1, ExpiredUnseen
  <2> HIDE DEF u, id
  <2>4. Answers(table', clock) = Answers(table, clock)
    BY <2>1, <2>2, <2>3, ClaimUnseen
  <2> QED
    BY <2>1, <2>4, Unseen
<1> QED
  BY <1>2, <1>3, <1>4, <1>5, <1>6, PersistSeen, EnqueueSeen DEF HandlerStep

LEMMA CleanupSeen ==
  ASSUME VInv, Seen, RInv, NEW w \in Loops, CleanupStep(w)
  PROVE  ClientView!Next \/ UNCHANGED ClientView!vars
<1>1. CASE ClaimCleanup(w)
  <2> DEFINE u == ExpireNow(table, clock)
  <2>1. /\ UNCHANGED <<nextRow, clock, owner>>
        /\ \/ table' = u
           \/ \E id \in NextCleanup(u) : table' = Claim(u, id, w)
    BY <1>1 DEF ClaimCleanup
  <2>2. Answers(u, clock) = Answers(table, clock) /\ \A x \in DOMAIN u : u[x] \in Row
    BY ExpireKeeps, TypesOf, RowsOf, ExpireNowUnseen DEF ExpireNow, Kept
  <2>3. \A id \in NextCleanup(u) : id \in DOMAIN u
    BY DEF NextCleanup, CleanupQueue
  <2> HIDE DEF u
  <2>4. Answers(table', clock) = Answers(table, clock)
    BY <2>1, <2>2, <2>3, ClaimUnseen
  <2> QED
    BY <2>1, <2>4, Unseen
<1>2. CASE QuarantineCleanup(w)
  <2>1. table' = Quarantine(table, caller[w].row, w) /\ UNCHANGED <<nextRow, clock, owner>>
    BY <1>2 DEF QuarantineCleanup
  <2>2. \A x \in DOMAIN table : table[x] \in Row
    BY TableFacts
  <2> QED
    BY <2>1, <2>2, QuarantineUnseen, Unseen
<1>3. CASE CleanupStoreFails(w) \/ CleanupOwnerAbsent(w) \/ CleanupCancelled(w)
  <2>1. UNCHANGED <<table, nextRow, clock, owner>>
    BY <1>3 DEF CleanupStoreFails, CleanupOwnerAbsent, CleanupCancelled
  <2> QED
    BY <2>1, Unseen
<1> QED
  BY <1>1, <1>2, <1>3 DEF CleanupStep

LEMMA DeleteSeen ==
  ASSUME VInv, Seen, RInv, NEW c \in Callers, DeleteStep(c)
  PROVE  ClientView!Next \/ UNCHANGED ClientView!vars
<1>1. CASE StartDelete(c)
  <2>1. UNCHANGED <<table, nextRow, clock, owner>>
    BY <1>1 DEF StartDelete
  <2> QED
    BY <2>1, Unseen
<1>2. CASE NodeDeletes(c) \/ DeleteFails(c)
  <2>1. /\ UNCHANGED <<table, nextRow, clock>>
        /\ UNCHANGED owner \/ (caller[c].job \in Jobs /\ Ends(caller[c].job))
    BY <1>2 DEF NodeDeletes, DeleteFails, MayEnd, Alive
  <2> QED
    BY <2>1, OwnerSeen
<1>3. CASE ConfirmDelete(c)
  <2>1. /\ caller[c].pc = "confirming" /\ UNCHANGED <<nextRow, clock, owner>>
        /\ table' = table \/ table' = Confirm(table, caller[c].row, c)
    BY <1>3 DEF ConfirmDelete
  <2> QED
    BY <2>1, ConfirmSeen, Unseen
<1>4. CASE ReleaseDelete(c)
  <2>1. /\ UNCHANGED <<nextRow, clock, owner>>
        /\ table' = table \/ table' = Release(table, caller[c].row, c)
    BY <1>4 DEF ReleaseDelete
  <2>2. \A x \in DOMAIN table : table[x] \in Row
    BY TableFacts
  <2>3. Answers(table', clock) = Answers(table, clock)
    BY <2>1, <2>2, ReleaseUnseen
  <2> QED
    BY <2>1, <2>3, Unseen
<1> QED
  BY <1>1, <1>2, <1>3, <1>4 DEF DeleteStep

LEMMA InitSeenByClients ==
  ASSUME Init
  PROVE  ClientView!Init
<1>1. /\ clock = 0 /\ nextRow = Len(Backlog) + 1
      /\ \A job \in Jobs : owner[job] # "gone"
  BY DEF Init
<1>2. \A x \in DOMAIN table : table[x].pending = "cleanup"
  <2>1. \A x \in DOMAIN table :
          table[x] = [NewRow(Backlog[x].job, 0, "cleanup") EXCEPT !.foreign = Backlog[x].foreign]
    BY DEF Init
  <2> QED
    BY <2>1 DEF NewRow
<1>3. {y \in DOMAIN table : Visible(table, y, clock)} = {}
  BY <1>2 DEF Visible
<1>4. Answers(table, clock) = [id \in {} |-> {}]
  BY <1>3 DEF Answers
<1>5. 1..(nextRow - 1) \in SUBSET RowIds
  BY <1>1, VideoAssumption, StoreAssumption DEF RowIds
<1>6. Over(owner) = {}
  BY <1>1 DEF Over
<1> QED
  BY <1>1, <1>4, <1>5, <1>6 DEF ClientView!Init, Answers, Over

LEMMA NextSeen ==
  ASSUME VInv, Seen, RInv, [Next]_vars
  PROVE  [ClientView!Next]_(ClientView!vars)
<1>1. CASE \E h \in Handlers : HandlerStep(h)
  BY <1>1, HandlerSeen
<1>2. CASE \E w \in Loops : CleanupStep(w)
  BY <1>2, CleanupSeen
<1>3. CASE \E c \in Callers : DeleteStep(c)
  BY <1>3, DeleteSeen
<1>4. CASE Crash \/ UNCHANGED vars
  <2>1. UNCHANGED <<table, nextRow, clock, owner>>
    BY <1>4 DEF Crash, vars
  <2> QED
    BY <2>1, Unseen
<1>5. CASE Tick
  BY <1>5, TickSeen
<1> QED
  BY <1>1, <1>2, <1>3, <1>4, <1>5 DEF Next

\* To its clients the owner map is one of ids that keep their job and their date, go
\* early only when the owner has ended the job, and never come back.
THEOREM AlwaysAsPromised == Safety => AnswersAsPromised
<1>1. Init => ClientView!Init
  BY InitSeenByClients
<1>2. VInv /\ Seen /\ RInv /\ [Next]_vars => [ClientView!Next]_(ClientView!vars)
  BY NextSeen
<1> QED
  BY <1>1, <1>2, AlwaysRInv, PTL DEF Safety, AnswersAsPromised, ClientView!Spec
=============================================================================
