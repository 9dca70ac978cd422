---------------------------- MODULE VideoJobStore ----------------------------
(***************************************************************************)
(* The router's durable map from public video jobs to the node that owns   *)
(* them, mesh/job_store.py: one SQLite table, one connection per call.     *)
(* Here are the table and what each statement makes of it; VideoJobs runs  *)
(* the calls.  All jobs have one owner node, so an upstream job id is the  *)
(* whole owner key (protocol, origin, upstream id) of the unique index,    *)
(* except that a row written for another protocol has a key of its own.    *)
(***************************************************************************)
EXTENDS Integers, FiniteSets

CONSTANTS
  Jobs,     \* upstream job ids
  MaxRows,  \* bound: rows ever inserted; row ids stand for public ids
  Callers,  \* request handlers and cleanup loops; a claim's token is its caller
  NoCaller, \* delete_claim_token IS NULL
  Ttl,      \* ttl_s
  Lease,    \* _VIDEO_DELETE_LEASE_S
  Batch     \* cleanup_batch

ASSUME StoreAssumption ==
  /\ MaxRows \in Nat
  /\ NoCaller \notin Callers
  /\ Ttl \in Nat \ {0}
  /\ Lease \in Nat \ {0}
  /\ Batch \in Nat \ {0}

RowIds == 1..MaxRows

\* cleanup_pending: 0, 1 and 2.  A claim's deadline is kept as the time left of it.
Row ==
  [job : Jobs,
   foreign : BOOLEAN,
   expires_at : Nat,
   pending : {"active", "cleanup", "quarantined"},
   claim : Callers \cup {NoCaller},
   left : 0..Lease]

NewRow(job, expires_at, pending) ==
  [job |-> job, foreign |-> FALSE, expires_at |-> expires_at, pending |-> pending,
   claim |-> NoCaller, left |-> 0]

Insert(table, id, row) ==
  [x \in DOMAIN table \cup {id} |-> IF x = id THEN row ELSE table[x]]
Delete(table, ids) == [x \in DOMAIN table \ ids |-> table[x]]

SameOwner(r1, r2) == r1.job = r2.job /\ r1.foreign = r2.foreign

\* ORDER BY expires_at, public_id (row ids stand for the text of public ids).
Before(table, x, y) ==
  \/ table[x].expires_at < table[y].expires_at
  \/ table[x].expires_at = table[y].expires_at /\ x < y

\* Mutant: a claim never runs out.
NeverClaimed(row) == row.claim = NoCaller

Unclaimed(row) == row.claim = NoCaller \/ row.left = 0

-----------------------------------------------------------------------------
(* _cleanup_expired.  Only claim_cleanup runs it inside a transaction: for *)
(* the other calls its SELECTs are statements of their own, and the write  *)
(* lock is taken by the first UPDATE or DELETE.                            *)

Due(table, now) ==
  {x \in DOMAIN table : table[x].pending = "active" /\ table[x].expires_at <= now}

\* The first SELECT: the rows due, at most a batch of them, oldest first.
Listed(table, now) ==
  {x \in Due(table, now) :
     Cardinality({y \in Due(table, now) : Before(table, y, x)}) < Batch}

\* Mutant: the owner is not compared.
HasAnyCleanupRow(table, x) ==
  \E y \in DOMAIN table \ {x} : table[y].pending = "cleanup"

HasCleanupRow(table, x) ==
  \E y \in DOMAIN table \ {x} :
    table[y].pending = "cleanup" /\ SameOwner(table[x], table[y])

\* The second SELECT, for the first listed row: does its owner have a cleanup row?  It is
\* the last statement before the write lock is taken.
First(table, listed) == {x \in listed : \A y \in listed \ {x} : Before(table, x, y)}
Merging(table, listed) == {x \in First(table, listed) : HasCleanupRow(table, x)}
Alone(table, listed) == {x \in First(table, listed) : ~HasCleanupRow(table, x)}

\* Mutant: nothing is merged.
ExpireUnmerged(table, listed, merging) ==
  [x \in DOMAIN table |->
     IF x \in listed /\ table[x].pending = "active"
       THEN [table[x] EXCEPT !.pending = "cleanup"] ELSE table[x]]

\* The writes.  A first row said to have a cleanup row beside it is deleted, whatever
\* has become of it since; then each listed row that is still active becomes the
\* cleanup row of its owner, or is merged into the one there is.
Expire(table, listed, merging) ==
  LET rest == Delete(table, listed \cap merging)
      due == {x \in listed \cap DOMAIN rest : rest[x].pending = "active"}
      kept == {x \in due :
                 /\ ~HasCleanupRow(rest, x)
                 /\ \A y \in due : SameOwner(rest[x], rest[y]) => ~Before(rest, y, x)}
  IN  [x \in DOMAIN rest \ (due \ kept) |->
        IF x \in kept THEN [rest[x] EXCEPT !.pending = "cleanup"] ELSE rest[x]]

\* The first listed row was said to have no cleanup row, and has one by the time it is
\* written: the unique index refuses the write, and the whole call fails.
Collides(table, alone) ==
  \E x \in alone \cap DOMAIN table :
    table[x].pending = "active" /\ HasCleanupRow(table, x)

ExpireNow(table, now) ==
  Expire(table, Listed(table, now), Merging(table, Listed(table, now)))

-----------------------------------------------------------------------------
(* The other statements.                                                   *)

\* get, and the WHERE clause of update_status: the row a client may still see.
Visible(table, id, now) ==
  /\ id \in DOMAIN table
  /\ table[id].pending = "active"
  /\ table[id].expires_at > now

\* claim_delete
Claimable(table, id, now) == Visible(table, id, now) /\ Unclaimed(table[id])

Claim(table, id, caller) ==
  [table EXCEPT ![id].claim = caller, ![id].left = Lease]

\* Mutant: leases are not looked at.
CleanupQueueLeased(table) == {x \in DOMAIN table : table[x].pending = "cleanup"}

\* claim_cleanup: the oldest cleanup row nobody holds a lease on.
CleanupQueue(table) ==
  {x \in DOMAIN table : table[x].pending = "cleanup" /\ Unclaimed(table[x])}

NextCleanup(table) ==
  {x \in CleanupQueue(table) :
     \A y \in CleanupQueue(table) \ {x} : Before(table, x, y)}

Holds(table, id, caller) == id \in DOMAIN table /\ table[id].claim = caller

\* release_delete, quarantine_cleanup, confirm_delete: nothing without the token.
Release(table, id, caller) ==
  IF Holds(table, id, caller)
    THEN [table EXCEPT ![id].claim = NoCaller, ![id].left = 0]
    ELSE table

Quarantine(table, id, caller) ==
  IF Holds(table, id, caller) /\ table[id].pending = "cleanup"
    THEN [table EXCEPT ![id].pending = "quarantined",
                       ![id].claim = NoCaller, ![id].left = 0]
    ELSE table

Confirm(table, id, caller) ==
  IF Holds(table, id, caller) THEN Delete(table, {id}) ELSE table

\* Mutant: a row of the same owner is replaced, whatever it is.
EnqueueReplacing(table, id, job, now) ==
  LET fresh == NewRow(job, now, "cleanup")
      same == {x \in DOMAIN table : SameOwner(table[x], fresh)}
  IN  {[x \in DOMAIN table \cup (IF same = {} THEN {id} ELSE {}) |->
          IF x \in DOMAIN table \ same THEN table[x] ELSE fresh]}

\* enqueue_cleanup: a row of the same owner is left as it is, unless all there are
\* quarantined: then the oldest of those is put back to work.  The one table it leaves.
Enqueue(table, id, job, now) ==
  LET fresh == NewRow(job, now, "cleanup")
      same == {x \in DOMAIN table : SameOwner(table[x], fresh)}
      shelved == {x \in same : table[x].pending = "quarantined"}
      oldest == {x \in shelved : \A y \in shelved : x <= y}
  IN  IF same = {} THEN {Insert(table, id, fresh)}
      ELSE IF same # shelved THEN {table}
      ELSE {[table EXCEPT ![x] = fresh] : x \in oldest}

TableType(table) ==
  /\ DOMAIN table \subseteq RowIds
  /\ table \in [DOMAIN table -> Row]
=============================================================================
