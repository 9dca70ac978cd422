------------------------------ MODULE VideoJobs ------------------------------
(***************************************************************************)
(* Owner-pinned video jobs (mesh/router_app.py over mesh/job_store.py):    *)
(* request handlers that create, read and delete jobs, cleanup loops that  *)
(* delete on the owner node what expired or was left behind, the owner     *)
(* node, and routers that crash.  The database survives crashes; handlers  *)
(* do not.  Several routers may share one database, so every await and     *)
(* every statement outside a transaction lets others in.                   *)
(***************************************************************************)
EXTENDS VideoJobStore, Sequences

CONSTANTS
  Handlers,  \* request handlers
  Loops,     \* cleanup loops, one per router process
  Deadline,  \* _VIDEO_DELETE_DEADLINE_S
  HungJobs,  \* jobs whose DELETE the owner never answers
  Backlog,   \* the cleanup rows in the database when the routers start, oldest first
  NoJob,     \* no upstream job
  MaxClock   \* bound: time stops being told apart here; rows expire before

ASSUME VideoAssumption ==
  /\ Callers = Handlers \cup Loops
  /\ Handlers \cap Loops = {}
  /\ Deadline \in Nat \ {0}
  /\ Deadline < Lease  \* raises RuntimeError otherwise
  /\ HungJobs \subseteq Jobs
  /\ Backlog \in Seq([job : Jobs, foreign : BOOLEAN])
  /\ Len(Backlog) <= MaxRows
  /\ \A x, y \in DOMAIN Backlog : Backlog[x] = Backlog[y] => x = y  \* the unique index
  /\ NoJob \notin Jobs
  /\ MaxClock \in Nat

VARIABLES
  table,    \* the video_jobs table
  clock,    \* time.time()
  nextRow,  \* the next row id
  owner,    \* what became of each job on the owner node
  caller,   \* where each handler and cleanup loop stands
  strayed   \* history: jobs on the node the router has no record of, and why not

vars == <<table, clock, nextRow, owner, caller, strayed>>

CallerState ==
  [pc : {"idle", "persisting", "compensating", "enqueuing",
         "loading", "polling", "updating", "reloading", "claiming", "claimed", "deleting", "confirming", "releasing", "asleep"},
   job : Jobs \cup {NoJob},   \* the upstream job at stake
   row : RowIds \cup {0},     \* the row asked for or claimed
   foreign : BOOLEAN,         \* that row is of another protocol
   listed : SUBSET RowIds,    \* what this call's _cleanup_expired listed
   merging : SUBSET RowIds,   \* the first of these, if it found a cleanup row beside it
   alone : SUBSET RowIds,     \* or if it found none
   selected : BOOLEAN,        \* whether it has run its SELECTs
   left : 0..Deadline]        \* time left of the upstream DELETE

Idle == [pc |-> "idle", job |-> NoJob, row |-> 0, foreign |-> FALSE,
         listed |-> {}, merging |-> {}, alone |-> {}, selected |-> FALSE, left |-> 0]

\* A loop that is asleep, or whose router is not up, looks for work some time later; one
\* that is idle has just ended a piece of work, and looks at once.
Asleep == [Idle EXCEPT !.pc = "asleep"]
Restarted == [c \in Callers |-> IF c \in Loops THEN Asleep ELSE Idle]

Init ==
  /\ table = [x \in DOMAIN Backlog |->
       [NewRow(Backlog[x].job, 0, "cleanup") EXCEPT !.foreign = Backlog[x].foreign]]
  /\ clock = 0
  /\ nextRow = Len(Backlog) + 1
  /\ owner = [job \in Jobs |->
       IF \E x \in DOMAIN Backlog : Backlog[x] = [job |-> job, foreign |-> FALSE]
         THEN "alive" ELSE "unborn"]
  /\ caller = Restarted
  /\ strayed = {}

Alive == {job \in Jobs : owner[job] = "alive"}
Starts(job) == owner' = [owner EXCEPT ![job] = "alive"]
Ends(job) == owner' = [owner EXCEPT ![job] = "gone"]
\* A DELETE without a confirmation: obeyed or not.
MayEnd(job) == UNCHANGED owner \/ (job \in Alive \ HungJobs /\ Ends(job))

\* Caller c goes to pc, keeping what it holds; or gives everything up.
Goto(c, pc) ==
  caller' = [caller EXCEPT ![c].pc = pc, ![c].left = 0,
                           ![c].job = IF pc = "releasing" THEN NoJob ELSE @]
Rest(c) == caller' = [caller EXCEPT ![c] = Idle]
Call(c, pc, job, row) ==
  caller' = [caller EXCEPT ![c] = [Idle EXCEPT !.pc = pc, !.job = job, !.row = row]]
Hold(c, id, row) ==
  caller' = [caller EXCEPT ![c] = [Idle EXCEPT !.pc = "claimed", !.job = row.job,
                                               !.row = id, !.foreign = row.foreign]]

-----------------------------------------------------------------------------
(* Calls of the store by request handlers: SELECTs, then one transaction   *)
(* that expires what was listed and does what the call is for.             *)

StoreCalls == {"persisting", "loading", "updating", "reloading", "claiming"}

Selected(state) ==
  [state EXCEPT !.selected = TRUE,
                !.listed = Listed(table, clock),
                !.merging = Merging(table, Listed(table, clock)),
                !.alone = Alone(table, Listed(table, clock))]

Select(h) ==
  /\ caller[h].pc \in StoreCalls
  /\ ~caller[h].selected
  /\ caller' = [caller EXCEPT ![h] = Selected(@)]
  /\ UNCHANGED <<table, clock, nextRow, owner, strayed>>

\* A request comes in, or an answer, and a call of the store begins.
Begin(h, pc, id) ==
  /\ caller' = [caller EXCEPT ![h] = Selected([Idle EXCEPT !.pc = pc, !.row = id])]
  /\ UNCHANGED <<table, clock, nextRow, owner, strayed>>

\* The transaction of h may commit; Expired is the table once it has expired rows.
MayWrite(h) ==
  caller[h].selected /\ ~Collides(table, caller[h].alone)
Expired(h) == Expire(table, caller[h].listed, caller[h].merging)

-----------------------------------------------------------------------------
(* create_video_job                                                        *)

\* The node starts a job and answers with its id: the id of no job it deleted, but
\* perhaps the id of one it still runs (a node that answers equal requests equally).
NodeAccepts(h, job) ==
  /\ caller[h].pc = "idle"
  /\ nextRow <= MaxRows
  /\ clock + Ttl <= MaxClock
  /\ owner[job] # "gone"
  /\ Starts(job)
  /\ strayed' = strayed \ {job}
  /\ Call(h, "persisting", job, 0)
  /\ UNCHANGED <<table, clock, nextRow>>

\* The node starts a job, but its answer is lost or not one the router can use.
NodeAnswerLost(h, job) ==
  /\ caller[h].pc = "idle"
  /\ owner[job] = "unborn"
  /\ Starts(job)
  /\ strayed' = strayed \cup {job}
  /\ UNCHANGED <<table, clock, nextRow, caller>>

Persist(h) ==
  /\ caller[h].pc = "persisting"
  /\ MayWrite(h)
  /\ nextRow <= MaxRows
  /\ clock + Ttl <= MaxClock
  /\ table' = Insert(Expired(h), nextRow, NewRow(caller[h].job, clock + Ttl, "active"))
  /\ nextRow' = nextRow + 1
  /\ Rest(h)
  /\ UNCHANGED <<clock, owner, strayed>>

\* The row could not be written: undo the job on its owner.
PersistFails(h) ==
  /\ caller[h].pc = "persisting"
  /\ caller' = [caller EXCEPT ![h] = [Idle EXCEPT !.pc = "compensating",
                                                  !.job = caller[h].job,
                                                  !.left = Deadline]]
  /\ UNCHANGED <<table, clock, nextRow, owner, strayed>>

\* The owner confirmed the DELETE, or did not (though it may have obeyed it).
Compensated(h) ==
  /\ caller[h].pc = "compensating"
  /\ caller[h].job \in Alive \ HungJobs
  /\ Ends(caller[h].job)
  /\ Rest(h)
  /\ UNCHANGED <<table, clock, nextRow, strayed>>

CompensationFails(h) ==
  /\ caller[h].pc = "compensating"
  /\ caller[h].job \in HungJobs => caller[h].left = 0
  /\ MayEnd(caller[h].job)
  /\ Goto(h, "enqueuing")
  /\ UNCHANGED <<table, clock, nextRow, strayed>>

EnqueueCleanup(h) ==
  /\ caller[h].pc = "enqueuing"
  /\ nextRow <= MaxRows
  /\ table' \in Enqueue(table, nextRow, caller[h].job, clock)
  /\ nextRow' = IF nextRow \in DOMAIN table' THEN nextRow + 1 ELSE nextRow
  /\ Rest(h)
  /\ UNCHANGED <<clock, owner, strayed>>

\* Both writes failed; the client is told, and nothing else remembers the job.
EnqueueFails(h) ==
  /\ caller[h].pc = "enqueuing"
  /\ strayed' = strayed \cup ({caller[h].job} \cap Alive)
  /\ Rest(h)
  /\ UNCHANGED <<table, clock, nextRow, owner>>

-----------------------------------------------------------------------------
(* Status and content requests: get, the call of the owner, and for a     *)
(* status update_status.  Both calls of the store expire rows.             *)

AskRead(h, id) ==
  /\ caller[h].pc = "idle"
  /\ id < nextRow
  /\ Begin(h, "loading", id)

\* get; a row that is gone, expired or of another protocol is a 404.
LoadVideoJob(h) ==
  LET id == caller[h].row
  IN
  /\ caller[h].pc = "loading"
  /\ MayWrite(h)
  /\ table' = Expired(h)
  /\ IF Visible(table', id, clock) /\ ~table'[id].foreign
       THEN Call(h, "polling", NoJob, id)
       ELSE Rest(h)
  /\ UNCHANGED <<clock, nextRow, owner, strayed>>

\* The content was buffered and is sent, or nothing is: the owner is absent, its circuit
\* open, its answer an error, too large, unreadable or none.
ReadEnds(h) ==
  /\ caller[h].pc = "polling"
  /\ Rest(h)
  /\ UNCHANGED <<table, clock, nextRow, owner, strayed>>

\* The owner has answered with the status of the job, of which it may be rid by now.
StatusAnswered(h) ==
  /\ caller[h].pc = "polling"
  /\ Begin(h, "updating", caller[h].row)

\* update_status: the status is no part of the table here.
UpdateStatus(h) ==
  /\ caller[h].pc = "updating"
  /\ MayWrite(h)
  /\ table' = Expired(h)
  /\ Call(h, "reloading", NoJob, 0)
  /\ UNCHANGED <<clock, nextRow, owner, strayed>>

\* It ends with a get, which expires rows as well; a row that went meanwhile is a 502.
Reload(h) ==
  /\ caller[h].pc = "reloading"
  /\ MayWrite(h)
  /\ table' = Expired(h)
  /\ Rest(h)
  /\ UNCHANGED <<clock, nextRow, owner, strayed>>

-----------------------------------------------------------------------------
(* delete_video_job                                                        *)

AskDelete(h, id) ==
  /\ caller[h].pc = "idle"
  /\ id < nextRow
  /\ Begin(h, "claiming", id)

\* claim_delete; a row that is gone, expired or claimed by another is a 404.
ClaimDelete(h) ==
  LET expired == Expired(h)
      id == caller[h].row
  IN
  /\ caller[h].pc = "claiming"
  /\ MayWrite(h)
  /\ IF Claimable(expired, id, clock)
       THEN /\ table' = Claim(expired, id, h)
            /\ Hold(h, id, expired[id])
       ELSE /\ table' = expired
            /\ Rest(h)
  /\ UNCHANGED <<clock, nextRow, owner, strayed>>

\* The call of the store failed: 503 to the client.
StoreFails(h) ==
  /\ caller[h].pc \in StoreCalls \ {"persisting"}
  /\ Rest(h)
  /\ UNCHANGED <<table, clock, nextRow, owner, strayed>>

\* Owner absent from the snapshot, or its circuit open: punt.
OwnerUnavailable(h) ==
  /\ caller[h].pc = "claimed"
  /\ Goto(h, "releasing")
  /\ UNCHANGED <<table, clock, nextRow, owner, strayed>>

\* The upstream DELETE under its deadline; so do the cleanup loops.
StartDelete(c) ==
  /\ caller[c].pc = "claimed"
  /\ ~caller[c].foreign
  /\ caller' = [caller EXCEPT ![c].pc = "deleting", ![c].left = Deadline]
  /\ UNCHANGED <<table, clock, nextRow, owner, strayed>>

\* The owner confirms with the exact payload.
NodeDeletes(c) ==
  /\ caller[c].pc = "deleting"
  /\ caller[c].job \in Alive \ HungJobs
  /\ Ends(caller[c].job)
  /\ strayed' = strayed \ {caller[c].job}
  /\ Goto(c, "confirming")
  /\ UNCHANGED <<table, clock, nextRow>>

\* Mutant: any answer of the owner is taken for its confirmation.
DeleteAnswered(c) ==
  /\ caller[c].pc = "deleting"
  /\ caller[c].job \in HungJobs => caller[c].left = 0
  /\ MayEnd(caller[c].job)
  /\ strayed' = strayed \cap Alive'
  /\ Goto(c, "confirming")
  /\ UNCHANGED <<table, clock, nextRow>>

\* Anything else: an error status (404 when the job is gone), a broken connection or
\* a timeout, after which the job may be gone or not.
DeleteFails(c) ==
  /\ caller[c].pc = "deleting"
  /\ caller[c].job \in HungJobs => caller[c].left = 0
  /\ MayEnd(caller[c].job)
  /\ strayed' = strayed \cap Alive'
  /\ IF c \in Handlers THEN Goto(c, "releasing") ELSE Rest(c)
  /\ UNCHANGED <<table, clock, nextRow>>

\* confirm_delete, or its failure, after which the claim stays until its lease ends.
ConfirmDelete(c) ==
  /\ caller[c].pc = "confirming"
  /\ table' \in {Confirm(table, caller[c].row, c), table}
  /\ Rest(c)
  /\ UNCHANGED <<clock, nextRow, owner, strayed>>

ReleaseDelete(c) ==
  /\ caller[c].pc = "releasing"
  /\ table' \in {Release(table, caller[c].row, c), table}
  /\ Rest(c)
  /\ UNCHANGED <<clock, nextRow, owner, strayed>>

-----------------------------------------------------------------------------
(* _video_cleanup_loop                                                     *)

\* claim_cleanup is one transaction.  Without a row to claim the loop sleeps; with one
\* it does not sleep until it has looked for the next.
ClaimCleanup(w) ==
  /\ caller[w].pc \in {"idle", "asleep"}
  /\ \E expired \in {ExpireNow(table, clock)} :
       \/ /\ CleanupQueue(expired) = {}
          /\ table' = expired
          /\ caller' = [caller EXCEPT ![w] = Asleep]
       \/ \E id \in NextCleanup(expired) :
            /\ table' = Claim(expired, id, w)
            /\ Hold(w, id, expired[id])
  /\ UNCHANGED <<clock, nextRow, owner, strayed>>

\* The call of the store failed: the loop sleeps before it tries again.
CleanupStoreFails(w) ==
  /\ caller[w].pc = "idle"
  /\ caller' = [caller EXCEPT ![w] = Asleep]
  /\ UNCHANGED <<table, clock, nextRow, owner, strayed>>

QuarantineCleanup(w) ==
  /\ caller[w].pc = "claimed"
  /\ caller[w].foreign
  /\ table' = Quarantine(table, caller[w].row, w)
  /\ Rest(w)
  /\ UNCHANGED <<clock, nextRow, owner, strayed>>

\* The owner is absent: the row keeps its claim, and is retried when the lease ends.
CleanupOwnerAbsent(w) ==
  /\ caller[w].pc = "claimed"
  /\ ~caller[w].foreign
  /\ Rest(w)
  /\ UNCHANGED <<table, clock, nextRow, owner, strayed>>

\* The loop is cancelled after its claim: it releases and ends (and starts anew).
CleanupCancelled(w) ==
  /\ caller[w].pc \in {"claimed", "deleting", "confirming"}
  /\ Goto(w, "releasing")
  /\ UNCHANGED <<table, clock, nextRow, owner, strayed>>

-----------------------------------------------------------------------------
(* Crashes and time.                                                       *)

\* A router process dies with its handlers; what they had not persisted is stray.
Crash ==
  /\ caller # Restarted
  /\ caller' = Restarted
  /\ strayed' = strayed \cup
       ({caller[h].job : h \in {x \in Handlers :
          caller[x].pc \in {"persisting", "compensating", "enqueuing"}}} \cap Alive)
  /\ UNCHANGED <<table, clock, nextRow, owner>>

\* A call that timed out, and a step that waits for nobody, is not overtaken by a
\* whole tick: the event loop and the database are not stalled for that long.
Prompt(c) ==
  /\ caller[c].pc \notin {"claimed", "confirming"}
  /\ c \in Loops => caller[c].pc # "idle"
  /\ caller[c].pc \in {"deleting", "compensating"} => caller[c].left > 0

Tick ==
  /\ \A c \in Callers : Prompt(c)
  /\ clock' = IF clock < MaxClock THEN clock + 1 ELSE clock
  /\ table' = [x \in DOMAIN table |->
       [table[x] EXCEPT !.left = IF @ > 0 THEN @ - 1 ELSE 0]]
  /\ caller' = [c \in Callers |->
       [caller[c] EXCEPT !.left = IF @ > 0 THEN @ - 1 ELSE 0]]
  /\ UNCHANGED <<nextRow, owner, strayed>>

HandlerStep(h) ==
  \/ (\E job \in Jobs : NodeAccepts(h, job) \/ NodeAnswerLost(h, job))
  \/ Select(h) \/ Persist(h) \/ PersistFails(h)
  \/ Compensated(h) \/ CompensationFails(h) \/ EnqueueCleanup(h) \/ EnqueueFails(h)
  \/ (\E id \in RowIds : AskRead(h, id) \/ AskDelete(h, id))
  \/ LoadVideoJob(h) \/ ReadEnds(h) \/ StatusAnswered(h) \/ UpdateStatus(h)
  \/ Reload(h) \/ ClaimDelete(h) \/ StoreFails(h) \/ OwnerUnavailable(h)

CleanupStep(w) ==
  \/ ClaimCleanup(w) \/ CleanupStoreFails(w) \/ QuarantineCleanup(w)
  \/ CleanupOwnerAbsent(w) \/ CleanupCancelled(w)

DeleteStep(c) ==
  \/ StartDelete(c) \/ NodeDeletes(c) \/ DeleteFails(c)
  \/ ConfirmDelete(c) \/ ReleaseDelete(c)

Next ==
  \/ \E h \in Handlers : HandlerStep(h)
  \/ \E w \in Loops : CleanupStep(w)
  \/ \E c \in Callers : DeleteStep(c)
  \/ Crash
  \/ Tick

Safety == Init /\ [][Next]_vars

\* A request that has been accepted goes on.
Serve(h) ==
  \/ Select(h) \/ Persist(h) \/ PersistFails(h)
  \/ Compensated(h) \/ CompensationFails(h) \/ EnqueueCleanup(h) \/ EnqueueFails(h)
  \/ LoadVideoJob(h) \/ ReadEnds(h) \/ UpdateStatus(h) \/ Reload(h)
  \/ ClaimDelete(h) \/ OwnerUnavailable(h) \/ DeleteStep(h)

\* Time passes (it is held up only by steps that take none), routers are not restarted
\* and the database does not fail for ever, the loop runs on, an owner is in the snapshot often enough, and an owner
\* that answers confirms a call that is repeated often enough.  Clients owe nothing.
CleanupFairness ==
  /\ SF_vars(Tick)
  /\ <>[][~Crash /\ \A w \in Loops : ~CleanupCancelled(w)
                                   /\ ~CleanupStoreFails(w)]_vars
  /\ \A h \in Handlers : WF_vars(Serve(h))
  /\ \A w \in Loops :
       /\ WF_vars(ClaimCleanup(w) \/ QuarantineCleanup(w) \/ DeleteStep(w))
       /\ \A job \in Jobs : SF_vars(caller[w].job = job /\ StartDelete(w))
       /\ SF_vars(NodeDeletes(w))

Spec == Safety /\ CleanupFairness

-----------------------------------------------------------------------------
(* Properties.                                                             *)

TypeOK ==
  /\ TableType(table)
  /\ clock \in Nat
  /\ nextRow \in 1..(MaxRows + 1)
  /\ owner \in [Jobs -> {"unborn", "alive", "gone"}]
  /\ caller \in [Callers -> CallerState]
  /\ strayed \subseteq Jobs

\* A job running on its owner is never lost by the router: some row owns it, or a
\* handler is still deciding about it.  The exceptions are the ones counted in
\* `strayed`: an answer that never arrived, a crash before the row was written, and
\* the failure of both the row and the cleanup row.
Remembered(job) ==
  \/ \E x \in DOMAIN table : table[x].job = job /\ ~table[x].foreign
  \/ \E h \in Handlers :
       /\ caller[h].job = job
       /\ caller[h].pc \in {"persisting", "compensating", "enqueuing"}

NoJobLost == \A job \in Alive \ strayed : Remembered(job)

\* An owner has at most one cleanup row, whatever calls expire its rows concurrently,
\* and no call ever runs into the unique index that says so.
OneCleanupRowPerOwner ==
  /\ \A x, y \in DOMAIN table :
       /\ table[x].pending = "cleanup"
       /\ table[y].pending = "cleanup"
       /\ SameOwner(table[x], table[y])
       => x = y
  /\ \A h \in Handlers :
       caller[h].selected => ~Collides(table, caller[h].alone)

\* No two callers delete through one row at a time: not two handlers, not two loops,
\* and not a handler and the loop that took the row over when it expired.
DeleteIsExclusive ==
  \A c1, c2 \in Callers :
    /\ {caller[c1].pc, caller[c2].pc} \subseteq {"claimed", "deleting", "confirming"}
    /\ caller[c1].row = caller[c2].row
    => c1 = c2

\* A row a client can still see disappears only when a delete request that claimed
\* it has the owner's confirmation; expiry, cleanup and enqueueing leave it alone.
VisibleRowSurvives ==
  [][\A x \in DOMAIN table :
       Visible(table, x, clock) /\ ~(x \in DOMAIN table' /\ table'[x].pending = "active") =>
         \E h \in Handlers :
           caller[h].pc = "confirming" /\ caller[h].row = x /\ table[x].claim = h]_vars

\* To its clients the map is one of ids that answer for a job until their time is up or
\* the owner has ended it (PublicJobs).  An id keeps its job and its date whatever is
\* claimed, released, expired, merged or enqueued beside it, is never shown again, and
\* goes early only after the owner ended the job it answered for.
ClientView == INSTANCE PublicJobs WITH
  Ids <- RowIds,
  shown <- [x \in {y \in DOMAIN table : Visible(table, y, clock)} |->
              [job |-> table[x].job, until |-> table[x].expires_at]],
  used <- 1..(nextRow - 1),
  gone <- {job \in Jobs : owner[job] = "gone"},
  now <- clock

AnswersAsPromised == ClientView!Spec

\* A job that is to be cleaned up, on an owner that answers, is deleted there some
\* day, however many other rows of the queue wait for an owner that does not.
CleanupReachesOwner ==
  \A job \in Jobs \ HungJobs :
    (\E x \in DOMAIN table : table[x].job = job /\ table[x].pending = "cleanup"
                              /\ ~table[x].foreign)
    ~> job \notin Alive
=============================================================================
