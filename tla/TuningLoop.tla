----------------------------- MODULE TuningLoop -----------------------------
(***************************************************************************)
(* The self-improvement loop of the tuning package, mesh/loop_runner.py:   *)
(* one runner takes experiments from a queue file, executes them, puts     *)
(* scored ones to the champion gate and promotes or archives; generators   *)
(* in processes of their own enqueue, and the champion registry of         *)
(* mesh/training.py keeps the champion and the one before it.              *)
(*                                                                         *)
(* The queue file is read whole and written whole.  The runner writes the  *)
(* list it read at the start of the tick, with its own experiment changed; *)
(* a crash may come between any two writes.                                *)
(***************************************************************************)
EXTENDS ChampionGate

CONSTANTS
  Experiments,   \* spec ids
  Trains,        \* those of type train
  Priority,      \* spec["priority"], the lowest first
  Generators,    \* processes that call enqueue
  Checkpoints,   \* outcomes of a scored experiment: the row and what the artifact is
  Base,          \* the row of the base model, the champion of a task without one
  None,
  Threshold,     \* circuit_breaker_threshold
  MaxRestarts,   \* bound: crashes and restarts of the runner
  MaxRollbacks   \* bound: rollbacks by an operator

ASSUME LoopAssumption ==
  /\ Trains \subseteq Experiments
  /\ Priority \in [Experiments -> Nat]
  /\ \A c \in Checkpoints : IsRow(c.row) /\ c.stub \in BOOLEAN /\ (c.row.stub => c.stub)
  /\ IsRow(Base)
  /\ None \notin Experiments
  /\ \A c \in Checkpoints, e \in Experiments :
       None # [row |-> c.row, stub |-> c.stub, id |-> e]
  /\ Threshold \in Nat \ {0}
  /\ MaxRestarts \in Nat /\ MaxRollbacks \in Nat

Statuses == {"pending", "running", "done", "failed", "promoted", "archived"}
Spec_ == [id : Experiments, status : Statuses]

VARIABLES
  queue,       \* queue.jsonl
  enqueuing,   \* what each generator read of the queue, between enqueue's read and write
  pc,          \* where the runner's tick is
  specs, at,   \* the runner's list and the index of its experiment in it
  compared,    \* the champion the experiment is evaluated against
  candidate,   \* the scored experiment's checkpoint, until it is acted on
  streak,      \* consecutive_fast_fails
  paused,
  decisions,   \* decisions.jsonl: the checkpoints with an accepting verdict
  champion, previous,  \* champion.json and champion.prev.json
  pairs,       \* the drift tracker's window
  added,       \* history: experiments enqueue said it added
  executed,    \* history: how often each experiment was executed, to 2
  overlapped,  \* history: a write put back a queue that had changed since its read
  restarts, rollbacks

memory == <<pc, specs, at, compared, candidate, streak, paused>>
disk == <<decisions, champion, previous, pairs>>
counts == <<restarts, rollbacks>>
vars == <<queue, enqueuing, memory, disk, added, executed, overlapped, counts>>

Ids(list) == {list[i].id : i \in DOMAIN list}

Init ==
  /\ queue = <<>>
  /\ enqueuing = [g \in Generators |-> None]
  /\ pc = "idle" /\ specs = <<>> /\ at = 0 /\ compared = None /\ candidate = None
  /\ streak = 0 /\ paused = FALSE
  /\ decisions = {} /\ champion = None /\ previous = None /\ pairs = <<>>
  /\ added = {} /\ executed = [e \in Experiments |-> 0] /\ overlapped = FALSE
  /\ restarts = 0 /\ rollbacks = 0

-----------------------------------------------------------------------------
(* enqueue, in a process of its own: read, append, write.                  *)

\* Mutant: only what still waits counts as queued.
AlreadyQueuedIfPending(list, e) ==
  \E i \in DOMAIN list : list[i].id = e /\ list[i].status = "pending"

AlreadyQueued(list, e) == e \in Ids(list)

EnqueueReads(g, e) ==
  /\ enqueuing[g] = None
  /\ ~AlreadyQueued(queue, e)
  /\ enqueuing' = [enqueuing EXCEPT ![g] = [read |-> queue, id |-> e]]
  /\ UNCHANGED <<queue, memory, disk, added, executed, overlapped, counts>>

EnqueueWrites(g) ==
  /\ enqueuing[g] # None
  /\ LET e == enqueuing[g].id
     IN /\ queue' = Append(enqueuing[g].read, [id |-> e, status |-> "pending"])
        /\ added' = added \cup {e}
  /\ overlapped' = (overlapped \/ enqueuing[g].read # queue)
  /\ enqueuing' = [enqueuing EXCEPT ![g] = None]
  /\ UNCHANGED <<memory, disk, executed, counts>>

-----------------------------------------------------------------------------
(* run_once *)

\* Mutant: what a crash left marked running is taken up again.
PendingOrRunning(list) == {i \in DOMAIN list : list[i].status \in {"pending", "running"}}

Pending(list) == {i \in DOMAIN list : list[i].status = "pending"}

\* _pick_pending: the lowest priority number, the first of equals.
IsPicked(list, i) ==
  /\ i \in Pending(list)
  /\ \A j \in Pending(list) \ {i} :
       \/ Priority[list[i].id] < Priority[list[j].id]
       \/ Priority[list[i].id] = Priority[list[j].id] /\ i < j

Marked(list, i, status) == [list EXCEPT ![i].status = status]

\* write_queue(specs), whatever the file holds by now.
WriteBack(status) ==
  /\ queue' = Marked(specs, at, status)
  /\ overlapped' = (overlapped \/ queue # specs)

Running == specs[at].id

BackToIdle ==
  /\ pc' = "idle" /\ specs' = <<>> /\ at' = 0 /\ compared' = None /\ candidate' = None

\* A train experiment only starts when the idle detector says so; a tick it is held back
\* in changes nothing.  executed counts what execute_fn is called for.
Start(i) ==
  /\ pc = "idle" /\ ~paused
  /\ IsPicked(queue, i)
  /\ at' = i
  /\ specs' = Marked(queue, i, "running")
  /\ queue' = specs'
  /\ pc' = "executing"
  /\ compared' = champion
  /\ UNCHANGED candidate
  /\ executed' = [executed EXCEPT ![queue[i].id] = IF @ = 2 THEN 2 ELSE @ + 1]
  /\ UNCHANGED <<enqueuing, streak, paused, disk, added, overlapped, counts>>

StartEval == \E i \in DOMAIN queue : queue[i].id \notin Trains /\ Start(i)
StartTrain == \E i \in DOMAIN queue : queue[i].id \in Trains /\ Start(i)

StreakAfter(fast) == IF fast THEN streak + 1 ELSE 0

\* Mutant: what fails slowly is tried again.
FailRetrying ==
  /\ pc = "executing"
  /\ \E fast \in BOOLEAN :
       WriteBack(IF fast THEN "failed" ELSE "pending") /\ streak' = StreakAfter(fast)
  /\ paused' = (streak' >= Threshold)
  /\ BackToIdle
  /\ UNCHANGED <<enqueuing, disk, added, executed, counts>>

\* _handle_failure: also what execute_fn raises is a failure.
Fail ==
  /\ pc = "executing"
  /\ WriteBack("failed")
  /\ \E fast \in BOOLEAN : streak' = StreakAfter(fast)
  /\ paused' = (streak' >= Threshold)
  /\ BackToIdle
  /\ UNCHANGED <<enqueuing, disk, added, executed, counts>>

RunUnscored ==
  /\ pc = "executing"
  /\ WriteBack("done")
  /\ streak' = 0
  /\ BackToIdle
  /\ UNCHANGED <<enqueuing, paused, disk, added, executed, counts>>

\* The checkpoint of experiment e with outcome c.
Checkpoint(c, e) == [row |-> c.row, stub |-> c.stub, id |-> e]

ChampionRow == IF compared = None THEN Base ELSE compared.row

\* The gate, under the governor when one is enabled: a sampled or marginal accept is
\* graded again and refused while the window has drifted.  The verdict is on record
\* before it is acted on.
Judge ==
  /\ pc = "executing"
  /\ streak' = 0
  /\ \E c \in Checkpoints :
       LET accepts == Accepts(ChampionRow, c.row)
       IN /\ candidate' = Checkpoint(c, Running)
          /\ \/ /\ accepts /\ ~Marginal(ChampionRow, c.row)
                /\ pc' = "accepted"
                /\ UNCHANGED pairs
             \/ /\ accepts
                /\ \E pair \in [local : {c.row.mean}, cloud : {0, c.row.mean}] :
                     pairs' = Recorded(pairs, pair)
                /\ pc' = IF ShouldFreeze(pairs') THEN "rejected" ELSE "accepted"
             \/ /\ ~accepts
                /\ pc' = "rejected"
                /\ UNCHANGED pairs
  /\ decisions' = IF pc' = "accepted" THEN decisions \cup {candidate'} ELSE decisions
  /\ UNCHANGED <<queue, enqueuing, specs, at, compared, paused, champion, previous,
                 added, executed, overlapped, counts>>

Archive ==
  /\ pc = "rejected"
  /\ WriteBack("archived")
  /\ BackToIdle
  /\ UNCHANGED <<enqueuing, streak, paused, disk, added, executed, counts>>

-----------------------------------------------------------------------------
(* ChampionRegistry.promote, two writes of one file each, and rollback.    *)

Promotable(c) == ~c.stub

\* A stub checkpoint raises, out of run_once: the runner ends.
PromoteRefuses ==
  /\ pc = "accepted"
  /\ ~Promotable(candidate)
  /\ pc' = "down"
  /\ UNCHANGED <<queue, enqueuing, specs, at, compared, candidate, streak, paused, disk, added,
                 executed, overlapped, counts>>

PromoteKeepsPrevious ==
  /\ pc = "accepted"
  /\ Promotable(candidate)
  /\ previous' = champion
  /\ pc' = "kept"
  /\ UNCHANGED <<queue, enqueuing, specs, at, compared, candidate, streak, paused,
                 decisions, champion, pairs, added, executed, overlapped, counts>>

PromoteReplaces ==
  /\ pc = "kept"
  /\ champion' = candidate
  /\ pc' = "replaced"
  /\ UNCHANGED <<queue, enqueuing, specs, at, compared, candidate, streak, paused,
                 decisions, previous, pairs, added, executed, overlapped, counts>>

Promote ==
  /\ pc = "replaced"
  /\ WriteBack("promoted")
  /\ BackToIdle
  /\ UNCHANGED <<enqueuing, streak, paused, disk, added, executed, counts>>

\* An operator's, at any time; without a previous champion the base model serves.
Rollback ==
  /\ rollbacks < MaxRollbacks
  /\ champion # None
  /\ rollbacks' = rollbacks + 1
  /\ champion' = previous
  /\ previous' = None
  /\ UNCHANGED <<queue, enqueuing, memory, decisions, pairs, added, executed,
                 overlapped, restarts>>

\* The runner ends, in the middle of anything or paused, and is started again: its
\* breaker is as new, and what it left marked running stays so.
Restart ==
  /\ restarts < MaxRestarts
  /\ restarts' = restarts + 1
  /\ streak' = 0 /\ paused' = FALSE
  /\ BackToIdle
  /\ UNCHANGED <<queue, enqueuing, disk, added, executed, overlapped, rollbacks>>

-----------------------------------------------------------------------------
Tick ==
  \/ StartEval \/ StartTrain
  \/ Fail \/ RunUnscored \/ Judge
  \/ Archive
  \/ PromoteRefuses \/ PromoteKeepsPrevious \/ PromoteReplaces \/ Promote

Enqueue ==
  \/ \E g \in Generators, e \in Experiments : EnqueueReads(g, e)
  \/ \E g \in Generators : EnqueueWrites(g)

Next == Tick \/ Enqueue \/ Rollback \/ Restart

\* The loop ticks on, an experiment returns, and the node is idle again and again.
Fairness == WF_vars(Tick) /\ SF_vars(StartTrain)

\* The behaviours without any promise that the loop goes on.
Safety == Init /\ [][Next]_vars

Spec == Safety /\ Fairness

-----------------------------------------------------------------------------
(* Type correctness; the breaker has tripped exactly when the streak is at *)
(* its threshold, and no experiment is in the queue twice, even where two  *)
(* writers overlap.                                                        *)
TypeOK ==
  /\ queue \in Seq(Spec_) /\ specs \in Seq(Spec_)
  /\ pc \in {"idle", "executing", "accepted", "rejected", "kept", "replaced", "down"}
  /\ at \in 0..Len(specs)
  /\ {champion, previous, compared} \ {None} \subseteq decisions
  /\ streak \in 0..Threshold
  /\ paused = (streak = Threshold)
  /\ Len(pairs) <= Window
  /\ Cardinality(Ids(queue)) = Len(queue)

(* An experiment enqueue has added stays in the queue and is not executed  *)
(* twice, through failures, crashes and restarts, as long as no two        *)
(* writers of the queue file have overlapped.                              *)
QueuedOnce ==
  ~overlapped =>
    /\ added \subseteq Ids(queue)
    /\ \A e \in Experiments : executed[e] <= 1

(* Whatever is interrupted, the champion has an accepting verdict on       *)
(* record, is not a stub, and beats by the required gain the champion that *)
(* a rollback would bring back: "monotonic-or-flat, never silently worse". *)
ChampionEarned ==
  champion # None =>
    /\ champion \in decisions
    /\ ~champion.stub
    /\ previous \notin {None, champion} =>
         MeanDelta(previous.row, champion.row) >= MeanScoreDelta

(* What waits in the queue is run in the end, unless the loop has stopped. *)
PendingIsRun ==
  \A e \in Experiments :
    (\E i \in Pending(queue) : queue[i].id = e)
      ~> \/ ~ \E i \in Pending(queue) : queue[i].id = e
         \/ paused \/ pc = "down"
=============================================================================
