---------------------------- MODULE TrainingNode ----------------------------
(***************************************************************************)
(* A node that trains while it is idle: the idle detector (mesh/idle.py),  *)
(* a training pass in a thread of its own (mesh/training.py) and the       *)
(* replay store it takes its corpus from, to which requests keep adding.   *)
(*                                                                         *)
(* Nothing in the package drives the detector; the caller here follows the *)
(* protocol of its docstring: observe at each heartbeat, spawn a thread on *)
(* READY_TO_TRAIN, then mark it started, and finish once the thread has    *)
(* returned.  Traffic may return at any moment, so a signal may come in    *)
(* any state; the docstring sends it only in TRAINING, the code does not   *)
(* look.                                                                   *)
(***************************************************************************)
EXTENDS ReplayStore

CONSTANTS
  TrainedDomain,  \* the pass's domain
  NExamples,      \* n_examples
  StepsPlanned,   \* n_steps_planned
  MaxCaptures     \* bound: calls of add

ASSUME NodeAssumption == TrainedDomain \in Topics /\ NExamples \in Nat /\ StepsPlanned \in Nat

VARIABLES
  store,
  dumped,    \* the file of dump, with the captures it goes back to
  captured,  \* history: the prompts added, with their domains
  state, quiet,  \* the detector's; quiet if _idle_since is set
  preempt,   \* the preempt event
  caller,
  thread

node == <<state, quiet, preempt, caller, thread>>
nodeVars == <<store, dumped, captured, node>>

Gone == [at |-> "gone", stub |-> FALSE, examples |-> <<>>, steps |-> 0, preempted |-> FALSE,
         due |-> {}, early |-> FALSE, told |-> FALSE, late |-> 0]

NodeInit ==
  /\ store = <<>> /\ captured = <<>>
  /\ dumped = [store |-> <<>>, captured |-> <<>>]
  /\ state = "active" /\ quiet = FALSE /\ preempt = FALSE
  /\ caller = "watching" /\ thread = Gone

Capture(prompt, domain) ==
  /\ Len(captured) < MaxCaptures
  /\ store' = Added(store, prompt, domain)
  /\ captured' = Append(captured, Entry(prompt, domain))
  /\ UNCHANGED <<dumped, node>>

\* dump: a file beside the old one, then renamed over it.
Dump ==
  /\ dumped' = [store |-> store, captured |-> captured]
  /\ UNCHANGED <<store, captured, node>>

-----------------------------------------------------------------------------
(* The detector and its caller.                                            *)

\* The cooldown or the time that must stay quiet has passed, or has not.
Observe(idle, elapsed) ==
  /\ caller # "spawned"
  /\ \/ /\ state = "cooldown" /\ elapsed
        /\ state' = "active" /\ quiet' = idle
     \/ /\ state \in {"active", "ready"} /\ ~idle
        /\ state' = "active" /\ quiet' = FALSE
     \/ /\ state \in {"active", "ready"} /\ idle
        /\ quiet' = TRUE
        /\ state' = IF quiet /\ elapsed THEN "ready" ELSE state
  /\ UNCHANGED <<store, dumped, captured, preempt, caller, thread>>

Spawn(stub) ==
  /\ caller = "watching" /\ state = "ready"
  /\ thread' = [Gone EXCEPT !.at = "begin", !.stub = stub]
  /\ caller' = "spawned"
  /\ UNCHANGED <<store, dumped, captured, state, quiet, preempt>>

\* mark_training_started, after the spawn: the thread may have looked at the event before,
\* and a signal that came since the spawn is cleared with the event.
MarkStarted ==
  /\ caller = "spawned" /\ state = "ready"
  /\ state' = "training"
  /\ preempt' = FALSE
  /\ caller' = "marked"
  /\ thread' = [thread EXCEPT !.told = FALSE, !.late = 0]
  /\ UNCHANGED <<store, dumped, captured, quiet>>

\* In any state; it tells the thread that is there, if one is.
SignalPreempt ==
  /\ preempt' = TRUE
  /\ thread' = [thread EXCEPT !.told = thread.at # "gone"]
  /\ UNCHANGED <<store, dumped, captured, state, quiet, caller>>

FinishTraining ==
  /\ caller = "marked" /\ thread.at = "returned"
  /\ state' = "cooldown" /\ quiet' = FALSE
  /\ caller' = "watching" /\ thread' = Gone
  /\ UNCHANGED <<store, dumped, captured, preempt>>

-----------------------------------------------------------------------------
(* TrainingPass.run, in its thread.                                        *)

\* What a pass that begins now is to train on, by the captures: a prompt counts with its
\* last capture, and the store holds the last MaxSize prompts.
LastOf(prompt) == {i \in DOMAIN captured : /\ captured[i].prompt = prompt
                                           /\ \A j \in i + 1..Len(captured) : captured[j].prompt # prompt}
Lasts == UNION {LastOf(prompt) : prompt \in Prompts}
HeldLasts == {i \in Lasts : Cardinality({j \in Lasts : j > i}) < MaxSize}
DueLasts == {i \in HeldLasts : captured[i].domain = TrainedDomain}
Due == {captured[i].prompt : i \in {k \in DueLasts : Cardinality({j \in DueLasts : j > k}) < NExamples}}

\* The real pass refuses an empty corpus, and may lack its dependencies; then the thread
\* returns with nothing written.
Begin ==
  /\ thread.at = "begin"
  /\ LET examples == Recent(store, NExamples, TrainedDomain)
     IN thread' \in {[thread EXCEPT !.at = "loop", !.examples = examples, !.due = Due] :
                       x \in IF thread.stub \/ examples # <<>> THEN {TRUE} ELSE {}}
                    \cup {[thread EXCEPT !.at = "returned"] : x \in IF thread.stub THEN {} ELSE {TRUE}}
  /\ UNCHANGED <<store, dumped, captured, state, quiet, preempt, caller>>

Look ==
  /\ thread.at = "loop" /\ thread.steps < StepsPlanned
  /\ thread' = [thread EXCEPT !.at = IF preempt THEN "save" ELSE "step",
                              !.preempted = preempt,
                              !.early = @ \/ caller = "spawned"]
  /\ UNCHANGED <<store, dumped, captured, state, quiet, preempt, caller>>

Step ==
  /\ thread.at = "step"
  /\ thread' = [thread EXCEPT !.at = "loop", !.steps = @ + 1,
                              !.late = IF thread.told THEN @ + 1 ELSE @]
  /\ UNCHANGED <<store, dumped, captured, state, quiet, preempt, caller>>

\* The weights and then meta.json; a crash in between leaves a directory that no one
\* can load.
Save ==
  /\ \/ /\ thread.at = "loop" /\ thread.steps = StepsPlanned
        /\ thread' = [thread EXCEPT !.at = "meta"]
     \/ /\ thread.at = "save"
        /\ thread' = [thread EXCEPT !.at = "meta"]
     \/ /\ thread.at = "meta"
        /\ thread' = [thread EXCEPT !.at = "returned"]
  /\ UNCHANGED <<store, dumped, captured, state, quiet, preempt, caller>>

\* The process ends and comes back with what load reads.
NodeRestart ==
  /\ store' = Trimmed(dumped.store) /\ captured' = dumped.captured
  /\ state' = "active" /\ quiet' = FALSE /\ preempt' = FALSE
  /\ caller' = "watching" /\ thread' = Gone
  /\ UNCHANGED dumped

NodeNext ==
  \/ \E prompt \in Prompts, domain \in Topics : Capture(prompt, domain)
  \/ Dump \/ NodeRestart
  \/ \E idle, elapsed \in BOOLEAN : Observe(idle, elapsed)
  \/ \E stub \in BOOLEAN : Spawn(stub)
  \/ MarkStarted \/ SignalPreempt \/ FinishTraining
  \/ Begin \/ Look \/ Step \/ Save

-----------------------------------------------------------------------------

(* A checkpoint says what its pass did: trained on the newest captures of  *)
(* its domain that the store had when the pass began, through evictions,   *)
(* repeated prompts and restarts; preempted exactly when it stopped short, *)
(* not without a signal of its own unless it looked before it was marked   *)
(* started, and at most one step after it was told to yield.  The mark     *)
(* clears the event, so a pass that is marked answers for the signals      *)
(* since; that the ones from before are lost is not held against it.       *)
CheckpointTruthful ==
  /\ {e.prompt : e \in ToSet(thread.examples)} = thread.due
  /\ thread.late <= 1
  /\ thread.preempted => thread.told \/ thread.early
  /\ thread.at = "meta" => (thread.preempted <=> thread.steps < StepsPlanned)
  /\ state = "training" => caller = "marked" /\ thread.at # "gone"
=============================================================================
