------------------------------ MODULE Ignition ------------------------------
(***************************************************************************)
(* The generator that turns settled clusters of traffic into experiments   *)
(* (mesh/generator.py): a pass clusters the window of traffic, advances    *)
(* the drift state of each cluster, enqueues a spec for every cluster that *)
(* has been settled for long enough, and saves the drift state at its end. *)
(*                                                                         *)
(* A centroid is what a cluster's drift is measured on; a spec's id is its *)
(* cluster and its centroid.                                               *)
(***************************************************************************)
EXTENDS Integers, Sequences, SequencesExt

CONSTANTS
  Clusters,
  Centroids,
  Missing,     \* no centroid: not seen, or seen without one
  Close(_, _), \* _drift is below MAX_DRIFT
  MinStable    \* MIN_STABLE_WINDOWS

ASSUME IgnitionAssumption == Missing \notin Centroids /\ MinStable \in Nat \ {0}

VARIABLES
  windows,   \* history: the last MinStable windows, each with the number of passes over it
  drift,     \* drift_state.json
  pass,      \* a pass's clusters still to visit and its drift state
  enqueued   \* the ids in the queue

ignitionVars == <<windows, drift, pass, enqueued>>

NoPass == [todo |-> {}, drift |-> <<>>, on |-> FALSE]
Seen(window) == {c \in Clusters : window.at[c] # Missing}
CurrentWindow == Last(windows)

IgnitionInit ==
  /\ \E at \in [Clusters -> Centroids \cup {Missing}] : windows = <<[at |-> at, passes |-> 0]>>
  /\ drift = <<>>
  /\ pass = NoPass
  /\ enqueued = {}

LastOfThem(seq) == IF Len(seq) > MinStable THEN Tail(seq) ELSE seq

\* Traffic moves on.
NextWindow ==
  /\ ~pass.on
  /\ \E at \in [Clusters -> Centroids \cup {Missing}] :
       windows' = LastOfThem(Append(windows, [at |-> at, passes |-> 0]))
  /\ UNCHANGED <<drift, pass, enqueued>>

-----------------------------------------------------------------------------
(* generate *)

StartPass ==
  /\ ~pass.on
  /\ pass' = [todo |-> Seen(CurrentWindow), drift |-> drift, on |-> TRUE]
  /\ UNCHANGED <<windows, drift, enqueued>>

\* Beyond MinStable a count makes no difference.
Counted(n) == IF n > MinStable THEN MinStable ELSE n

With(state, c, entry) ==
  [x \in DOMAIN state \cup {c} |-> IF x = c THEN entry ELSE state[x]]

\* Mutant: a drifted window leaves the streak as it was.
UpdatedKeepingStreak(state, c, centroid) ==
  With(state, c,
       [centroid |-> centroid,
        stable |-> IF c \in DOMAIN state
                     THEN Counted(state[c].stable
                            + IF Close(state[c].centroid, centroid) THEN 1 ELSE 0)
                     ELSE 1])

\* update_drift: the first window counts as the first stable one.
Updated(state, c, centroid) ==
  With(state, c,
       [centroid |-> centroid,
        stable |-> IF c \in DOMAIN state /\ Close(state[c].centroid, centroid)
                     THEN Counted(state[c].stable + 1)
                     ELSE 1])

\* evaluate_ignition, but for what else must hold: enough traces and no healthy champion.
Settled(before, c, centroid) ==
  /\ c \in DOMAIN before
  /\ Close(before[c].centroid, centroid)
  /\ Updated(before, c, centroid)[c].stable >= MinStable

Visit(c, eligible) ==
  /\ c \in pass.todo
  /\ LET centroid == CurrentWindow.at[c]
     IN /\ pass' = [pass EXCEPT !.todo = @ \ {c}, !.drift = Updated(@, c, centroid)]
        /\ enqueued' = IF eligible /\ Settled(pass.drift, c, centroid)
                         THEN enqueued \cup {<<c, centroid>>} ELSE enqueued
  /\ UNCHANGED <<windows, drift>>

\* The curation of an ignited cluster refuses it, or the process ends: what was enqueued
\* stays and no drift is saved.
AbortPass ==
  /\ pass.on
  /\ pass' = NoPass
  /\ UNCHANGED <<windows, drift, enqueued>>

SavePass ==
  /\ pass.on /\ pass.todo = {}
  /\ drift' = pass.drift
  /\ windows' = [windows EXCEPT ![Len(windows)].passes = IF @ = 2 THEN 2 ELSE @ + 1]
  /\ pass' = NoPass
  /\ UNCHANGED enqueued

IgnitionNext ==
  \/ NextWindow \/ StartPass \/ AbortPass \/ SavePass
  \/ \E c \in Clusters, eligible \in BOOLEAN : Visit(c, eligible)

-----------------------------------------------------------------------------

\* Each window before this one was passed over once, with the cluster in it.
PassedOnceWith(c) ==
  /\ CurrentWindow.passes = 0
  /\ \A i \in 1..Len(windows) - 1 : windows[i].passes = 1 /\ windows[i].at[c] # Missing

(* A cluster that ignites has been close to where it was before in each of *)
(* the last MinStable windows, whatever passes were cut short before those,*)
(* as long as each of those windows was passed over once and the cluster   *)
(* was in each of them.                                                    *)
IgnitedSettled ==
  [][\A id \in enqueued' \ enqueued :
       LET c == id[1]
       IN PassedOnceWith(c) =>
            /\ Len(windows) = MinStable
            /\ \A i \in 1..Len(windows) - 1 : Close(windows[i].at[c], windows[i + 1].at[c])
    ]_ignitionVars
=============================================================================
