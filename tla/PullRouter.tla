----------------------------- MODULE PullRouter -----------------------------
(***************************************************************************)
(* The router of the pull topology: discovery passes of mesh/discovery.py  *)
(* over the peers, and _RefreshingSnapshot of mesh/router_app.py, which    *)
(* keeps what they found.  Two threads run passes: the background loop,    *)
(* and a request that finds no snapshot yet.  One specialist on one node   *)
(* (ServeNode) is followed; the other peers of a pass are the time it      *)
(* takes before and after this one answers.                                *)
(***************************************************************************)
EXTENDS ServeNode

CONSTANTS
  RefreshEvery,  \* refresh_s
  Retain,        \* retain_s
  MaxPass,       \* bound: ticks a pass takes; each silent peer costs it a timeout
  MaxRaised,     \* bound: passes of the loop in a row that raise
  Horizon        \* ages are counted up to here

ASSUME RouterAssumption ==
  /\ RefreshEvery \in Nat \ {0}
  /\ Retain \in Nat /\ MaxPass \in Nat /\ MaxRaised \in Nat /\ Horizon \in Nat

Threads == {"loop", "cold"}

VARIABLES
  snapshot,    \* "none", or whether it has the binding: "bound" or "unbound"
  lastSeen,    \* the binding's age
  fetched,     \* of each thread's pass: "idle", "asking", "found" or "missed"
  lasting,     \* ticks each pass has lasted
  slept,       \* ticks the loop has waited since its last pass
  raised,      \* passes of the loop that raised, since one did not
  missed,      \* history: passes of the loop since one found the binding, to 2
  sinceAlive   \* history: ticks since the backend last was alive on a node that was up

router == <<snapshot, lastSeen, fetched, lasting, slept, raised, missed>>
vars == <<node, router, sinceAlive>>

Init ==
  /\ NodeInit
  /\ snapshot = "none" /\ lastSeen = 0
  /\ fetched = [t \in Threads |-> "idle"]
  /\ lasting = [t \in Threads |-> 0]
  /\ slept = RefreshEvery /\ raised = 0 /\ missed = 0
  /\ sinceAlive = Horizon

Capped(n) == IF n > Horizon THEN Horizon ELSE n

-----------------------------------------------------------------------------
(* A pass: ask the peers one after the other, translate, write.            *)

Asking(t) ==
  /\ fetched[t] = "idle"
  /\ fetched' = [fetched EXCEPT ![t] = "asking"]
  /\ UNCHANGED <<node, snapshot, lastSeen, lasting, slept, raised, missed>>

LoopStarts == slept = RefreshEvery /\ Asking("loop")

ColdStarts == snapshot = "none" /\ Asking("cold")

Answered(t, answer) ==
  /\ fetched[t] = "asking"
  /\ fetched' = [fetched EXCEPT ![t] = answer]
  /\ UNCHANGED <<node, snapshot, lastSeen, lasting, slept, raised, missed>>

FetchFinds(t) == Advertised /\ Answered(t, "found")

\* No peer by the status, no answer in time, not the peer that was pinned, or no such
\* specialist.
FetchMisses(t) == Answered(t, "missed")

\* Mutant: a binding carried over counts as seen.
RetainedAsSeen(found) ==
  IF snapshot = "bound" /\ (found \/ lastSeen <= Retain)
    THEN [snapshot |-> "bound", lastSeen |-> 0]
    ELSE [snapshot |-> IF found THEN "bound" ELSE "unbound", lastSeen |-> 0]

\* Mutant: what the pass missed is dropped.
RetainedNothing(found) ==
  [snapshot |-> IF found THEN "bound" ELSE "unbound", lastSeen |-> 0]

\* Mutant: only what was known already is merged.
RetainedKnown(found) ==
  [snapshot |-> IF found /\ snapshot = "bound" THEN "bound" ELSE "unbound", lastSeen |-> 0]

\* _merge_retaining_recent
Retained(found) ==
  IF ~found /\ snapshot = "bound" /\ Retain > 0 /\ lastSeen <= Retain
    THEN [snapshot |-> "bound", lastSeen |-> lastSeen]
    ELSE [snapshot |-> IF found THEN "bound" ELSE "unbound", lastSeen |-> 0]

OneMore == IF missed < 2 THEN missed + 1 ELSE 2

Done(t) ==
  /\ fetched' = [fetched EXCEPT ![t] = "idle"]
  /\ lasting' = [lasting EXCEPT ![t] = 0]

LoopWrites ==
  /\ fetched["loop"] \in {"found", "missed"}
  /\ LET found == fetched["loop"] = "found"
         next == Retained(found)
     IN /\ snapshot' = next.snapshot
        /\ lastSeen' = next.lastSeen
        /\ missed' = IF found THEN 0 ELSE OneMore
  /\ Done("loop")
  /\ slept' = 0 /\ raised' = 0
  /\ UNCHANGED node

\* The loop logs what a pass raises, keeps its snapshot and waits.
LoopRaises ==
  /\ fetched["loop"] # "idle"
  /\ raised < MaxRaised
  /\ raised' = raised + 1
  /\ missed' = OneMore
  /\ Done("loop")
  /\ slept' = 0
  /\ UNCHANGED <<node, snapshot, lastSeen>>

\* get: whatever the loop has written meanwhile is overwritten.
ColdWrites ==
  /\ fetched["cold"] \in {"found", "missed"}
  /\ snapshot' = IF fetched["cold"] = "found" THEN "bound" ELSE "unbound"
  /\ lastSeen' = 0
  /\ missed' = IF fetched["cold"] = "found" THEN 0 ELSE missed
  /\ Done("cold")
  /\ UNCHANGED <<node, slept, raised>>

ColdRaises ==
  /\ fetched["cold"] # "idle"
  /\ Done("cold")
  /\ UNCHANGED <<node, snapshot, lastSeen, slept, raised, missed>>

RouterNext ==
  \/ LoopStarts \/ ColdStarts
  \/ \E t \in Threads : FetchFinds(t) \/ FetchMisses(t)
  \/ LoopWrites \/ LoopRaises \/ ColdWrites \/ ColdRaises

-----------------------------------------------------------------------------
(* Time: no tick passes what is due.                                       *)

PassDue(t) == fetched[t] # "idle" /\ lasting[t] = MaxPass

LoopDue == fetched["loop"] = "idle" /\ slept = RefreshEvery

Tick ==
  /\ ~BeatDue /\ ~LoopDue /\ \A t \in Threads : ~PassDue(t)
  /\ waited' = IF phase = "up" THEN waited + 1 ELSE waited
  /\ lastSeen' = IF snapshot = "bound" THEN Capped(lastSeen + 1) ELSE 0
  /\ lasting' = [t \in Threads |-> IF fetched[t] = "idle" THEN 0 ELSE lasting[t] + 1]
  /\ slept' = IF fetched["loop"] = "idle" THEN slept + 1 ELSE slept
  /\ UNCHANGED <<kind, own, other, adopted, started, failed, phase, beat, posted, failedBeats,
                 snapshot, fetched, raised, missed>>

Up == phase = "up" /\ Alive

Next ==
  \/ /\ (NodeNext /\ UNCHANGED router) \/ RouterNext
     /\ sinceAlive' = IF Up \/ Up' THEN 0 ELSE sinceAlive
  \/ /\ Tick
     /\ sinceAlive' = IF Up THEN 0 ELSE Capped(sinceAlive + 1)

LoopWritesFound == fetched["loop"] = "found" /\ LoopWrites

\* Time passes and the loops run; a peer that answers is heard again and again, and not
\* always in a pass that raises.
Fairness ==
  /\ WF_vars(Tick /\ Next)
  /\ WF_vars(LoopStarts /\ Next) /\ WF_vars(LoopWrites /\ Next)
  /\ WF_vars((ColdWrites \/ ColdRaises) /\ Next)
  /\ WF_vars((BeatReads \/ BeatPosts) /\ Next)
  /\ \A t \in Threads : WF_vars(FetchMisses(t) /\ Next)
  /\ SF_vars(FetchFinds("loop") /\ Next) /\ SF_vars(LoopWritesFound /\ Next)

Spec == Init /\ [][Next]_vars /\ Fairness

-----------------------------------------------------------------------------
(* Type correctness; and a backend has a process of its own or an adopted  *)
(* one, never both, so that asking after the one never hides the other.    *)
TypeOK ==
  /\ NodeTypeOK
  /\ own # "none" => adopted = "none"
  /\ snapshot \in {"none", "bound", "unbound"}
  /\ lastSeen \in 0..Horizon
  /\ fetched \in [Threads -> {"idle", "asking", "found", "missed"}]
  /\ lasting \in [Threads -> 0..MaxPass]
  /\ slept \in 0..RefreshEvery /\ raised \in 0..MaxRaised

Beats == MaxBuild + HeartbeatEvery
Passes == RefreshEvery + MaxPass

(* The router offers no specialist whose backend has been down for longer  *)
(* than the heartbeats, the passes and the retention add up to, whatever   *)
(* fails and races in between.                                             *)
RoutedIsRecent ==
  snapshot = "bound" =>
    sinceAlive <= (MaxBuild + Beats * (MaxFailedBeats + 1))
                  + MaxPass + Retain + Passes * (MaxRaised + 1)

(* "a single missed pass can't drop it": a pass of the loop removes a      *)
(* binding only if the pass before missed it too.                          *)
MissedOnceKept ==
  [][LoopWrites /\ snapshot = "bound" /\ snapshot' = "unbound" => missed >= 1]_vars

(* A node that stays up with a living backend is routed to again and again, *)
(* after any restart, missed pass or cold start.                           *)
ReturnsToRouter ==
  <>[](Up) => []<>(snapshot = "bound")
=============================================================================
