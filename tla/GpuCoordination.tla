-------------------------- MODULE GpuCoordination --------------------------
(***************************************************************************)
(* Cooperative GPU memory: the reservation files of one user on each node  *)
(* (mesh/gpu/reservations.py), mesh-gpu reserve, release and wait          *)
(* (mesh/gpu/cli.py), and the placement the registry answers from the      *)
(* heartbeats it has (mesh/gpu/cluster.py, POST /gpu/reserve).  Nothing is *)
(* enforced and nothing is locked between processes.                       *)
(***************************************************************************)
EXTENDS Integers, FiniteSets, FiniteSetsExt

CONSTANTS
  Nodes,  \* nodes with a GPU
  Jobs,   \* workloads; each asks, runs and ends once
  Total,  \* memory of each GPU
  Need,   \* memory of each job, which its reservation asks for
  Tags,   \* for each job, the nodes with the hardware tags it requires
  Home,   \* where each job's user works
  Named,  \* the jobs whose user names the process in the reservation
  Lease   \* how long a reservation is for

ASSUME GpuAssumption ==
  /\ Jobs \cap Nodes = {}
  /\ Total \in Nat
  /\ Need \in [Jobs -> Nat \ {0}]
  /\ Tags \in [Jobs -> SUBSET Nodes] /\ Home \in [Jobs -> Nodes] /\ Named \subseteq Jobs
  /\ Lease \in Nat \ {0}

VARIABLES
  state,   \* of each job: "idle", "waiting", "granted", "viewing", "placed", "reserved",
           \* "running", "gone"
  on,      \* the node each job is on, once it has chosen
  files,   \* the reservations on each node's disk
  view,    \* the gpu part of each node's latest heartbeat, if any had one
  fresh,   \* history: jobs and heartbeats told of a node that had no reservation since
  excused  \* history: nodes where somebody raced, or ran without a reservation

vars == <<state, on, files, view, fresh, excused>>

Reservation == [job : Jobs, left : 0..Lease, pid : BOOLEAN]
NoView == Total + 1

Init ==
  /\ state = [j \in Jobs |-> "idle"]
  /\ on = Home
  /\ files = [n \in Nodes |-> {}]
  /\ view = [n \in Nodes |-> NoView]
  /\ fresh = {}
  /\ excused = {}

-----------------------------------------------------------------------------
(* What a reader finds.                                                    *)

\* Mutant: a reservation is dropped only when its process is gone.
ActiveWhileAlive(n) == {r \in files[n] : ~(r.pid /\ state[r.job] = "gone")}

\* list_active, which also deletes the others.
Active(n) ==
  {r \in files[n] : r.left > 0 /\ ~(r.pid /\ state[r.job] = "gone")}

ReservedGb(n) == MapThenSumSet(LAMBDA r : Need[r.job], Active(n))

UsedGb(n) ==
  MapThenSumSet(LAMBDA j : Need[j], {j \in Jobs : on[j] = n /\ state[j] = "running"})

\* Mutant: only the memory in use counts.
HeldInUse(n) == UsedGb(n)

\* Once a reserved workload runs its memory is in both.
Held(n) == IF UsedGb(n) > ReservedGb(n) THEN UsedGb(n) ELSE ReservedGb(n)

Pruned(n) == [files EXCEPT ![n] = Active(n)]

-----------------------------------------------------------------------------
(* mesh-gpu on a node.                                                     *)

Become(j, s) == state' = [state EXCEPT ![j] = s]

Wait(j) ==
  /\ state[j] = "idle"
  /\ Become(j, "waiting")
  /\ UNCHANGED <<on, files, view, fresh>>

WaitPolls(j) ==
  /\ state[j] = "waiting"
  /\ files' = Pruned(on[j])
  /\ IF Total - Held(on[j]) >= Need[j]
       THEN Become(j, "granted") /\ fresh' = fresh \cup {j}
       ELSE UNCHANGED <<state, fresh>>
  /\ UNCHANGED <<on, view>>

Leave(j) ==
  /\ Become(j, "gone")
  /\ on' = [on EXCEPT ![j] = Home[j]]

WaitTimesOut(j) ==
  /\ state[j] = "waiting"
  /\ Leave(j)
  /\ UNCHANGED <<files, view, fresh>>

\* ReservationStore.reserve: one file, renamed into place.
Reserve(j, pid) ==
  /\ files' = [files EXCEPT ![on[j]] = @ \cup {[job |-> j, left |-> Lease, pid |-> pid]}]
  /\ Become(j, "reserved")
  /\ fresh' = fresh \ ({on[j]} \cup {i \in Jobs : on[i] = on[j]})
  /\ UNCHANGED <<on, view>>

\* wait --auto-reserve: long after the poll, for all this process knows.
AutoReserve(j) == state[j] = "granted" /\ Reserve(j, FALSE)

\* mesh-gpu reserve looks at nothing first.
Claim(j) == state[j] \in {"idle", "placed"} /\ Reserve(j, j \in Named)

StartJob(j) ==
  /\ state[j] \in {"idle", "reserved"}
  /\ Become(j, "running")
  /\ UNCHANGED <<on, files, view, fresh>>

EndJob(j) ==
  /\ state[j] \in {"reserved", "running"}
  /\ Leave(j)
  /\ UNCHANGED <<files, view, fresh>>

\* mesh-gpu release, before or after the job has ended, or never.
Release(j) ==
  /\ \E n \in Nodes : \E r \in files[n] :
       r.job = j /\ files' = [files EXCEPT ![n] = @ \ {r}]
  /\ UNCHANGED <<state, on, view, fresh>>

-----------------------------------------------------------------------------
(* The cluster.                                                            *)

Heartbeat(n) ==
  /\ view' = [view EXCEPT ![n] = Held(n)]
  /\ files' = Pruned(n)
  /\ fresh' = fresh \cup {n}
  /\ UNCHANGED <<state, on>>

Fits(j, n) == n \in Tags[j] /\ Total - view[n] >= Need[j]

\* pick_best_node ranks the nodes that fit by their room, less 2 GB for each reservation and
\* 0.1 GB for each percent of utilization.  A view here has only the room, so any node that
\* fits may be the best.
Best(j) == {n \in Nodes : Fits(j, n)}

Choose(j, n) ==
  /\ state[j] = "idle"
  /\ on' = [on EXCEPT ![j] = n]
  /\ fresh' = IF n \in fresh /\ Fits(j, n) THEN fresh \cup {j} ELSE fresh
  /\ UNCHANGED <<files, view>>

\* POST /gpu/reserve: an answer, of which the registry keeps nothing.
Place(j) == Become(j, "placed") /\ \E n \in Best(j) : Choose(j, n)

\* GET /gpu/cluster: the latest gpu payload of every node that ever sent one.  The client
\* picks from what it got, or takes the node its user forced, whatever fits there.
GetGpuCluster(j) ==
  LET forced == {n \in Nodes : view[n] # NoView /\ j \in Named}
  IN Become(j, "viewing") /\ \E n \in Best(j) \cup forced : Choose(j, n)

\* mesh-gpu cluster-reserve then names the node, at which nobody looks again; the answer
\* may not come.
ClusterReserve(j) ==
  /\ state[j] = "viewing"
  /\ (Become(j, "placed") /\ UNCHANGED on) \/ Leave(j)
  /\ UNCHANGED <<files, view, fresh>>

Aged(left) == IF left > 0 THEN left - 1 ELSE 0

Tick ==
  /\ files' = [n \in Nodes |-> {[r EXCEPT !.left = Aged(@)] : r \in files[n]}]
  /\ UNCHANGED <<state, on, view, fresh>>

-----------------------------------------------------------------------------

\* A job that runs without a reservation that still holds.
Unreserved(n) ==
  \E j \in Jobs : on[j] = n /\ state[j] = "running" /\ ~\E r \in Active(n) : r.job = j

\* A reservation is written that rests on nothing, or on what was true before another.
Races(j) == j \notin fresh /\ state[j] # "reserved" /\ state'[j] = "reserved"

Step ==
  \/ \E j \in Jobs :
       \/ Wait(j) \/ WaitPolls(j) \/ WaitTimesOut(j) \/ AutoReserve(j) \/ Claim(j)
       \/ StartJob(j) \/ EndJob(j) \/ Release(j)
       \/ Place(j) \/ GetGpuCluster(j) \/ ClusterReserve(j)
  \/ \E n \in Nodes : Heartbeat(n)
  \/ Tick

Next ==
  /\ Step
  /\ excused' = excused \cup {n \in Nodes : Unreserved(n)'}
                        \cup {on'[j] : j \in {i \in Jobs : Races(i)}}

\* Time passes, and a waiter polls.
Fairness ==
  /\ WF_vars(Tick /\ Next)
  /\ \A j \in Jobs : WF_vars(WaitPolls(j) /\ Next)

Spec == Init /\ [][Next]_vars /\ Fairness

-----------------------------------------------------------------------------

(* What the social contract is worth: as long as every workload on a node  *)
(* runs under a reservation that holds, and no reservation was written     *)
(* between another one and the poll or the heartbeat that it rests on, the *)
(* node's memory is not exceeded, whoever asked there or over the cluster. *)
WithinMemory ==
  \A n \in Nodes : n \notin excused => UsedGb(n) <= Total

(* "crashed workload not block the GPU indefinitely": when nothing runs    *)
(* any more, whoever waits for memory the GPU has gets it, whatever the    *)
(* dead left on disk.                                                      *)
RoomComesBack ==
  \A j \in Jobs :
    <>[](\A i \in Jobs : state[i] # "running") /\ Need[j] <= Total
      => [](state[j] = "waiting" => <>(state[j] # "waiting"))
=============================================================================
