----------------------------- MODULE ServeNode ------------------------------
(***************************************************************************)
(* A serving node of the pull topology: a backend of mesh/backends.py, the *)
(* daemon of mesh/serve.py that starts it, asks it whether it is alive and *)
(* posts heartbeats, and the node-info app of mesh/node_server.py, which   *)
(* shows the last heartbeat to whoever asks.  One backend is modelled: a   *)
(* heartbeat asks each one by itself.                                      *)
(*                                                                         *)
(* Time passes in ticks; PullRouter says when.                             *)
(***************************************************************************)
EXTENDS Integers

CONSTANTS
  Kinds,           \* the kinds of backend build_backend may pick
  HeartbeatEvery,  \* heartbeat_interval_s
  MaxBuild,        \* bound: ticks a heartbeat takes from asking to posting
  MaxFailedBeats   \* bound: heartbeats that fail in a row

ASSUME NodeAssumption ==
  /\ Kinds \subseteq {"process", "ollama", "external", "null"}
  /\ HeartbeatEvery \in Nat \ {0}
  /\ MaxBuild \in Nat /\ MaxFailedBeats \in Nat

VARIABLES
  kind,     \* of this node's backend
  own,      \* the process mesh spawned: "none", "loading", "serving" or "exited"
  other,    \* a process mesh did not spawn, or spawned in an earlier life, has the port
  adopted,  \* the pid found on the port at start: "none", "live" or "gone"
  started,  \* _started, _running
  failed,   \* start raised
  phase,    \* "off", "starting", "up", "stopping"
  beat,     \* what the heartbeat being built says: "none", "loaded" or "empty"
  posted,   \* what the registry's latest heartbeat says: "none", "loaded" or "empty"
  waited,   \* ticks since the heartbeat loop last finished or began one
  failedBeats

node == <<kind, own, other, adopted, started, failed, phase, beat, posted, waited, failedBeats>>

\* is_alive, of each kind.  vLLM, llama.cpp and MLX are of the kind "process".
ProcessAlive ==
  \/ own \in {"loading", "serving"}
  \/ own = "none" /\ adopted = "live"
  \/ own = "none" /\ adopted = "none" /\ other

OllamaAlive == started /\ other

Alive ==
  CASE kind = "process" -> ProcessAlive
    [] kind = "ollama" -> OllamaAlive
    [] kind = "external" -> other
    [] kind = "null" -> started

NodeInit ==
  /\ kind \in Kinds
  /\ own = "none" /\ other \in BOOLEAN /\ adopted = "none"
  /\ started = FALSE /\ failed = FALSE
  /\ phase = "off"
  /\ beat = "none" /\ posted = "none"
  /\ waited = 0 /\ failedBeats = 0

-----------------------------------------------------------------------------
(* Processes, as they come and go by themselves.                           *)

OwnLoads ==
  /\ own = "loading" /\ ~other
  /\ own' = "serving"
  /\ UNCHANGED <<kind, other, adopted, started, failed, phase, beat, posted, waited, failedBeats>>

OwnExits ==
  /\ own \in {"loading", "serving"}
  /\ own' = "exited"
  /\ UNCHANGED <<kind, other, adopted, started, failed, phase, beat, posted, waited, failedBeats>>

OtherComes ==
  /\ kind # "null" /\ ~other /\ own # "serving"
  /\ other' = TRUE
  /\ UNCHANGED <<kind, own, adopted, started, failed, phase, beat, posted, waited, failedBeats>>

OtherGoes ==
  /\ other
  /\ other' = FALSE
  /\ adopted' = IF adopted = "live" THEN "gone" ELSE adopted
  /\ UNCHANGED <<kind, own, started, failed, phase, beat, posted, waited, failedBeats>>

-----------------------------------------------------------------------------
(* The daemon.  start of the backend: a busy port is adopted if ss shows   *)
(* whose it is, and refused if not; a free one gets a process, unless the  *)
(* binary is missing.                                                      *)

\* Mutant: adopting does not return early.
LaunchesAfterAdopting(result) ==
  /\ phase = "off"
  /\ phase' = "starting"
  /\ own' = IF result \in {"spawned", "adopted"} THEN "loading" ELSE "none"
  /\ adopted' = IF result = "adopted" THEN "live" ELSE "none"
  /\ started' = (result = "running")
  /\ failed' = (result = "raised")
  /\ UNCHANGED <<kind, other, beat, posted, waited, failedBeats>>

Launches(result) ==
  /\ phase = "off"
  /\ phase' = "starting"
  /\ own' = IF result = "spawned" THEN "loading" ELSE "none"
  /\ adopted' = IF result = "adopted" THEN "live" ELSE "none"
  /\ started' = (result = "running")
  /\ failed' = (result = "raised")
  /\ UNCHANGED <<kind, other, beat, posted, waited, failedBeats>>

ProcessResults == IF other THEN {"adopted", "raised"} ELSE {"spawned", "raised"}

StartProcess == kind = "process" /\ \E result \in ProcessResults : Launches(result)

StartOllama == kind = "ollama" /\ Launches(IF other THEN "running" ELSE "raised")

StartExternal == kind = "external" /\ Launches("nothing")

\* What build_backend falls back to when the card lacks the field its backend needs.
StartNull == kind = "null" /\ Launches("running")

\* wait_ready ends when the backend answers, is not alive, or after ready_timeout: the
\* node goes up in any case.
GoUp ==
  /\ phase = "starting"
  /\ phase' = "up"
  /\ waited' = HeartbeatEvery
  /\ UNCHANGED <<kind, own, other, adopted, started, failed, beat, posted, failedBeats>>

\* heartbeat asks is_alive, then for the utilization.
BeatReads ==
  /\ phase = "up" /\ beat = "none" /\ waited = HeartbeatEvery
  /\ beat' = IF Alive THEN "loaded" ELSE "empty"
  /\ waited' = 0
  /\ UNCHANGED <<kind, own, other, adopted, started, failed, phase, posted, failedBeats>>

BeatPosts ==
  /\ beat # "none" /\ phase = "up"
  /\ posted' = beat
  /\ beat' = "none"
  /\ waited' = 0
  /\ failedBeats' = 0
  /\ UNCHANGED <<kind, own, other, adopted, started, failed, phase>>

BeatFails ==
  /\ beat # "none" /\ phase = "up"
  /\ failedBeats < MaxFailedBeats
  /\ failedBeats' = failedBeats + 1
  /\ beat' = "none"
  /\ waited' = 0
  /\ UNCHANGED <<kind, own, other, adopted, started, failed, phase, posted>>

\* uvicorn has returned: the app answers no more, and the daemon stops.
StopBegins ==
  /\ phase = "up"
  /\ phase' = "stopping"
  /\ beat' = "none"
  /\ UNCHANGED <<kind, own, other, adopted, started, failed, posted, waited, failedBeats>>

Forgotten ==
  /\ phase' = "off"
  /\ own' = "none" /\ adopted' = "none" /\ started' = FALSE /\ failed' = FALSE
  /\ beat' = "none" /\ posted' = "none"
  /\ waited' = 0 /\ failedBeats' = 0
  /\ UNCHANGED kind

\* stop: its own process is killed, any other left alone; the registry goes with the daemon.
StopEnds ==
  /\ phase = "stopping"
  /\ Forgotten
  /\ UNCHANGED other

\* The daemon is killed.  A process it spawned has a session of its own and lives on.
Crash ==
  /\ phase # "off"
  /\ Forgotten
  /\ other' = (other \/ own = "serving")

Process == OwnLoads \/ OwnExits \/ OtherComes \/ OtherGoes

Start == StartProcess \/ StartOllama \/ StartExternal \/ StartNull

Beat == BeatReads \/ BeatPosts \/ BeatFails

NodeNext == Process \/ Start \/ GoUp \/ Beat \/ StopBegins \/ StopEnds \/ Crash

\* GET /models: the specialist is listed with a URL.
Advertised == phase = "up" /\ posted = "loaded"

\* The heartbeat loop has nothing to wait for any more.
BeatDue ==
  /\ phase = "up"
  /\ waited = IF beat = "none" THEN HeartbeatEvery ELSE MaxBuild

NodeTypeOK ==
  /\ kind \in Kinds
  /\ own \in {"none", "loading", "serving", "exited"}
  /\ other \in BOOLEAN
  /\ adopted \in {"none", "live", "gone"}
  /\ started \in BOOLEAN /\ failed \in BOOLEAN
  /\ phase \in {"off", "starting", "up", "stopping"}
  /\ beat \in {"none", "loaded", "empty"} /\ posted \in {"none", "loaded", "empty"}
  /\ waited \in Nat
  /\ phase = "up" => waited <= IF beat = "none" THEN HeartbeatEvery ELSE MaxBuild
  /\ failedBeats \in 0..MaxFailedBeats
=============================================================================
