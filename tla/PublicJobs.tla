------------------------------ MODULE PublicJobs ------------------------------
(***************************************************************************)
(* What mesh/job_store.py is to the clients of video jobs: a public id     *)
(* answers for one job from the moment it is given out until its time is   *)
(* up, or until it is deleted, which takes the owner node's word that the  *)
(* job is gone; and it never answers again.  There are no claims, no       *)
(* cleanup rows and no routers.                                            *)
(***************************************************************************)
EXTENDS Naturals

CONSTANTS
  Ids,   \* public ids
  Jobs,  \* upstream job ids
  Ttl    \* how long an id answers

VARIABLES
  shown,  \* the ids that answer: for which job, and until when
  used,   \* the ids that ever did, or that the router keeps for itself
  gone,   \* the jobs that are no more on their owner
  now

vars == <<shown, used, gone, now>>

Init ==
  /\ shown = [id \in {} |-> {}]
  /\ used \in SUBSET Ids
  /\ gone = {}
  /\ now = 0

Publish(id, job) ==
  /\ id \notin used
  /\ used' = used \cup {id}
  /\ shown' = [x \in DOMAIN shown \cup {id} |->
       IF x = id THEN [job |-> job, until |-> now + Ttl] ELSE shown[x]]
  /\ UNCHANGED <<gone, now>>

\* An id for a job that clients shall not see.
Withhold(id) ==
  /\ id \notin used
  /\ used' = used \cup {id}
  /\ UNCHANGED <<shown, gone, now>>

End(job) ==
  /\ gone' = gone \cup {job}
  /\ UNCHANGED <<shown, used, now>>

Withdraw(id) ==
  /\ shown[id].job \in gone
  /\ shown' = [x \in DOMAIN shown \ {id} |-> shown[x]]
  /\ UNCHANGED <<used, gone, now>>

Pass ==
  /\ now' = now + 1
  /\ shown' = [x \in {id \in DOMAIN shown : shown[id].until > now'} |-> shown[x]]
  /\ UNCHANGED <<used, gone>>

Next ==
  \/ \E id \in Ids, job \in Jobs : Publish(id, job)
  \/ \E id \in Ids : Withhold(id)
  \/ \E job \in Jobs : End(job)
  \/ \E id \in DOMAIN shown : Withdraw(id)
  \/ Pass

Spec == Init /\ [][Next]_vars
=============================================================================
