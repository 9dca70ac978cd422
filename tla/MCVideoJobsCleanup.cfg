\* One job whose owner never answers, and one whose owner does, in the queue of one
\* loop, with time for two calls within a lease.
\* No symmetry: it is not sound for a liveness property.
SPECIFICATION Spec
CONSTANTS
  h1 = h1
  h2 = h2
  w1 = w1
  w2 = w2
  j1 = j1
  j2 = j2
  j3 = j3
  NoJob = NoJob
  NoCaller = NoCaller
  Handlers <- OneHandler
  Loops <- OneLoop
  Callers <- MCCallers
  Jobs <- TwoJobs
  HungJobs <- OneJob
  Backlog <- Nothing
  MaxRows = 2
  Ttl = 1
  Lease = 2
  Deadline = 1
  Batch = 1
  MaxClock = 2
PROPERTIES CleanupReachesOwner
