\* Two requests, two nodes that compete for a table of one.  Handlers
\* that have started go on.  No symmetry: it is not sound for a liveness property.
\* The workload is finite: the system stops when every request is done.
SPECIFICATION Spec
CONSTANTS
  r1 = r1
  r2 = r2
  r3 = r3
  n1 = n1
  n2 = n2
  NoKey = NoKey
  Requests <- TwoRequests
  Keys <- TwoNodes
  FailureThreshold = 2
  Cooldown = 1
  MaxBindings = 1
  MaxFallbackAttempts = 1
  MaxClock = 2
INVARIANTS TableBounded
PROPERTIES RequestsFinish
CHECK_DEADLOCK FALSE
