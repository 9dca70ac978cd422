\* Two requests to one node: what does a client error leave of a half-open circuit?
\* The workload is finite: the system stops when every request is done.
SPECIFICATION Safety
CONSTANTS
  r1 = r1
  r2 = r2
  r3 = r3
  n1 = n1
  n2 = n2
  NoKey = NoKey
  Requests <- TwoRequests
  Keys <- OneNode
  FailureThreshold = 1
  Cooldown = 1
  MaxBindings = 1
  MaxFallbackAttempts = 1
  MaxClock = 1
SYMMETRY Interchangeable
PROPERTIES ClientErrorDoesNotPenalize
CHECK_DEADLOCK FALSE
