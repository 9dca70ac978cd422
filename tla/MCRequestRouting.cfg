\* Three concurrent requests, two nodes, a circuit that opens on the first failure.
\* The workload is finite: the system stops when every request is done.
SPECIFICATION Safety
CONSTANTS
  r1 = r1
  r2 = r2
  r3 = r3
  n1 = n1
  n2 = n2
  NoKey = NoKey
  Requests <- ThreeRequests
  Keys <- TwoNodes
  FailureThreshold = 1
  Cooldown = 1
  MaxBindings = 2
  MaxFallbackAttempts = 2
  MaxClock = 2
SYMMETRY Interchangeable
INVARIANTS CircuitsJustified FanOutBounded
PROPERTIES FailingNodeIsLeftAlone HandlersRunDown
CHECK_DEADLOCK FALSE
