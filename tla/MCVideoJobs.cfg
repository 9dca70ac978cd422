SPECIFICATION Safety
CONSTANTS
  h1 = h1
  h2 = h2
  w1 = w1
  w2 = w2
  j1 = j1
  j2 = j2
  j3 = j3
  NoJob = NoJob
  NoCaller = NoCaller
  Handlers <- TwoHandlers
  Loops <- OneLoop
  Callers <- MCCallers
  Jobs <- OneJob
  HungJobs <- None
  Backlog <- ForeignRow
  MaxRows = 3
  Ttl = 1
  Lease = 2
  Deadline = 1
  Batch = 2
  MaxClock = 2
SYMMETRY Interchangeable
INVARIANTS NoJobLost OneCleanupRowPerOwner DeleteIsExclusive
PROPERTIES VisibleRowSurvives AnswersAsPromised
