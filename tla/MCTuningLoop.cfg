\* Two experiments, one of them gated on idleness, and a generator; two recording threads;
\* three prompts for the node; four to evaluate on; one cluster over three windows; eight
\* rows to curate.
SPECIFICATION TuningSpec
CONSTANTS
  a = a
  b = b
  g1 = g1
  d1 = d1
  j1 = j1
  j2 = j2
  None = None
  Experiments <- MCExperiments
  Trains <- MCTrains
  Priority <- MCPriority
  Generators <- MCGenerators
  Checkpoints <- MCCheckpoints
  Base <- MCBase
  Domains <- MCDomains
  Judges <- MCJudges
  MeanScoreDelta = 5
  MaxRegression = 15
  MinNEval = 1
  RequireJudgeMatch = TRUE
  Window = 2
  MinPairs = 2
  Threshold = 2
  MaxRestarts = 1
  MaxRollbacks = 1
  Threads = {t1, t2}
  Verdicts = {accept, reject}
  Nobody = Nobody
  MaxRows = 3
  MaxCrashes = 2
  Prompts = {p, q, r}
  Topics = {c1, c2}
  MaxSize = 2
  TrainedDomain = c1
  NExamples = 1
  StepsPlanned = 2
  MaxCaptures = 3
  Corpus <- FourPrompts
  DomainOf <- OneDomain
  Share <- ThreeOfIt
  Configs <- MCConfigs
  Defaults <- MCDefaults
  ScoreFor <- MCScoreFor
  EvalJudges <- MCEvalJudges
  NoConfig = NoConfig
  MaxSamples = 1
  MaxWithdrawn = 1
  Clusters = {k}
  Centroids = {1, 2, 3}
  Missing = Missing
  Close <- NextTo
  MinStable = 3
  Batches <- MCBatches
  Generations <- FourGenerations
  NotFinite = 11
  NoEmbedding = 9
  Distance <- MCDistance
  NearDuplicates <- OneNearPair
  HoldoutPercent = 40
  MinHoldout = 1
  MaxHoldout = 3
  MinTrain = 1
  NBands = 3
INVARIANTS TypeOK QueuedOnce ChampionEarned ChainIntact CheckpointTruthful ExamSound
PROPERTIES PendingIsRun ConfigEarned IgnitedSettled
CHECK_DEADLOCK FALSE
