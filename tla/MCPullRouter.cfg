\* One node with a backend of any kind and one router; three nodes to select from.
SPECIFICATION OfferSpec
CONSTANTS
  Kinds = {"process", "ollama", "external", "null"}
  HeartbeatEvery = 1
  MaxBuild = 0
  MaxFailedBeats = 1
  RefreshEvery = 1
  Retain = 2
  MaxPass = 1
  MaxRaised = 1
  Horizon = 12
  Reports <- FourBeats
  Profiles <- ThreeProfiles
  Scores <- Low
  Requests <- SixRequests
  Prefs <- FourPrefs
  Ceilings <- TwoCeilings
INVARIANTS TypeOK RoutedIsRecent ChainWithinCeilings BestServes
PROPERTIES MissedOnceKept ReturnsToRouter
