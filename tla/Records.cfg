CONSTANTS
  Sources <- ThreeSources
  Digests = {"d1", "d2"}
  NoDigest = none
  Rules <- OneRule
  DependsOn <- RuleSources
  CitedSource <- RuleCites
  Cases <- NoCases
  CaseRules <- NoCaseRules
  Texts = {"a", "b", "c"}
  FirstText = "a"
  People = {p1, p2}
  NoOne = nobody
  Roles = {"reader", "council"}
  RoleLevel <- LevelOf
  MaxAge = 1
  CoiAge = 1
  FirstDay = 1
  LastDay = 15
  Horizon = 420
  ReviewDays = 3
  MaxEdits = 3
  Schedules <- ThreeSchedules
  Pages = {"p"}
  MaxInterval = 31
  Unreadable = Unreadable
  Absent = Absent
  Spans = {0, 8, 9, 32}
  MaxRenewals = 2
  Facts <- ThreeFacts
  FactSource <- SourceOfFact
  NoSource = "none"
  Applicability <- Applies
  Requirements <- TwoItems
  Bound <- BoundSources
  Matching = {"a", "b"}
  RouteTexts = {"a"}
  JourneyDays = 3
  MaxChanges = 2
  BoundDocs = {"adr"}
  EvidenceDocs = {"runbook"}
  Exported = {"rules", "docs"}
  SnapshotLock = "lock"
  Places <- TwoPlaces
  Tampered <- ThreeParts
  GateDays = 2
  MaxGateEdits = 2
  CompletenessDays = 3
  DecisionDays = 4
  Received = {0, 1, 2, 3, 4, 5, 6}
  Closures <- Calendars
SPECIFICATION RecordsSpec
INVARIANTS
  LevelIsEarned
  LapseAnnounced
  ReadyMeansReevaluates
  FindingsSurviveAnswers
  ReviewedCopyWasRead
  NoFavorableSummary
  RefusalLeavesTree
  CleanMeansDerived
  AgencyHasItsDays
CHECK_DEADLOCK FALSE
