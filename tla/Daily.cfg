SPECIFICATION MCSpec
CONSTANTS
  Members = {"A"}
  Held = {"A"}
  Pool = {p1}
  Shell = {o1}
  Timetable <- MCTimetable
  Telegrams = {"on", "off"}
  RiskLevels = {"HIGH_RISK", "NONE"}
  HandRun = {"pre_market"}
  ListLimit = 2
  LastDay = 2
  MaxRuns = 2
  MaxFaults = 1
  RankLists <- MCRankLists
  BarLists <- MCBarLists
  Lifetimes = {1, 3}
  Injected = FALSE
  Margin = 2
  Flight = 1
  MaxClock = 3
  MaxCollections = 3
  Universe <- MCUniverse
  Unlisted = {"C"}
  Holdings <- MCHoldings
  Situations <- MCSituations
  BarShapes <- MCBarShapes
  Horizons = {1, 2}
  Reach = 1
  Memory = 2
  TopN = 1
  MaxDay = 3
  MaxChecks = 3
  MaxPicks = 2
  MaxReviews = 2
  Main = 1
  Regimes = {"UPTREND_EARLY"}
  Strategies <- MCStrategies
  Trains = {1}
  Validates = {1, 2}
  Gaps = {0, 1}
  MaxBacktests = 1
  NewsRows <- MCNewsRows
  Snapshots <- MCSnapshots
  Events <- MCEvents
  Consensuses <- MCConsensuses
  Signals <- MCSignals
  Sources = {"CSV", "FAKE"}
  NewsSpan = 15
  MaxNews = 2
  MaxDays = 8
  Spans = {4}
  Files <- MCFiles
  ConsensusWindow = 1
  MaxImports = 2
  MaxImportDate = 3
INVARIANTS
  DailyTypeOK
  RunsTellWhatWasDone
  AlertsRepeatOnlyPastTheList
  LossesAreAccounted
  HorizonsAgree
  BacktestsAddUp
  ImportsAreWhole
PROPERTIES
  CallsEnd
  CollectionsAreWhole
  DecisionsAreReproducible
  FailuresAreFinal
  BetterSnapshotsNeverHurt
CHECK_DEADLOCK FALSE
