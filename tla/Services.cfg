SPECIFICATION MCSpec
SYMMETRY Symmetry
CONSTANTS
  a1 = a1
  a2 = a2
  Accounts = {a1, a2}
  Symbols = {"x"}
  Requests <- MCRequests
  Keys = {k1}
  NoKey = NoKey
  Prices = {2, 3}
  InitialCash = 7
  BuyRate = 1
  SellRate = 1
  RateUnit = 3
  Workers = {t1, t2}
  Timetable <- MCTimetable
  MaxOrders = 2
  MaxRestarts = 1
  n1 = n1
  Users = {"u1"}
  Strangers = {}
  Clients = {"i1"}
  Requesters = {t1, t2}
  MaxFailures = 2
  FailureWindow = 1
  Lockout = 2
  TokenLife = 2
  Auths <- MCAuths
  MaxTime = 3
  MaxLoginRestarts = 1
  MaxTokens = 1
  Owners = {v1, v2}
  Names = {n1, n2}
  Stocks = {"s"}
  Memos = {"-"}
  Sessions = {t1, t2}
  Backends = {"postgres", "sqlite"}
  MaxListId = 2
  Targets <- MCTargets
  Outages = {"timeout", "http 4xx"}
  Listings <- MCListings
  Statements <- MCStatements
  Ops = {"disclosures", "news", "earnings", "fundamentals"}
  Limits = {1, 3}
  Cutoffs = {0, 1}
  Threshold = 2
  ResetTimeout = 2
  MaxAttempts = 2
  CallCap = 3
  FailCap = 2
  MaxNow = 2
  MaxCalls = 3
  Ordered = 2
  PlaceRetries = 0
  QueryRetries = 2
  CancelRetries = 2
  MaxWireOrders = 2
  MaxWireCalls = 4
INVARIANTS
  ServicesTypeOK
  FillsMatchOrders
  GuardHolds
  AccessEndsWithTheToken
  ReferencesHold
  HealthFollowsTheCalls
  NoOrderIsDoubled
  DefiniteAnswersAreTrue
PROPERTIES
  SettledOrdersStay
  WatchlistsAreKept
  IngestionKeepsWhatItGot
CHECK_DEADLOCK FALSE
