SPECIFICATION FairSpec
CONSTANTS
  MaxOrderAmount = 4
  MaxDailyOrderAmount = 4
  MaxDailyLossAmount = 2
  MaxRatioNum = 1
  MaxRatioDen = 2
  Candidates = {1, 2}
  NoProfile <- MCNoProfile
  Accounts = {"acc"}
  Profiles <- OneProfile
  Books <- ShutBooks
  Workers = {w1}
  Switches <- KillAndOn
  ExpireLimit = 1
  MaxRestarts = 1
  Deployments <- WithRowLocks
PROPERTIES
  RequestsFinish
  OverdueIsResolved
CHECK_DEADLOCK FALSE
