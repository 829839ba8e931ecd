SPECIFICATION Spec
CONSTANTS
  MaxOrderAmount = 4
  MaxDailyOrderAmount = 4
  MaxDailyLossAmount = 2
  MaxRatioNum = 1
  MaxRatioDen = 2
  Candidates = {1}
  NoProfile <- MCNoProfile
  Accounts = {"acc"}
  Profiles <- OneProfile
  Books <- AllBooks
  Workers = {w1, w2}
  Switches <- AllSwitches
  ExpireLimit = 1
  MaxRestarts = 2
  Deployments <- WithRowLocks
PROPERTIES
  RecheckFailureIsRecorded
CHECK_DEADLOCK FALSE
