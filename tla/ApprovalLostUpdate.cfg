SPECIFICATION Spec
CONSTANTS
  MaxOrderAmount = 4
  MaxDailyOrderAmount = 4
  MaxDailyLossAmount = 2
  MaxRatioNum = 1
  MaxRatioDen = 2
  Candidates = {1}
  NoProfile <- MCNoProfile
  Accounts = {"acc"}
  Profiles <- OneProfile
  Books <- OneBook
  Workers = {w1, w2}
  Switches <- KillAndOn
  ExpireLimit = 1
  MaxRestarts = 1
  Deployments <- WithRowLocks
PROPERTIES
  TerminalStatesRefuse
CHECK_DEADLOCK FALSE
