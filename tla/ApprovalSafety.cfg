SPECIFICATION SafetySpec
CONSTANTS
  MaxOrderAmount = 4
  MaxDailyOrderAmount = 4
  MaxDailyLossAmount = 2
  MaxRatioNum = 1
  MaxRatioDen = 2
  Candidates = {1, 2}
  NoProfile <- MCNoProfile
  Accounts = {"acc"}
  Profiles <- AllProfiles
  Books <- AllBooks
  Workers = {w1, w2}
  Switches <- AllSwitches
  ExpireLimit = 1
  MaxRestarts = 1
  Deployments <- AllDeployments
SYMMETRY WorkerSymmetry
INVARIANTS
  TypeOK
  OrderInvariant
  AuditExplainsStatus
  OneWriterKeepsTheLimits
PROPERTIES
  SettledIsFinal
  SwitchesFreezeTheWorkflow
  SerialImplementsLifecycle
CHECK_DEADLOCK FALSE
