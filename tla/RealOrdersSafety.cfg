SPECIFICATION SafetySpec
CONSTANTS
  c1 = c1
  c2 = c2
  Candidates = {c1, c2}
  Approved = {c1, c2}
  Amount <- MCAmount
  Quantity = 2
  MaxRealOrderAmount = 2
  MaxRealDailyOrderAmount = 2
  Executors = {e1, e2}
  Syncers = {s1}
  Switches <- AnySwitches
  FakeSync = FALSE
  Deployments <- AnyDeployment
  MaxOrders = 2
  MaxSyncs = 2
  MaxRestarts = 1
SYMMETRY RaceSymmetry
INVARIANTS
  RowsAreBacked
  AttemptsAreOnTheBooks
  SerialCallersKeepTheRules
PROPERTIES
  SerialImplementsLifecycle
CHECK_DEADLOCK FALSE
