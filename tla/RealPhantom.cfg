SPECIFICATION Spec
CONSTANTS
  c1 = c1
  c2 = c2
  Candidates = {c1, c2}
  Approved = {c1, c2}
  Amount <- MCAmount
  Quantity = 2
  MaxRealOrderAmount = 2
  MaxRealDailyOrderAmount = 2
  Executors = {e1}
  Syncers = {s1}
  Switches <- OnlyLive
  FakeSync = TRUE
  Deployments <- OnlyOneByOne
  MaxOrders = 3
  MaxSyncs = 3
  MaxRestarts = 0
INVARIANTS
  FillsAreConfirmed
CHECK_DEADLOCK FALSE
