SPECIFICATION MCSpec
CONSTANTS
  Users = {"u1"}
  Strangers = {"s1"}
  Clients = {"i1"}
  Requesters = {t1}
  MaxFailures = 2
  FailureWindow = 1
  Lockout = 2
  TokenLife = 2
  Auths <- MCAuths
  MaxTime = 2
  MaxLoginRestarts = 0
  MaxTokens = 1
PROPERTY AttemptsAreRecorded
CHECK_DEADLOCK FALSE
