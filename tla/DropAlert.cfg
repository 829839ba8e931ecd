SPECIFICATION DDSpec
CONSTANTS
  Universe <- MCUniverse
  Unlisted = {}
  Holdings <- MCHoldings
  Situations <- MCSituations
  BarShapes <- MCBarShapes
  Horizons = {1}
  Reach = 1
  Memory = 1
  TopN = 1
  MaxDay = 2
  MaxChecks = 3
  MaxPicks = 0
  MaxReviews = 0
INVARIANT DropsAreFlagged
CHECK_DEADLOCK FALSE
