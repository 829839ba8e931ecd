SPECIFICATION FairSpec
CONSTANTS
  a1 = a1
  x = x
  Accounts = {a1}
  Symbols = {x}
  Requests <- Trading
  Keys = {}
  NoKey = NoKey
  Prices = {2, 3}
  InitialCash = 12
  BuyRate = 1
  SellRate = 1
  RateUnit = 3
  Workers = {w1}
  Timetable <- CollectFirst
  MaxOrders = 3
  MaxRestarts = 1
INVARIANTS
  LedgerIsTheFills
  BooksBalance
PROPERTIES
  SnapshotAddsUp
  MarketOrdersAreMatched
