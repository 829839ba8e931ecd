SPECIFICATION FairSpec
CONSTANTS
  a1 = a1
  x = x
  Accounts = {a1}
  Symbols = {x}
  Requests <- Trading
  Keys = {}
  NoKey = NoKey
  Prices = {2}
  InitialCash = 12
  BuyRate = 1
  SellRate = 1
  RateUnit = 3
  Workers = {w1}
  Timetable <- AsShipped
  MaxOrders = 1
  MaxRestarts = 1
PROPERTIES
  MarketOrdersAreMatched
