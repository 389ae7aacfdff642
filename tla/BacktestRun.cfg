SPECIFICATION Spec
CONSTANTS
  b1 = b1
  b2 = b2
  q = q
  Bases = {b1, b2}
  Quote = q
  Deposits <- MCDeposits
  Prices = {1, 2}
  Quantities = {3}
  NumEvents = 2
  CommissionPart = 2
  MaxOrders = 2
  MaxRequests = 2
INVARIANTS
  OrdersAccounted
  BalancesMatchTrades
  UsedPredictionsReported
PROPERTIES
  BacktestEnds
CHECK_DEADLOCK FALSE
