SPECIFICATION RSpec
CONSTANTS
  C1 = C1  C2 = C2  NoContract = NoContract
  Contracts <- MCContracts
  Sides <- MCBuysAndWrites
  Quantity = 2
  Splits <- MCHalves
  Prices <- MCPrices
  Marks <- MCMarks
  LegCharges = 1
  Times <- MCOneTime
  MaxOrders = 4  MaxStarts = 2
  MaxLoss = 4  ProfitTarget = 3  MaxTrades = 2  KillSwitch = FALSE
CHECK_DEADLOCK FALSE
INVARIANT RowsAreSound
INVARIANT RealisedIsCash
INVARIANT BookAgreesWithRows
INVARIANT GuardIsSound
PROPERTY NeverSuppressesItself
