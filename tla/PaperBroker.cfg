SPECIFICATION BrokerSpec
CONSTANTS
  Ids = {"o1", "o2"}
  Configs <- BrokerConfigs
  QuotePrices <- BrokerPrices
  Limits = {95, 105}
  Quantities = {2, 3}
  Lot = 2
  MaxQty = 4
  Depth = 2
  SessionEnd = 1
  MaxTime = 2
  MaxTicks = 2
CHECK_DEADLOCK FALSE
INVARIANT FillsAreSound
PROPERTY OneAnswerPerId
