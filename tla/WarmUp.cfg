SPECIFICATION WarmUpSpec
CONSTANTS
  Interval = 2  DayLength = 12
  SessionStart = 1  EntryEnd = 7  SquareOffAt = 8
  TradingDays <- MCTradingDays  Today = 3
  Boots = {0, 3, 10}
  IndicatorSets <- MCIndicatorSets
  NoneNeeded = NoneNeeded  Raises = Raises
  NoSpec = NoneNeeded  RaisingSpec = Raises
  MaxLookback = 2  MaxAttempts = 2
  Slow = 2  Confirm = 2
CHECK_DEADLOCK FALSE
INVARIANT WarmUpIsSound
INVARIANT FedBarsHaveNoHole
PROPERTY SignalsAreFresh
