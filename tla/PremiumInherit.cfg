SPECIFICATION Spec
CONSTANTS
  ce = ce
  pe = pe
  Contracts <- ExitContracts
  Prices <- ExitPrices
  Interval = 2
  ActivationPct = 4
  TrailPct = 8
  MaxTime = 6
  MaxTrades = 2
  MaxStarts = 2
SYMMETRY LegsAreAlike
CHECK_DEADLOCK FALSE
INVARIANT TradeStartsClean
