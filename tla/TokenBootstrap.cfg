SPECIFICATION FairSpec
CONSTANTS
  Procs = {p1, p2, p3}  Nobody = Nobody
  RetryCount = 2  MaxTokens = 2  MaxCrashes = 1  MaxLost = 1
INVARIANT OneRejectionEach
PROPERTY NeverTheDeadOne
PROPERTY OneLoginForAll
PROPERTY EveryCallReturns
