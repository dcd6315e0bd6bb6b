SPECIFICATION FairSpec
CONSTANTS
  Workers = {w1, w2}  Contracts = {c1}  Segments = {s1, s2}
  NoSegment = NoSegment  NoRequest = NoRequest  MaxAttempts = 2
CHECK_DEADLOCK FALSE
INVARIANT RoutedIsCarried
INVARIANT RecoveredFeedHasItsBudget
PROPERTY GroupStops
PROPERTY RequestIsServed
