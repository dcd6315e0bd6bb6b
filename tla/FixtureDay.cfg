SPECIFICATION FixtureSpec
CONSTANTS
  Interval = 2  WindowStart = 1  WindowEnd = 7
  Depth = 2  Sentinel = Sentinel
  MaxDelay = 1  LastTime = 6
  SessionStart = 0  EntryEnd = 5  SquareOffAt = 6
  EntryOn = 1  ExitOn = 2
  Fills = {0, 1}
  MaxStarts = 3
CHECK_DEADLOCK FALSE
INVARIANT CandlesAreSound
INVARIANT HonestDayIsFlat
PROPERTY DayIsKept
