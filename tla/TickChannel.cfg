SPECIFICATION FairSpec
CONSTANTS
  MaxDepth = 3  DropNoticeEvery = 6  MaxTicks = 7
  Notice = Notice  Sentinel = Sentinel  Nothing = Nothing
CHECK_DEADLOCK FALSE
INVARIANT ChannelIsSound
PROPERTY DropsAreReported
