SPECIFICATION FairSpec
CONSTANTS
  CE = CE  PE = PE  NoContract = NoContract
  Contracts <- MCContracts
  OptionType <- MCOptionType
  Sides <- MCBuysAndWrites
  LotSize = 2  Lots = 1
  Partials <- MCNone
  StoreFaults = TRUE
  LiveDay = TRUE
  SessionStart = 1  EntryEnd = 2  SquareOffAt = 3  LastTime = 3
  MaxStarts = 3
CHECK_DEADLOCK FALSE
INVARIANT BookMatchesStore
PROPERTY CompletionAfterFlat
PROPERTY EntriesOnlyWhenAllowed
PROPERTY RefinesLedger
PROPERTY SquareOffEndsTheDay
PROPERTY RequestEndsTheRun
