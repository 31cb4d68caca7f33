SPECIFICATION HistorySpec
CONSTANTS
  MaxMessage = 5
  MaxTime = 4
  MaxInserts = 2
  Limit = 2
  NoOffset = NoOffset
INVARIANTS
  HistoryTypeOK
  NothingSkipped
  NoRepeats
PROPERTY PagingEnds
