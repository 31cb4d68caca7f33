SPECIFICATION ListSpec
CONSTANTS
  MaxRow = 5
  MaxTime = 3
  Limit = 2
  NoCursor = NoCursor
INVARIANTS
  ListTypeOK
  SettledIsShown
  RepeatsOnlyAfterMove
