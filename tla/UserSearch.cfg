SPECIFICATION SearchSpec
CONSTANTS
  MaxUser = 4
  MaxProfile = 3
  Limit = 2
  NoCursor = NoCursor
INVARIANTS
  NobodySkipped
  NobodyTwice
