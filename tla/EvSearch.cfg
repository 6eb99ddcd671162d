SPECIFICATION SearchSpec
CONSTANTS
  Files <- MCFiles
  B = 8
  Buflens = {6, 100}
  MaxNum = 5
  MaxSearches = 2
INVARIANTS
  FoundIsNative
  NotFoundIsAbsent
PROPERTY
  SearchReturns
