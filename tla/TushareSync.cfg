SPECIFICATION SpecCatalogued
CONSTANTS
  Workers = {w1, w2}
  LastDay = 2
  Planned <- MonthAndDay
  RecentFrom = 2
  MaxTries = 2
  Turn = 2
  Catalog = Catalog
  Calendar = Calendar
  None = None
  MaxAttempts = 4
  MaxEdits = 1
  MaxRequests = 1
  MaxFaults = 1
CHECK_DEADLOCK FALSE
INVARIANTS
  QueueIsSound
  SplitLosesNothing
  NothingBlocks
PROPERTIES
  ResponsesAreKept
  NothingStaysRunning
