SPECIFICATION Spec
CONSTANTS
  Streams = {s1}
  Fills = {f1}
  Kinds = {"Login", "Trade"}
  ClockFaults = TRUE
  MaxEvents = 3
  MaxQueries = 2
  MaxCrashes = 0
  NoStream = NoStream
  NoFill = NoFill
INVARIANTS BookIsTrue
PROPERTY PositionsAreKept
