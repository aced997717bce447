SPECIFICATION Spec
SYMMETRY Symmetry
CONSTANTS
  Streams = {s1, s2}
  Fills = {f1}
  Kinds = {"Trade"}
  ClockFaults = FALSE
  MaxEvents = 2
  MaxQueries = 2
  MaxCrashes = 0
  NoStream = NoStream
  NoFill = NoFill
INVARIANTS AccountHasOneUser BookIsChronological
