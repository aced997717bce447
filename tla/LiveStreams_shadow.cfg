SPECIFICATION FairSpec
CONSTANTS
  Streams = {s1}
  Fills = {}
  Kinds = {"Login", "Depth", "Foreign"}
  ClockFaults = FALSE
  MaxEvents = 2
  MaxQueries = 2
  MaxCrashes = 1
  NoStream = NoStream
  NoFill = NoFill
INVARIANTS ShadowIsClean NothingSticks
PROPERTIES OneSessionEach AccountIsReleased
