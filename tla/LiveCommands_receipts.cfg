SPECIFICATION FairSpec
CONSTANTS
  Ids = {c1}
  Inputs = {i1, i2}
  None = None
  Calls = {k1, k2}
  Skews <- SkewSet
  Life = 1
  Window = 2
  MaxClock = 2
  MaxRuntimes = 2
  StorageFails = TRUE
CHECK_DEADLOCK FALSE
INVARIANTS
  AnswersAreTrue
  NothingWaits
PROPERTIES
  Contract
  NeverRetargeted
  ReceiptsSettle
