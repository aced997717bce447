SPECIFICATION FairSpec
CONSTANTS
  Inputs = {"a", "b", "c", "e"}
  Receipt <- MCReceipt
  Rows <- MCRows
  Slots = {0, 1}
  Callers = {c1, c2}
  Keys = {q1}
  None = None
  MaxRevisions = 3
  MaxClock = 1
  MaxRuns = 3
CHECK_DEADLOCK FALSE
INVARIANTS EvidenceIsSound SnapshotsAreAsEvaluated

PROPERTIES SeriesIsKept CallsEnd
