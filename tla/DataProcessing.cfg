SPECIFICATION FairSpec
CONSTANTS
  Workers = {w1}
  Operators = {o1}
  Requests = {r1, r2}
  Contents = {c1}
  Parameters = {m1}
  Revisions = {v1, v2}
  Running = v1
  None = None
  MaxCommands = 1
  MaxFaults = 1
CHECK_DEADLOCK FALSE
INVARIANTS LibraryIsSound OneProductPerMeaning BackupIsWhole
PROPERTIES AdmissionIsAnswered
