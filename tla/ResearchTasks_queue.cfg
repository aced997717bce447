SPECIFICATION FairOrderedSpec
CONSTANTS
  Tasks = {1}
  Attempts = {1, 2, 3}
  Total = 1
  Cpus = 2
  MaxCrashes = 1
  None = None
INVARIANTS
  TasksAreSound
  ProcessesKeepApart
PROPERTIES
  KeepsContract
  TasksGoOn
