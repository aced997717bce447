SPECIFICATION Spec
CONSTANTS
  Tasks = {t1}
  Attempts = {a1, a2}
  Total = 1
  Cpus = 2
  MaxCrashes = 0
  None = None
PROPERTIES
  AttemptsAreFenced
