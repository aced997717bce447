SPECIFICATION SpecWorkbench
CONSTANTS
  Clicks = {c1, c2, c3}
  Instances = {i1, i2}
  None = None
  First = i1
  LiveClicks = {c1}
  Replaceable = {i1}
  MaxEpoch = 1
  MaxReloads = 1
  MaxEditions = 1
  MaxGenerations = 1
  MaxKernels = 1
  Filters = {f1, f2}
  Pages = 2
  Chunks = 2
  MaxPublished = 2
  MaxLoads = 3
CHECK_DEADLOCK FALSE
INVARIANTS PagesAreTrue LockIsTrue ToldIsTrue OneEffectPerContents
PROPERTY PageIsFollowed
