CONSTANTS
  Quotes = {q1}
  Carriers = {c1}
  PatchValues = {}
  MaxStalledCount = 1
  MaxRemovals = 0
  MaxToggles = 0
  MaxFaults = 0
  MaxCrashes = 1
SPECIFICATION Spec
INVARIANT NoDuplicateOptions
CHECK_DEADLOCK FALSE
