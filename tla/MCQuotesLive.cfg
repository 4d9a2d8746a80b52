CONSTANTS
  Quotes = {q1, q2}
  Carriers = {c1}
  PatchValues = {}
  MaxStalledCount = 1
  MaxRemovals = 0
  MaxToggles = 0
  MaxFaults = 1
  MaxCrashes = 1
SPECIFICATION FairSpec
PROPERTY EnqueuedJobConcludes
PROPERTY QuoteSettles
CHECK_DEADLOCK FALSE
