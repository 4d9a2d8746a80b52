CONSTANTS
  Quotes = {q1}
  Carriers = {c1, c2}
  PatchValues = {"DONE"}
  MaxStalledCount = 1
  MaxRemovals = 2
  MaxToggles = 1
  MaxFaults = 2
  MaxCrashes = 1
SPECIFICATION Spec
SYMMETRY Symmetry
INVARIANT OptionsBoundedByAttempts
INVARIANT CompletedMeansAnnounced
INVARIANT SingleFaultIsReported
INVARIANT RemovalsAudited
PROPERTY KeepsPromise
CHECK_DEADLOCK FALSE
