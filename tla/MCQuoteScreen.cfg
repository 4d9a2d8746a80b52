CONSTANTS
  Quotes = {q1}
  Carriers = {c1}
  PatchValues = {}
  MaxStalledCount = 1
  MaxRemovals = 0
  MaxToggles = 0
  MaxFaults = 1
  MaxCrashes = 1
  Mine = q1
  AuthMayFail = TRUE
SPECIFICATION ScreenSpec
INVARIANT ScreenTypeOK
INVARIANT ShownResultIsReal
PROPERTY PageSettles
CHECK_DEADLOCK FALSE
