CONSTANTS
  Quotes = {q1}
  Carriers = {c1}
  PatchValues = {}
  MaxStalledCount = 1
  MaxRemovals = 0
  MaxToggles = 0
  MaxFaults = 0
  MaxCrashes = 0
  Mine = q1
  AuthMayFail = FALSE
SPECIFICATION ScreenSpec
PROPERTY ScreenNeverStuck
CHECK_DEADLOCK FALSE
