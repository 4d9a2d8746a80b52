CONSTANTS
  Calls = {c1, c2}
  Uses = {"page", "mfaWrong", "logout"}
  MaxPairs = 2
  MaxRefreshes = 1
SPECIFICATION FairSpec
PROPERTY EveryCallReturns
CHECK_DEADLOCK FALSE
