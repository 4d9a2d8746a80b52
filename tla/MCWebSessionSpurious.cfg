CONSTANTS
  Calls = {c1}
  Uses = {"page", "mfa"}
  MaxPairs = 2
  MaxRefreshes = 2
SPECIFICATION Spec
INVARIANT NoSpuriousLogout
CHECK_DEADLOCK FALSE
