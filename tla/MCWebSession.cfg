CONSTANTS
  Calls = {c1, c2}
  Uses = {"page", "mfa", "logout"}
  MaxPairs = 3
  MaxRefreshes = 2
SPECIFICATION Spec
INVARIANT NoStaleRefresh
INVARIANT OneValidPerLogin
PROPERTY KeepsRotation
CONSTRAINT Unspoiled
SYMMETRY Symmetry
CHECK_DEADLOCK FALSE
