SPECIFICATION KeysFairSpec
CONSTANTS
  Logins = {l1, l2}
  Ips = {i1}
  Emails = {e1, e2}
  MaxAttempts = 2
  MaxLoginFaults = 1
  SignUps = {s1, s2, s3}
  Slugs = {k1}
  Identities = {a1}
  Exchanges = {x1, x2}
  Loads = {d1, d2}
  Tables = {quotes, carriers}
  MaxChanges = 1
  MaxRotations = 1
  MaxDashboardFaults = 1
INVARIANTS
  GuessesBounded
  OneTenantPerKey
  ExchangedCodeIsSpent
PROPERTIES
  LockEnds
  DashboardCatchesUp
CHECK_DEADLOCK FALSE
