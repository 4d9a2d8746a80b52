SPECIFICATION TablesSpec
CONSTANTS
  Tabs = {t1, t2}
  Codes = {c1, c2}
  MaxSecrets = 2
  MaxSets = 2
  Requests = {r1, r2}
  Tenants = {n1, n2}
  Signers = {n1}
  Observer = n1
  Carriers = {v1}
  Clients = {k1}
  Files = {f1}
  MaxRecordFaults = 1
  Companies = {"a", "b"}
  LastDay = 2
  Busy <- MCBusy
  MaxQuotes = 1
  MaxReportFaults = 1
SYMMETRY RowSymmetry
INVARIANTS
  BackupCodeOnce
  EnabledFactorIsConfirmed
  RecordsInTenant
  FilesAreAccountedFor
  ChangesLeaveTrace
  TrendIsExact
PROPERTY TenantsAreApart
CONSTRAINT Watched
