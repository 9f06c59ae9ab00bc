SPECIFICATION EvidenceSpec
CONSTANTS
  NoExport = NoExport
  Exports = {x1, x2}
  ExportClients = {c1, c2}
  ExportWorkers = {w1, w2}
  ExportFaults <- AllExportFaults
  MaxExportFaults = 1
  DigestTenants = {t1, t2}
  Nightlies = {n1, n2}
  LogRows = {r1}
  MaxInstant = 4
  MaxNightlyFaults = 1
  Times = {1, 2, 3}
  Ids = {1, 2}
  WindowStart = 1
  WindowEnd = 3
  PageSize = 2
  DefaultLimit = 1
  MaxLimit = 2
  Limits = {0, 2, 3}
  MaxChanges = 2
INVARIANT ExportsSound
INVARIANT DigestsSound
INVARIANT PagesSound
PROPERTY EvidenceLasts
CHECK_DEADLOCK FALSE
