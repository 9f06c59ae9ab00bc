SPECIFICATION OfficeSpec
CONSTANTS
  Tenants = {"t1"}
  Events <- MCEvents
  Event <- MCEvent
  Histories <- MCHistories
  BillHandlers = {h1, h2}
  PricesConfigured = TRUE
  Grace = 1
  MaxBillTime = 2
  MaxBillFaults = 1
  MaxDuplicates = 1
  CockpitClients = {c1, c2}
  RefreshTtl = 2
  AccessTtl = 1
  MaxCockpitTime = 2
  MaxSessions = 3
  MaxRequests = 6
  MaxSecrets = 3
  ScopedTables = {"audit_logs", "suppliers"}
  Founders = {f1, f2}
  Supporters = {o1}
  MaxRows = 2
  Documents <- MCDocuments
  Document <- MCDocument
  MaxExtractions = 1
  ExtWorkers = {w1, w2}
  ExtractionEnabled = TRUE
  MaxPages = 2
  MaxPdfSize = 2
  MaxExtFaults = 2
  MaxReviews = 2
  Portals = {"amtrust", "markel", "applied_epic", "vertafore_ams360", "vertafore_sircon"}
  HelpersFound = {TRUE, FALSE}
  Oddities = {"none", "empty", "blank", "nolist", "hollow", "bad"}
  Registered <- MCRegistered
  Declared = {"amtrust", "markel", "cna"}
  SmokeRuns = {s1, s2}
  AlertCooldown = 2
  MaxSmokeTime = 3
  MaxSmokeRuns = 3
  MaxSmokeFaults = 1
INVARIANT BillingSound
INVARIANT CockpitSound
INVARIANT DeletionSound
INVARIANT ExtractionsSound
INVARIANT AttemptSound
INVARIANT MonitorSound
PROPERTY SubmitterKeepsContract
PROPERTY OfficeSteps
PROPERTY OfficeEnds
CHECK_DEADLOCK FALSE
