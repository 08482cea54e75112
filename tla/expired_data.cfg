\* One client that comes back after its session has expired.
SPECIFICATION Spec
CONSTANTS
  Sessions = {s1}
  Tables = {t1}
  Clients = {c1}
  None = None
  Ops <- IngestOps
  BatchSizes = {1}
  LimitValues = {1}
  MaxRows = 3
  InitSessions = 1
  InitTables = 1
  TTL = 1
  DiskRows = 6
  ClockRuns = TRUE
  Restarts = FALSE
PROPERTIES
  StoreSpec
