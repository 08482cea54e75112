\* Three clients creating, appending and querying at once; nothing is dropped, closed or expires.
SPECIFICATION FairSpec
CONSTANTS
  Sessions = {s1}
  Tables = {t1, t2}
  Clients = {c1, c2, c3}
  None = None
  Ops <- IngestOps
  BatchSizes = {1, 2}
  LimitValues = {1}
  MaxRows = 3
  InitSessions = 1
  InitTables = 2
  TTL = 1
  DiskRows = 3
  ClockRuns = FALSE
  Restarts = FALSE
INVARIANTS
  LedgerExact
PROPERTIES
  StoreSpec
  RequestsFinish
