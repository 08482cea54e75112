\* One client at a time, every tool, a failing engine, files that stay; no session expires.
SPECIFICATION FairSpec
CONSTANTS
  Sessions = {s1, s2}
  Tables = {t1, t2}
  Clients = {c1}
  None = None
  Ops <- ToolOps
  BatchSizes = {0, 2}
  LimitValues = {0, 1, 2}
  MaxRows = 2
  InitSessions = 2
  InitTables = 1
  TTL = 1
  DiskRows = 2
  ClockRuns = FALSE
  Restarts = FALSE
INVARIANTS
  LedgerExact
PROPERTIES
  StoreSpec
  RequestsFinish
  NoDataLeftBehind
