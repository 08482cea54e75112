\* A client closes the session another one is ingesting into.
SPECIFICATION FairSpec
CONSTANTS
  Sessions = {s1}
  Tables = {t1}
  Clients = {c1, c2}
  None = None
  Ops <- CloseRaceOps
  BatchSizes = {1}
  LimitValues = {1}
  MaxRows = 3
  InitSessions = 1
  InitTables = 1
  TTL = 1
  DiskRows = 6
  ClockRuns = FALSE
  Restarts = FALSE
PROPERTIES
  NoDataLeftBehind
