\* Two clients drop and re-create tables of one session that never expires.
SPECIFICATION Spec
CONSTANTS
  Sessions = {s1}
  Tables = {t1, t2}
  Clients = {c1, c2}
  None = None
  Ops <- DropRaceOps
  BatchSizes = {1, 2}
  LimitValues = {1}
  MaxRows = 3
  InitSessions = 1
  InitTables = 2
  TTL = 1
  DiskRows = 6
  ClockRuns = FALSE
  Restarts = FALSE
INVARIANTS
  StoredWithinLimit
