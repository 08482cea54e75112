\* Two clients, expiry, lowered limits, failing removals, restarts; only reads are left out.
SPECIFICATION Spec
CONSTANTS
  Sessions = {s1, s2}
  Tables = {t1}
  Clients = {c1, c2}
  None = None
  Ops <- RaceOps
  BatchSizes = {2}
  LimitValues = {0, 1}
  MaxRows = 3
  InitSessions = 2
  InitTables = 2
  TTL = 1
  DiskRows = 2
  ClockRuns = TRUE
  Restarts = TRUE
SYMMETRY Interchangeable
VIEW WithoutRecord
INVARIANTS
  TypeOK
  RowsWithinLimit
PROPERTIES
  SessionAdmission
  TableAdmission
  NoEviction
