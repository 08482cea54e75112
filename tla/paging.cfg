\* Every tool, sources of up to five rows that change twice.  The page, row,
\* limit and offset caps are all within reach.
SPECIFICATION FairSpec
CONSTANTS
  None = None
  Tools <- AllTools
  FirstSizes = {0, 3, 5}
  Offsets = {None, 1, 6}
  Limits = {None, 0, 2, 3}
  PageSizes = {None, 0, 1, 2}
  DefaultPage = 2
  MaxPage = 3
  MaxLimit = 4
  MaxOffset = 3
  MaxIngestRows = 4
  MaxIngestPages = 3
  DefaultPages = 3
  MaxEdits = 2
INVARIANTS
  TypeOK
  PagesTile
  NothingLost
  NoDuplicates
  IngestCapped
  FlagsAgree
  CursorAdvances
PROPERTIES
  WalkEnds
