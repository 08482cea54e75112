\* Sources that do not change are enough.
SPECIFICATION Spec
CONSTANTS
  None = None
  Tools <- AllTools
  FirstSizes = {3}
  Offsets = {None, 1, 6}
  Limits = {None, 0, 2, 3}
  PageSizes = {None, 0, 1, 2}
  DefaultPage = 2
  MaxPage = 3
  MaxLimit = 4
  MaxOffset = 3
  MaxIngestRows = 4
  MaxIngestPages = 3
  DefaultPages = 3
  MaxEdits = 0
INVARIANTS
  HintHonest
