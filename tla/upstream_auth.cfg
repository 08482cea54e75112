\* Two calls over every kind of configuration; the clock runs long enough for a
\* token to be kept, to expire while a call waits, and to be refreshed.
SPECIFICATION FairSpec
CONSTANTS
  Calls = {c1, c2}
  None = None
  Settings <- MCSettings
  Lives = {1, 4}
  Margin = 2
  MaxSends = 2
  MaxLogins = 2
  Horizon = 3
INVARIANTS
  TypeOK
  TokenRight
  OneProvider
PROPERTIES
  MarginKept
  RefreshOnce
  CacheMovesForward
  CallsAnswered
