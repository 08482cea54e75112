\* Calls of up to two statements, with and without timeout and cancel token.
SPECIFICATION FairSpec
CONSTANTS
  Timeouts = {0, 1, 2}
  MaxStatements = 2
  Horizon = 4
INVARIANTS
  TypeOK
  OutcomeJustified
  InterruptNamed
PROPERTIES
  InterruptsOwnCall
  WatchedStatementsEnd
  CallReturns
