\* docs/scratchpad-operator-guide.md:323: timeout limits are enforced fail-closed.
SPECIFICATION FairSpec
CONSTANTS
  Timeouts = {2}
  MaxStatements = 2
  Horizon = 4
PROPERTIES
  TimeoutEnforced
