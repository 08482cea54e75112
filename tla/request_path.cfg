\* Deployments, requests and statements, each family as far as it is worth going.  The
\* process may exit while it starts, and a request that is answered is over.
SPECIFICATION FairSpec
CONSTANTS
  None = None
  Deployments <- MCDeployments
  Discoveries <- MCDiscoveries
  StrictByDefault = TRUE
  Traffic <- MCTraffic
  Decisions = {"ALLOW", "NOT_READ_ONLY_PREFIX", "EMPTY_SQL", "other"}
  Letters = {"SELECT", "DESCRIBE", "INSTALL", "READ_CSV", "x"}
  Digits = {"1"}
  Unprintable = {"~"}
  ForbiddenKeywords = {"INSTALL"}
  ForbiddenFunctions = {"READ_CSV"}
  AllowedPrefixes = {"DESCRIBE"}
  WrappedPrefixes = {"SELECT"}
INVARIANTS
  TypeOK
  PublishedSecure
  GuardsInOrder
  SurfaceExact
  PolicySound
  EventsAgree
PROPERTIES
  RequestsAnswered
CHECK_DEADLOCK FALSE
