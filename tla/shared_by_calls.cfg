CONSTANTS
  Calls = {c1, c2, c3}
  Margin = 1
  RetryDelay = 2
  Lifetimes = {0, 1}
  DefaultLifetime = 3
  Never = never
  MaxTime = 5
  MaxTokens = 2
  MaxFailures = 3
  MaxRejections = 2
  s = s
  t = t
  Servers = {s, t}
  CheckedCalls = {connect, append, read}
  MaxChannels = 2
  MaxChecks = 3
  Selectors = {p1, p2, p3}
  RoundRobins = {r1, r2}
  CandidateCount = 3
  MaxSelections = 6
  MaxProbeFaults = 1
  Callers = {c1, c2, c3}
  Keys = {k1}
  MaxStores = 4
  MaxFaults = 2
  MaxReconnects = 2
SPECIFICATION PartsSpec
INVARIANTS OneRequestAtATime PacedInOutage VerdictIsOfItsChannel ConnectionsSpread CachedStoreIsLive
PROPERTIES TokenIsValidWhenTaken RetryTakesNewToken SettledStoreStays OnlyFailedStoresAreDropped
SYMMETRY Symmetry
CHECK_DEADLOCK FALSE
