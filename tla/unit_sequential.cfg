CONSTANTS
  log = log
  other = other
  a = a
  b = b
  x = x
  y = y
  g = g
  h = h
  SequenceIds = {log, other}
  Sources = {a, b}
  Scopes = {x, y}
  Guards = {g, h}
  NoScope = noScope
  NoGuard = noGuard
  Callers = {c1}
  Enrolments <- MCEnrolments
  Overlap = FALSE
  MaxEvents = 3
  MaxCommits = 3
  MaxFaults = 2
  Log <- DeliveryLog
  ReducerLog <- ReductionLog
  MaxConcurrency = 2
  MaxPage = 2
  MaxStreams = 2
  MaxProblems = 2
  BufferLimit = 1
  MaxChanges = 2
  MaxDisconnects = 1
  MaxLosses = 1
  Contexts = {"c", "d"}
  Correlations = {"i", "j"}
  NoUnit = 0
  MaxUnits = 2
SPECIFICATION PartsSpec
INVARIANTS RejectedWritesNothing ScopesAreEnforced ResultsMatchEvents
  AcknowledgedWasHandled HandledInOrder StateIsReduction
  EveryChangeInOrder GapIsAnnounced NobodyWaitsInVain FoundWhileOpen
PROPERTIES EveryEventIsObserved ReductionsAdvance EveryEventIsReduced WatchResumes
CHECK_DEADLOCK FALSE
