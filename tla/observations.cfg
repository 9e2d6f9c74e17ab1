CONSTANTS
  Observers = {o1}
  NewStore = newStore
  Reconnects = {r1, r2}
  AwaitReadModels = TRUE
  MaxConnections = 3
  MaxEnds = 3
SPECIFICATION FairSpec
INVARIANTS LatestIsTracked NoObserverForgotten
PROPERTIES DisposeIsFinal ObservedOrUnregistered
CHECK_DEADLOCK FALSE
