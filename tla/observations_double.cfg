CONSTANTS
  Observers = {o1}
  NewStore = newStore
  Reconnects = {r1, r2}
  AwaitReadModels = FALSE
  MaxConnections = 2
  MaxEnds = 1
SPECIFICATION Spec
INVARIANTS NoDoubleObservation
CHECK_DEADLOCK FALSE
