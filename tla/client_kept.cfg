CONSTANTS
  Callers = {c1}
  Watchdog = watchdog
  KeepAlive = TRUE
  MaxFaults = 4
SPECIFICATION Spec
INVARIANTS FailureIsFinal SessionIdentity
PROPERTIES KeepsLifecyclePromise
CHECK_DEADLOCK FALSE
