CONSTANTS
  Callers = {c1, c2}
  Watchdog = watchdog
  KeepAlive = TRUE
  MaxFaults = 2
SPECIFICATION Spec
INVARIANTS CallsUseVerifiedChannel
SYMMETRY Symmetry
CHECK_DEADLOCK FALSE
