CONSTANTS
  Callers = {c1, c2}
  Watchdog = watchdog
  KeepAlive = TRUE
  MaxFaults = 2
SPECIFICATION Spec
INVARIANTS KeepAliveLossIsFollowedUp
SYMMETRY Symmetry
CHECK_DEADLOCK FALSE
