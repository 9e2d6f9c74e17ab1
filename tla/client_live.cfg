CONSTANTS
  Callers = {c1, c2}
  Watchdog = watchdog
  KeepAlive = TRUE
  MaxFaults = 1
SPECIFICATION FairSpec
INVARIANTS NoCompetingAttempt
PROPERTIES EveryCallSettles RecoveryEnds
CHECK_DEADLOCK FALSE
