CONSTANTS
  Callers = {c1, c2}
  Keys = {k1}
  MaxStores = 2
  MaxFaults = 0
  MaxReconnects = 1
SPECIFICATION StoresSpec
INVARIANTS HandedOutIsRegisteredAgain
SYMMETRY Symmetry
CHECK_DEADLOCK FALSE
