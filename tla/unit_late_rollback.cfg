CONSTANTS
  log = log
  other = other
  a = a
  b = b
  x = x
  y = y
  g = g
  h = h
  SequenceIds = {log, other}
  Sources = {a, b}
  Scopes = {x, y}
  Guards = {g, h}
  NoScope = noScope
  NoGuard = noGuard
  Callers = {c1}
  Enrolments <- MCFewEnrolments
  Overlap = TRUE
  MaxEvents = 3
  MaxCommits = 1
  MaxFaults = 0
SPECIFICATION Spec
PROPERTIES RollbackWritesNothing
CHECK_DEADLOCK FALSE
