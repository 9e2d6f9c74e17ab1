CONSTANTS
  a = a
  b = b
  s = s
  t = t
  Clients = {c1, c2, c3}
  Subscribers = {s1}
  Sources = {a, b}
  Streams = {s, t}
  Whatever = whatever
  BeforeFirst = beforeFirst
  Batches <- MCBatches
  MaxAppends = 3
  MaxFaults = 1
  Registrations = {first, again}
  MaxEntries = 3
  MaxSeedFaults = 1
  EventSources = {"a", "b"}
  UniqueKeys = {"k", "l"}
  ScopeKeys = {"x", "y"}
  MaxHistory = 3
  MaxSetups = 1
  RowSources = {"a", "b"}
  Contents = {"c", "d"}
  Children = {"x", "y"}
  Null = null
  Undefined = undefined
  Deleted = deleted
  MaxReplayed = 4
  Variants = {"u", "v", "w"}
  VariantEvents = {"e1", "e2", "e3", "t"}
  VariantKeys = {"k"}
  Groups <- VariantGroups
  MaxObserved = 4
SPECIFICATION PartsSpec
INVARIANTS NothingInBetween EveryOperationIsReceived SeedsReachTheKernel
  UniqueThroughout HistoryIsOneSequence ReadsFollowHistory ExclusiveVariants
SYMMETRY Symmetry
CHECK_DEADLOCK FALSE
