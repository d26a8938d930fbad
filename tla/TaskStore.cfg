SPECIFICATION MCSpec
CONSTANTS
  Keys = {k1, k2}
  Writers = {w1, w2}
  None = None
  Batch = 1
  TerminalDays = 1
  StaleDays = 2
  MaxNow = 4
  Commands = {c1, c2}
  TaskIds = {1, 2, 3}
  PageLength = 1
  LastTick = 3
  Ids = {i1}
  Owners = {"alice", "bob"}
  Savers = {s1, s2}
  Jobs = {j1, j2}
  BatchSize = 1
INVARIANTS
  EndedTaskKept
  SchemaIsReady
  ListingExact
  OwnedTasksKept
PROPERTIES
  RetentionExact
  CleanupEnds
CHECK_DEADLOCK FALSE
