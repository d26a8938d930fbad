SPECIFICATION MCSpec
CONSTANTS
  Callers = {c1, c2, c3}
  Children = {k1, k2, k3}
  NoChild = NoChild
  Jobs = {j1, j2, j3, j4}
  Sessions = {s1, s2}
  NoJob = NoJob
  Operations = {o1, o2, o3, o4, o5}
  Limit = 2
INVARIANTS
  ChildOwned
  TurnsSerialized
  LimiterExact
PROPERTIES
  ImplementsSharedChild
  EverythingEnds
CHECK_DEADLOCK FALSE
