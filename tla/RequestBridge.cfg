SPECIFICATION Spec
CONSTANTS
  Sessions = {s1, s2}
  Bindings = {b1, b2, b3}
  Requests = {r1}
  None = None
INVARIANTS
  TurnsExclusive
PROPERTIES
  OnlyLiveTurnsAreServed
  OnlyOwnReleaseUnbinds
  TurnsAndRequestsEnd
CHECK_DEADLOCK FALSE
