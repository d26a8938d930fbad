SPECIFICATION MCSpec
CONSTANTS
  NoTask = NoTask
  MaxEvents = 2
  Calls = {c1, c2, c3}
  Keys = {k1, k2}
  NoRequest = NoRequest
  Ttls = {2}
  Margin = 2
  Delay = 1
  MaxTime = 3
INVARIANTS
  ExecutedOnce
  CancelsWhenAborted
  RequestsAreShared
PROPERTIES
  CallsEnd
  NeverExpired
CHECK_DEADLOCK FALSE
