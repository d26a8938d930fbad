SPECIFICATION Safety
CONSTANTS
  Tasks = {t1}
  Turns = {x1, x2}
  None = None
  MaxEvents = 2
INVARIANT FirstEventIsTask
CHECK_DEADLOCK FALSE
