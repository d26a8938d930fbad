SPECIFICATION Spec
CONSTANTS
  Turns = {t1, t2}
  MaxEmits = 3
INVARIANT ClosedTurnsAreAborted
CHECK_DEADLOCK FALSE
