SPECIFICATION Spec
CONSTANTS
  None = None
  MaxTurns = 3
  MaxEmitted = 0
INVARIANT AguiStateIsLatest
CHECK_DEADLOCK FALSE
