SPECIFICATION MCSpec
CONSTANTS
  Tasks = {t1}
  Turns = {x1, x2}
  None = None
  MaxEvents = 3
  TracedTurns = {y1, y2, y3}
  LineEnds <- MCLineEnds
  Inputs <- MCInputs
  Budgets = {0, 2, 5, 12}
  WindowLines = 2
  MaxWindows = 2
  ProjectIds = {"p1", "p2"}
  Threads = {"t1", "t2"}
  SlugOf <- MCSlugOf
  NoProject = "none"
  MaxTurns = 3
  MaxEmitted = 2
INVARIANTS
  TurnWellFormed
  CancelOrResult
  TracingIsTransparent
  FilesAreExact
  ShownPathsOpen
  EachTurnItsOwn
  AnswerIsWhole
PROPERTIES
  OnlyLastTurnShown
  StreamsEnd
CHECK_DEADLOCK FALSE
