SPECIFICATION Safety
CONSTANTS
  Keys = {k1}
  Writers = {w1, w2, w3}
  None = None
  Batch = 1
  TerminalDays = 1
  StaleDays = 2
  MaxNow = 2
INVARIANT TrueMeansWritten
CHECK_DEADLOCK FALSE
