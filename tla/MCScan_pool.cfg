SPECIFICATION FairSpec
CONSTANTS
  w1 = w1  w2 = w2
  File = {1, 2, 3}
  Worker = {w1, w2}
  None = None
  Forging = FALSE
  MaxEdits = 1
  MaxScans = 2
INVARIANTS HashTrue NothingForgotten
PROPERTY ScanEnds
CHECK_DEADLOCK FALSE
