SPECIFICATION Spec
CONSTANTS
  r1 = r1  r2 = r2  r3 = r3  a1 = a1  a2 = a2  d1 = d1  d2 = d2  x1 = x1  x2 = x2
  None = None
  Run = {r1, r2}
  Apply = {a1, a2}
  Diff = {x1}
  Drop = {d1}
  Private = FALSE
  ShowsUpper = TRUE
  Foreign = {"alien", "other"}
  MaxForeign = 1
  MaxCrashes = 2
  CrashAt <- SafeLabels
  OneAtATime = TRUE
  MaxLoops = 2
INVARIANT NothingLost
PROPERTIES IsBranch AppliedIsBaseline DropTakesDown
CHECK_DEADLOCK FALSE
