SPECIFICATION Spec
CONSTANTS
  r1 = r1  r2 = r2  r3 = r3  a1 = a1  a2 = a2  d1 = d1  d2 = d2  x1 = x1  x2 = x2
  None = None
  Run = {r1, r2}
  Apply = {a1}
  Diff = {x1}
  Drop = {d1}
  Private = TRUE
  ShowsUpper = FALSE
  Foreign = {}
  MaxForeign = 0
  MaxCrashes = 1
  CrashAt <- AllLabels
  OneAtATime = FALSE
  MaxLoops = 2
PROPERTY HostOnlyByApply
CHECK_DEADLOCK FALSE
