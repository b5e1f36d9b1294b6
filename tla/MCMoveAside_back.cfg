SPECIFICATION FairSpec
CONSTANTS
  r1 = r1  r2 = r2  d1 = d1  d2 = d2  x1 = x1  x2 = x2  a = a  b = b
  Run = {r1, r2}
  Drop = {d1, d2}
  Diff = {x1, x2}
  Worktree = {a, b}
  Rank <- MCRank
  Setups <- Everything
  None = None
  MaxFaults = 1
  MaxMeddling = 1
  MaxLoops = 2
  CrashAt <- SafeLabels
CHECK_DEADLOCK FALSE
INVARIANTS Inv HostKept ScanSeesHost Isolated LayerKept
PROPERTIES ForeignKept Recovers
