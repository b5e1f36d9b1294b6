SPECIFICATION Spec
CONSTANTS
  d = d  dx = dx  ds = ds  dsy = dsy  f1 = f1  f2 = f2
  Path <- MCPath
  Anc <- MCAnc
  Files = {f1, f2}
  Dir = Dir
  Nil = Nil
  MaxEdits = 2
  MaxCrashes = 1
SYMMETRY FileSymmetry
INVARIANTS FoldIsView ResetLeavesNothing
PROPERTY DeletionsKept
CHECK_DEADLOCK FALSE
