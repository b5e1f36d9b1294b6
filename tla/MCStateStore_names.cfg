SPECIFICATION Spec
CONSTANTS
  f1 = f1  f2 = f2  f3 = f3  a1 = a1  a2 = a2  n1 = n1  n2 = n2  p1 = p1  p2 = p2  p3 = p3
  Fork = {f1, f2}
  Apply = {a1, a2}
  Name = {n1}
  Pid = {p1, p2, p3}
  None = None
  Careful = TRUE
  MaxDrops = 1
  MaxCrashes = 2
SYMMETRY MCSymmetry
INVARIANTS Addressable LiveTempKept  ListedComplete
CHECK_DEADLOCK FALSE
