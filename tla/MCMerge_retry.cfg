SPECIFICATION Spec
CONSTANTS
  d = d  ds = ds  dx = dx  t = t
  f1 = f1  f2 = f2  m1 = m1  m2 = m2  l1 = l1  l2 = l2
  Nil = Nil
  Path <- MCSiblings
  Anc <- MCSiblingsAnc
  Files = {f1, f2}
  Dirs = {m1, m2}
  Links = {l1, l2}
  UmaskDir = m1
  MaxEdits = 0
  MaxAttempts = 2
SYMMETRY FileSymmetry
INVARIANTS MergedResult RetryConflicts FailsUnderReplacedParent
