SPECIFICATION Spec
CONSTANTS
  d = d  ds = ds  dx = dx  t = t
  f1 = f1  f2 = f2  m1 = m1  m2 = m2  l1 = l1  l2 = l2
  Nil = Nil
  Path <- MCChain
  Anc <- MCChainAnc
  Files = {f1, f2}
  Dirs = {m1}
  Links = {l1}
  UmaskDir = m1
  MaxEdits = 1
  MaxAttempts = 2
INVARIANT Inv
PROPERTIES FreshFilesKept
