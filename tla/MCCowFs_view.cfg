CONSTANTS
  a = a  b = b  f = f  e = e  l = l
  Names = {a, b}  MaxDepth = 2
  Files = {f, e}  Empty = e
  Target <- MCTarget  Lower <- MCRichHost
  Dir = Dir  Nil = Nil
SPECIFICATION Spec
INVARIANTS Inv FoldIsView HostUntouched
PROPERTY NeverBothTrees
