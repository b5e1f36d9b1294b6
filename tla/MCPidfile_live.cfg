SPECIFICATION FairSpec
CONSTANTS
  Runner = {r1, r2}
  Pid = {p1, p2}
  None = None
  Empty = Empty
  MaxStarts = 4
  MaxFaults = 1
INVARIANTS Inv SomeoneWins
PROPERTY ClaimSettles
