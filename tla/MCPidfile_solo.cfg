SPECIFICATION Spec
CONSTANTS
  Runner = {r1}
  Pid = {p1, p2, p3}
  None = None
  Empty = Empty
  MaxStarts = 5
  MaxFaults = 3
SYMMETRY Symmetry
INVARIANTS RunningIsOurs OrphanKeepsOut RunIsRecorded NobodyHoldsTheMount
