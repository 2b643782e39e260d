\* Two folders and two moves at the same time, nothing else.
SPECIFICATION Spec
CONSTANTS
  Folders = {d1, d2}
  Files = {}
  MaxBatches = 0
  Movers = {m1, m2}
  Purgers = {}
  Root = Root
INVARIANTS
  Acyclic
CHECK_DEADLOCK FALSE
