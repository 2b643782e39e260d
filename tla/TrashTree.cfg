\* Three folders, a file, two batches, one move and one purge at a time.
SPECIFICATION Spec
CONSTANTS
  Folders = {d1, d2, d3}
  Files = {f1}
  MaxBatches = 2
  Movers = {m1}
  Purgers = {p1}
  Root = Root
SYMMETRY Symmetry
INVARIANTS
  TypeOK
  Acyclic
  TrashedIsListed
PROPERTIES
  PurgedStays
  FoldersGoWhole
CHECK_DEADLOCK FALSE
