SPECIFICATION Spec
CONSTANTS
  None = None
  Procs = {1, 2}
  Frames = {f1, f2, f3}
  NPages = 1
  Kinds = {"rw"}
  Data = {d1, d2}
  NCpus = 1
SYMMETRY Symmetry
INVARIANT PrivateCopies
CHECK_DEADLOCK FALSE
