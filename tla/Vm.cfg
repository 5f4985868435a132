SPECIFICATION Spec
CONSTANTS
  None = None
  Procs = {1, 2}
  Frames = {f1, f2, f3}
  NPages = 2
  Kinds = {"rw", "ro"}
  Data = {d1, d2}
  NCpus = 2
SYMMETRY Symmetry
INVARIANTS
   AreasSound 
CHECK_DEADLOCK FALSE
