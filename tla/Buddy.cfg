SPECIFICATION Spec
CONSTANTS
  Cpus = {c1, c2}
  TreeNum = 2
  MinSize = 12
  MaxSize = 14
  BootPages = 1
SYMMETRY Symmetry
INVARIANTS
  TreeExclusive FreeFindsBlock PromiseKept FreeIsMerged
PROPERTIES ImplementsAllocator
