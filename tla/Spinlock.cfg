SPECIFICATION Spec
CONSTANTS
  None = None
  Cpus = {c1, c2}
  Threads = {t1, t2}
  Locks = {1, 2}
  MaxHeld = 2
SYMMETRY Symmetry
INVARIANTS
  MutualExclusion LockedIsUninterruptible NoffExact FlagRestored
  NoPanic
