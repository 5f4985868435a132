SPECIFICATION Spec
CONSTANTS
  NULL = NULL
  Idle = Idle
  t1 = t1
  t2 = t2
  t3 = t3
  empty = empty
  fill = fill
  lock = lock
  cooked = cooked
  kbdirq = kbdirq
  Cpus = {c1, c2}
  Tasks = {t1, t2, t3}
  Sems = {kbdirq, lock}
  Program <- DeviceProgram
  InitValue <- DeviceValue
  IrqSem = kbdirq
  MaxPermits = 1
SYMMETRY CpuSymmetry
INVARIANTS
  OwnersDisjoint RunningFlag NestedDepth ScheduleSane
