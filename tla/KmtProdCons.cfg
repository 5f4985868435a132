SPECIFICATION FairSpec
CONSTANTS
  NULL = NULL
  Idle = Idle
  t1 = t1
  t2 = t2
  t3 = t3
  empty = empty
  fill = fill
  lock = lock
  cooked = cooked
  kbdirq = kbdirq
  Cpus = {c1, c2}
  Tasks = {t1, t3}
  Sems = {empty, fill}
  Program <- PairProgram
  InitValue <- ProdConsValue
  IrqSem = NULL
  MaxPermits = 0
INVARIANTS
  WaiterCount NoPhantomPermit BlockedIsQueued
PROPERTIES
  ImplementsSemaphore NoStarvation PReturns
