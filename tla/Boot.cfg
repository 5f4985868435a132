SPECIFICATION BootFairSpec
CONSTANT NCpu = 4
INVARIANTS
  BootStackExclusive
  TrapOrder
PROPERTY AllOrNone
CHECK_DEADLOCK FALSE
