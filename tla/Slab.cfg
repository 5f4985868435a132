SPECIFICATION FairSpec
CONSTANTS
  None = None
  k32 = k32
  k2048 = k2048
  Cpus = {c1, c2}
  Pages = {p1, p2, p3}
  Classes = {k32}
  Count <- MCCount
  FirstWords = {FALSE}
INVARIANTS
  PageExclusive BlocksAccounted PagesReachable
PROPERTIES
  ImplementsAllocator CallsReturn
