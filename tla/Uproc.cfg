SPECIFICATION FairSpec
CONSTANTS
  Cpus = {c1, c2}
  Idle = Idle
  Limit = 3
  MaxTasks = 3
 
PROPERTY KillTakesEffect
CHECK_DEADLOCK FALSE
