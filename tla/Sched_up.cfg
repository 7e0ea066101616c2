SPECIFICATION FairSpec
CONSTANTS
  NCPU = 1
  MAX_TASKS = 4
  NTASKS = 2
  SleepTicks = {0, 2}
  Sleepers = {1, 2, 3}
  Yielders = {1, 2, 3}
  Exiters = {2, 3}
  Creators = {1}
INVARIANTS
  
  SleepHonoured
PROPERTIES
  LockReleased
  RoundRobin
