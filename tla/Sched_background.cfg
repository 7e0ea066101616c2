SPECIFICATION FairSpec
CONSTANTS
  NCPU = 1
  MAX_TASKS = 3
  NTASKS = 2
  SleepTicks = {1}
  Sleepers = {2}
  Yielders = {}
  Exiters = {}
  Creators = {}
PROPERTIES
  BackgroundTaskRuns
