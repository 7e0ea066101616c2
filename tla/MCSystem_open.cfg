SPECIFICATION SystemSpec
CONSTANTS
  NCPU = 2
  MAX_TASKS = 5
  NTASKS = 3
  SleepTicks = {1}
  Sleepers = {3, 4}
  Yielders = {4}
  Exiters = {}
  Creators = {}
  Pollers = {"net", "desktop"}
  RX_DESC_COUNT = 3
  TX_DESC_COUNT = 3
  MaxFrames = 4
  MaxSends = 4
  Sectors = 4
  Value = {0, 1}
  CHUNK = 2
  IdxMod = 3
  MaxCount = 3
  MaxXfers = 2
INVARIANT ListsOpened
CONSTRAINT StacksApart
