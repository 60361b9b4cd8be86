SPECIFICATION StoreSpec
CONSTANTS
  Functions = {"V", "Ohm", "degC"}
  LiveMax = 1
  Slack = 0
  MaxPoints = 3
  StaleAfter = 1
  Raise = 1
  Fall = 1
  Readings <- BothFunctions
  Setups <- OneSetup
  Files <- NoFile
  Starts = {}
  StartTime = 1
  MaxTime = 3
  MaxUses = 2
  Meters = {1, 2}
  Ids = {0, 1}
  LogCapacity = 2
  Keeps = {2, 3}
  Benches <- TwoBenches
  Midnight = 3
  MaxReadings = 4
  TableUses = 3
CHECK_DEADLOCK FALSE
INVARIANTS
  OneFunction
