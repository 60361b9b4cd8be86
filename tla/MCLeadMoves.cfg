SPECIFICATION Spec
CONSTANTS
  Functions = {"V"}
  LiveMax = 1
  Slack = 0
  MaxPoints = 4
  StaleAfter = 1
  Raise = 1
  Fall = 1
  a = a
  b = b
  NoMeter = NoMeter
  AnyMeter = AnyMeter
  Meters = {a, b}
  Readings <- OneReading
  TheSetup <- AtClock
  Triggers = {AnyMeter, b}
  LeadMoves = TRUE
  StartTime = 2
  MaxTime = 2
  MaxUses = 5
CHECK_DEADLOCK FALSE
INVARIANTS
  NobodyRecordsAlone
