SPECIFICATION MCSpec
CONSTANTS
  Functions = {"V"}
  LiveMax = 1
  Slack = 0
  MaxPoints = 4
  StaleAfter = 1
  Raise = 1
  Fall = 1
  a = a
  b = b
  NoMeter = NoMeter
  AnyMeter = AnyMeter
  Meters = {a, b}
  Readings <- OneQuantity
  TheSetup <- AtThreshold
  Triggers = {AnyMeter, b}
  LeadMoves = FALSE
  StartTime = 1
  MaxTime = 2
  MaxUses = 3
  Devices <- MCDevices
  Views = {"meter-2"}
  Files = {"lab"}
  BenchUses = 5
  Names <- MCNames
  FirstWindows <- MCBegin
  RoleOf <- MCRoleOf
  Texts <- MCTexts
  Mixed = FALSE
  Hasty = FALSE
  ArrangerUses = 4
  GraphLive = 3
  GraphFall = 0
  Values = {0, 1}
  OtherValues <- MCOtherValues
  Overload <- MCOverload
  Silent <- MCSilent
  Columns = 2
  MapColumns = 2
  Undo = 3
  Shortest = 2
  Minute = 3
  Sizes = {2}
  Lengths = {0, 3}
  GraphTime = 4
  MaxReadings = 3
  GraphUses = 2
INVARIANTS
  RecordAsOne
  BenchIsRestored
  WindowsKeepTheirPlaces
  CurvesAreTheReadings
PROPERTIES
  FollowersKeepStep
  AllShowsAll
CHECK_DEADLOCK FALSE
