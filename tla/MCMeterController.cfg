SPECIFICATION CtlSpec
CONSTANTS
  AlarmLists <- KeepingLists
  Readings <- MCReadings
  MaxTime = 4
  Lists <- MCLists
  Values <- MCValues
  EndTime = 1
  MaxActs = 4
  Dialogs = TRUE
INVARIANTS
  AlarmsShowWhatHolds
  SilenceRaises
  RequestsAreKept
  PortHasOneUser
  
PROPERTIES
  
  ClearedWasRaised
