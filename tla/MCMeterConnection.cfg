SPECIFICATION MCSpec
CONSTANTS
  Ports = {1, 2, 3}
  Configs <- PlainConfigs
  TimeoutSeconds = 2
  ReconnectSeconds = 3
  Reopens = FALSE
  Devices = {1, 2}
  Posted = 1
  Hangs = TRUE
  FindTime = 3
  ConnectTime = 2
  SetupTime = 1
  Period = 20
  Repoll = 6
  KeyQuiet = 12
  LostAfter = 20
  KeysApart = 8
  Letters = {"a"}
  MaxItems = 3
  MaxWrites = 1
  Measuring = {1}
  Chain = {2, 3}
  Stale = 3
  MaxEdits = 1
INVARIANTS
  
  TimeoutMeansSilence
  PollsGoOn
  StreamsAreClean
  ResultsAreRecent
PROPERTIES
  
  
  
  PortsKeepTheirPromise
  
CHECK_DEADLOCK FALSE
