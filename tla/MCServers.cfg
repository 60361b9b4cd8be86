SPECIFICATION Spec
CONSTANTS
  Sockets <- MCSockets
  Conns <- MCConns
  Meters <- MCMeters
  MaxSessions = 1
  MaxPending = 1
  MaxMessage = 2
  Ids = 65536
  FirstIds <- MCFirstIds
  MaxLinks = 2
  MaxErrors = 2
  HislipUses = 5
  VxiUses = 8
  ScpiUses = 5
  Processes = {1, 2}
  Configs <- MCConfigs
  Free = {1, 2, 3}
  Tries = 2
  Split = FALSE
  HostUses = 3
INVARIANTS
  SessionsHold
  MessagesStayWhole
  ChoiceStands
  ErrorsAreTold
  ServicesAreFound
PROPERTIES
  SilentOnesGo
CHECK_DEADLOCK FALSE
