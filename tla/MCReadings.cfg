SPECIFICATION MCSpec
CONSTANTS
  Protocols <- MCProtocols
  LineLengths = {2, 4}
  FifoLength = 7
  MaxTelegrams = 3
  MaxFaults = 1
  MaxBuffer = 5
  Channels <- MCChannels
  Tests <- MCTests
  Ids = {0, 1}
  Gaps = {1, 4, 11}
  MaxReadings = 4
  MaxRequests = 3
INVARIANTS
  ExtremesAreOfOnePort
  SoundFitsVerdict
  RhythmIsLearned
PROPERTIES
  TelegramsArrive
  NoticeStaysTrue
CHECK_DEADLOCK FALSE
