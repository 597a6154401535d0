SPECIFICATION Spec
CONSTANTS
  Views = {0, 1, 5}
  GPS_MAX_SVS = 5
  MAX_NMEA_TOKENS = 16
  LastCycle = 2
CHECK_DEADLOCK FALSE
INVARIANTS
  TokensAreFields
  ListFits
  ListIsOfThisCycle
  CompleteReport
  MaskMatchesList
PROPERTIES
  ReadsItsFields
