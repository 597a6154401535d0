SPECIFICATION Spec
CONSTANTS
  NMEA_MAX_SIZE = 3
  MinSize = 2
  LineCap = 5
INVARIANTS
  SentenceIsLine
PROPERTIES
  DamageIsLocal
  LineByLine
