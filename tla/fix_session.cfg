SPECIFICATION Spec
CONSTANTS
  Sentence <- WholeSentences
  EpochsPerDay = 2
  LastEpoch = 5
  HostDays <- HostReset
  HostClock <- Clocks
  Zone = 1
  NewYear = 2
  HasLocation = TRUE
INVARIANTS
  LocationOnlyInSession
