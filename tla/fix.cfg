SPECIFICATION Spec
CONSTANTS
  Sentence <- DamagedSentences
  EpochsPerDay = 2
  LastEpoch = 4
  HostDays <- HostReset
  HostClock <- Clocks
  Zone = 1
  NewYear = 2
  HasLocation = TRUE
INVARIANTS
  CoordinatesTogether
  TimeNotAhead
  TimeIsThatOfPosition
  OnlyNewsAfterRMC
