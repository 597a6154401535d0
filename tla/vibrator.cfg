SPECIFICATION Spec
CONSTANTS
  a = a
  b = b
  Writer <- Writers
  Nobody = Nobody
  Value <- Values
INVARIANTS
  MotorHoldsWakeLock
  ArmedMeansOn
  RestMeansDone
PROPERTIES
  WriteReturns
  TimedStops
