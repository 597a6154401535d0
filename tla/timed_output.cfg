SPECIFICATION Spec
CONSTANTS
  vibrator = vibrator
  reloaded = reloaded
  other = other
  a = a
  b = b
  Driver <- Drivers
  Motor <- Motors
  User <- Users
  Null = Null
  MaxIndex = 2
CHECK_DEADLOCK FALSE
INVARIANTS
  ServedInside
  NothingLeft
  IndexIsUnique
PROPERTIES
  NullOnlyInWindow
  UnregisterReturns
