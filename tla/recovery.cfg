SPECIFICATION RSpec
CONSTANTS
  a = a
  b = b
  Writer <- Writers
  Value <- Values
  Pulses = 4
  LeastFoo <- Least
SYMMETRY WriterSymmetry
INVARIANTS
  PinsRestored
  Freed
