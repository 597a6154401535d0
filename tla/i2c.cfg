SPECIFICATION Spec
CONSTANTS
  w = w
  touch = touch
  atom = atom
  Writer <- Writers
  Value <- Values
  Pulses = 2
  LeastFoo <- Least
  Caller <- Callers
  Atomic <- Atoms
  Touch <- touch
  Capable <- WithXfer
  Free = Free
INVARIANTS
  BusExclusive
  IrqBalanced
PROPERTIES
  TouchServed
