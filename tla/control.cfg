SPECIFICATION Spec
CONSTANTS
  w1 = w1
  w2 = w2
  NoThread = NoThread
  Worker <- Threads
  CtrlCap = 3
  RxBurst = 2
  Faults <- NoFaults
  Reinit = FALSE
INVARIANTS
  ReportIsCurrent
  ShownIsStarted
PROPERTIES
  CleanupReturns
  SessionIsServed
  SessionFair
