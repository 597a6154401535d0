SPECIFICATION SafeSpec
CONSTANTS
  w1 = w1
  w2 = w2
  Worker <- Threads
  NoThread = NoThread
  CtrlCap = 2
  RxBurst = 2
  Faults <- EveryFault
  Reinit = TRUE
SYMMETRY Symmetry
CHECK_DEADLOCK FALSE
INVARIANTS
  NoOrphanThread
  QuitIsLast
  Settled
