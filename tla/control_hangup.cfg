SPECIFICATION Spec
CONSTANTS
  w1 = w1
  w2 = w2
  Worker <- Threads
  NoThread = NoThread
  CtrlCap = 2
  RxBurst = 1
  Faults <- Hangup
  Reinit = FALSE
CHECK_DEADLOCK FALSE
PROPERTY
  QuitIsObeyed
