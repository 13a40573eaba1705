CONSTANTS
  Callers = {c1, c2}
  Main = main
  Loops = {l1, l2}
SPECIFICATION FairSpec
INVARIANTS
  TypeOK
  StopIsABarrier
  OnePoller
  IsRunningIsCurrent
  OnlyAnEarlyStopIsStranded
PROPERTIES
  ImplementsSwitch
  LaunchedCallsReturn
  OnLeadsToWork
CHECK_DEADLOCK FALSE
