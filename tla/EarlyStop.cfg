\* A strategy that main only constructs, and two clients: a Stop may come first.
CONSTANTS
  Callers = {c1, c2}
  Main = main
  Loops = {l1}
SPECIFICATION FairSpec
PROPERTIES
  EveryCallReturns
CHECK_DEADLOCK FALSE
