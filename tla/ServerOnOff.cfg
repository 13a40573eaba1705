CONSTANTS
  Callers = {c1, c2}
  Main = main
  Loops = {l1}
  Nodes = {n1, n2}
SPECIFICATION OnOffFairSpec
INVARIANTS
  OnOffTypeOK
  RetriesOnlyWhenOn
PROPERTIES
  ImplementsRestartingSwitch
  CallsReturnOnceReachable
  StaysUpOnceReachable
