CONSTANTS
  Posters = {p1}
  Clients = {c1}
  Reducer = reducer
  Nodes = {n1, n2}
  Unknown = unknown
  Levels = {1, 2}
  Setpoints <- MCTwoSetpoints
SPECIFICATION FairSpec
INVARIANTS
  TypeOK
  StoppedReducerIsQuiet
  OnlyOverlapsTear
PROPERTIES
  UnderusedComesDown
