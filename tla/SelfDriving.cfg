CONSTANTS
  OnlyNode = n1
  Nodes = {n1}
  Pods = {1, 2}
  NodeOf <- MCNodeOf
  MinCpu <- MCMinCpu
  Limits = {5}
  Diffs <- MCDiffs
  MaxLimit = 9
SPECIFICATION FairSpec
INVARIANTS
  TypeOK
  NoDuplicateSkips
PROPERTIES
  OneExpiryIsExact
  PanicsBeyondTheEnd
  UpdatesSumToDiff
  UncountedIsNotAdjusted
  SkipEnds
