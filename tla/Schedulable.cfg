\* Two clients, so that a Start can come during the second half of a Stop.
CONSTANTS
  Callers = {c1, c2}
  Main = main
  Loops = {l1}
  Nodes = {n1, n2}
SPECIFICATION SchedSpec
SYMMETRY Interchangeable
INVARIANTS
  SchedTypeOK
  StoppedExportsAll
  OnlyOverlapsTear
  SetsFollowDiffs
