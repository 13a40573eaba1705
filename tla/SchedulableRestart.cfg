CONSTANTS
  Callers = {c1}
  Main = main
  Loops = {l1}
  Nodes = {n1, n2}
SPECIFICATION SchedSpec
INVARIANTS
  OneNodeExported
