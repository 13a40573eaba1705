\* One client that waits for each answer, no race between a Stop and a Start.
CONSTANTS
  Callers = {c1}
  Main = main
  Loops = {l1}
  Nodes = {n1, n2}
SPECIFICATION SchedFairSpec
PROPERTIES
  ExportSettles
  OneExportUntilAStop
