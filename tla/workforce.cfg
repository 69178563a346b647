SPECIFICATION Spec
CONSTANTS
  a = a
  b = b
  tool = tool
  Agents = {a, b}
  Leaves = {tool}
  Starts <- FewGraphs
  MaxEdits = 2
  MaxCrashes = 1
INVARIANTS TypeOK WalkIsExact RestsOnlyRight
PROPERTIES EverythingDiscovered
