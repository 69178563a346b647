SPECIFICATION Spec
CONSTANTS
  a = a
  b = b
  u = u
  v = v
  NoUrl = NoUrl
  Agents = {a, b}
  Urls = {u, v}
  Gated = {b}
  Graphs <- AllGraphs
  MaxEdits = 1
  MaxOutages = 1
INVARIANTS TypeOK StuckNeverStarts
PROPERTIES GroundedConverge
