SPECIFICATION Spec
CONSTANTS
  p = p
  q = q
  box1 = box1
  box2 = box2
  pol1 = pol1
  pol2 = pol2
  rolling = rolling
  None = None
  Ports = {p, q}
  Boxes = {box1, box2}
  Policies = {pol1, pol2}
  Strategies = {rolling}
  RuleSets <- SomeRules
  Specs <- MixedSpecs
  MaxEdits = 1
  MaxLag = 1
  MaxCrashes = 1
INVARIANTS TypeOK
PROPERTIES NeverUnprotected Settles
