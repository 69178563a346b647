SPECIFICATION Spec
CONSTANTS
  p = p
  q = q
  box1 = box1
  box2 = box2
  pol1 = pol1
  pol2 = pol2
  rolling = rolling
  None = None
  Ports = {p, q}
  Boxes = {box1}
  Policies = {pol1}
  Strategies = {rolling}
  RuleSets <- SomeRules
  Specs <- SampleSpecs
  MaxEdits = 1
  MaxLag = 0
  MaxCrashes = 0
PROPERTIES PoliciesInjected
