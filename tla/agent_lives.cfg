SPECIFICATION Spec
CONSTANTS
  full = full
  bare = bare
  proven = proven
  NoSpec = NoSpec
  o1 = o1
  o2 = o2
  Specs <- TwoSpecs
  Served <- ServedSpecs
  Budgeted <- BudgetedSpecs
  Verified <- VerifiedSpecs
  Operators = {o1}
  AllowRevert = FALSE
  MaxLives = 2
  MaxGeneration = 2
  MaxCheckpoints = 2
  MaxTokens = 0
  MaxChildVersion = 3
  MaxFaults = 1
INVARIANTS TypeOK ReadyMeansDeployed AuditedWasApplied
CHECK_DEADLOCK FALSE
