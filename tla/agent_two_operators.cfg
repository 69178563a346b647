SPECIFICATION Spec
CONSTANTS
  full = full
  bare = bare
  proven = proven
  NoSpec = NoSpec
  o1 = o1
  o2 = o2
  Specs <- TwoSpecs
  Served = {}
  Budgeted <- BudgetedSpecs
  Verified <- VerifiedSpecs
  Operators = {o1, o2}
  AllowRevert = TRUE
  MaxLives = 1
  MaxGeneration = 2
  MaxCheckpoints = 2
  MaxTokens = 1
  MaxChildVersion = 2
  MaxFaults = 0
SYMMETRY OperatorSymmetry
INVARIANTS ProofChainIsTailOfMerkleChain
PROPERTIES TrailSpec TokensNeverLost
CHECK_DEADLOCK FALSE
