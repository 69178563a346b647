SPECIFICATION Spec
CONSTANTS
  left = left
  right = right
  Tabs = {left, right}
  Names = {"n1"}
  Plans <- Scenarios
  MaxWithdrawals = 1
  MaxCalls = 3
INVARIANTS TypeOK DashboardWhole ShownWasTrue OutagesKeepSession
PROPERTIES ListFollowsCluster SpinnersStop RejectedLeaves
