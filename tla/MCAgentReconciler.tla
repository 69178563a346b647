------------------------- MODULE MCAgentReconciler -------------------------
(* AgentReconciler with two or three specs: the first has everything set,  *)
(* the second nothing, the third a Service and a proof chain.              *)
EXTENDS AgentReconciler, TLC

CONSTANTS full, bare, proven, o1, o2

TwoSpecs == {full, bare}
ThreeSpecs == {full, bare, proven}
ServedSpecs == {full, proven} \cap Specs
BudgetedSpecs == {full}
VerifiedSpecs == {full, proven} \cap Specs

OperatorSymmetry == Permutations(Operators)
=============================================================================
