------------------------ MODULE MCAgentConvergence ------------------------
(* Three specs: with a Service, without one, and scaled to zero.           *)
EXTENDS AgentConvergence

CONSTANTS full, bare, zero

AllSpecs == {full, bare, zero}
TwoSpecs == {full, zero}
ServedSpecs == {full}
SuspendedSpecs == {zero}
=============================================================================
