----------------------- MODULE MCAgentDependencies -----------------------
(* All graphs of sub-agents between two Agents; in half of them b has no   *)
(* A2A protocol.                                                           *)
EXTENDS AgentDependencies

CONSTANTS a, b, u, v

AllGraphs == {[x \in Agents |-> [url |-> IF x = b THEN w ELSE u, refs |-> r[x]]] :
                w \in {u, NoUrl}, r \in [Agents -> SUBSET Agents]}
=============================================================================
