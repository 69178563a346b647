------------------------ MODULE MCAgenticWorkforce ------------------------
(* Two Agents and a tool. *)
EXTENDS AgenticWorkforce

CONSTANTS a, b, tool

To(refs) == [exists |-> TRUE, refs |-> refs]

(* Nothing exists yet; a cycle with a tool; a sub-agent that is missing.   *)
FewGraphs == {[x \in Agents |-> Nothing],
              [x \in Agents |-> IF x = a THEN To({b}) ELSE To({a, tool})],
              [x \in Agents |-> IF x = a THEN To({a, b}) ELSE Nothing]}
=============================================================================
