------------------------ MODULE MCAgentDeployment ------------------------
(* Two ports, a sandbox with two versions, one or two policies.            *)
EXTENDS AgentDeployment

CONSTANTS p, q, box1, box2, pol1, pol2, rolling

(* One Policy may lack rules the other has. *)
SomeRules == {{}, {"opa"}, Kinds}

All == Volumes
Healing == [strategy |-> rolling, heal |-> TRUE]

Simple(port) == [port |-> port, lifecycle |-> Healing, sandbox |-> FALSE,
                 policies |-> <<>>, volumes |-> {}]
Guarded(port, refs, volumes) == [Simple(port) EXCEPT !.sandbox = TRUE, !.policies = refs,
                                                     !.volumes = volumes]

(* Without lifecycle; on another port; with sandbox and policies; with the *)
(* containers kept but the volumes dropped.                                *)
MixedSpecs == {Simple(p), [Simple(q) EXCEPT !.lifecycle = None],
               Guarded(p, <<pol1, pol2>>, All), Guarded(q, <<pol2>>, All \ {"opa-policies"})}

(* As in the examples: nobody declares the volumes. *)
SampleSpecs == {Guarded(p, <<pol1>>, {}), Simple(p)}
PortSpecs == {Simple(p), Simple(q)}
=============================================================================
