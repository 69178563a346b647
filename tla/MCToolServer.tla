---------------------------- MODULE MCToolServer ----------------------------
(* Two gateways in the default namespace, one of which the ToolServer may  *)
(* name; it has another URL when it does. Or that gateway alone.           *)
EXTENDS ToolServer

CONSTANTS g1, g2, u1, direct1, direct2

Attaching == {[gateway |-> None, url |-> direct1], [gateway |-> g1, url |-> direct2]}
Explicit == {[gateway |-> g1, url |-> direct1]}
=============================================================================
