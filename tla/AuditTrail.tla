----------------------------- MODULE AuditTrail -----------------------------
(***************************************************************************)
(* What the Merkle checkpoints of an Agent promise (internal/merkle): an   *)
(* append-only trail in which entry n is the spec that was in force when   *)
(* checkpoint n was made, and which only a new Agent starts afresh.        *)
(***************************************************************************)
EXTENDS Naturals, Sequences

CONSTANTS Specs, NoSpec

VARIABLES
  life,     \* which Agent of the name this is; 0 when there is none
  inForce,  \* its present spec
  trail     \* its checkpoints

vars == <<life, inForce, trail>>

Init == life = 0 /\ inForce = NoSpec /\ trail = <<>>

(* The Agent is created or deleted. *)
StartAfresh ==
  /\ life' # life
  /\ inForce' \in Specs \cup {NoSpec}
  /\ trail' = <<>>

ChangeSpec ==
  /\ life # 0
  /\ inForce' \in Specs
  /\ UNCHANGED <<life, trail>>

Record ==
  /\ life # 0
  /\ trail' = Append(trail, [spec |-> inForce, count |-> Len(trail) + 1])
  /\ UNCHANGED <<life, inForce>>

Next == StartAfresh \/ ChangeSpec \/ Record

Spec == Init /\ [][Next]_vars
=============================================================================
