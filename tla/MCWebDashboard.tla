--------------------------- MODULE MCWebDashboard ---------------------------
(* An instance of WebDashboard for TLC: two tabs and three scenarios.        *)
EXTENDS WebDashboard

CONSTANTS left, right

Scenario(l, r, logins, failures, versions) ==
  [paths |-> [t \in Tabs |-> IF t = left THEN l ELSE r],
   logins |-> logins, faults |-> failures, versions |-> versions]

(* Two tabs share the token: one logs in, twice, the other one stays on Live *)
(* Agents.                                                                   *)
Sharing == Scenario({"/login"}, {"/agents"}, 2, 1, 1)

(* The list, deletions and creations, while the namespace changes.           *)
Managing == Scenario({"/login", "/agents", "/agents/new"}, {}, 1, 1, 3)

(* The other pages.                                                          *)
Reading == Scenario({"/login", "/cost", "/attestation", "/simulation"}, {}, 1, 1, 2)

Scenarios == {Sharing, Managing, Reading}
=============================================================================
