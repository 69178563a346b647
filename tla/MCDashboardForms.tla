-------------------------- MODULE MCDashboardForms --------------------------
(* An instance of DashboardForms for TLC: of every field the initial value   *)
(* and the values that the conversions tell apart.                           *)
EXTENDS DashboardForms, TLC

Typed ==
  [name |-> {"", "n1", "N_1"}, instruction |-> {"text"}, model |-> {""},
   replicas |-> {"", "7"}, apiKey |-> {"key"},
   maxMonthlyCost |-> {"0", "100", "-5", "abc"},
   optimizationMode |-> {"auto"}, verifiableEnabled |-> BOOLEAN,
   proofMode |-> {"plonk-universal"}, autonomyLevel |-> {"5"},
   strategy |-> {"canary"}, promptVersion |-> {"v1"}]

Numerals ==
  "" :> 0 @@ "0" :> 0 @@ "1" :> 1 @@ "3" :> 3 @@ "5" :> 5 @@ "7" :> 7 @@ "50" :> 50
    @@ "100" :> 100 @@ "-5" :> -5

TypedSim ==
  [name |-> {"n1"}, replicas |-> {"", "7"}, maxMonthlyCost |-> {"", "-5"},
   verifiableEnabled |-> BOOLEAN]
=============================================================================
