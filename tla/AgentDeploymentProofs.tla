---------------------- MODULE AgentDeploymentProofs ----------------------
(* Theorems about AgentDeployment, for any specs, policies and bounds.     *)
EXTENDS AgentDeployment, TLAPS

(* The call in progress, when there is one. *)
Call == [pc : {"sandbox", "policies"}, spec : Specs, read : Template \cup {None},
         next : Nat \ {0}, template : Template]

(* A template is one after the changes of each step. *)
LEMMA StoredTyped ==
  ASSUME NEW t \in Template \cup {None}
  PROVE  Stored(t) \in Template
  BY DEF Stored, Blank, Template

(* What a history shows, stores and becomes by a delivery. *)
LEMMA HistoryTyped ==
  ASSUME NEW S, NEW h \in Seq(S), h # <<>>
  PROVE  /\ Cached(h) \in S /\ Latest(h) \in S
         /\ <<Latest(h)>> \in Seq(S) /\ <<Latest(h)>> # <<>>
         /\ Len(h) > 1 => Tail(h) \in Seq(S) /\ Tail(h) # <<>>
<1>1. Len(h) \in Nat /\ Len(h) > 0
  OBVIOUS
<1>2. Cached(h) \in S /\ Latest(h) \in S
  BY <1>1 DEF Cached, Latest
<1>3. Len(h) > 1 => Tail(h) \in Seq(S) /\ Tail(h) # <<>>
  <2>1. Len(h) > 1 => Tail(h) \in Seq(S) /\ Len(Tail(h)) = Len(h) - 1
    OBVIOUS
  <2>2. Len(h) > 1 => Len(Tail(h)) # Len(<<>>)
    <3>1. Len(<<>>) = 0
      OBVIOUS
    <3>2. QED
      BY <1>1, <2>1, <3>1
  <2>3. QED
    BY <2>1, <2>2, Zenon
<1>4. QED
  BY <1>2, <1>3

LEMMA InitialTyped ==
  ASSUME NEW S, NEW h \in Histories(S)
  PROVE  h \in Seq(S) /\ h # <<>>
<1>1. PICK n \in 1..(MaxLag + 1) : h \in [1..n -> S]
  BY DEF Histories
<1>2. n \in Nat /\ n > 0
  BY DeploymentAssumption
<1>3. h \in Seq(S) /\ Len(h) = n
  BY <1>1, <1>2
<1>4. QED
  BY <1>2, <1>3

LEMMA WithSandboxTyped ==
  ASSUME NEW t \in Template, Cached(sandbox) \in Boxes \cup {None}
  PROVE  WithSandbox(t) \in Template
<1> DEFINE seen == Cached(sandbox)
           box == Keep(t.command, seen)
<1>1. box \in Boxes \cup {None} /\ seen \in Boxes \cup {None}
  BY DEF Keep, Template
<1>2. WithSandbox(t) \in {t, [t EXCEPT !.env = seen, !.command = box]}
  BY DEF WithSandbox
<1> HIDE DEF box, seen
<1>3. QED
  BY <1>1, <1>2 DEF Template

LEMMA WithPolicyTyped ==
  ASSUME NEW t \in Template, NEW p \in Policies
  PROVE  WithPolicy(t, p) \in Template
<1> DEFINE opa == IF "opa" \in Cached(rules)[p] THEN Keep(t.opa, p) ELSE t.opa
           ebpf == IF "ebpf" \in Cached(rules)[p] THEN Keep(t.ebpf, p) ELSE t.ebpf
<1>1. opa \in Policies \cup {None} /\ ebpf \in Policies \cup {None}
  BY DEF Keep, Template
<1>2. WithPolicy(t, p) = [t EXCEPT !.opa = opa, !.ebpf = ebpf]
  BY DEF WithPolicy
<1> HIDE DEF opa, ebpf
<1>3. QED
  BY <1>1, <1>2 DEF Template

LEMMA DesiredTyped ==
  ASSUME work \in Call
  PROVE  Desired \in Template
<1> DEFINE s == work.spec
<1>1. s \in AgentSpec /\ work.template \in Template
  BY DeploymentAssumption DEF Call
<1>2. s.port \in Ports \cup {None} /\ s.lifecycle \in Lifecycle \cup {None}
  BY <1>1 DEF AgentSpec
<1>3. s.lifecycle # None => s.lifecycle.strategy \in Strategies
  BY <1>2 DEF Lifecycle
<1>4. work.template.strategy \in Strategies \cup {None} /\ work.template.probe \in Ports \cup {None}
  BY <1>1 DEF Template
<1> DEFINE strategy == IF s.lifecycle = None THEN work.template.strategy ELSE s.lifecycle.strategy
           probe == IF SelfHealing(s) /\ ~Appended(Stored(work.read), work.template)
                    THEN Keep(work.template.probe, s.port) ELSE work.template.probe
<1>5. strategy \in Strategies \cup {None} /\ probe \in Ports \cup {None}
  BY <1>2, <1>3, <1>4 DEF Keep
<1>6. Desired = [work.template EXCEPT !.notes = s.lifecycle, !.strategy = strategy, !.probe = probe]
  BY DEF Desired
<1> HIDE DEF strategy, probe, s
<1>7. QED
  BY <1>1, <1>2, <1>5, <1>6 DEF Template

(* What the policies of a call are. *)
LEMMA PolicyTyped ==
  ASSUME work \in Call, NEW i \in 1..Len(work.spec.policies)
  PROVE  work.spec.policies[i] \in Policies
<1>1. work.spec \in AgentSpec
  BY DeploymentAssumption DEF Call
<1>2. work.spec.policies \in Seq(Policies)
  BY <1>1 DEF AgentSpec
<1>3. QED
  BY <1>2

(* The types, for any Agents, policies and bounds. *)
THEOREM TypeCorrect == SafetySpec => []TypeOK
<1>1. Init => TypeOK
  <2> SUFFICES ASSUME Init PROVE TypeOK
    OBVIOUS
  <2>1. sandbox \in Seq(Boxes \cup {None}) /\ sandbox # <<>>
    BY InitialTyped DEF Init
  <2>2. rules \in Seq(Rules) /\ rules # <<>>
    BY InitialTyped DEF Init
  <2>3. QED
    BY <2>1, <2>2, DeploymentAssumption DEF Init, TypeOK, Idle
<1>2. TypeOK /\ [Next]_vars => TypeOK'
  <2> SUFFICES ASSUME TypeOK, [Next]_vars PROVE TypeOK'
    OBVIOUS
  <2> USE DeploymentAssumption
  <2>w. work = Idle \/ work \in Call
    BY DEF TypeOK, Call
  <2>h. /\ Cached(sandbox) \in Boxes \cup {None} /\ Latest(sandbox) \in Boxes \cup {None}
        /\ Latest(rules) \in Rules
    BY HistoryTyped DEF TypeOK
  <2>l. <<Latest(sandbox)>> \in Seq(Boxes \cup {None}) /\ <<Latest(sandbox)>> # <<>>
    BY HistoryTyped DEF TypeOK
  <2>m. <<Latest(rules)>> \in Seq(Rules) /\ <<Latest(rules)>> # <<>>
    BY HistoryTyped DEF TypeOK
  <2>1. ASSUME Users PROVE TypeOK'
    <3>1. Edit /\ UNCHANGED <<work, crashes>>
      BY <2>1 DEF Users, EditSpec, EditSandbox, EditPolicy, DeleteDeployment
    <3>2. edits' \in 0..MaxEdits
      BY <3>1 DEF Edit, TypeOK
    <3>3. sandbox' \in Seq(Boxes \cup {None}) /\ sandbox' # <<>>
      <4>1. CASE sandbox' = sandbox
        BY <4>1 DEF TypeOK
      <4>2. ASSUME NEW b \in Boxes \cup {None}, EditSandbox(b)
            PROVE  sandbox' \in Seq(Boxes \cup {None}) /\ sandbox' # <<>>
        BY <4>2 DEF EditSandbox, TypeOK
      <4>3. QED
        BY <2>1, <4>1, <4>2 DEF Users, EditSpec, EditPolicy, DeleteDeployment
    <3>4. rules' \in Seq(Rules) /\ rules' # <<>>
      <4>1. CASE rules' = rules
        BY <4>1 DEF TypeOK
      <4>2. ASSUME NEW p \in Policies, NEW kinds \in RuleSets, EditPolicy(p, kinds)
            PROVE  rules' \in Seq(Rules) /\ rules' # <<>>
        <5>1. [Latest(rules) EXCEPT ![p] = kinds] \in Rules
          BY <2>h DEF Rules
        <5>2. QED
          BY <4>2, <5>1 DEF EditPolicy, TypeOK
      <4>3. QED
        BY <2>1, <4>1, <4>2 DEF Users, EditSpec, EditSandbox, DeleteDeployment
    <3>5. spec' \in Specs /\ deployed' \in Template \cup {None} /\ queued' \in BOOLEAN
      BY <2>1 DEF TypeOK, Users, EditSpec, EditSandbox, EditPolicy, DeleteDeployment
    <3>6. QED
      BY <3>1, <3>2, <3>3, <3>4, <3>5 DEF TypeOK
  <2>2. CASE Begin
    <3>1. Stored(deployed) \in Template /\ spec.port \in Ports \cup {None} /\ spec.volumes \in SUBSET Volumes
      BY StoredTyped DEF TypeOK, AgentSpec
    <3>2. work'.template \in Template
      BY <2>2, <3>1 DEF Begin, Template
    <3>3. work' \in Call
      BY <2>2, <3>2 DEF Begin, TypeOK, Call
    <3>4. QED
      BY <2>2, <3>3 DEF Begin, TypeOK, Call
  <2>3. CASE ResolveToolSandbox
    <3>1. work \in Call
      BY <2>w, <2>3 DEF ResolveToolSandbox, Idle
    <3> DEFINE t == WithSandbox(work.template)
    <3>2. t \in Template
      BY <2>h, <3>1, WithSandboxTyped DEF Call
    <3>3. work' = [work EXCEPT !.pc = "policies", !.template = t]
      BY <2>3 DEF ResolveToolSandbox
    <3> HIDE DEF t
    <3>4. work' \in Call
      BY <3>1, <3>2, <3>3 DEF Call
    <3>5. QED
      BY <2>3, <3>4 DEF ResolveToolSandbox, TypeOK, Call
  <2>4. CASE ResolvePolicy
    <3>1. work \in Call
      BY <2>w, <2>4 DEF ResolvePolicy, Idle
    <3> DEFINE t == WithPolicy(work.template, work.spec.policies[work.next])
    <3>2. t \in Template
      BY <2>4, <3>1, PolicyTyped, WithPolicyTyped DEF ResolvePolicy, Call
    <3>3. work' = [work EXCEPT !.next = work.next + 1, !.template = t]
      BY <2>4 DEF ResolvePolicy
    <3> HIDE DEF t
    <3>4. work.next \in Nat \ {0} /\ work.next + 1 \in Nat \ {0}
      BY <3>1 DEF Call
    <3>5. work' \in Call
      BY <3>1, <3>2, <3>3, <3>4 DEF Call
    <3>6. QED
      BY <2>4, <3>5 DEF ResolvePolicy, TypeOK, Call
  <2>5. CASE WriteDeployment
    <3>1. work \in Call
      BY <2>w, <2>5 DEF WriteDeployment, Built, Idle
    <3>2. Desired \in Template
      BY <3>1, DesiredTyped
    <3>3. deployed' \in Template \cup {None} /\ work' = Idle /\ queued' \in BOOLEAN
      BY <2>5, <3>2 DEF WriteDeployment
    <3>4. QED
      BY <2>5, <3>3 DEF WriteDeployment, TypeOK
  <2>6. CASE WriteFails \/ Restart
    <3>1. crashes' \in 0..MaxCrashes
      BY <2>6 DEF WriteFails, Restart, TypeOK
    <3>2. work' = Idle /\ queued' = TRUE
      BY <2>6 DEF WriteFails, Restart
    <3>3. UNCHANGED <<spec, deployed, edits>>
      BY <2>6 DEF WriteFails, Restart
    <3>4. sandbox' \in {sandbox, <<Latest(sandbox)>>} /\ rules' \in {rules, <<Latest(rules)>>}
      BY <2>6 DEF WriteFails, Restart
    <3>5. sandbox' \in Seq(Boxes \cup {None}) /\ sandbox' # <<>>
      BY <2>l, <3>4, Zenon DEF TypeOK
    <3>6. rules' \in Seq(Rules) /\ rules' # <<>>
      BY <2>m, <3>4, Zenon DEF TypeOK
    <3>7. QED
      BY <3>1, <3>2, <3>3, <3>5, <3>6 DEF TypeOK
  <2>7. CASE Resync \/ UNCHANGED vars
    BY <2>7 DEF Resync, TypeOK, vars
  <2>8. CASE DeliverSandbox
    <3>1. sandbox' \in Seq(Boxes \cup {None}) /\ sandbox' # <<>>
      BY <2>8, HistoryTyped DEF DeliverSandbox, TypeOK
    <3>2. QED
      BY <2>8, <3>1 DEF DeliverSandbox, TypeOK
  <2>9. CASE DeliverPolicy
    <3>1. rules' \in Seq(Rules) /\ rules' # <<>>
      BY <2>9, HistoryTyped DEF DeliverPolicy, TypeOK
    <3>2. QED
      BY <2>9, <3>1 DEF DeliverPolicy, TypeOK
  <2>10. QED
    BY <2>1, <2>2, <2>3, <2>4, <2>5, <2>6, <2>7, <2>8, <2>9 DEF Next, EnsureDeployment
<1>3. QED
  BY <1>1, <1>2, PTL DEF SafetySpec

-----------------------------------------------------------------------------
(* NeverUnprotected, from one inductive invariant for the sandbox and one  *)
(* for each Policy and kind of rules.  While nobody changes anything, what *)
(* was known stays known, a call works on the present spec, and its        *)
(* template has what the reads so far ask for.                             *)

BoxInv ==
  edits = 0 =>
    /\ KnownBox
    /\ spec.sandbox /\ deployed # None => deployed.env # None
    /\ work.pc # "idle" =>
         /\ work.spec = spec
         /\ work.pc = "policies" /\ spec.sandbox => work.template.env # None

(* Before the n-th reference is read: without a container of the kind the  *)
(* Policy is still to come.                                                *)
InTime(t, n, p, kind) ==
  IF Sidecar(t, kind) = None THEN \A i \in References(p) : n <= i ELSE InPlace(t, p, kind)

RuleInv(p, kind) ==
  edits = 0 /\ References(p) # {} =>
    /\ KnownRule(p, kind)
    /\ deployed # None => InPlace(deployed, p, kind)
    /\ work.pc # "idle" => work.spec = spec /\ InTime(work.template, work.next, p, kind)

(* While nobody changes anything, each step of the informers and of the    *)
(* operator leaves the spec alone, and its histories only get shorter.     *)
LEMMA Undisturbed ==
  ASSUME TypeOK, [Next]_vars, edits' = 0
  PROVE  /\ edits = 0 /\ spec' = spec
         /\ \/ DeliverSandbox \/ DeliverPolicy \/ EnsureDeployment
            \/ Restart \/ Resync \/ UNCHANGED vars
<1>1. ~Users
  <2>1. edits \in Nat
    BY DeploymentAssumption DEF TypeOK
  <2>2. Users => edits' = edits + 1
    BY DEF Users, Edit, EditSpec, EditSandbox, EditPolicy, DeleteDeployment
  <2>3. QED
    BY <2>1, <2>2
<1>2. QED
  BY <1>1 DEF Next, DeliverSandbox, DeliverPolicy, EnsureDeployment, Begin, ResolveToolSandbox,
              ResolvePolicy, WriteDeployment, WriteFails, Restart, Resync, vars

(* Everything after a delivery or a restart was in the history before.     *)
Within(g, h) == \A i \in 1..Len(g) : \E j \in 1..Len(h) : g[i] = h[j]

LEMMA HistoryShrinks ==
  ASSUME NEW S, NEW h \in Seq(S), h # <<>>
  PROVE  Within(h, h) /\ Within(<<Latest(h)>>, h) /\ (Len(h) > 1 => Within(Tail(h), h))
<1>1. Len(h) \in Nat /\ Len(h) > 0
  OBVIOUS
<1>2. Len(h) \in 1..Len(h)
  BY <1>1
<1>3. \A i \in 1..Len(<<Latest(h)>>) : <<Latest(h)>>[i] = h[Len(h)]
  BY DEF Latest
<1>4. Len(h) > 1 => \A i \in 1..Len(Tail(h)) : i + 1 \in 1..Len(h) /\ Tail(h)[i] = h[i + 1]
  BY <1>1
<1>5. QED
  BY <1>2, <1>3, <1>4 DEF Within

LEMMA KnownBoxStays ==
  ASSUME TypeOK, KnownBox, DeliverSandbox \/ Restart \/ UNCHANGED sandbox
  PROVE  KnownBox'
<1>1. /\ Within(sandbox, sandbox) /\ Within(<<Latest(sandbox)>>, sandbox)
      /\ Len(sandbox) > 1 => Within(Tail(sandbox), sandbox)
  BY HistoryShrinks DEF TypeOK
<1>2. Within(sandbox', sandbox)
  BY <1>1, Zenon DEF DeliverSandbox, Restart
<1>3. QED
  BY <1>2 DEF Within, KnownBox

LEMMA KnownRuleStays ==
  ASSUME TypeOK, NEW p \in Policies, NEW kind \in Kinds, KnownRule(p, kind),
         DeliverPolicy \/ Restart \/ UNCHANGED rules
  PROVE  KnownRule(p, kind)'
<1>1. /\ Within(rules, rules) /\ Within(<<Latest(rules)>>, rules)
      /\ Len(rules) > 1 => Within(Tail(rules), rules)
  BY HistoryShrinks DEF TypeOK
<1>2. Within(rules', rules)
  BY <1>1, Zenon DEF DeliverPolicy, Restart
<1>3. QED
  BY <1>2 DEF Within, KnownRule

(* A policy leaves the sandbox alone, and a container that is there; one   *)
(* with rules adds itself where there is none.                             *)
LEMMA WithPolicyAdds ==
  ASSUME NEW t \in Template, NEW p \in Policies, NEW kind \in Kinds
  PROVE  /\ WithPolicy(t, p).env = t.env
         /\ Sidecar(WithPolicy(t, p), kind) =
              IF kind \in Cached(rules)[p] THEN Keep(Sidecar(t, kind), p) ELSE Sidecar(t, kind)
<1> DEFINE opa == IF "opa" \in Cached(rules)[p] THEN Keep(t.opa, p) ELSE t.opa
           ebpf == IF "ebpf" \in Cached(rules)[p] THEN Keep(t.ebpf, p) ELSE t.ebpf
<1>1. WithPolicy(t, p) = [t EXCEPT !.opa = opa, !.ebpf = ebpf]
  BY DEF WithPolicy
<1> HIDE DEF opa, ebpf
<1>2. WithPolicy(t, p).env = t.env /\ WithPolicy(t, p).opa = opa /\ WithPolicy(t, p).ebpf = ebpf
  BY <1>1 DEF Template
<1>3. kind = "opa" \/ kind = "ebpf"
  BY DEF Kinds
<1>4. QED
  BY <1>2, <1>3 DEF opa, ebpf, Sidecar

(* The end of the function leaves the sidecars alone. *)
LEMMA DesiredKeepsSidecars ==
  ASSUME work \in Call
  PROVE  /\ Desired.env = work.template.env
         /\ Desired.opa = work.template.opa
         /\ Desired.ebpf = work.template.ebpf
<1> DEFINE strategy == IF work.spec.lifecycle = None THEN work.template.strategy
                       ELSE work.spec.lifecycle.strategy
           probe == IF SelfHealing(work.spec) /\ ~Appended(Stored(work.read), work.template)
                    THEN Keep(work.template.probe, work.spec.port) ELSE work.template.probe
<1>1. Desired = [work.template EXCEPT !.notes = work.spec.lifecycle, !.strategy = strategy,
                                      !.probe = probe]
  BY DEF Desired
<1> HIDE DEF strategy, probe
<1>2. QED
  BY <1>1 DEF Call, Template

LEMMA BoxStep == TypeOK /\ BoxInv /\ [Next]_vars => BoxInv'
<1> SUFFICES ASSUME TypeOK, BoxInv, [Next]_vars, edits' = 0
             PROVE  /\ KnownBox'
                    /\ spec'.sandbox /\ deployed' # None => deployed'.env # None
                    /\ work'.pc # "idle" =>
                         /\ work'.spec = spec'
                         /\ work'.pc = "policies" /\ spec'.sandbox => work'.template.env # None
  BY DEF BoxInv
<1>1. edits = 0 /\ spec' = spec
  BY Undisturbed
<1>2. \/ DeliverSandbox \/ DeliverPolicy \/ EnsureDeployment
      \/ Restart \/ Resync \/ UNCHANGED vars
  BY Undisturbed
<1>3. /\ KnownBox
      /\ spec.sandbox /\ deployed # None => deployed.env # None
      /\ work.pc # "idle" =>
           /\ work.spec = spec
           /\ work.pc = "policies" /\ spec.sandbox => work.template.env # None
  BY <1>1 DEF BoxInv
<1>4. KnownBox'
  <2>1. DeliverSandbox \/ Restart \/ UNCHANGED sandbox
    BY <1>2 DEF DeliverPolicy, EnsureDeployment, Begin, ResolveToolSandbox, ResolvePolicy,
                WriteDeployment, WriteFails, Resync, vars
  <2>2. QED
    BY <1>3, <2>1, KnownBoxStays
<1>5. work = Idle \/ work \in Call
  BY DEF TypeOK, Call
<1>6. CASE Begin
  BY <1>1, <1>3, <1>4, <1>6 DEF Begin
<1>7. CASE ResolveToolSandbox
  <2>1. work \in Call
    BY <1>5, <1>7 DEF ResolveToolSandbox, Idle
  <2>2. work.spec = spec /\ work.template \in Template
    BY <1>3, <1>7, <2>1 DEF ResolveToolSandbox, Call
  <2>3. Cached(sandbox) # None
    <3>1. 1 \in 1..Len(sandbox)
      BY DEF TypeOK
    <3>2. QED
      BY <1>3, <3>1 DEF KnownBox, Cached
  <2>4. spec.sandbox => WithSandbox(work.template).env # None
    BY <2>2, <2>3 DEF WithSandbox, Template
  <2>5. work'.spec = spec /\ work'.template = WithSandbox(work.template) /\ deployed' = deployed
    BY <1>7, <2>1, <2>2 DEF ResolveToolSandbox, Call
  <2>6. QED
    BY <1>1, <1>3, <1>4, <2>4, <2>5
<1>8. CASE ResolvePolicy
  <2> DEFINE q == work.spec.policies[work.next]
             new == WithPolicy(work.template, q)
  <2>1. work \in Call
    BY <1>5, <1>8 DEF ResolvePolicy, Idle
  <2>2. q \in Policies /\ work.template \in Template
    BY <1>8, <2>1, PolicyTyped DEF ResolvePolicy, Call
  <2>3. new.env = work.template.env
    BY <2>2, WithPolicyAdds DEF Kinds
  <2>4. work'.spec = work.spec /\ work'.template = new /\ deployed' = deployed
    BY <1>8, <2>1 DEF ResolvePolicy, Call
  <2> HIDE DEF new
  <2>5. work.pc = "policies"
    BY <1>8 DEF ResolvePolicy
  <2>6. QED
    BY <1>1, <1>3, <1>4, <2>3, <2>4, <2>5
<1>9. CASE WriteDeployment
  <2>1. work \in Call /\ work.pc = "policies"
    BY <1>5, <1>9 DEF WriteDeployment, Built, Idle
  <2>2. deployed'.env = work.template.env /\ work' = Idle
    BY <1>9, <2>1, DesiredKeepsSidecars DEF WriteDeployment
  <2>3. QED
    BY <1>1, <1>3, <1>4, <2>1, <2>2 DEF Idle
<1>10. CASE WriteFails \/ Restart
  BY <1>1, <1>3, <1>4, <1>10 DEF WriteFails, Restart, Idle
<1>11. CASE DeliverSandbox \/ DeliverPolicy \/ Resync \/ UNCHANGED vars
  BY <1>1, <1>3, <1>4, <1>11 DEF DeliverSandbox, DeliverPolicy, Resync, vars
<1>12. QED
  BY <1>2, <1>6, <1>7, <1>8, <1>9, <1>10, <1>11 DEF EnsureDeployment

LEMMA RuleStep ==
  ASSUME NEW p \in Policies, NEW kind \in Kinds
  PROVE  TypeOK /\ RuleInv(p, kind) /\ [Next]_vars => RuleInv(p, kind)'
<1> SUFFICES ASSUME TypeOK, RuleInv(p, kind), [Next]_vars, edits' = 0, References(p)' # {}
             PROVE  /\ KnownRule(p, kind)'
                    /\ deployed' # None => InPlace(deployed, p, kind)'
                    /\ work'.pc # "idle" =>
                         work'.spec = spec' /\ InTime(work.template, work.next, p, kind)'
  BY DEF RuleInv
<1>1. edits = 0 /\ spec' = spec
  BY Undisturbed
<1>2. \/ DeliverSandbox \/ DeliverPolicy \/ EnsureDeployment
      \/ Restart \/ Resync \/ UNCHANGED vars
  BY Undisturbed
<1>r. References(p)' = References(p) /\ References(p) # {}
  BY <1>1 DEF References
<1>3. /\ KnownRule(p, kind)
      /\ deployed # None => InPlace(deployed, p, kind)
      /\ work.pc # "idle" => work.spec = spec /\ InTime(work.template, work.next, p, kind)
  BY <1>1, <1>r DEF RuleInv
<1>4. KnownRule(p, kind)'
  <2>1. DeliverPolicy \/ Restart \/ UNCHANGED rules
    BY <1>2 DEF DeliverSandbox, EnsureDeployment, Begin, ResolveToolSandbox, ResolvePolicy,
                WriteDeployment, WriteFails, Resync, vars
  <2>2. QED
    BY <1>3, <2>1, KnownRuleStays
(* Both only look at the container of this kind. *)
<1>s. /\ \A t, u : Sidecar(t, kind) = Sidecar(u, kind) /\ InPlace(t, p, kind) => InPlace(u, p, kind)
      /\ \A t, u, n : Sidecar(t, kind) = Sidecar(u, kind) /\ InTime(t, n, p, kind)
                      => InTime(u, n, p, kind)
  BY DEF InPlace, InTime
<1>5. work = Idle \/ work \in Call
  BY DEF TypeOK, Call
<1>k. \A t, n : t = work'.template /\ n = work'.next /\ InTime(t, n, p, kind)
                => InTime(work.template, work.next, p, kind)'
  BY <1>1, <1>r DEF InTime, InPlace
<1>d. \A t : t = deployed' /\ InPlace(t, p, kind) => InPlace(deployed, p, kind)'
  BY <1>1, <1>r DEF InPlace
<1>i. deployed' = deployed => (deployed' # None => InPlace(deployed, p, kind)')
  BY <1>1, <1>3, <1>r DEF InPlace
<1>j. work' = work => (work'.pc # "idle" =>
                         work'.spec = spec' /\ InTime(work.template, work.next, p, kind)')
  BY <1>1, <1>3, <1>r DEF InTime, InPlace
<1>6. CASE Begin
  <2> DEFINE new == [Stored(deployed) EXCEPT !.port = spec.port, !.volumes = spec.volumes]
  <2>1. Sidecar(new, kind) = Sidecar(Stored(deployed), kind)
    BY StoredTyped DEF Sidecar, Template, TypeOK
  <2>2. InTime(Stored(deployed), 1, p, kind)
    <3>1. CASE deployed = None
      BY <3>1 DEF Stored, Blank, Sidecar, InTime, References
    <3>2. CASE deployed # None
      <4>1. Stored(deployed) = deployed /\ InPlace(deployed, p, kind)
        BY <1>3, <3>2 DEF Stored
      <4>2. \A i \in References(p) : 1 <= i
        BY DEF References
      <4>3. QED
        BY <4>1, <4>2 DEF InTime
    <3>3. QED
      BY <3>1, <3>2
  <2>3. InTime(new, 1, p, kind)
    BY <1>s, <2>1, <2>2, Zenon
  <2>4. work'.template = new /\ work'.next = 1 /\ work'.spec = spec
    BY <1>6 DEF Begin
  <2> HIDE DEF new
  <2>5. InTime(work.template, work.next, p, kind)'
    BY <1>k, <2>3, <2>4
  <2>6. QED
    BY <1>1, <1>4, <1>6, <1>i, <2>4, <2>5 DEF Begin
<1>7. CASE ResolveToolSandbox
  <2> DEFINE new == WithSandbox(work.template)
  <2>1. work \in Call
    BY <1>5, <1>7 DEF ResolveToolSandbox, Idle
  <2>2. Sidecar(new, kind) = Sidecar(work.template, kind)
    BY <2>1 DEF WithSandbox, Sidecar, Call, Template
  <2>3. work.spec = spec /\ InTime(work.template, work.next, p, kind)
    BY <1>3, <1>7 DEF ResolveToolSandbox
  <2>4. InTime(new, work.next, p, kind)
    BY <1>s, <2>2, <2>3, Zenon
  <2>5. work'.template = new /\ work'.next = work.next /\ work'.spec = spec
    BY <1>7, <2>1, <2>3 DEF ResolveToolSandbox, Call
  <2> HIDE DEF new
  <2>6. InTime(work.template, work.next, p, kind)'
    BY <1>k, <2>4, <2>5
  <2>7. QED
    BY <1>1, <1>4, <1>7, <1>i, <2>5, <2>6 DEF ResolveToolSandbox
<1>8. CASE ResolvePolicy
  <2> DEFINE n == work.next
             q == spec.policies[n]
             old == work.template
             new == WithPolicy(old, q)
  <2>1. work \in Call
    BY <1>5, <1>8 DEF ResolvePolicy, Idle
  <2>2. work.spec = spec /\ InTime(old, n, p, kind)
    BY <1>3, <1>8 DEF ResolvePolicy
  <2>3. n \in 1..Len(spec.policies) /\ q \in Policies /\ old \in Template
    BY <1>8, <2>1, <2>2, PolicyTyped DEF ResolvePolicy, Call
  <2>4. Sidecar(new, kind) =
          IF kind \in Cached(rules)[q] THEN Keep(Sidecar(old, kind), q) ELSE Sidecar(old, kind)
    BY <2>3, WithPolicyAdds
  <2>5. work'.template = new /\ work'.next = n + 1 /\ work'.spec = spec
    BY <1>8, <2>1, <2>2 DEF ResolvePolicy, Call
  <2> HIDE DEF new, old
  <2>6. InTime(new, n + 1, p, kind)
    <3>1. CASE Sidecar(old, kind) # None
      <4>1. Sidecar(new, kind) = Sidecar(old, kind)
        BY <2>4, <3>1 DEF Keep
      <4>2. InPlace(old, p, kind)
        BY <2>2, <3>1 DEF InTime
      <4>3. QED
        BY <3>1, <4>1, <4>2, <1>s DEF InTime
    <3>2. CASE Sidecar(old, kind) = None /\ kind \in Cached(rules)[q]
      <4>1. Sidecar(new, kind) = q /\ q # None
        BY <2>3, <2>4, <3>2, DeploymentAssumption DEF Keep
      <4>2. \A i \in References(p) : n <= i
        BY <2>2, <3>2 DEF InTime
      <4>3. InPlace(new, p, kind)
        BY <2>3, <4>1, <4>2 DEF InPlace
      <4>4. QED
        BY <4>1, <4>3 DEF InTime
    <3>3. CASE Sidecar(old, kind) = None /\ kind \notin Cached(rules)[q]
      <4>1. Sidecar(new, kind) = None
        BY <2>4, <3>3
      <4>2. kind \in Cached(rules)[p]
        <5>1. 1 \in 1..Len(rules)
          BY DEF TypeOK
        <5>2. QED
          BY <1>3, <5>1 DEF KnownRule, Cached
      <4>3. n \notin References(p)
        BY <3>3, <4>2 DEF References
      <4>4. \A i \in References(p) : n <= i /\ i # n /\ i \in Nat
        BY <2>2, <3>3, <4>3 DEF InTime, References
      <4>5. \A i \in References(p) : n + 1 <= i
        BY <2>3, <4>4
      <4>6. QED
        BY <4>1, <4>5 DEF InTime
    <3>4. QED
      BY <3>1, <3>2, <3>3
  <2>7. InTime(work.template, work.next, p, kind)'
    BY <1>k, <2>5, <2>6
  <2>8. QED
    BY <1>1, <1>4, <1>8, <1>i, <2>5, <2>7 DEF ResolvePolicy
<1>9. CASE WriteDeployment
  <2>1. work \in Call /\ work.pc = "policies" /\ work.next > Len(work.spec.policies)
    BY <1>5, <1>9 DEF WriteDeployment, Built, Idle
  <2>2. work.spec = spec /\ InTime(work.template, work.next, p, kind)
    BY <1>3, <2>1
  <2>3. InPlace(work.template, p, kind)
    <3>1. PICK i \in References(p) : TRUE
      BY <1>r
    <3>2. work.next \in Nat /\ Len(spec.policies) \in Nat /\ i \in 1..Len(spec.policies)
      BY <2>1, DeploymentAssumption DEF Call, TypeOK, AgentSpec, References
    <3>3. ~(work.next <= i)
      BY <2>1, <2>2, <3>2
    <3>4. QED
      BY <2>2, <3>1, <3>3 DEF InTime
  <2>4. Sidecar(Desired, kind) = Sidecar(work.template, kind)
    BY <2>1, DesiredKeepsSidecars DEF Sidecar
  <2>5. InPlace(Desired, p, kind)
    BY <1>s, <2>3, <2>4, Zenon
  <2>6. deployed' = Desired /\ work' = Idle
    BY <1>9 DEF WriteDeployment
  <2>7. InPlace(deployed, p, kind)'
    BY <1>d, <2>5, <2>6
  <2>8. QED
    BY <1>4, <2>6, <2>7 DEF Idle
<1>10. CASE WriteFails \/ Restart
  BY <1>4, <1>10, <1>i DEF WriteFails, Restart, Idle
<1>11. CASE DeliverSandbox \/ DeliverPolicy \/ Resync \/ UNCHANGED vars
  BY <1>4, <1>11, <1>i, <1>j DEF DeliverSandbox, DeliverPolicy, Resync, vars
<1>12. QED
  BY <1>2, <1>6, <1>7, <1>8, <1>9, <1>10, <1>11 DEF EnsureDeployment

(* In any interleaving with deliveries and crashes, for any list of        *)
(* policies and any lag: what was in the caches when the Agent was created *)
(* is in every Deployment written before somebody changes something, a     *)
(* Policy either itself or behind one that stands before it.               *)
THEOREM SidecarsFromTheStart == SafetySpec => NeverUnprotected
<1>1. SafetySpec =>
        (KnownBox => [](edits = 0 /\ spec.sandbox /\ deployed # None => deployed.env # None))
  <2>1. Init /\ KnownBox => BoxInv
    BY DEF Init, Idle, BoxInv
  <2>2. BoxInv => (edits = 0 /\ spec.sandbox /\ deployed # None => deployed.env # None)
    BY DEF BoxInv
  <2>3. QED
    BY <2>1, <2>2, BoxStep, TypeCorrect, PTL DEF SafetySpec
<1>2. ASSUME NEW p \in Policies, NEW kind \in Kinds
      PROVE  SafetySpec => (KnownRule(p, kind) =>
               [](edits = 0 /\ References(p) # {} /\ deployed # None => InPlace(deployed, p, kind)))
  <2>1. Init /\ KnownRule(p, kind) => RuleInv(p, kind)
    BY DEF Init, Idle, RuleInv
  <2>2. TypeOK /\ RuleInv(p, kind) /\ [Next]_vars => RuleInv(p, kind)'
    BY RuleStep
  <2>3. RuleInv(p, kind) =>
          (edits = 0 /\ References(p) # {} /\ deployed # None => InPlace(deployed, p, kind))
    BY DEF RuleInv
  <2>4. QED
    BY <2>1, <2>2, <2>3, TypeCorrect, PTL DEF SafetySpec
<1>3. QED
  BY <1>1, <1>2 DEF NeverUnprotected
=============================================================================
