-------------------------- MODULE AgentDeployment --------------------------
(***************************************************************************)
(* The pod template of an Agent, part by part: ensureDeployment of         *)
(* internal/controller/agent_reconciler.go with internal/wasm,             *)
(* internal/ebpf and internal/lifecycle.                                   *)
(*                                                                         *)
(* Each call starts from the stored Deployment.  It replaces some parts,   *)
(* keeps others when the spec is silent about them, and adds the           *)
(* containers for the sandbox and the policies but never takes them out.   *)
(* Those mount volumes that only the user's spec can declare; the API      *)
(* server refuses a template that mounts a volume it does not declare.     *)
(* (ebpf-programs stands for the two volumes of the eBPF loader.)          *)
(*                                                                         *)
(* The ToolSandbox and the Policies are read from the caches of informers, *)
(* which may lag: sandbox and rules are histories, from what the cache     *)
(* shows to what the API server stores.  One that is not in the cache yet  *)
(* is skipped like one that does not exist, whenever it was created.       *)
(* The Agent and the Deployment are read as they are when a call begins:   *)
(* a stale Deployment ends in a conflict (AgentReconciler has that), a     *)
(* stale Agent makes the call one of before the edit.                      *)
(***************************************************************************)
EXTENDS Naturals, Sequences

CONSTANTS
  Ports,       \* ports of the first protocol
  Boxes,       \* versions of the ToolSandbox
  Policies,    \* names of Policies
  Strategies,  \* rollout strategies
  None,        \* absent
  Specs,       \* specs the user may give the Agent
  RuleSets,    \* combinations of kinds of rules a Policy may have
  MaxEdits,    \* bound: changes by users
  MaxLag,      \* bound: changes not yet in the caches when the Agent is created
  MaxCrashes   \* bound: crashes of the operator

(* Kinds of rules. *)
Kinds == {"opa", "ebpf"}
Volumes == {"wasm-module", "opa-policies", "ebpf-programs"}

Lifecycle == [strategy : Strategies, heal : BOOLEAN]
AgentSpec == [port : Ports \cup {None}, lifecycle : Lifecycle \cup {None}, sandbox : BOOLEAN,
              policies : Seq(Policies), volumes : SUBSET Volumes]

ASSUME DeploymentAssumption ==
  /\ None \notin Ports \cup Boxes \cup Policies \cup Strategies \cup Lifecycle
  /\ Specs \subseteq AgentSpec /\ RuleSets \subseteq SUBSET Kinds
  /\ MaxEdits \in Nat /\ MaxLag \in Nat /\ MaxCrashes \in Nat

VARIABLES
  spec,      \* the Agent's spec
  sandbox,   \* history of the ToolSandbox, or None
  rules,     \* history of the kinds of rules of each Policy, none if it does not exist
  deployed,  \* the template of the Deployment, or None
  queued,    \* is the Agent in the work queue
  work,      \* the call in progress
  edits,     \* changes by users so far
  crashes    \* crashes so far

vars == <<spec, sandbox, rules, deployed, queued, work, edits, crashes>>

Template ==
  [port : Ports \cup {None},            \* ports, readiness probe, environment
   notes : Lifecycle \cup {None},       \* annotations of the template
   volumes : SUBSET Volumes,
   strategy : Strategies \cup {None},   \* strategy, grace period
   probe : Ports \cup {None},           \* liveness probe of the agent container
   command : Boxes \cup {None},         \* wasm-sandbox: start script, readiness probe
   env : Boxes \cup {None},             \* wasm-sandbox: ports, environment, resources
   opa : Policies \cup {None},          \* policy the opa-policy container was built from
   ebpf : Policies \cup {None}]         \* policy the ebpf-probe init container was built from

Blank == [port |-> None, notes |-> None, volumes |-> {}, strategy |-> None, probe |-> None,
          command |-> None, env |-> None, opa |-> None, ebpf |-> None]

Idle == [pc |-> "idle"]

Rules == [Policies -> RuleSets]

(* What the informer's cache shows, and what the API server stores. *)
Cached(history) == history[1]
Latest(history) == history[Len(history)]

Histories(S) == UNION {[1..n -> S] : n \in 1..(MaxLag + 1)}

OneChange(old, new) ==
  old # new /\ \E p \in Policies : new = [old EXCEPT ![p] = new[p]]

(* The Agent has just been created; Policies and ToolSandboxes may have    *)
(* been a moment before it.                                                *)
Init ==
  /\ spec \in Specs
  /\ sandbox \in Histories(Boxes \cup {None})
  /\ rules \in Histories(Rules)
  /\ Len(sandbox) + Len(rules) <= MaxLag + 2
  /\ \A i \in 1..(Len(sandbox) - 1) : sandbox[i] # sandbox[i + 1]
  /\ \A i \in 1..(Len(rules) - 1) : OneChange(rules[i], rules[i + 1])
  /\ deployed = None
  /\ queued = TRUE
  /\ work = Idle
  /\ edits = 0
  /\ crashes = 0

-----------------------------------------------------------------------------
(* Users. *)

Edit == edits < MaxEdits /\ edits' = edits + 1

EditSpec(s) ==
  /\ Edit
  /\ s # spec
  /\ spec' = s
  /\ queued' = TRUE
  /\ UNCHANGED <<sandbox, rules, deployed, work, crashes>>

(* Nothing watches ToolSandboxes and Policies for the Agent. *)
EditSandbox(b) ==
  /\ Edit
  /\ b # Latest(sandbox)
  /\ sandbox' = Append(sandbox, b)
  /\ UNCHANGED <<spec, rules, deployed, queued, work, crashes>>

EditPolicy(p, kinds) ==
  /\ Edit
  /\ kinds # Latest(rules)[p]
  /\ rules' = Append(rules, [Latest(rules) EXCEPT ![p] = kinds])
  /\ UNCHANGED <<spec, sandbox, deployed, queued, work, crashes>>

DeleteDeployment ==
  /\ Edit
  /\ deployed # None
  /\ deployed' = None
  /\ queued' = TRUE
  /\ UNCHANGED <<spec, sandbox, rules, work, crashes>>

-----------------------------------------------------------------------------
(* The informers of ToolSandboxes and Policies catch up by one change. *)

DeliverSandbox ==
  /\ Len(sandbox) > 1
  /\ sandbox' = Tail(sandbox)
  /\ UNCHANGED <<spec, rules, deployed, queued, work, edits, crashes>>

DeliverPolicy ==
  /\ Len(rules) > 1
  /\ rules' = Tail(rules)
  /\ UNCHANGED <<spec, sandbox, deployed, queued, work, edits, crashes>>

-----------------------------------------------------------------------------
(* ensureDeployment. *)

Stored(t) == IF t = None THEN Blank ELSE t

Begin ==
  /\ work.pc = "idle"
  /\ queued
  /\ queued' = FALSE
  /\ work' = [pc |-> "sandbox", spec |-> spec, read |-> deployed, next |-> 1,
              template |-> [Stored(deployed) EXCEPT !.port = spec.port, !.volumes = spec.volumes]]
  /\ UNCHANGED <<spec, sandbox, rules, deployed, edits, crashes>>

Keep(old, new) == IF old = None THEN new ELSE old

(* The start script of a container that is there already stays as it is.   *)
WithSandbox(t) ==
  LET box == Cached(sandbox)
  IN  IF work.spec.sandbox /\ box # None
      THEN [t EXCEPT !.env = box, !.command = Keep(@, box)] ELSE t

(* resolveToolSandbox: an error is the same as no reference. *)
ResolveToolSandbox ==
  /\ work.pc = "sandbox"
  /\ work' = [work EXCEPT !.pc = "policies", !.template = WithSandbox(@)]
  /\ UNCHANGED <<spec, sandbox, rules, deployed, queued, edits, crashes>>

(* Mutant of WithPolicy: the index is stored and not the Policy. *)
IndexStored(t, policy) ==
  [t EXCEPT !.opa = IF "opa" \in Cached(rules)[policy] THEN Keep(@, work.next) ELSE @]

(* One container of each kind, under a fixed name: the first policy with   *)
(* such rules stays, later ones and later versions of it are not added.    *)
WithPolicy(t, policy) ==
  [t EXCEPT !.opa = IF "opa" \in Cached(rules)[policy] THEN Keep(@, policy) ELSE @,
            !.ebpf = IF "ebpf" \in Cached(rules)[policy] THEN Keep(@, policy) ELSE @]

(* Mutant of ResolvePolicy: a Policy that is missing ends the loop. *)
StopsAtMissing ==
  /\ work.pc = "policies"
  /\ work.next \in 1..Len(work.spec.policies)
  /\ work' = IF Cached(rules)[work.spec.policies[work.next]] = {}
             THEN [work EXCEPT !.next = Len(work.spec.policies) + 1]
             ELSE [work EXCEPT !.next = @ + 1,
                               !.template = WithPolicy(@, work.spec.policies[work.next])]
  /\ UNCHANGED <<spec, sandbox, rules, deployed, queued, edits, crashes>>

(* resolvePolicy, one reference after the other; a missing one is skipped. *)
ResolvePolicy ==
  /\ work.pc = "policies"
  /\ work.next \in 1..Len(work.spec.policies)
  /\ work' = [work EXCEPT !.next = @ + 1,
                          !.template = WithPolicy(@, work.spec.policies[work.next])]
  /\ UNCHANGED <<spec, sandbox, rules, deployed, queued, edits, crashes>>

SelfHealing(s) == s.lifecycle # None /\ s.lifecycle.heal /\ s.port # None

(* A container that is appended moves the list, and the pointer to the     *)
(* agent container that ConfigureSelfHealing writes the liveness probe to  *)
(* is left with the old one.                                               *)
Appended(old, new) == (old.env = None /\ new.env # None) \/ (old.opa = None /\ new.opa # None)

(* The rest of the function, with what was read. *)
Desired ==
  LET s == work.spec
  IN  [work.template EXCEPT
         !.notes = s.lifecycle,
         !.strategy = IF s.lifecycle = None THEN @ ELSE s.lifecycle.strategy,
         !.probe = IF SelfHealing(s) /\ ~Appended(Stored(work.read), work.template)
                   THEN Keep(@, s.port) ELSE @]

Mounted(t) ==
  (IF t.env # None THEN {"wasm-module"} ELSE {}) \cup
  (IF t.opa # None THEN {"opa-policies"} ELSE {}) \cup
  (IF t.ebpf # None THEN {"ebpf-programs"} ELSE {})

Built == work.pc = "policies" /\ work.next > Len(work.spec.policies)

(* Mutant of WriteDeployment: no event comes of the status update. *)
StatusFiltered ==
  /\ Built
  /\ work.read = deployed
  /\ Mounted(Desired) \subseteq Desired.volumes
  /\ deployed' = Desired
  /\ work' = Idle
  /\ queued' = (queued \/ Desired # deployed)
  /\ UNCHANGED <<spec, sandbox, rules, edits, crashes>>

(* After it the status is updated, whose event queues the Agent again.     *)
WriteDeployment ==
  /\ Built
  /\ work.read = deployed
  /\ Mounted(Desired) \subseteq Desired.volumes
  /\ deployed' = Desired
  /\ work' = Idle
  /\ queued' = TRUE
  /\ UNCHANGED <<spec, sandbox, rules, edits, crashes>>

(* Deleted meanwhile, or refused: the error is returned. *)
WriteFails ==
  /\ Built
  /\ work.read # deployed \/ ~(Mounted(Desired) \subseteq Desired.volumes)
  /\ work' = Idle
  /\ queued' = TRUE
  /\ UNCHANGED <<spec, sandbox, rules, deployed, edits, crashes>>

(* The operator dies; its successor lists everything. *)
Restart ==
  /\ crashes < MaxCrashes
  /\ crashes' = crashes + 1
  /\ sandbox' = <<Latest(sandbox)>>
  /\ rules' = <<Latest(rules)>>
  /\ work' = Idle
  /\ queued' = TRUE
  /\ UNCHANGED <<spec, deployed, edits>>

(* The informers report all they have every ten hours. *)
Resync ==
  /\ ~queued
  /\ queued' = TRUE
  /\ UNCHANGED <<spec, sandbox, rules, deployed, work, edits, crashes>>

-----------------------------------------------------------------------------

Users ==
  \/ \E s \in Specs : EditSpec(s)
  \/ \E b \in Boxes \cup {None} : EditSandbox(b)
  \/ \E p \in Policies, kinds \in RuleSets : EditPolicy(p, kinds)
  \/ DeleteDeployment

EnsureDeployment ==
  Begin \/ ResolveToolSandbox \/ ResolvePolicy \/ WriteDeployment \/ WriteFails

Next ==
  Users \/ DeliverSandbox \/ DeliverPolicy \/ EnsureDeployment \/ Restart \/ Resync

SafetySpec == Init /\ [][Next]_vars
Spec ==
  SafetySpec /\ WF_vars(DeliverSandbox) /\ WF_vars(DeliverPolicy) /\ WF_vars(EnsureDeployment)

-----------------------------------------------------------------------------
(* Properties. *)

(* Every variable has its type. *)
TypeOK ==
  /\ spec \in Specs
  /\ sandbox \in Seq(Boxes \cup {None}) /\ sandbox # <<>>
  /\ rules \in Seq(Rules) /\ rules # <<>>
  /\ deployed \in Template \cup {None}
  /\ queued \in BOOLEAN
  /\ work = Idle \/ work \in [pc : {"sandbox", "policies"}, spec : Specs,
       read : Template \cup {None}, next : Nat \ {0}, template : Template]
  /\ edits \in 0..MaxEdits /\ crashes \in 0..MaxCrashes

References(p) == {i \in 1..Len(spec.policies) : spec.policies[i] = p}

WantsBox == spec.sandbox /\ Latest(sandbox) # None
WantsRule(p, kind) == References(p) # {} /\ kind \in Latest(rules)[p]
Wants(kind) == \E p \in Policies : WantsRule(p, kind)

(* The sandbox, and one container of each kind of rules some Policy of the *)
(* spec has; there is never a second of a kind.                            *)
HasSidecars ==
  /\ WantsBox => deployed.env # None
  /\ Wants("opa") => deployed.opa # None
  /\ Wants("ebpf") => deployed.ebpf # None

(* The user declares the volumes of all containers the Deployment has or   *)
(* is to get.                                                              *)
Deployable ==
  /\ deployed # None => Mounted(deployed) \subseteq spec.volumes
  /\ WantsBox => "wasm-module" \in spec.volumes
  /\ Wants("opa") => "opa-policies" \in spec.volumes
  /\ Wants("ebpf") => "ebpf-programs" \in spec.volumes

UpToDate ==
  /\ deployed # None
  /\ deployed.port = spec.port /\ deployed.notes = spec.lifecycle
  /\ deployed.volumes = spec.volumes
  /\ spec.lifecycle # None => deployed.strategy = spec.lifecycle.strategy
  /\ SelfHealing(spec) => deployed.probe # None
  /\ HasSidecars
  /\ WantsBox => deployed.env = Latest(sandbox)

(* Once changes stop, the Deployment follows the spec, although Policies   *)
(* and ToolSandboxes that come late, or late to the cache, wake nobody and *)
(* a liveness probe is lost whenever a container is added.                 *)
Settles == <>[]Deployable => <>[]UpToDate

(* In the cache already, and to stay. *)
KnownBox == \A i \in 1..Len(sandbox) : sandbox[i] # None
KnownRule(p, kind) == \A i \in 1..Len(rules) : kind \in rules[i][p]

(* A container of this kind from the Policy, or from one that is referenced *)
(* before it.                                                               *)
Sidecar(t, kind) == IF kind = "opa" THEN t.opa ELSE t.ebpf
InPlace(t, p, kind) ==
  \E j \in 1..Len(spec.policies) :
    /\ Sidecar(t, kind) = spec.policies[j]
    /\ \A i \in References(p) : j <= i

(* What was in the operator's caches when the Agent was created is in its  *)
(* Deployment from the first moment, while nobody changes anything and     *)
(* whatever crashes: no pod runs without the sandbox, nor without a        *)
(* container for the kind of rules of a Policy it references, built from   *)
(* that Policy or from one that stands before it in the list.  (Of several *)
(* Policies with rules of a kind only one is injected; and one that was    *)
(* applied but is not in the cache may come later, which Settles is about.)*)
NeverUnprotected ==
  /\ KnownBox => [](edits = 0 /\ spec.sandbox /\ deployed # None => deployed.env # None)
  /\ \A p \in Policies, kind \in Kinds :
       KnownRule(p, kind) =>
         [](edits = 0 /\ References(p) # {} /\ deployed # None => InPlace(deployed, p, kind))

(* agent_types.go:332: "When set, the operator injects eBPF/OPA            *)
(* enforcement sidecars into the agent pod."  Violated: unless the user    *)
(* declares volumes of names only the operator knows, the API server       *)
(* refuses the Deployment.                                                 *)
PoliciesInjected == <>[](Wants("opa") \/ Wants("ebpf")) => <>(deployed # None /\ HasSidecars)
=============================================================================
