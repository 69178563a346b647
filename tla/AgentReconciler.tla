--------------------------- MODULE AgentReconciler ---------------------------
(***************************************************************************)
(* The Agent controller (internal/controller/agent_reconciler.go) run for  *)
(* one Agent name by a set of operator processes.                          *)
(*                                                                         *)
(* The API server holds the Agent and the Deployment and Service built     *)
(* from it, each with a version that every write increases.  An operator   *)
(* reads through informer caches that lag behind, writes with the version  *)
(* it read (a write from an older version is refused), and keeps a work    *)
(* queue with at most one pending entry for the Agent's key.  The steps of *)
(* Reconcile between two API calls are one action.                         *)
(*                                                                         *)
(* Hashes are abstracted to what they commit to: the Merkle root and the   *)
(* proof root are the sequences of the checkpoints chained into them.      *)
(***************************************************************************)
EXTENDS Naturals, Sequences

CONSTANTS
  Operators,        \* operator processes reconciling at the same time
  Specs,            \* contents of spec, as far as they can be told apart
  NoSpec,           \* not a spec: what a Service or an absent object is built from
  Served,           \* specs with an A2A protocol, hence a Service and a URL
  Budgeted,         \* specs with costBudget
  Verified,         \* specs with verifiable.enabled
  AllowRevert,      \* may a user go back to a spec this Agent has had
  MaxLives,         \* bound: creations of the Agent
  MaxGeneration,    \* bound: spec changes of one Agent
  MaxCheckpoints,   \* bound: checkpoints of one Agent
  MaxTokens,        \* bound: token reports of one Agent
  MaxChildVersion,  \* bound: writes to the Deployment, and to the Service
  MaxFaults         \* bound: operator crashes and changes of dependencies

ASSUME ReconcilerAssumption ==
  /\ NoSpec \notin Specs
  /\ Served \subseteq Specs /\ Budgeted \subseteq Specs /\ Verified \subseteq Specs
  /\ AllowRevert \in BOOLEAN
  /\ {MaxLives, MaxGeneration, MaxCheckpoints, MaxTokens, MaxChildVersion, MaxFaults}
       \subseteq Nat

VARIABLES
  agent,        \* the Agent in the API server
  child,        \* the Deployment and the Service in the API server
  agentCache,   \* each operator's cached Agent
  agentInbox,   \* versions of the Agent on their way to each operator
  childCache,   \* each operator's cached Deployment and Service
  childInbox,   \* versions of those on their way to each operator
  queued,       \* is the Agent's key in the operator's work queue
  work,         \* the Reconcile call in progress in each operator
  deps,         \* do sub-agents, tools, configuration and gateway resolve
  lives,        \* Agents created so far; the last one is the uid
  past,         \* specs the present Agent has had
  applied,      \* history: <<uid, spec>> a Deployment has been written from
  faults        \* crashes and dependency changes so far

apiVars == <<agent, child>>
infVars == <<agentCache, agentInbox, childCache, childInbox>>
envVars == <<deps, lives, past, faults>>
vars == <<agent, child, agentCache, agentInbox, childCache, childInbox,
          queued, work, deps, lives, past, applied, faults>>

Kinds == {"Deployment", "Service"}
PCs == {"idle", "Deployment", "Service", "status", "notReady"}
DepStates == {"resolved", "unresolved", "noGateway"}

(* One checkpoint: the hash of the spec and of its position. *)
Checkpoint == [spec : Specs, count : Nat]

AgentStatus ==
  [ready : {"Unknown", "True", "False"}, observedGeneration : Nat, url : BOOLEAN,
   checkpointCount : Nat, merkleRoot : Seq(Checkpoint), zkProofRoot : Seq(Checkpoint),
   tokensUsed : Nat, predictedCost : BOOLEAN]

(* uid 0 stands for "no such Agent". *)
AgentVersion == [uid : Nat, rv : Nat, generation : Nat,
                 spec : Specs \cup {NoSpec}, status : AgentStatus]

Exists(a) == a.uid # 0 /\ a.spec \in Specs

(* owner 0 stands for "no such object". *)
ChildVersion == [owner : Nat, ver : Nat, built : Specs \cup {NoSpec}]

EmptyStatus ==
  [ready |-> "Unknown", observedGeneration |-> 0, url |-> FALSE,
   checkpointCount |-> 0, merkleRoot |-> <<>>, zkProofRoot |-> <<>>,
   tokensUsed |-> 0, predictedCost |-> FALSE]

NoAgent == [uid |-> 0, rv |-> 0, generation |-> 0, spec |-> NoSpec, status |-> EmptyStatus]
NoChild == [owner |-> 0, ver |-> 0, built |-> NoSpec]
Idle == [pc |-> "idle", snap |-> NoAgent]

Init ==
  /\ agent = NoAgent
  /\ child = [k \in Kinds |-> NoChild]
  /\ agentCache = [o \in Operators |-> NoAgent]
  /\ agentInbox = [o \in Operators |-> <<>>]
  /\ childCache = [o \in Operators |-> [k \in Kinds |-> NoChild]]
  /\ childInbox = [o \in Operators |-> [k \in Kinds |-> <<>>]]
  /\ queued = [o \in Operators |-> FALSE]
  /\ work = [o \in Operators |-> Idle]
  /\ deps = "resolved"
  /\ lives = 0
  /\ past = {}
  /\ applied = {}
  /\ faults = 0

-----------------------------------------------------------------------------
(* The API server: a write stores a new version and sends it to every      *)
(* operator that watches the kind.                                         *)

WriteAgent(new) ==
  LET v == [new EXCEPT !.rv = agent.rv + 1]
  IN  /\ agent' = v
      /\ agentInbox' = [o \in Operators |-> Append(agentInbox[o], v)]

WriteChild(k, new) ==
  LET v == [new EXCEPT !.ver = child[k].ver + 1]
  IN  /\ child[k].ver < MaxChildVersion
      /\ child' = [child EXCEPT ![k] = v]
      /\ childInbox' = [o \in Operators |->
                          [childInbox[o] EXCEPT ![k] = Append(@, v)]]

-----------------------------------------------------------------------------
(* Users and other writers of the Agent. *)

CreateAgent(s) ==
  /\ agent.uid = 0
  /\ lives < MaxLives
  /\ WriteAgent([NoAgent EXCEPT !.uid = lives + 1, !.generation = 1, !.spec = s])
  /\ lives' = lives + 1
  /\ past' = {s}
  /\ UNCHANGED <<child, agentCache, childCache, childInbox, queued, work, deps, applied, faults>>

EditSpec(s) ==
  /\ agent.uid # 0
  /\ agent.generation < MaxGeneration
  /\ s # agent.spec
  /\ AllowRevert \/ s \notin past
  /\ WriteAgent([agent EXCEPT !.spec = s, !.generation = @ + 1])
  /\ past' = past \cup {s}
  /\ UNCHANGED <<child, agentCache, childCache, childInbox, queued, work, deps, lives, applied,
                 faults>>

DeleteAgent ==
  /\ agent.uid # 0
  /\ WriteAgent(NoAgent)
  /\ UNCHANGED <<child, agentCache, childCache, childInbox, queued, work, deps, lives, past,
                 applied, faults>>

(* status.tokensUsed is written by external metrics systems. *)
ReportTokens ==
  /\ agent.uid # 0
  /\ agent.status.tokensUsed < MaxTokens
  /\ WriteAgent([agent EXCEPT !.status.tokensUsed = @ + 1])
  /\ UNCHANGED <<child, agentCache, childCache, childInbox, queued, work, deps, lives, past,
                 applied, faults>>

(* Kubernetes deletes an object whose owner is gone; the owner is compared *)
(* by uid.                                                                 *)
CollectGarbage(k) ==
  /\ child[k].owner \notin {0, agent.uid}
  /\ WriteChild(k, NoChild)
  /\ UNCHANGED <<agent, agentCache, agentInbox, childCache, queued, work, applied, envVars>>

(* A sub-agent, tool, configuration or gateway changes: watched kinds, so  *)
(* the Agent is queued.                                                    *)
ChangeDependencies(d) ==
  /\ faults < MaxFaults
  /\ d # deps
  /\ deps' = d
  /\ faults' = faults + 1
  /\ queued' = [o \in Operators |-> agentCache[o].uid # 0 \/ queued[o]]
  /\ UNCHANGED <<apiVars, infVars, work, lives, past, applied>>

-----------------------------------------------------------------------------
(* Informers: versions arrive in order, and each arrival queues the key    *)
(* (For, Owns; no predicate filters status updates out).                   *)

DeliverAgent(o) ==
  /\ agentInbox[o] # <<>>
  /\ agentCache' = [agentCache EXCEPT ![o] = Head(agentInbox[o])]
  /\ agentInbox' = [agentInbox EXCEPT ![o] = Tail(@)]
  /\ queued' = [queued EXCEPT ![o] = TRUE]
  /\ UNCHANGED <<apiVars, childCache, childInbox, work, applied, envVars>>

DeliverChild(o, k) ==
  /\ childInbox[o][k] # <<>>
  /\ childCache' = [childCache EXCEPT ![o][k] = Head(childInbox[o][k])]
  /\ childInbox' = [childInbox EXCEPT ![o][k] = Tail(@)]
  /\ queued' = [queued EXCEPT ![o] = TRUE]
  /\ UNCHANGED <<apiVars, agentCache, agentInbox, work, applied, envVars>>

-----------------------------------------------------------------------------
(* Reconcile. *)

Finish(o) == work' = [work EXCEPT ![o] = Idle]
Goto(o, pc) == work' = [work EXCEPT ![o].pc = pc]

(* An error returned from Reconcile puts the key back into the queue. *)
Fail(o) ==
  /\ Finish(o)
  /\ queued' = [queued EXCEPT ![o] = TRUE]

(* Dequeue, and read the Agent from the cache. *)
Dequeue(o) ==
  /\ work[o].pc = "idle"
  /\ queued[o]

ReconcileNotFound(o) ==
  /\ Dequeue(o)
  /\ agentCache[o].uid = 0
  /\ queued' = [queued EXCEPT ![o] = FALSE]
  /\ UNCHANGED <<apiVars, infVars, work, applied, envVars>>

(* A sub-agent or tool that does not resolve ends the call with an error   *)
(* and leaves the status alone: the key goes back, nothing changes.        *)
ReconcileUnresolved(o) ==
  /\ Dequeue(o)
  /\ agentCache[o].uid # 0
  /\ deps = "unresolved"
  /\ UNCHANGED vars

ReconcileBegin(o) ==
  /\ Dequeue(o)
  /\ agentCache[o].uid # 0
  /\ deps # "unresolved"
  /\ queued' = [queued EXCEPT ![o] = FALSE]
  /\ work' = [work EXCEPT ![o] =
       [pc |-> IF deps = "noGateway" THEN "notReady" ELSE "Deployment",
        snap |-> agentCache[o]]]
  /\ UNCHANGED <<apiVars, infVars, applied, envVars>>

(* ensureDeployment and ensureService: CreateOrUpdate compares the cached  *)
(* object with the desired one and writes only a difference.               *)
Desired(k, a) == [owner |-> a.uid, built |-> IF k = "Deployment" THEN a.spec ELSE NoSpec]
Content(c) == [owner |-> c.owner, built |-> c.built]
Needed(k, a) == k = "Deployment" \/ a.spec \in Served
After(k) == IF k = "Deployment" THEN "Service" ELSE "status"

RecordApplied(k, a) ==
  applied' = IF k = "Deployment" THEN applied \cup {<<a.uid, a.spec>>} ELSE applied

(* Mutant of ChildUpToDate: the owner may be an earlier Agent of the name. *)
OwnerIgnored(o, k) ==
  /\ work[o].pc = k
  /\ IF Needed(k, work[o].snap)
     THEN childCache[o][k].built = Desired(k, work[o].snap).built
     ELSE childCache[o][k].owner = 0
  /\ Goto(o, After(k))
  /\ UNCHANGED <<apiVars, infVars, queued, applied, envVars>>

ChildUpToDate(o, k) ==
  /\ work[o].pc = k
  /\ IF Needed(k, work[o].snap)
     THEN Content(childCache[o][k]) = Desired(k, work[o].snap)
     ELSE childCache[o][k].owner = 0
  /\ Goto(o, After(k))
  /\ UNCHANGED <<apiVars, infVars, queued, applied, envVars>>

(* The cached object must be written: created if the cache has none,       *)
(* updated with the cached version if it differs.                          *)
MustWrite(o, k) ==
  /\ work[o].pc = k
  /\ Needed(k, work[o].snap)
  /\ Content(childCache[o][k]) # Desired(k, work[o].snap)

Accepts(o, k) ==
  IF childCache[o][k].owner = 0
  THEN child[k].owner = 0
  ELSE child[k].ver = childCache[o][k].ver

EnsureChild(o, k) ==
  /\ MustWrite(o, k)
  /\ Accepts(o, k)
  /\ LET want == Desired(k, work[o].snap)
     IN  WriteChild(k, [owner |-> want.owner, ver |-> 0, built |-> want.built])
  /\ RecordApplied(k, work[o].snap)
  /\ Goto(o, After(k))
  /\ UNCHANGED <<agent, agentCache, agentInbox, childCache, queued, envVars>>

(* Mutant of EnsureChildFails: the error is logged and Reconcile goes on. *)
ErrorSwallowed(o, k) ==
  /\ MustWrite(o, k)
  /\ ~Accepts(o, k)
  /\ Goto(o, After(k))
  /\ UNCHANGED <<apiVars, infVars, queued, applied, envVars>>

(* AlreadyExists, NotFound, or a conflict that outlasts the retries. *)
EnsureChildFails(o, k) ==
  /\ MustWrite(o, k)
  /\ ~Accepts(o, k)
  /\ Fail(o)
  /\ UNCHANGED <<apiVars, infVars, applied, envVars>>

(* No protocols: the Service is deleted, whatever its version; deleting    *)
(* one that is gone is an error.                                           *)
DeleteService(o) ==
  /\ work[o].pc = "Service"
  /\ ~Needed("Service", work[o].snap)
  /\ childCache[o]["Service"].owner # 0
  /\ child["Service"].owner # 0
  /\ WriteChild("Service", NoChild)
  /\ Goto(o, "status")
  /\ UNCHANGED <<agent, agentCache, agentInbox, childCache, queued, applied, envVars>>

DeleteServiceFails(o) ==
  /\ work[o].pc = "Service"
  /\ ~Needed("Service", work[o].snap)
  /\ childCache[o]["Service"].owner # 0
  /\ child["Service"].owner = 0
  /\ Fail(o)
  /\ UNCHANGED <<apiVars, infVars, applied, envVars>>

(* Mutants: the position left out of the hash; the last proof root kept    *)
(* when verifiable is switched off.                                        *)
PositionNotHashed(a) == [spec |-> a.spec]
ProofRootKept(a) ==
  IF a.spec \in Verified
  THEN Append(a.status.zkProofRoot,
              [spec |-> a.spec, count |-> a.status.checkpointCount + 1])
  ELSE a.status.zkProofRoot

(* The next checkpoint, chained to what was read. *)
NextCheckpoint(a) == [spec |-> a.spec, count |-> a.status.checkpointCount + 1]
ComputeMerkleRoot(a) == Append(a.status.merkleRoot, NextCheckpoint(a))
GenerateStepProof(a) ==
  IF a.spec \in Verified THEN Append(a.status.zkProofRoot, NextCheckpoint(a)) ELSE <<>>

ReadyStatus(a) ==
  [ready |-> "True", observedGeneration |-> a.generation, url |-> a.spec \in Served,
   checkpointCount |-> a.status.checkpointCount + 1,
   merkleRoot |-> ComputeMerkleRoot(a), zkProofRoot |-> GenerateStepProof(a),
   tokensUsed |-> a.status.tokensUsed,
   predictedCost |-> a.spec \in Budgeted \/ a.status.predictedCost]

NotReadyStatus(a) ==
  [a.status EXCEPT !.ready = "False", !.observedGeneration = a.generation, !.url = FALSE]

(* Mutants of StatusAccepts: the last write wins; only a change of the     *)
(* spec counts as a conflict.                                              *)
LastWriteWins(a) == agent.uid = a.uid
SameGeneration(a) == agent.uid = a.uid /\ agent.generation = a.generation

(* Status().Update is accepted from the version it was read at. *)
StatusAccepts(a) == agent.rv = a.rv

UpdateStatusReady(o) ==
  /\ work[o].pc = "status"
  /\ StatusAccepts(work[o].snap)
  /\ work[o].snap.status.checkpointCount < MaxCheckpoints
  /\ WriteAgent([agent EXCEPT !.status = ReadyStatus(work[o].snap)])
  /\ Finish(o)
  /\ UNCHANGED <<child, agentCache, childCache, childInbox, queued, applied, envVars>>

(* The error that led here is returned, so the key is queued again; a      *)
(* status equal to the stored one makes no new version.                    *)
UpdateStatusNotReady(o) ==
  /\ work[o].pc = "notReady"
  /\ StatusAccepts(work[o].snap)
  /\ IF NotReadyStatus(work[o].snap) = agent.status
     THEN UNCHANGED <<agent, agentInbox>>
     ELSE WriteAgent([agent EXCEPT !.status = NotReadyStatus(work[o].snap)])
  /\ Fail(o)
  /\ UNCHANGED <<child, agentCache, childCache, childInbox, applied, envVars>>

(* RetryOnConflict sends the same object again, so a conflict stays one. *)
UpdateStatusFails(o) ==
  /\ work[o].pc \in {"status", "notReady"}
  /\ ~StatusAccepts(work[o].snap)
  /\ Fail(o)
  /\ UNCHANGED <<apiVars, infVars, applied, envVars>>

(* The process dies and comes back: the call in progress is lost, the      *)
(* caches are listed anew and every object listed queues its key.          *)
Restart(o) ==
  /\ faults < MaxFaults
  /\ faults' = faults + 1
  /\ Finish(o)
  /\ agentCache' = [agentCache EXCEPT ![o] = agent]
  /\ agentInbox' = [agentInbox EXCEPT ![o] = <<>>]
  /\ childCache' = [childCache EXCEPT ![o] = child]
  /\ childInbox' = [childInbox EXCEPT ![o] = [k \in Kinds |-> <<>>]]
  /\ queued' = [queued EXCEPT ![o] = agent.uid # 0 \/ \E k \in Kinds : child[k].owner # 0]
  /\ UNCHANGED <<apiVars, deps, lives, past, applied>>

-----------------------------------------------------------------------------

Environment ==
  \/ \E s \in Specs : CreateAgent(s) \/ EditSpec(s)
  \/ DeleteAgent
  \/ ReportTokens
  \/ \E k \in Kinds : CollectGarbage(k)
  \/ \E d \in DepStates : ChangeDependencies(d)

Reconcile(o) ==
  \/ ReconcileNotFound(o)
  \/ ReconcileUnresolved(o)
  \/ ReconcileBegin(o)
  \/ \E k \in Kinds : ChildUpToDate(o, k) \/ EnsureChild(o, k) \/ EnsureChildFails(o, k)
  \/ DeleteService(o)
  \/ DeleteServiceFails(o)
  \/ UpdateStatusReady(o)
  \/ UpdateStatusNotReady(o)
  \/ UpdateStatusFails(o)

Operator(o) ==
  \/ Reconcile(o)
  \/ DeliverAgent(o)
  \/ \E k \in Kinds : DeliverChild(o, k)
  \/ Restart(o)

Next == Environment \/ \E o \in Operators : Operator(o)

Spec == Init /\ [][Next]_vars

-----------------------------------------------------------------------------
(* Properties. *)

(* Every variable has its type. *)
TypeOK ==
  /\ agent \in AgentVersion
  /\ child \in [Kinds -> ChildVersion]
  /\ agentCache \in [Operators -> AgentVersion]
  /\ agentInbox \in [Operators -> Seq(AgentVersion)]
  /\ childCache \in [Operators -> [Kinds -> ChildVersion]]
  /\ childInbox \in [Operators -> [Kinds -> Seq(ChildVersion)]]
  /\ queued \in [Operators -> BOOLEAN]
  /\ work \in [Operators -> [pc : PCs, snap : AgentVersion]]
  /\ deps \in DepStates
  /\ lives \in Nat
  /\ past \subseteq Specs
  /\ applied \subseteq Nat \X Specs
  /\ faults \in Nat

(* The proof chain covers an unbroken run of the latest checkpoints: it is *)
(* the tail of the Merkle chain since verifiable.enabled was last set,     *)
(* whatever operators, crashes and conflicts came between.                 *)
ProofChainIsTailOfMerkleChain ==
  LET m == agent.status.merkleRoot
      z == agent.status.zkProofRoot
  IN  /\ Len(z) <= Len(m)
      /\ \A i \in 1..Len(z) : z[i] = m[Len(m) - Len(z) + i] /\ z[i].spec \in Verified

(* The audit trail never claims a spec that was not deployed: whatever is  *)
(* chained into the Merkle root was written to a Deployment of this Agent  *)
(* before, although the operator may have judged that from a stale cache.  *)
AuditedWasApplied ==
  \A i \in 1..Len(agent.status.merkleRoot) :
    <<agent.uid, agent.status.merkleRoot[i].spec>> \in applied

(* An Agent that is Ready for its present generation runs its present spec. *)
(* With one operator process and users who do not go back to an old spec.   *)
ReadyMeansDeployed ==
  (/\ agent.status.ready = "True"
   /\ agent.status.observedGeneration = agent.generation)
    => Content(child["Deployment"]) = Desired("Deployment", agent)

(* The controller writes back the whole status it read, yet a token report *)
(* made by the external writer in between is never lost.                   *)
TokensNeverLost ==
  [][agent'.uid = agent.uid => agent'.status.tokensUsed >= agent.status.tokensUsed]_agent

(* No operator forgets an Agent that exists: it has the key in its queue, is *)
(* working on it, or an event that will queue it is on its way.  A key that  *)
(* was taken for an Agent not yet, or no longer, in the cache may be dropped *)
(* although the Agent is there by then.                                      *)
NeverForgotten ==
  agent.uid # 0 =>
    \A o \in Operators : queued[o] \/ agentInbox[o] # <<>> \/ work[o].pc # "idle"

(* The Merkle chain implements an append-only trail of the specs in force. *)
Trail == INSTANCE AuditTrail WITH life <- agent.uid, inForce <- agent.spec,
                                  trail <- agent.status.merkleRoot
TrailSpec == Trail!Spec
=============================================================================
