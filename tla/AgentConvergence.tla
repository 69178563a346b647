-------------------------- MODULE AgentConvergence --------------------------
(***************************************************************************)
(* What the Agent controller eventually brings about for one Agent, with   *)
(* one operator process (internal/controller/agent_reconciler.go).         *)
(*                                                                         *)
(* The steps are those of AgentReconciler without what grows for ever: a   *)
(* resource version is replaced by the fact it decides, whether the writer *)
(* has seen the latest version, and the checkpoint chain is left out.  So  *)
(* the state space is finite although the controller never comes to rest,  *)
(* every status update being an event that queues the Agent again.         *)
(* Other hands may change or delete the Deployment and the Service.        *)
(***************************************************************************)
EXTENDS Naturals, Sequences

CONSTANTS
  Specs,       \* contents of spec, all with lifecycle set
  Served,      \* specs with an A2A protocol, hence a Service and a URL
  Suspended,   \* specs with replicas = 0
  Absent,      \* content of an object that does not exist
  Foreign,     \* content of an object somebody else changed
  MaxEdits,    \* bound: spec changes
  MaxDrifts,   \* bound: changes to the Deployment and Service by others
  MaxFaults    \* bound: operator crashes and changes of dependencies

ASSUME ConvergenceAssumption ==
  /\ Absent \notin Specs /\ Foreign \notin Specs /\ Absent # Foreign
  /\ Served \subseteq Specs /\ Suspended \subseteq Specs
  /\ {MaxEdits, MaxDrifts, MaxFaults} \subseteq Nat

VARIABLES
  agent,       \* the Agent in the API server
  child,       \* the Deployment and Service in the API server
  agentCache,  \* the cached Agent
  agentInbox,  \* its versions on their way to the cache
  childCache,  \* the cached Deployment and Service
  childInbox,  \* their versions on their way
  queued,      \* is the Agent's key in the work queue
  work,        \* the Reconcile call in progress
  deps,        \* do sub-agents, tools, configuration and gateway resolve
  drifts,      \* changes by others so far
  faults       \* crashes and dependency changes so far

apiVars == <<agent, child>>
infVars == <<agentCache, agentInbox, childCache, childInbox>>
vars == <<agent, child, agentCache, agentInbox, childCache, childInbox,
          queued, work, deps, drifts, faults>>

Kinds == {"Deployment", "Service"}
Built(k) == {Absent, Foreign} \cup (IF k = "Deployment" THEN Specs ELSE {"ports"})

AgentVersion ==
  [spec : Specs, generation : 1..(MaxEdits + 1), ready : {"Unknown", "True", "False"},
   observedGeneration : 0..(MaxEdits + 1), url : BOOLEAN,
   phase : {"", "stable", "updating", "suspended"}]

Created(s) == [spec |-> s, generation |-> 1, ready |-> "Unknown",
               observedGeneration |-> 0, url |-> FALSE, phase |-> ""]

(* The Agent has just been created; nothing has been seen of it yet. *)
Init ==
  \E s \in Specs :
    /\ agent = Created(s)
    /\ child = [k \in Kinds |-> Absent]
    /\ agentCache = Created(s)
    /\ agentInbox = <<>>
    /\ childCache = child
    /\ childInbox = [k \in Kinds |-> <<>>]
    /\ queued = TRUE
    /\ work = [pc |-> "idle", snap |-> Created(s), latest |-> FALSE]
    /\ deps = "resolved"
    /\ drifts = 0
    /\ faults = 0

-----------------------------------------------------------------------------
(* Writes: the new version is sent to the cache; a Reconcile call that has *)
(* read an earlier Agent can no longer update its status.                  *)

WriteAgent(new) ==
  /\ agent' = new
  /\ agentInbox' = Append(agentInbox, new)

WriteChild(k, content) ==
  /\ child' = [child EXCEPT ![k] = content]
  /\ childInbox' = [childInbox EXCEPT ![k] = Append(@, content)]

Outdate == work' = [work EXCEPT !.latest = FALSE]

EditSpec(s) ==
  /\ agent.generation <= MaxEdits
  /\ s # agent.spec
  /\ WriteAgent([agent EXCEPT !.spec = s, !.generation = @ + 1])
  /\ Outdate
  /\ UNCHANGED <<child, agentCache, childCache, childInbox, queued, deps, drifts, faults>>

(* Somebody else deletes, or changes, an object the controller keeps. *)
Drift(k, content) ==
  /\ drifts < MaxDrifts
  /\ content # child[k]
  /\ child[k] # Absent
  /\ WriteChild(k, content)
  /\ drifts' = drifts + 1
  /\ UNCHANGED <<agent, agentCache, agentInbox, childCache, queued, work, deps, faults>>

ChangeDependencies(d) ==
  /\ faults < MaxFaults
  /\ d # deps
  /\ deps' = d
  /\ faults' = faults + 1
  /\ queued' = TRUE
  /\ UNCHANGED <<apiVars, infVars, work, drifts>>

(* Mutant of DeliverAgent: GenerationChangedPredicate on the watch. *)
StatusFiltered ==
  /\ agentInbox # <<>>
  /\ agentCache' = Head(agentInbox)
  /\ agentInbox' = Tail(agentInbox)
  /\ queued' = (queued \/ Head(agentInbox).generation # agentCache.generation)
  /\ UNCHANGED <<apiVars, childCache, childInbox, work, deps, drifts, faults>>

DeliverAgent ==
  /\ agentInbox # <<>>
  /\ agentCache' = Head(agentInbox)
  /\ agentInbox' = Tail(agentInbox)
  /\ queued' = TRUE
  /\ UNCHANGED <<apiVars, childCache, childInbox, work, deps, drifts, faults>>

DeliverChild(k) ==
  /\ childInbox[k] # <<>>
  /\ childCache' = [childCache EXCEPT ![k] = Head(childInbox[k])]
  /\ childInbox' = [childInbox EXCEPT ![k] = Tail(@)]
  /\ queued' = TRUE
  /\ UNCHANGED <<apiVars, agentCache, agentInbox, work, deps, drifts, faults>>

(* Every ten hours, the default nothing in cmd/main.go changes, the        *)
(* informers report all they have once more.                               *)
Resync ==
  /\ ~queued
  /\ queued' = TRUE
  /\ UNCHANGED <<apiVars, infVars, work, deps, drifts, faults>>

-----------------------------------------------------------------------------
(* Reconcile. *)

Finish == work' = [work EXCEPT !.pc = "idle", !.latest = FALSE]
Goto(pc) == work' = [work EXCEPT !.pc = pc]
Fail == Finish /\ queued' = TRUE

(* The error of an unresolved sub-agent or tool is returned before any     *)
(* status is written: the key goes back into the queue.                    *)
ReconcileUnresolved ==
  /\ work.pc = "idle"
  /\ queued
  /\ deps = "unresolved"
  /\ UNCHANGED vars

ReconcileBegin ==
  /\ work.pc = "idle"
  /\ queued
  /\ deps # "unresolved"
  /\ queued' = FALSE
  /\ work' = [pc |-> IF deps = "noGateway" THEN "notReady" ELSE "Deployment",
              snap |-> agentCache, latest |-> agentInbox = <<>>]
  /\ UNCHANGED <<apiVars, infVars, deps, drifts, faults>>

Desired(k) ==
  IF k = "Deployment" THEN work.snap.spec
  ELSE IF work.snap.spec \in Served THEN "ports" ELSE Absent
After(k) == IF k = "Deployment" THEN "Service" ELSE "status"

(* The API server takes a write made from the latest version, the creation *)
(* of what does not exist, and the deletion of what does.                  *)
Accepts(k) ==
  IF Desired(k) = Absent THEN child[k] # Absent
  ELSE IF childCache[k] = Absent THEN child[k] = Absent
  ELSE childInbox[k] = <<>>

(* Mutant of ChildUpToDate: what exists is taken to be up to date. *)
ExistsIsUpToDate(k) ==
  /\ work.pc = k
  /\ (childCache[k] = Absent) = (Desired(k) = Absent)
  /\ Goto(After(k))
  /\ UNCHANGED <<apiVars, infVars, queued, deps, drifts, faults>>

ChildUpToDate(k) ==
  /\ work.pc = k
  /\ childCache[k] = Desired(k)
  /\ Goto(After(k))
  /\ UNCHANGED <<apiVars, infVars, queued, deps, drifts, faults>>

EnsureChild(k) ==
  /\ work.pc = k
  /\ childCache[k] # Desired(k)
  /\ Accepts(k)
  /\ WriteChild(k, Desired(k))
  /\ Goto(After(k))
  /\ UNCHANGED <<agent, agentCache, agentInbox, childCache, queued, deps, drifts, faults>>

EnsureChildFails(k) ==
  /\ work.pc = k
  /\ childCache[k] # Desired(k)
  /\ ~Accepts(k)
  /\ Fail
  /\ UNCHANGED <<apiVars, infVars, deps, drifts, faults>>

(* The phase compares the generation with the one last observed, as read   *)
(* before this call records the present one.                               *)
DetermineLifecyclePhase(a) ==
  IF a.spec \in Suspended THEN "suspended"
  ELSE IF a.observedGeneration > 0 /\ a.observedGeneration # a.generation THEN "updating"
  ELSE "stable"

(* Mutant of ReadyStatus: the update is taken to raise the generation. *)
NextGeneration(a) ==
  [a EXCEPT !.ready = "True", !.observedGeneration = a.generation + 1,
            !.url = a.spec \in Served, !.phase = DetermineLifecyclePhase(a)]

ReadyStatus(a) ==
  [a EXCEPT !.ready = "True", !.observedGeneration = a.generation,
            !.url = a.spec \in Served, !.phase = DetermineLifecyclePhase(a)]

(* Mutant of NotReadyStatus: the URL is left in place. *)
UrlKept(a) == [a EXCEPT !.ready = "False", !.observedGeneration = a.generation]

NotReadyStatus(a) ==
  [a EXCEPT !.ready = "False", !.observedGeneration = a.generation, !.url = FALSE]

(* The checkpoint makes every Ready status a new version. *)
UpdateStatusReady ==
  /\ work.pc = "status"
  /\ work.latest
  /\ WriteAgent(ReadyStatus(work.snap))
  /\ Finish
  /\ UNCHANGED <<child, agentCache, childCache, childInbox, queued, deps, drifts, faults>>

UpdateStatusNotReady ==
  /\ work.pc = "notReady"
  /\ work.latest
  /\ IF NotReadyStatus(work.snap) = agent
     THEN UNCHANGED <<agent, agentInbox>>
     ELSE WriteAgent(NotReadyStatus(work.snap))
  /\ Fail
  /\ UNCHANGED <<child, agentCache, childCache, childInbox, deps, drifts, faults>>

UpdateStatusFails ==
  /\ work.pc \in {"status", "notReady"}
  /\ ~work.latest
  /\ Fail
  /\ UNCHANGED <<apiVars, infVars, deps, drifts, faults>>

Restart ==
  /\ faults < MaxFaults
  /\ faults' = faults + 1
  /\ Finish
  /\ agentCache' = agent
  /\ agentInbox' = <<>>
  /\ childCache' = child
  /\ childInbox' = [k \in Kinds |-> <<>>]
  /\ queued' = TRUE
  /\ UNCHANGED <<apiVars, deps, drifts>>

-----------------------------------------------------------------------------

Environment ==
  \/ \E s \in Specs : EditSpec(s)
  \/ \E k \in Kinds, content \in {Absent, Foreign} : Drift(k, content)
  \/ \E d \in {"resolved", "unresolved", "noGateway"} : ChangeDependencies(d)
  \/ Resync
  \/ Restart

Reconcile ==
  \/ ReconcileUnresolved
  \/ ReconcileBegin
  \/ \E k \in Kinds : ChildUpToDate(k) \/ EnsureChild(k) \/ EnsureChildFails(k)
  \/ UpdateStatusReady
  \/ UpdateStatusNotReady
  \/ UpdateStatusFails

Next ==
  \/ Environment
  \/ Reconcile
  \/ DeliverAgent
  \/ \E k \in Kinds : DeliverChild(k)

(* Watches deliver what they have and the worker runs what is queued.  No  *)
(* fairness of Resync: nobody should wait ten hours.                       *)
Fairness ==
  /\ WF_vars(Reconcile)
  /\ WF_vars(DeliverAgent)
  /\ \A k \in Kinds : WF_vars(DeliverChild(k))

Spec == Init /\ [][Next]_vars /\ Fairness

-----------------------------------------------------------------------------
(* Properties. *)

(* Every variable has its type; in particular no generation is recorded    *)
(* that the Agent has not had.                                             *)
TypeOK ==
  /\ agent \in AgentVersion /\ agentCache \in AgentVersion
  /\ agentInbox \in Seq(AgentVersion)
  /\ \A k \in Kinds : /\ child[k] \in Built(k) /\ childCache[k] \in Built(k)
                      /\ childInbox[k] \in Seq(Built(k))
  /\ queued \in BOOLEAN
  /\ work \in [pc : {"idle", "Deployment", "Service", "status", "notReady"},
               snap : AgentVersion, latest : BOOLEAN]
  /\ deps \in {"resolved", "unresolved", "noGateway"}
  /\ drifts \in 0..MaxDrifts /\ faults \in 0..MaxFaults

(* Once edits, interference and crashes stop and everything the Agent      *)
(* refers to resolves, the Deployment and the Service become what the spec *)
(* asks for and stay so, and the status says Ready for the present spec    *)
(* with a URL exactly if the Agent is served.                              *)
Converges ==
  <>[](deps = "resolved") =>
    <>[](/\ child["Deployment"] = agent.spec
         /\ child["Service"] = IF agent.spec \in Served THEN "ports" ELSE Absent
         /\ agent.ready = "True"
         /\ agent.observedGeneration = agent.generation
         /\ agent.url = (agent.spec \in Served))

(* The lifecycle phase does not stay "updating": it is written before the  *)
(* generation is recorded, so it takes one more Reconcile call, and        *)
(* nothing but the controller's own status update asks for that call.      *)
PhaseSettles ==
  <>[](deps = "resolved") =>
    <>[](agent.phase = IF agent.spec \in Suspended THEN "suspended" ELSE "stable")

(* An Agent whose gateway is gone for good ends up not Ready, with no URL, *)
(* so that Agents which delegate to it stop resolving it.                  *)
GatewayLossShows ==
  <>[](deps = "noGateway") => <>[](agent.ready = "False" /\ ~agent.url)

=============================================================================
