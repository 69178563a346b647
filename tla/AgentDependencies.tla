------------------------- MODULE AgentDependencies -------------------------
(***************************************************************************)
(* Agents that delegate to each other (internal/controller/                *)
(* agent_subagent.go with Reconcile of agent_reconciler.go).               *)
(*                                                                         *)
(* An Agent gets a Deployment, and publishes its URL, once every sub-agent *)
(* it refers to has published one.  One worker reconciles all Agents and   *)
(* reads them from one cache, fed by one ordered watch.  Each Agent's      *)
(* Deployment and Service are abstracted to the sub-agent URLs in its      *)
(* environment (AgentReconciler has them in full), and versions to whether *)
(* the reader has seen the latest (as in AgentConvergence).                *)
(***************************************************************************)
EXTENDS Naturals, Sequences

CONSTANTS
  Agents,       \* names
  Urls,         \* URLs an A2A protocol can have (port and path)
  NoUrl,        \* no A2A protocol; no URL published
  Gated,        \* Agents with an explicit aiGatewayRef
  Graphs,       \* specs to start from: functions from Agents to Spec records
  MaxEdits,     \* bound: spec changes and deletions
  MaxOutages    \* bound: changes of the gateway, and operator crashes

SpecOf == [url : Urls \cup {NoUrl}, refs : SUBSET Agents]

ASSUME DependenciesAssumption ==
  /\ NoUrl \notin Urls
  /\ Gated \subseteq Agents
  /\ Graphs \subseteq [Agents -> SpecOf]
  /\ MaxEdits \in Nat /\ MaxOutages \in Nat

VARIABLES
  agents,    \* the Agents in the API server
  cache,     \* the cached Agents
  inbox,     \* versions on their way to the cache
  queue,     \* the work queue
  work,      \* the Reconcile call in progress
  wired,     \* URLs in the environment of each Agent's Deployment
  gateway,   \* does the referenced AiGateway exist
  edits,     \* spec changes and deletions so far
  outages    \* gateway changes and crashes so far

vars == <<agents, cache, inbox, queue, work, wired, gateway, edits, outages>>

AgentVersion == [exists : BOOLEAN, spec : SpecOf,
                 ready : {"Unknown", "True", "False"}, url : Urls \cup {NoUrl}]

Created(s) == [exists |-> TRUE, spec |-> s, ready |-> "Unknown", url |-> NoUrl]
Deleted(a) == [agents[a] EXCEPT !.exists = FALSE, !.ready = "Unknown", !.url = NoUrl]

(* Environment of a Deployment: sub-agent URLs, NoUrl for the others. *)
NoEnv == [s \in Agents |-> NoUrl]

(* An Agent is in the work queue, being worked on, or neither. *)
Idle == [pc |-> "idle", latest |-> FALSE, todo |-> {}, issue |-> FALSE, env |-> NoEnv]

Init ==
  \E g \in Graphs :
    /\ agents = [a \in Agents |-> Created(g[a])]
    /\ cache = agents
    /\ inbox = <<>>
    /\ queue = Agents
    /\ work = Idle
    /\ wired = [a \in Agents |-> NoEnv]
    /\ gateway = TRUE
    /\ edits = 0
    /\ outages = 0

-----------------------------------------------------------------------------

Working(a) == work.pc # "idle" /\ work.key = a

Outdate(a) == work' = IF Working(a) THEN [work EXCEPT !.latest = FALSE] ELSE work

Write(a, new) ==
  /\ agents' = [agents EXCEPT ![a] = new]
  /\ inbox' = Append(inbox, [key |-> a, new |-> new])

(* A user changes the port or path, the protocol, or the sub-agents. *)
EditSpec(a, s) ==
  /\ edits < MaxEdits
  /\ agents[a].exists
  /\ s # agents[a].spec
  /\ edits' = edits + 1
  /\ Write(a, [agents[a] EXCEPT !.spec = s])
  /\ Outdate(a)
  /\ UNCHANGED <<cache, queue, wired, gateway, outages>>

DeleteAgent(a) ==
  /\ edits < MaxEdits
  /\ agents[a].exists
  /\ edits' = edits + 1
  /\ Write(a, Deleted(a))
  /\ Outdate(a)
  /\ wired' = [wired EXCEPT ![a] = NoEnv]
  /\ UNCHANGED <<cache, queue, gateway, outages>>

CachedAgents(c) == {a \in Agents : c[a].exists}
Parents(c, s) == {a \in CachedAgents(c) : s \in c[a].spec.refs}

(* The AiGateway is deleted or created: findAgentsReferencingAiGateway. *)
ChangeGateway ==
  /\ outages < MaxOutages
  /\ outages' = outages + 1
  /\ gateway' = ~gateway
  /\ queue' = queue \cup (Gated \cap CachedAgents(cache))
  /\ UNCHANGED <<agents, cache, inbox, work, wired, edits>>

(* Mutant of DeliverAgent: GenerationChangedPredicate on both watches. *)
StatusFiltered ==
  /\ inbox # <<>>
  /\ LET e == Head(inbox)
         known == [cache EXCEPT ![e.key] = e.new]
     IN  /\ cache' = known
         /\ queue' = IF e.new.exists /\ e.new.spec = cache[e.key].spec
                     THEN queue ELSE queue \cup {e.key} \cup Parents(known, e.key)
  /\ inbox' = Tail(inbox)
  /\ UNCHANGED <<agents, work, wired, gateway, edits, outages>>

(* An event queues its Agent and those that delegate to it:                *)
(* findAgentsReferencingSubAgent.                                          *)
DeliverAgent ==
  /\ inbox # <<>>
  /\ LET e == Head(inbox)
         known == [cache EXCEPT ![e.key] = e.new]
     IN  /\ cache' = known
         /\ queue' = queue \cup {e.key} \cup Parents(known, e.key)
  /\ inbox' = Tail(inbox)
  /\ UNCHANGED <<agents, work, wired, gateway, edits, outages>>

-----------------------------------------------------------------------------
(* Reconcile. *)

Finish == work' = Idle
Fail == Finish /\ queue' = queue \cup {work.key}

ReconcileNotFound(a) ==
  /\ work.pc = "idle"
  /\ a \in queue
  /\ ~cache[a].exists
  /\ queue' = queue \ {a}
  /\ UNCHANGED <<agents, cache, inbox, work, wired, gateway, edits, outages>>

ReconcileBegin(a) ==
  /\ work.pc = "idle"
  /\ a \in queue
  /\ cache[a].exists
  /\ queue' = queue \ {a}
  /\ work' = [pc |-> "resolve", key |-> a, snap |-> cache[a],
              latest |-> \A i \in 1..Len(inbox) : inbox[i].key # a,
              todo |-> cache[a].spec.refs, issue |-> FALSE, env |-> NoEnv]
  /\ UNCHANGED <<agents, cache, inbox, wired, gateway, edits, outages>>

(* Mutant of Resolves: an Agent that exists is taken to be reachable. *)
ExistsIsEnough(s) == cache[s].exists

Resolves(s) == cache[s].exists /\ cache[s].url # NoUrl

(* resolveSubAgentUrl for one sub-agent; an issue does not stop the loop. *)
ResolveSubAgent(s) ==
  /\ work.pc = "resolve"
  /\ s \in work.todo
  /\ work' = [work EXCEPT !.todo = @ \ {s},
                          !.env = IF Resolves(s) THEN [@ EXCEPT ![s] = cache[s].url] ELSE @,
                          !.issue = @ \/ ~Resolves(s)]
  /\ UNCHANGED <<agents, cache, inbox, queue, wired, gateway, edits, outages>>

(* Any issue is returned as an error, the status left as it is. *)
ResolveFails ==
  /\ work.pc = "resolve" /\ work.todo = {}
  /\ work.issue
  /\ Fail
  /\ UNCHANGED <<agents, cache, inbox, wired, gateway, edits, outages>>

ResolveAiGateway ==
  /\ work.pc = "resolve" /\ work.todo = {}
  /\ ~work.issue
  /\ work' = [work EXCEPT !.pc = IF work.key \in Gated /\ ~gateway
                                 THEN "notReady" ELSE "deploy"]
  /\ UNCHANGED <<agents, cache, inbox, queue, wired, gateway, edits, outages>>

(* A Deployment written for an Agent deleted meanwhile is collected. *)
EnsureDeployment ==
  /\ work.pc = "deploy"
  /\ wired' = IF agents[work.key].exists THEN [wired EXCEPT ![work.key] = work.env] ELSE wired
  /\ work' = [work EXCEPT !.pc = "status"]
  /\ UNCHANGED <<agents, cache, inbox, queue, gateway, edits, outages>>

UpdateStatusReady ==
  /\ work.pc = "status"
  /\ work.latest
  /\ Write(work.key, [agents[work.key] EXCEPT !.ready = "True", !.url = work.snap.spec.url])
  /\ Finish
  /\ UNCHANGED <<cache, queue, wired, gateway, edits, outages>>

(* Mutant of NotReady: the reason is written where the status belongs. *)
ReasonAsStatus(v) == [v EXCEPT !.ready = "MissingAiGateway", !.url = NoUrl]

NotReady(v) == [v EXCEPT !.ready = "False", !.url = NoUrl]

UpdateStatusNotReady ==
  /\ work.pc = "notReady"
  /\ work.latest
  /\ LET new == NotReady(agents[work.key])
     IN  IF new = agents[work.key] THEN UNCHANGED <<agents, inbox>> ELSE Write(work.key, new)
  /\ Fail
  /\ UNCHANGED <<cache, wired, gateway, edits, outages>>

UpdateStatusFails ==
  /\ work.pc \in {"status", "notReady"}
  /\ ~work.latest
  /\ Fail
  /\ UNCHANGED <<agents, cache, inbox, wired, gateway, edits, outages>>

(* The operator dies and lists everything anew. *)
Restart ==
  /\ outages < MaxOutages
  /\ outages' = outages + 1
  /\ cache' = agents
  /\ inbox' = <<>>
  /\ queue' = CachedAgents(agents)
  /\ Finish
  /\ UNCHANGED <<agents, wired, gateway, edits>>

(* The informers report all they have every ten hours. *)
Resync ==
  /\ ~(CachedAgents(cache) \subseteq queue)
  /\ queue' = queue \cup CachedAgents(cache)
  /\ UNCHANGED <<agents, cache, inbox, work, wired, gateway, edits, outages>>

-----------------------------------------------------------------------------

Environment ==
  \/ \E a \in Agents : (\E s \in SpecOf : EditSpec(a, s)) \/ DeleteAgent(a)
  \/ ChangeGateway
  \/ Restart
  \/ Resync

Step ==
  \/ \E s \in Agents : ResolveSubAgent(s)
  \/ ResolveFails
  \/ ResolveAiGateway
  \/ EnsureDeployment
  \/ UpdateStatusReady
  \/ UpdateStatusNotReady
  \/ UpdateStatusFails

Next ==
  \/ Environment
  \/ DeliverAgent
  \/ \E a \in Agents : ReconcileNotFound(a) \/ ReconcileBegin(a)
  \/ Step

(* The watch delivers, the worker runs, and the queue starves no key: it   *)
(* is first in, first out, and a failed key comes back after a delay.      *)
Fairness ==
  /\ WF_vars(DeliverAgent)
  /\ WF_vars(Step)
  /\ \A a \in Agents : SF_vars(ReconcileNotFound(a) \/ ReconcileBegin(a))

SafetySpec == Init /\ [][Next]_vars
Spec == SafetySpec /\ Fairness

-----------------------------------------------------------------------------
(* Properties. *)

(* Every variable has its type. *)
TypeOK ==
  /\ agents \in [Agents -> AgentVersion]
  /\ cache \in [Agents -> AgentVersion]
  /\ inbox \in Seq([key : Agents, new : AgentVersion])
  /\ queue \subseteq Agents
  /\ work = Idle \/ work \in [pc : {"resolve", "deploy", "status", "notReady"},
       key : Agents, snap : AgentVersion, latest : BOOLEAN, todo : SUBSET Agents,
       issue : BOOLEAN, env : [Agents -> Urls \cup {NoUrl}]]
  /\ wired \in [Agents -> [Agents -> Urls \cup {NoUrl}]]
  /\ gateway \in BOOLEAN
  /\ edits \in 0..MaxEdits /\ outages \in 0..MaxOutages

(* A set of Agents each of which waits for one of the set, or for an Agent *)
(* that is missing or has no A2A protocol: a cycle and all that leads into *)
(* it.  The largest such set is what can never be resolved.                *)
Stuck(S) ==
  \A a \in S : \E s \in agents[a].spec.refs :
    s \in S \/ ~agents[s].exists \/ agents[s].spec.url = NoUrl

Grounded == {a \in Agents : agents[a].exists} \ UNION {S \in SUBSET Agents : Stuck(S)}

(* While nobody changes a spec, no Agent of such a set is ever Ready,      *)
(* publishes a URL or is deployed, whatever restarts and outages happen.   *)
StuckNeverStarts ==
  edits = 0 =>
    \A S \in SUBSET Agents : Stuck(S) =>
      \A a \in S : agents[a].ready # "True" /\ agents[a].url = NoUrl /\ wired[a] = NoEnv

(* An environment with the URL of every sub-agent of a.                     *)
Reaches(a, env) ==
  \A s \in agents[a].spec.refs : env[s] # NoUrl /\ env[s] = agents[s].spec.url

(* While nobody changes a spec, no Agent is deployed with some of its      *)
(* sub-agents only: a Deployment has the URLs of all of them, and the      *)
(* Agent is not Ready before it exists, however sub-agents lose and regain *)
(* their URL with their gateway while they are looked up one by one.       *)
NeverHalfWired ==
  edits = 0 =>
    \A a \in Agents :
      wired[a] # NoEnv \/ agents[a].ready = "True" => Reaches(a, wired[a])

(* Once edits and outages stop, every Agent that is not stuck becomes      *)
(* Ready with the URL of its spec and stays so, in whatever order they     *)
(* come up, and its Deployment has the URLs its sub-agents now publish.    *)
GroundedConverge ==
  <>[]gateway =>
    <>[](\A a \in Grounded :
           /\ agents[a].ready = "True"
           /\ agents[a].url = agents[a].spec.url
           /\ \A s \in agents[a].spec.refs : wired[a][s] = agents[s].url)

=============================================================================
