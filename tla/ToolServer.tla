---------------------------- MODULE ToolServer ----------------------------
(***************************************************************************)
(* The ToolServer controller (internal/controller/                         *)
(* toolserver_reconciler.go, toolserver_toolgateway.go) and an Agent that  *)
(* uses the ToolServer (agent_tool.go).                                    *)
(*                                                                         *)
(* ToolGateways are made by another operator, which reports their URL.     *)
(* The ToolServer publishes its own URL and, when it is attached to a      *)
(* gateway, the URL through the gateway, which the Agent is to prefer.     *)
(* The two controllers run side by side in one process and read the same   *)
(* caches, each of which follows its kind with a delay of its own.         *)
(*                                                                         *)
(* A status that is written again unchanged makes no version and wakes     *)
(* nobody, so here, unlike with Agents, all depends on the watches.        *)
(***************************************************************************)
EXTENDS Naturals, Sequences

CONSTANTS
  Gateways,     \* names of ToolGateways
  Default,      \* those in the namespace tool-gateway
  GatewayUrls,  \* URLs of the ToolServer through gateways
  ServerUrls,   \* its own URLs, by transport, port and path
  NoUrl,        \* ""
  None,         \* absent
  Specs,        \* specs of the ToolServer
  MaxEdits,     \* bound: changes by users and the gateways' operator
  MaxFaults     \* bound: failed writes, crashes

Urls == GatewayUrls \cup ServerUrls

ASSUME ToolServerAssumption ==
  /\ Default \subseteq Gateways /\ None \notin Gateways
  /\ None \notin GatewayUrls \cup {NoUrl} /\ None \notin Specs
  /\ GatewayUrls \cap ServerUrls = {} /\ NoUrl \notin Urls
  /\ Specs \subseteq [gateway : Gateways \cup {None}, url : ServerUrls]
  /\ MaxEdits \in Nat /\ MaxFaults \in Nat

Children == {"Deployment", "Service"}

VARIABLES
  server, serverCache, serverInbox,     \* the ToolServer: stored, cached, versions to come
  gateway, gatewayCache, gatewayInbox,  \* URL of each gateway, or None: the same
  child,     \* spec the Deployment and the Service were built from, or None
  queued,    \* is the ToolServer in its work queue
  work,      \* its Reconcile call in progress
  agentQueued, agentWork,  \* is the Agent queued; URL a call is to deploy, or NoUrl
  wired,     \* URL of the tool in the Agent's Deployment, NoUrl before there is one
  edits, faults, crashes

serverVars == <<server, serverCache, serverInbox>>
gatewayVars == <<gateway, gatewayCache, gatewayInbox>>
toolServerVars == <<child, queued, work>>
agentVars == <<agentQueued, agentWork, wired>>
counters == <<edits, faults, crashes>>
vars == <<serverVars, gatewayVars, toolServerVars, agentVars, counters>>

(* A version of the ToolServer; without spec it does not exist. *)
Version == [spec : Specs \cup {None}, ready : {"True", "False", "Unknown"},
            url : ServerUrls \cup {NoUrl}, gatewayRef : Gateways \cup {None},
            gatewayUrl : GatewayUrls \cup {NoUrl}]

Fresh(spec) == [spec |-> spec, ready |-> "Unknown", url |-> NoUrl, gatewayRef |-> None,
                gatewayUrl |-> NoUrl]

Idle == [pc |-> "idle"]

Init ==
  /\ \E spec \in Specs \cup {None} : server = Fresh(spec)
  /\ serverCache = server
  /\ serverInbox = <<>>
  /\ gateway \in [Gateways -> GatewayUrls \cup {NoUrl, None}]
  /\ gatewayCache = gateway
  /\ gatewayInbox = <<>>
  /\ child = [k \in Children |-> None]
  /\ queued = (server.spec # None)
  /\ work = Idle
  /\ agentQueued = TRUE
  /\ agentWork = NoUrl
  /\ wired = NoUrl
  /\ edits = 0
  /\ faults = 0
  /\ crashes = 0

-----------------------------------------------------------------------------
(* The cluster around the controllers. *)

Edit == edits < MaxEdits /\ edits' = edits + 1 /\ UNCHANGED <<faults, crashes>>
Fault == faults + crashes < MaxFaults /\ faults' = faults + 1 /\ UNCHANGED <<edits, crashes>>
Crash == faults + crashes < MaxFaults /\ crashes' = crashes + 1 /\ UNCHANGED <<edits, faults>>

Write(version) ==
  /\ server' = version
  /\ serverInbox' = IF version = server THEN serverInbox ELSE Append(serverInbox, version)

(* The ToolServer is created, edited, or deleted. *)
EditServer(spec) ==
  /\ Edit
  /\ spec # server.spec
  /\ Write(IF server.spec = None \/ spec = None THEN Fresh(spec)
           ELSE [server EXCEPT !.spec = spec])
  /\ work' = IF work.pc = "idle" THEN work ELSE [work EXCEPT !.latest = FALSE]
  /\ UNCHANGED <<serverCache, gatewayVars, child, queued, agentVars>>

(* A gateway is created, gets its URL, or is deleted. *)
EditGateway(g, url) ==
  /\ Edit
  /\ url # gateway[g]
  /\ gateway' = [gateway EXCEPT ![g] = url]
  /\ gatewayInbox' = Append(gatewayInbox, [key |-> g, url |-> url])
  /\ UNCHANGED <<serverVars, gatewayCache, toolServerVars, agentVars>>

(* Somebody deletes the Deployment or the Service: both are watched. *)
DeleteChild(k) ==
  /\ Edit
  /\ child[k] # None
  /\ child' = [child EXCEPT ![k] = None]
  /\ queued' = TRUE
  /\ UNCHANGED <<serverVars, gatewayVars, work, agentVars>>

CollectGarbage ==
  /\ server.spec = None
  /\ \E k \in Children : child[k] # None
  /\ child' = [k \in Children |-> None]
  /\ UNCHANGED <<serverVars, gatewayVars, queued, work, agentVars, counters>>

(* It wakes the ToolServer and the Agents that refer to it. *)
DeliverServer ==
  /\ serverInbox # <<>>
  /\ serverCache' = Head(serverInbox)
  /\ serverInbox' = Tail(serverInbox)
  /\ queued' = TRUE
  /\ agentQueued' = TRUE
  /\ UNCHANGED <<server, gatewayVars, child, work, agentWork, wired, counters>>

(* Mutant of References: only an explicit reference counts. *)
ExplicitOnly(g) == serverCache.spec # None /\ serverCache.spec.gateway = g

(* findToolServersReferencingToolGateway *)
References(g) ==
  /\ serverCache.spec # None
  /\ IF serverCache.spec.gateway # None THEN serverCache.spec.gateway = g ELSE g \in Default

DeliverGateway ==
  /\ gatewayInbox # <<>>
  /\ LET event == Head(gatewayInbox)
     IN  /\ gatewayCache' = [gatewayCache EXCEPT ![event.key] = event.url]
         /\ queued' = (queued \/ References(event.key))
  /\ gatewayInbox' = Tail(gatewayInbox)
  /\ UNCHANGED <<serverVars, gateway, child, work, agentVars, counters>>

-----------------------------------------------------------------------------
(* Reconcile of the ToolServer. *)

Goto(pc) == work' = [work EXCEPT !.pc = pc]

Begin ==
  /\ work.pc = "idle"
  /\ queued
  /\ queued' = FALSE
  /\ work' = IF serverCache.spec = None THEN Idle
             ELSE [pc |-> "gateway", server |-> serverCache, latest |-> serverInbox = <<>>,
                   ref |-> None, base |-> NoUrl]
  /\ UNCHANGED <<serverVars, gatewayVars, child, agentVars, counters>>

(* The gateways a ToolServer may be attached to: the one it names, or any  *)
(* in the default namespace; the list of these comes in no order.          *)
Candidates(spec, urls) ==
  {g \in IF spec.gateway # None THEN {spec.gateway} ELSE Default : urls[g] # None}

Attach(g) ==
  /\ work' = [work EXCEPT !.pc = "Deployment", !.ref = g,
                          !.base = IF g = None THEN NoUrl ELSE gatewayCache[g]]
  /\ UNCHANGED <<serverVars, gatewayVars, child, queued, agentVars, counters>>

ResolveToolGateway ==
  /\ work.pc = "gateway"
  /\ LET found == Candidates(work.server.spec, gatewayCache)
     IN  \/ \E g \in found : Attach(g)
         \/ found = {} /\ work.server.spec.gateway = None /\ Attach(None)

(* A gateway the spec names is not there: an error, and no status.         *)
ResolveToolGatewayFails ==
  /\ work.pc = "gateway"
  /\ work.server.spec.gateway # None
  /\ Candidates(work.server.spec, gatewayCache) = {}
  /\ work' = Idle
  /\ queued' = TRUE
  /\ UNCHANGED <<serverVars, gatewayVars, child, agentVars, counters>>

(* ensureDeployment, then ensureService: CreateOrUpdate. *)
EnsureChild(k) ==
  /\ work.pc = k
  /\ child' = [child EXCEPT ![k] = work.server.spec]
  /\ queued' = (queued \/ child' # child)
  /\ Goto(IF k = "Deployment" THEN "Service" ELSE "ready")
  /\ UNCHANGED <<serverVars, gatewayVars, agentVars, counters>>

(* A conflict, or the API server does not answer. *)
EnsureChildFails(k) ==
  /\ Fault
  /\ work.pc = k
  /\ Goto("notReady")
  /\ UNCHANGED <<serverVars, gatewayVars, child, queued, agentVars>>

NotReady(v) == [v EXCEPT !.ready = "False", !.gatewayRef = None, !.gatewayUrl = NoUrl]

(* Mutants of Ready: arguments change places; the URL of the gateway is    *)
(* left for a later call.                                                  *)
Swapped(v, ref, base) ==
  [v EXCEPT !.ready = "True", !.url = v.spec.url, !.gatewayRef = base, !.gatewayUrl = ref]
GatewayLater(v, ref, base) ==
  [v EXCEPT !.ready = "True", !.url = v.spec.url, !.gatewayRef = ref,
            !.gatewayUrl = IF v.url = NoUrl THEN NoUrl ELSE base]

(* updateToolServerStatusReady *)
Ready(v, ref, base) ==
  [v EXCEPT !.ready = "True", !.url = v.spec.url, !.gatewayRef = ref, !.gatewayUrl = base]

UpdateStatusReady ==
  /\ work.pc = "ready"
  /\ work.latest
  /\ Write(Ready(work.server, work.ref, work.base))
  /\ work' = Idle
  /\ UNCHANGED <<serverCache, gatewayVars, child, queued, agentVars, counters>>

(* The error that led here is returned, whether the update succeeds or not.*)
UpdateStatusNotReady ==
  /\ work.pc = "notReady"
  /\ IF work.latest THEN Write(NotReady(work.server)) ELSE UNCHANGED <<server, serverInbox>>
  /\ work' = Idle
  /\ queued' = TRUE
  /\ UNCHANGED <<serverCache, gatewayVars, child, agentVars, counters>>

(* A conflict, or the API server does not answer. *)
UpdateStatusFails ==
  /\ work.pc = "ready"
  /\ IF work.latest THEN Fault ELSE UNCHANGED counters
  /\ work' = Idle
  /\ queued' = TRUE
  /\ UNCHANGED <<serverVars, gatewayVars, child, agentVars>>

-----------------------------------------------------------------------------
(* Reconcile of the Agent: resolve the tool, write the Deployment.         *)

(* Mutant of Preferred: the other way round. *)
DirectFirst(v) == IF v.url # NoUrl THEN v.url ELSE v.gatewayUrl

(* resolveToolServerUrl *)
Preferred(v) == IF v.gatewayUrl # NoUrl THEN v.gatewayUrl ELSE v.url

(* A tool that is missing or has no URL is an error: the Agent is queued   *)
(* again.                                                                  *)
ResolveTool ==
  /\ agentQueued /\ agentWork = NoUrl
  /\ Preferred(serverCache) # NoUrl
  /\ agentWork' = Preferred(serverCache)
  /\ agentQueued' = FALSE
  /\ UNCHANGED <<serverVars, gatewayVars, toolServerVars, wired, counters>>

(* Its status update, a new version each time, queues it again. *)
WireTool ==
  /\ agentWork # NoUrl
  /\ wired' = agentWork
  /\ agentWork' = NoUrl
  /\ agentQueued' = TRUE
  /\ UNCHANGED <<serverVars, gatewayVars, toolServerVars, counters>>

(* The operator dies and lists everything again. *)
Restart ==
  /\ Crash
  /\ serverCache' = server /\ serverInbox' = <<>>
  /\ gatewayCache' = gateway /\ gatewayInbox' = <<>>
  /\ queued' = TRUE /\ work' = Idle
  /\ agentQueued' = TRUE /\ agentWork' = NoUrl
  /\ UNCHANGED <<server, gateway, child, wired>>

(* The informers report all they have every ten hours. *)
Resync ==
  /\ ~queued
  /\ queued' = TRUE
  /\ UNCHANGED <<serverVars, gatewayVars, child, work, agentVars, counters>>

-----------------------------------------------------------------------------

Environment ==
  \/ \E spec \in Specs \cup {None} : EditServer(spec)
  \/ \E g \in Gateways, url \in GatewayUrls \cup {NoUrl, None} : EditGateway(g, url)
  \/ \E k \in Children : DeleteChild(k)
  \/ CollectGarbage

Reconcile ==
  \/ Begin \/ ResolveToolGateway \/ ResolveToolGatewayFails
  \/ \E k \in Children : EnsureChild(k)
  \/ UpdateStatusReady \/ UpdateStatusNotReady \/ UpdateStatusFails

AgentReconcile == ResolveTool \/ WireTool

Failures == (\E k \in Children : EnsureChildFails(k)) \/ Restart

Next ==
  \/ Environment \/ Failures \/ Resync
  \/ DeliverServer \/ DeliverGateway \/ Reconcile \/ AgentReconcile

SafetySpec == Init /\ [][Next]_vars

(* Watches and workers go on; a failed write is not the rule. *)
Fairness ==
  /\ WF_vars(DeliverServer) /\ WF_vars(DeliverGateway)
  /\ WF_vars(Reconcile) /\ WF_vars(AgentReconcile)

Spec == SafetySpec /\ Fairness

-----------------------------------------------------------------------------
(* Properties. *)

(* Every variable has its type. *)
TypeOK ==
  /\ server \in Version /\ serverCache \in Version /\ serverInbox \in Seq(Version)
  /\ gateway \in [Gateways -> GatewayUrls \cup {NoUrl, None}]
  /\ gatewayCache \in [Gateways -> GatewayUrls \cup {NoUrl, None}]
  /\ gatewayInbox \in Seq([key : Gateways, url : GatewayUrls \cup {NoUrl, None}])
  /\ child \in [Children -> Specs \cup {None}]
  /\ queued \in BOOLEAN /\ agentQueued \in BOOLEAN
  /\ \/ work = Idle
     \/ /\ work \in [pc : {"gateway", "ready", "notReady"} \cup Children, server : Version,
                     latest : BOOLEAN, ref : Gateways \cup {None}, base : GatewayUrls \cup {NoUrl}]
        /\ work.server.spec # None
  /\ agentWork \in Urls \cup {NoUrl} /\ wired \in Urls \cup {NoUrl}
  /\ edits \in 0..MaxEdits /\ faults \in 0..MaxFaults /\ crashes \in 0..MaxFaults

(* The spec names no gateway, or one that exists. *)
Resolvable == server.spec # None /\
  (server.spec.gateway # None => gateway[server.spec.gateway] # None)

(* The status is that of the spec, attached to a gateway whenever there is *)
(* one, with the URL this gateway has now.                                 *)
Attached ==
  LET found == Candidates(server.spec, gateway)
  IN  IF found = {} THEN server.gatewayRef = None /\ server.gatewayUrl = NoUrl
      ELSE server.gatewayRef \in found /\ server.gatewayUrl = gateway[server.gatewayRef]

UpToDate ==
  /\ server.ready = "True" /\ server.url = server.spec.url /\ Attached
  /\ \A k \in Children : child[k] = server.spec

(* Once changes stop, the ToolServer that can be resolved is deployed as   *)
(* specified and attached to an existing gateway with its present URL.     *)
(* The controller only wakes by its watches; with several gateways in the  *)
(* default namespace it may go from one to another for ever.               *)
ToolServerSettles == <>[]Resolvable => <>[]UpToDate

(* No call is running and nothing that would start one is on its way.      *)
Resting == ~queued /\ work = Idle /\ serverInbox = <<>> /\ gatewayInbox = <<>>

(* No wake-up is lost, even between edits: the controller only rests when  *)
(* the ToolServer is deployed and attached as it is now to be, whatever    *)
(* gateway came, went or moved while a call was under way.                 *)
RestsOnlyRight == Resting /\ server.spec # None => UpToDate

(* An Agent ends up with the URL through the gateway, when one is          *)
(* published, and else with the direct one.                                *)
AgentFollows ==
  /\ \A u \in GatewayUrls : <>[](server.gatewayUrl = u) => <>[](wired = u)
  /\ \A u \in ServerUrls :
       <>[](server.url = u /\ server.gatewayUrl = NoUrl) => <>[](wired = u)

(* With gateways ready from the start and no failing write, no Agent ever  *)
(* talks to the ToolServer directly: both URLs are published together, and *)
(* a crash between two steps does not separate them.                       *)
NeverBypassed ==
  /\ edits = 0 /\ faults = 0 /\ server.spec # None
  /\ Candidates(server.spec, gateway) # {}
  /\ \A g \in Candidates(server.spec, gateway) : gateway[g] # NoUrl
  => wired \in GatewayUrls \cup {NoUrl}

(* toolserver_types.go:119: "Only populated when this tool server is       *)
(* attached to a ToolGateway."  Violated: when the gateway the spec names  *)
(* is deleted, Reconcile ends before the status is written.                *)
GatewayUrlWithdrawn ==
  <>[](server.spec # None /\ server.spec.gateway # None
       /\ gateway[server.spec.gateway] = None) => <>[](server.gatewayUrl = NoUrl)
=============================================================================
