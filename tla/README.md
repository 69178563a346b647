# AgentK Runtime Operator in TLA+

The AgentK runtime operator is a Kubernetes operator in Go (controller-runtime). It
turns custom resources (Agents, the tool servers they use, workforces, swarms,
confidential agents) into Deployments and Services, and writes what it did into the
status of each resource: readiness, URLs, an audit trail of checkpoints, predicted cost,
attestation. Beside it stands a web dashboard: a React front end, in TypeScript, and a
FastAPI back end that reads and writes the same resources. This directory holds TLA+ models
of the controllers and of the dashboard, the TLC configurations that check them, and TLAPS
proofs.

Model checking: `tlc -config X.cfg MCModule`. Proofs: `tlapm Module.tla`.

## The system

### The operator

Every controller has the same shape, and the shape is where the difficulty lies:

* the **API server** keeps objects; each write makes a new version, and a write made from
  an old version is refused (a conflict);
* an **informer cache** per operator process follows each watched kind with a delay and
  in order; reads of the controllers go to the cache;
* a **work queue** per controller holds at most one entry per object; watches of the object,
  of what it owns and of what it refers to put keys in it; `Reconcile` is called for one key
  at a time, never twice at once for the same key in one process;
* an error returned from `Reconcile` puts the key back; a crash loses the call, the caches
  and the queue, and the new process lists everything again.

### The dashboard

* The **token** that `/auth/login` hands out is kept in `localStorage`, which all tabs of a
  browser share. `fetchAPI` reads it when a request is sent; a 401 removes it and asks for a new
  document at `/login`, any other error is thrown to the page.
* A **page** is a component: it is mounted when its route is shown, asks the server in an
  effect, keeps the answer in `useState`, and is unmounted by the next route. Its requests are
  not cancelled: an answer that comes later is still handled, only `setState` does nothing.
* The **server** keeps nothing between requests except its client for Kubernetes and the secret
  that tokens are signed with, which is random at each start unless it is configured.

### Components

| component | state | operations | interacts with | hard parts | correct when |
|---|---|---|---|---|---|
| Agent controller (`agent_reconciler.go`, `agent_status.go`) | Agent status; Deployment; Service | Reconcile: resolve, ensureDeployment, ensureService, checkpoint, status update | sub-agents, tools, gateway, configuration (watches); CostMonitor; ProofEngine | stale caches, conflicts, several operators, crash between writes | objects and status follow the spec; the trail is append-only and true |
| Merkle trail (`internal/merkle`), proof chain (`internal/verifiable`) | `merkleRoot`, `zkProofRoot` in the status | compute next checkpoint, chain it | written by the Agent controller only | concurrent writers | one chain, nothing forked or skipped |
| Sub-agents (`agent_subagent.go`, `agent_config.go`) | `status.url` of other Agents | resolve; wake parents | Agents among themselves | cycles, order of start, URL changes | all that can start start, with present URLs |
| AI gateway (`agent_aigateway.go`) | reference in the spec; default of a namespace | resolve; wake Agents | Agent status | gateway deleted and back | loss shows in the status |
| Tools (`agent_tool.go`), ToolServer, ToolGateway | ToolServer status: url, gatewayUrl | resolve; deploy; wake Agents | Agents, gateways | gateway lost, stale URL | URL served is the present one |
| ConfidentialAgent, attestation (`internal/tee`, `cmd/attestation-service`) | `verified`, reason, report | deploy, load key, challenge, verify | Agent (watch), Secret and service (no watch) | events nobody sends, key change at restart | `verified` follows what is attestable |
| AgenticWorkforce | transitive Agents and tools | validate entry points, walk, write | Agents, by a watch that depends on the status | graph changes under the walk; cycles | status is what can be reached |
| AgentSwarm (`swarm_reconciler.go`, `internal/swarm`) | member URLs, counts, coordinator Deployment | resolve, configure, deploy | Agents (watch) | members come and go | configuration lists the present members |
| Policy, ToolSandbox, SimulationPreview | status only | validate, predict | read by the Agent controller, which does not watch them | missing watches | documented status |
| Sidecars (`internal/ebpf`, `internal/wasm`) | containers in the pod template | added by ensureDeployment | Policy, ToolSandbox | additions never removed | template follows the spec |
| Governance, cost, lifecycle (`internal/governance`, `costpredictor`, `costintelligence`, `lifecycle`) | status fields; CostMonitor cache | pure decisions; background loop | Agent controller | stale decisions, boundaries | documented values |
| Proof engine (`internal/verifiable/*.go`) | proving keys in memory and on disk | lazy init, prove | Agent controller | key files after a crash | keys match |
| Webhooks (`internal/webhook`) | none | default, validate | API server | agreement with the controllers | idempotent defaults |
| Dashboard: session and pages (`frontend/src`: `api.ts`, `App.tsx`, `Sidebar.tsx`, `Login`, `Dashboard`, `LiveAgents`, `CostGraph`, `Attestation`) | token in `localStorage`; `useState` of the page shown; requests in flight | log in and out, follow links, load, refresh, delete, open a report | back end by HTTP; tabs by the token | answers late, lost or out of order, after their page was left; tokens that stop being accepted while tabs hold them | what is shown was so; outages end no session; spinners stop |
| Dashboard: forms (`NewAgent`, `Simulation`) | the fields; loading, error, result | edit, submit, run | back end | edits, leaving and retries while a request is on its way | what is created is what was submitted, once; the outcome is told |
| Dashboard: back end (`backend/`) | client of Kubernetes, secret | log in, list, report, create, delete, preview | API server | restarts, outages | errors told apart |
| Operator process (`cmd/main.go`), metrics, generated code, manifests | - | plumbing | - | leader election is optional | - |

`PROJECT.json` has the same list with the status of each part, and under `hazards` the
places where this code is hard to test, each with the property that watches it.

## Modules

| module | models |
|---|---|
| `AuditTrail` | abstract: what the Merkle checkpoints promise |
| `AgentReconciler` | the Agent controller in full detail for one Agent name and any number of operator processes |
| `AgentReconcilerProofs` | theorems about it |
| `AgentConvergence` | the same steps without versions and checkpoints, for liveness |
| `AgentDependencies` | many Agents that delegate to each other |
| `AgentDependenciesProofs` | theorems about it |
| `ConfidentialAgent` | the ConfidentialAgent controller and the attestation service |
| `ConfidentialAgentProofs` | theorems about it |
| `AgenticWorkforce` | the workforce controller and its walk |
| `AgenticWorkforceProofs` | theorems about it |
| `AgentDeployment` | the pod template of an Agent part by part: sidecars, volumes, probes |
| `AgentDeploymentProofs` | theorems about it |
| `ToolServer` | the ToolServer controller, its gateways, and an Agent that uses the tool |
| `ToolServerProofs` | theorems about it |
| `DashboardPages` | the pages of the dashboard as values: what they ask for, do with an answer, and show |
| `WebDashboard` | tabs, token, requests in flight, server and namespace; uses `DashboardPages` |
| `WebDashboardProofs` | theorems about it |
| `DashboardForms` | New Agent and Simulation, from the fields to the Agent in the cluster |
| `DashboardFormsProofs` | theorems about it |
| `MC...` | instances for TLC |

### AgentReconciler

`agent` and `child` are the API server: the Agent with `uid`, resource version (`rv`),
`generation`, spec and status; the Deployment and the Service with owner, version and the
spec they were built from. Each operator `o` has `agentCache[o]`, `childCache[o]`, versions
under way in `agentInbox[o]`, `childInbox[o]`, the queue (`queued[o]`, one key) and the call
in progress (`work[o]`: the step it is at and the Agent it read).

`Reconcile` is cut where it calls the API server, since that is where others interleave:

| code | action |
|---|---|
| Get, NotFound | `ReconcileNotFound` |
| configuration, sub-agents, tools fail | `ReconcileUnresolved`: error before any status is written |
| gateway fails | `ReconcileBegin` to `notReady`, then `UpdateStatusNotReady` or `UpdateStatusFails`; the error is returned either way |
| `ensureDeployment`, `ensureService` (CreateOrUpdate) | `ChildUpToDate`, `EnsureChild`, `EnsureChildFails` |
| Service deleted when there is no protocol | `DeleteService`, `DeleteServiceFails` |
| checkpoint, proof, cost and status update | `UpdateStatusReady`, `UpdateStatusFails` |

`RetryOnConflict` around `ensureDeployment` reads the cache again, so a retry that succeeds is
the same step taken after a delivery, and one that does not is `EnsureChildFails`. Around the
status update it sends the same object again, so the conflict remains.

Abstracted: the content of the Deployment is the spec it was last built from (the fields the
controller sets anew in every call; what it keeps or only adds is `AgentDeployment`). Hashes are
what they commit to, so a root is the sequence of checkpoints chained into it. Timestamps are left
out. SNARK, PlonK and SHA-256 proofs chain the same way. `deps` says whether everything the Agent
refers to resolves; `ChangeDependencies` changes it and queues the key, as the watches do. `past`
and `applied` are history variables.

The environment: users create, edit and delete the Agent, external metrics systems report
tokens in its status, the garbage collector removes objects of an Agent that is gone,
operators crash.

### AgentConvergence

A finite version of the same controller for liveness. The controller never rests, because
every Ready update adds a checkpoint, which is an event that queues the Agent again; with
versions and checkpoints counted there are no infinite behaviours within bounds. So a version
is replaced by the one fact it decides, whether a write would be accepted (`latest`, or an
empty inbox), and the checkpoint by the fact that a Ready update always is a new version. Others
may change or delete the Deployment and Service (`Drift`). All specs have `lifecycle` set.

### AgentDependencies

One worker, all Agents, one ordered watch. `wired[a]` is the environment of a's Deployment:
the URL it was given for each sub-agent. Sub-agents are looked up one at a time, the cache may
change in between, and an issue does not stop the loop. An explicit gateway (for `Gated`)
comes and goes.

### ConfidentialAgent

`Reconcile` step by step with its ways to end: error with a status update, error without
(Service), and four that ask for a retry after 30 seconds. The attestation service has a new
key after each start. `timer` is the pending `RequeueAfter`; it may fire at any time and is lost
in a crash. An answer may be lost or garbled (`AttestationLost`).

### AgenticWorkforce

The walk takes one Agent per step in any order (the code's depth-first order is one of them)
and the cache may change between two steps. An Agent is marked before it is read. Lists are
sets; that Go writes them in random order is kept as `Reordered`: an equal status may be a new
version. `References` is the watch's mapping, which looks at the cached status.

### AgentDeployment

`ensureDeployment` for one Agent, cut at the reads of the ToolSandbox and of each Policy.
`work.template` is the template under construction: it starts as the stored one (`Stored`), and
each field says what that part was built from.

| part | code | in the model |
|---|---|---|
| ports, environment, readiness probe, annotations, volumes | set in every call | replaced in `Begin`, `Desired` |
| rollout strategy, grace period | set if the spec has a lifecycle | `Desired` |
| liveness probe | set once, through a pointer that is stale when a container was appended | `Desired`, `Appended` |
| sandbox container | added; image, ports, environment, resources refreshed, command kept | `WithSandbox` |
| policy containers | the first of each kind added, never refreshed or removed | `WithPolicy` |

The API server accepts the result if it declares the volumes that its containers mount
(`Mounted`). Nothing watches ToolSandboxes and Policies; what comes late is picked up because the
status update after every call wakes the controller again.

`resolveToolSandbox` and `resolvePolicy` read informer caches, and what a cache does not have is
skipped like what does not exist. So `sandbox` and `rules` are histories: the first element is
what the cache shows (`Cached`), the last what the API server stores (`Latest`), and
`DeliverSandbox` and `DeliverPolicy` bring the caches forward. Init is the moment the Agent was
created, when the last `MaxLag` changes may not have arrived, each of them a change of one object.
The Agent and the Deployment are read as they are when a call begins: a stale Deployment ends in a
conflict, which `AgentReconciler` has, and a stale Agent makes the call one of before the edit.

There is one container of each kind. `NeverUnprotected` is therefore about what the caches had
when the Agent was created: the sandbox, and for each kind of rules of a Policy a container that
was built from it or from a Policy that stands before it in `policyRefs`. A Policy that the cache
did not have may be missing from the first Deployment, and one behind another of its kind is never
injected. `Settles` claims presence of the containers, not that they follow a Policy that changes
or goes away: the code never refreshes or removes them.

### ToolServer

Two controllers in one process: the ToolServer's, cut at each of its calls, and the part of the
Agent's that takes the URL of a tool and writes it into the Deployment. `server` and `gateway`
are the API server, `...Cache` and `...Inbox` the informers; both controllers read the same
`serverCache`. ToolGateways have no controller here: their operator makes them, gives them a URL
and takes them away (`EditGateway`). As in AgentConvergence a version is replaced by the fact
it decides (`latest`). A status equal to the stored one is no version and no event
(`Write`); this is stricter than the code where only `observedGeneration` differs, so nothing
that is shown here relies on such an event. `wired` is the URL in the Agent's Deployment.

| code | action |
|---|---|
| Get, NotFound | `Begin` |
| `resolveToolGateway` | `ResolveToolGateway`: the named gateway, any default one, or none; `ResolveToolGatewayFails`: error before any status |
| `ensureDeployment`, `ensureService` | `EnsureChild`, `EnsureChildFails` |
| status updates | `UpdateStatusReady`, `UpdateStatusFails`, `UpdateStatusNotReady` |
| `findToolServersReferencingToolGateway`, `findAgentsReferencingToolServer` | `DeliverGateway`, `DeliverServer` |
| `resolveToolServerUrl`, `AGENT_TOOLS` | `ResolveTool`, `WireTool` |

### WebDashboard and DashboardPages

`cluster` is the history of the namespace, a sequence of sets of names; the content of an answer
is the position in it that was read, so that what a page shows can be dated. `tab[t]` is the
document of a tab: its path, the page mounted there, the position when it was opened (`since`),
and whether another document has been asked for (`leaving`). `calls` are the requests in flight. A
call is `waiting`, then has its answer (`ok`, `unauthorized` for 401, `failed` for everything
else), and is then handled; its `owner` says who handles it: the page that sent it, only the
document once that page is unmounted, or nobody. Each step is one turn of the browser's event
loop, or one request the server executes; an answer changes nothing until it is handled.

| code | action or operator |
|---|---|
| `useEffect` of a page | `Loads`, sent by `Show` when the route is shown |
| `ProtectedLayout`, `Route`s | `Route` |
| `Link`, `navigate` | `Navigate`; `Follow`, `LoggedIn`, `Created` |
| `window.location.href = '/login'` | `leaving`, then `Unload`; in between, answers are still handled |
| Sign Out | `SignOut` |
| `handleLogin`, `/auth/login` | `Login`, `Mistype`, `AnswerLogin`, `LoggedIn` |
| 401, other errors and success in `fetchAPI` | `Unauthorized`, `Failed`, `Loaded` |
| `get_current_user` | `Admitted`, `Refuse` (no token: 403; rejected token: 401) |
| `refresh`, its interval, the button | `Refresh` |
| `Promise.all` of Dashboard | `DashboardAnswer` |
| `.catch(() => {})` of LiveAgents, CostGraph, Attestation | `ListAnswer` |
| click on a report | `Select`, `DetailAnswer` |
| Delete, `.then(refresh)` | `Delete`, `AnswerWrite`, `Deleted` |
| JSX of a page | `DashboardView`, `LiveAgentsView`, `CostView`, `AttestationView`, `FormView` |

Environment: a request or an answer fails (`Fail`: before or after it was executed), tokens expire or
the secret is replaced (`Withdraw`), others change the namespace (`Change`), addresses are
typed (only from `/login`, where there is no menu). Agents and ConfidentialAgents share one set of
names. Left out: the back button, a reload of the same page, the user's clicks in the
instant between asking for a document and getting it, and the double mount of StrictMode, which is
there in development only.

### DashboardForms

`doc` is the page with its form: fields hold the text typed. `Posted` and `PostedSim` are the
conversions of `handleSubmit` and of Simulation's inputs (`Number('')` is 0; NaN becomes null),
`generate_agent_yaml` has the code's name, `Admissible` is what the CRD admits. A part the code
leaves out is the empty set. `visit` counts the pages opened, so an answer knows whether the form
that asked is still mounted (`Mounted`); `Created` navigates in any case. `Lose` makes a failure of a
request that was executed, or not. The user is logged in throughout.

`NumberOf` gives the texts that are numbers their value; a text without one is NaN. Of what may be
typed (`Values`, `SimValues`) `FieldsAssumption` asks only what the inputs enforce: that the fields are
those of the form, that the slider of autonomy gives numbers from 1 to 5 and the checkbox a Boolean, and
that the empty text is 0. Simulation's budget goes through pydantic's `Optional[float]`, so the same
number is written `'50.0'` there and `'50'` by New Agent; both are the number here, and exponent forms
are left out.

| code | action or operator |
|---|---|
| inputs, `update` | `Edit`, `EditSim`, with `Values`, `SimValues` |
| `required`, `min`, `max` | `Submittable` |
| `handleSubmit`, before and after `await` | `handleSubmit`; `Created`, `NotCreated` |
| `runPreview`, before and after `await` | `runPreview`; `Previewed` |
| `create_agent` | `create_agent`, `create_refused` |
| `preview_simulation` | `preview_simulation`, `Estimate` |
| result of Simulation | `ResultView` |

## Runs

Specs for TLC: `full` has an A2A protocol, a cost budget and proofs, `bare` nothing, `proven`
a protocol and proofs. Bounds are constants named `Max...` and are part of the guards. Runs of
AgentReconciler do not check deadlock, because the bounds stop the system, nor does
`dashboard_forms`, where the user has no more clicks and edits; the others do.

| run | instance | shows |
|---|---|---|
| `agent_lives` | one operator, the Agent created twice under its name, two specs, an edit in each life, a fault (crash or lost dependency) | `ReadyMeansDeployed` although the old Deployment is adopted by name; `AuditedWasApplied` |
| `agent_two_operators` | two operators, an edit, a token report | `ProofChainIsTailOfMerkleChain`, `TrailSpec` (refinement of AuditTrail), `TokensNeverLost` |
| `convergence` | three specs, 2 edits, one interference, one fault | `Converges`, `PhaseSettles`, `GatewayLossShows` |
| `dependencies` | all graphs of two Agents, one with or without protocol; an edit or deletion, an outage or crash | `StuckNeverStarts`, `GroundedConverge` |
| `attestation` | two keys, two changes, one fault | `VerifiedByItsSpec`, `AttestableIsVerified`, `VerifiedIsWithdrawn` |
| `workforce` | graphs of two Agents and a tool with and without cycles and missing Agents; two edits, a crash | `WalkIsExact`, `RestsOnlyRight`, `EverythingDiscovered` |
| `deployment` | four specs, two versions of a sandbox, two policies; a change the caches may not have when the Agent is created, another change, a crash | `NeverUnprotected`, `Settles` |
| `deployment_sample` | two specs, one change | violated (below) |
| `toolserver` | two default gateways in every state, one of which may be named; one change, one failed write or crash | `NeverBypassed`, `ToolServerSettles`, `AgentFollows` |
| `toolserver_gateway_doc` | one gateway, named by the ToolServer, one change | violated (below) |
| `dashboard` | the scenarios of MCWebDashboard: tabs that share a token and lose it, one that manages agents, one that reads; failures, withdrawn tokens, changes of the namespace | `DashboardWhole`, `ShownWasTrue`, `OutagesKeepSession`, `ListFollowsCluster`, `SpinnersStop`, `RejectedLeaves` |
| `dashboard_forms` | two submissions, three fields changed, two visits, one loss, an Agent of another user or none | `CreatedAsSubmitted`, `ToldTruth`, `PreviewIsLatest`, `OutcomeTold` |

Why the bounds are enough: the hazards need a reader that is one version behind while another
write happens, and then the effect of acting on it. Two edits give a cache two versions behind;
two operators give every conflict between two writers, and a third would act like one of the two
that lost; a crash can happen at any step; two lives of the Agent give an object of an earlier
owner. Two Agents have a cycle of one with something leading in, a cycle of two, a missing
sub-agent and a chain; the walk and the waiting on cycles are proved for every graph. Two policies
are enough for one to be ahead of the other, in the list and in the cache. Its run starts from
every spec with every Policy (without rules, with rules of one kind or of both) and sandbox, so
one change covers every transition, on top of one that the cache learns of late. The ToolServer
run starts from every combination of gateways, so one change covers every transition between them,
and two gateways in the default namespace are enough for the choice to alternate. The theorems
below hold without the bounds being small.

The dashboard's hazards need two answers that overtake each other, a page left between a request
and its answer, or a token that another tab replaces. `MaxCalls` leaves room for the requests of a
page, those of the page before, and one more slot (`Spare`) that the page after a login needs: so the
bound delays clicks and timers and never an answer. The scenarios (`Plans`) say which pages each
tab goes to, so that each combination is explored to the end while all of them together stay small;
all of them have the same actions. Two clicks are a retry, or a submission overtaken by a
second form; three edits change a field before, while and after.

`ReadyMeansDeployed` is only claimed for one operator and users who do not go back to an old
spec (`AllowRevert = FALSE`): with two operators, the slower one may overwrite the Deployment
with an earlier spec after the other reported Ready.

### Findings

* `deployment_sample`: `policyRefs` and `toolSandboxRef` are documented to inject containers. They
  mount volumes that only `spec.volumes` can declare, so with a spec like the examples the API
  server refuses the Deployment; the functions that build these volumes are never called.
* `toolserver_gateway_doc`: `gatewayUrl` is documented to be there only when the ToolServer is attached
  to a gateway. When the gateway it names is deleted, resolving it is an error that ends every call
  before the status is written; Agents keep the URL of a gateway that is gone.

Seen while modelling and not run. In the operator: "Each reconciliation creates a checkpoint"
(`merkle.go:18`), but one whose status update fails does not, and its spec may never be recorded;
`policyRefs` are the Policies "to enforce on this agent" (`agent_types.go:331`), but containers
have fixed names and are added only when there is none of that name (`agent_reconciler.go:471`),
so of two Policies with OPA rules the second is dropped without a trace in the status;
`selfHealing` restarts failing agents by a liveness probe (`agent_types.go:227`) that is never
overwritten, so after the port has changed healthy agents fail it; `checkpointOnUpdate` is
documented to force a checkpoint before a change is applied and only sets an annotation; the
comment of `resolveToolGateway` calls a gateway that is not found no error, which holds for the
default one only; a single failed write withdraws `gatewayUrl`, so Agents use the direct URL until
the next call succeeds (`NeverBypassed` excludes failed writes for that reason).

In the dashboard: a 401 to an old token that is handled after a new login, in any tab, removes the
new token, so a mistyped password in one tab ends the session of the others (`OutagesKeepSession`
excludes withdrawals, sign-outs and wrong passwords for that reason). After a sign-out in one tab,
the others send requests without a token, which are 403 and not 401: they stay where they are with
what they last loaded (`RejectedLeaves` is about rejected tokens). The error of a wrong password
is set on a page that the 401 is about to replace. CostGraph and Attestation swallow errors and
then say "No cost data available" or "No ConfidentialAgents deployed"; only Dashboard, with its
banner, tells a failure from an empty namespace. Of two reports clicked, the one that comes last
is shown. A deletion is by name, so it deletes an Agent that was created again meanwhile, and its
failure is handled nowhere. A creation that succeeds late takes the user to the list from any
page, also from a second form. What Simulation previews is not validated by the cluster although
`simulation.py:13` calls it a dry run; its cost is the budget typed in, and it counts a second
container for proofs which the controller does not add. A budget that is no number is dropped; so
is the prompt version without a strategy; replicas left empty are 0. `uploadKubeconfig` is called
by no page.

### Fairness

Weak fairness of the worker (`Reconcile`) and of each watch's delivery: controller-runtime runs a
worker while the queue is not empty, and watches are re-established (in AgentDeployment each of
the two informers). In AgentDependencies one worker serves many keys, and the queue starves none
(first in, first out, and a failed key comes back after a back-off), which is strong fairness of
taking each key. The pending timer fires. Not assumed: that the ten-hour resync happens, that
users act, that services start, that faults occur or not. In the dashboard: every request is
answered or fails and every answer is handled (HTTP over TCP with the browser's own timeouts, and
the event loop), a document that was asked for replaces the old one, and the timer of Live Agents
goes off again and again as long as the page is mounted. The last one is strong fairness because
only the bound on requests in flight disables `Refresh`, and a browser has no such bound. Users
need not do anything. Liveness is therefore stated as "once the environment stops": edits, faults
and outages are bounded, and premises such as `<>[](deps = "resolved")` say the rest.

## Proofs

For all values of the constants that satisfy the assumption each module names: any set of
operators, Agents, specs, policies, any bounds.

* `AgentReconcilerProofs!TypeCorrect` - `Spec => []TypeOK`. The inductive invariant `TypeInv` adds
  that a call in progress has read an Agent that exists: without it the spec taken from the
  snapshot could be `NoSpec`.
* `AgentReconcilerProofs!TrailRefinement` - `Spec => TrailSpec`. Needs `Coherent`: whatever version of
  the Agent is in a cache, an inbox or a call in progress, if it has the resource version that
  is stored then it *is* what is stored. So a status update that is accepted extends the
  stored chain by one checkpoint of the stored spec; any other is refused.
* `AgentReconcilerProofs!TokensKept`, `ProofChainTail` - from the same `Coherent`: the status written
  back contains the stored token count, and both chains grow from the stored ones together.
* `AgentReconcilerProofs!TrailIsTrue` - `[]AuditedWasApplied`. `AppliedInv` says that every Deployment in
  the API server, a cache or an inbox was written, and that a call past its Deployment step has its spec
  in `applied`; the first part is what lets a call skip the write when the cached object looks
  right.
* `AgentReconcilerProofs!ReadyRunsItsSpec` - `[]ReadyMeansDeployed`, from two hypotheses that the property
  needs (see above): one operator, `~AllowRevert`. The property is about three objects that are read at
  different times through different caches, so its invariant is about all copies of them. `PastInv`: no
  Deployment or version of the Agent comes from a life or a spec that has not been. `InOrder`: what the
  operator knows of the Agent only gets newer, from the call in progress over the cache and the inbox to
  the API server; as no spec returns, one that is out of force is so in every older copy. `SettledInv`:
  once any copy of the Deployment has been built from the present spec, cache and call know that spec,
  so nothing older can be written over it; and a call that has passed its Deployment step with the
  present spec, or a status that is Ready for the present generation, finds such a Deployment in the
  API server. An object of an earlier life counts only once it has been written with the
  new owner, which builds it anew.

* `AgentDependenciesProofs!StuckStaysSilent` - `SafetySpec => []StuckNeverStarts`. The invariant is about
  each set S with `Stuck(S)` as a whole (`SetSilent`): its members have no URL and no Deployment, in
  the API server, the cache and under way, and a call for one of them has found an issue or has the
  sub-agent it waits for still to look up. `SpecsAgree` says that caches and events show the specs
  of the API server as long as nobody edits, so that waiting is the same everywhere.
* `AgenticWorkforceProofs!WalkExact` - `Spec => []WalkIsExact`. `WalkInv`: as long as the graph is not
  edited the cache shows it; what is found or pending can be reached, and what is found has its
  successors found or pending. With nothing pending, the result is closed and so is everything.
* `AgentDeploymentProofs!SidecarsFromTheStart` - `SafetySpec => NeverUnprotected`. One inductive invariant
  for the sandbox (`BoxInv`) and one for each Policy and kind of rules (`RuleInv`): without changes what
  was known stays known (`KnownRuleStays`: histories only get shorter, `Within`), a call works on the present
  spec, and its template is `InTime`: it has the container, from the Policy or one before it, or none
  while the Policy is still to be read. Whether earlier Policies resolve does not matter.
* `ToolServerProofs!GatewayRespected` - `SafetySpec => []NeverBypassed`. `BypassInv`: without edits and
  failed writes every copy of spec and gateways is the stored one (`Agree`); a version that has a
  direct URL also has a gateway URL, wherever it is (`VersionsCovered`), and a call past the lookup
  has a gateway's URL (`WorkCovered`).
* `WebDashboardProofs!PagesShowTruth`, `DashboardIsWhole`, `SessionsOutliveOutages`,
  `DashboardTyping` - all from `InvariantHolds`, `Spec => []DashboardInv`, one lemma per action and conjunct.
  `ShownGood`: what a page shows is between `since` and the present (`Recent`, `Within`), and Dashboard
  is loading, has failed with nothing, or has both answers (`Whole`). `CallsGood` is why: a
  request whose owner is the page was sent by the page that is mounted, so its answer is not older
  than `since`, and its kind is one that page handles (`Proper`). `SessionGood`: until a session had to
  end, every token stored, carried or on its way is accepted (`Honest`), so no 401 is possible.
* `DashboardFormsProofs!CreatedIsSubmitted`, `OutcomeIsTrue`, `PreviewIsTrue`, `FormsTyping`,
  `AgentsAreKept` - from `FormsHold`, `Spec => []FormsInv`, for any fields, texts and bounds. `AsClicked`: a
  request says to the end what a form said at a click; that `generate_agent_yaml` then makes what the
  form's labels ask for is `CreatedIsWanted`, a lemma about the conversions alone. `OneInFlight`: a form
  that is open waits for one request at most, the one of its last click, so the answer it takes is
  to that. `ExecutedOnce` ties answers to what the server did, `Told` the page to that, and `Previewing`
  the answer of a run to the form it was run with, as long as the same visit lasts. `AgentsAreKept` is
  about steps alone.
* `ConfidentialAgentProofs!AttestedAsPinned` - `Spec => VerifiedByItsSpec`. The cache and what is on its way
  end in the stored version (`Newest`), so a call that began with nothing on its way has read the stored
  spec, and keeps `latest` only until that is edited (`WorkInv`); with a pinned key it gets to `ready` only
  by the key of the running service.
* `TypeCorrect` of the other modules, `ConfidentialTyping`.

Liveness is out of the prover's reach, but most of what could break it here is a wake-up that is
lost: a controller that rests with work to do, a page that waits for an answer nobody will give. That
is a safety property, so for each component it is stated and proved for all values of the constants.
Fairness then does the rest, which TLC checks on the runs.

* `AgentReconcilerProofs!AgentsAreWatched` - `[]NeverForgotten` (the safety half of `Converges`).
  `WatchInv`: the newest of what an operator has cached or under way is the stored Agent, so a key
  that is dropped because the cache has no such Agent has an event to come; errors and conflicts
  put the key back, a crash lists everything again.
* `AgentDependenciesProofs!WiredToAll` - `SafetySpec => []NeverHalfWired` (`GroundedConverge`).
  `CallWired`: without an issue so far, the call has the URLs of all sub-agents already looked up,
  and by `SpecsAgree` a URL found is the one of the stored spec, also if its owner has lost it
  meanwhile. `WiredInv` carries that to the Deployment and from there to the status.
* `AgenticWorkforceProofs!NoWakeUpLost` - `[]RestsOnlyRight` (`EverythingDiscovered`). `RestInv`: the watch
  looks up in the cached status who has to be woken, and that status is being rewritten by the call.
  If the call read the latest version and every event since then concerned nobody in the status it had,
  then what it writes is right, or its write is itself an event that wakes the controller.
* `ToolServerProofs!NoWakeUpLost` - `SafetySpec => []RestsOnlyRight` (`ToolServerSettles`). The same for a
  status that is no event when it does not change: resting, the status, the Deployment and the Service
  are what spec and gateways ask for.
* `ConfidentialAgentProofs!VerifiedNeverRests` - `[]RestsOnlyUnverified` (`AttestableIsVerified`,
  `VerifiedIsWithdrawn`). A call without the latest version is followed by the event it has not seen. One
  with it writes its verdict, which is an event, or finds the same verdict written. What fails without a
  write either is an error, which queues the key, or starts the timer.
* `WebDashboardProofs!SpinnersAwaitAnswers` - `[]SpinnersHaveCause` (`SpinnersStop`). `SpinnerInv`: a request
  goes into a free slot, and one that belongs to a page leaves only when it is handled or its page is
  left. An answer the page waits for (`Awaited`) stops the spinner, or is the first of the two that
  Dashboard waits for (`HandleCaused`). A deletion is of a page that refreshes (`DeletesHere`), so the
  spinner its success starts has the refresh for a cause. That there is a free slot with a least number
  is where cardinality is needed (`RanksGood`).
* `DashboardFormsProofs!DisabledFormsWait` - `[]WaitsForAnswer` (`OutcomeTold`). The request of the last click
  is under way and its form mounted (`Live`, `Mounted`) until it is answered or the form is left.

Of these properties only `RestsOnlyRight` of the workforce is listed in a run; TLC has checked each of
the others within the bounds of its component's runs, before it was proved.

Only model-checked: liveness (Converges, PhaseSettles, GatewayLossShows, GroundedConverge,
AttestableIsVerified, VerifiedIsWithdrawn, EverythingDiscovered, Settles, ToolServerSettles,
AgentFollows, ListFollowsCluster, SpinnersStop, RejectedLeaves, OutcomeTold), which the prover does
not reach, and the types of AgentConvergence, whose steps are those of AgentReconciler.

## Plan

Done: 1 the Agent controller and its trail, with proofs; 2 convergence; 3 dependencies, with proofs;
4 confidential agents; 5 workforces, with proofs; 6 the pod template, with proofs;
7 tool servers and gateways with an Agent that uses them, with proofs; 8 the dashboard: its session
and pages, and its forms, with proofs; 9 proofs of every safety property that a run checks, and that no
component waits for nothing. Next, in
this order:

10. `CostMonitor` with the decision operators of governance, cost and lifecycle.
11. `Swarm`: a reader of Agents with a watch.
12. `ProofKeys`: lazy initialisation and key files across crashes.

## Not modelled

* AgentSwarm, Policy, ToolSandbox and SimulationPreview controllers: shorter instances of the shape
  that `AgenticWorkforce` and `ToolServer` have, without a step of their own that those lack. What
  policies and sandboxes lead to is in `AgentDeployment`.
* CostMonitor: nothing bounds the age of the decisions it caches, so the code makes no promise that
  could be checked; what it decides is arithmetic, like governance and cost prediction.
* Key files of the provers, and the circuits: the crash between two files is listed as a hazard.
* Webhooks: pure functions of one object.
* Dashboard: the upload of a kubeconfig (no page calls it; its swap of two global variables in
  `k8s_client.py:15` would matter if one did), colours and layout, columns of the tables.
* Metrics (nothing reads them), generated deepcopy code and CRDs (except the patterns that decide
  about a form), manifests and scripts, names, labels and environment merging.
