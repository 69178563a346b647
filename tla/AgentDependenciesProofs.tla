----------------------- MODULE AgentDependenciesProofs -----------------------
(***************************************************************************)
(* Theorems about AgentDependencies, for every set of Agents, every graph  *)
(* of sub-agents and every bound: the types, that who waits for ever stays *)
(* silent, and that nobody is deployed with some of its sub-agents only.   *)
(***************************************************************************)
EXTENDS AgentDependencies, TLAPS, SequenceTheorems

-----------------------------------------------------------------------------
(* Type correctness. *)

Env == [Agents -> Urls \cup {NoUrl}]
Event == [key : Agents, new : AgentVersion]
Call == [pc : {"resolve", "deploy", "status", "notReady"}, key : Agents,
         snap : AgentVersion, latest : BOOLEAN, todo : SUBSET Agents,
         issue : BOOLEAN, env : Env]

LEMMA Types ==
  TypeOK <=>
    /\ agents \in [Agents -> AgentVersion]
    /\ cache \in [Agents -> AgentVersion]
    /\ inbox \in Seq(Event)
    /\ queue \subseteq Agents
    /\ work = Idle \/ work \in Call
    /\ wired \in [Agents -> Env]
    /\ gateway \in BOOLEAN
    /\ edits \in 0..MaxEdits /\ outages \in 0..MaxOutages
BY DEF TypeOK, Env, Event, Call

LEMMA IdleFacts == Idle.pc = "idle" /\ NoEnv \in Env
BY DEF Idle, NoEnv, Env

LEMMA CallFacts ==
  ASSUME TypeOK, work.pc # "idle"
  PROVE  work \in Call
BY Types, IdleFacts

LEMMA InitType ==
  ASSUME Init
  PROVE  TypeOK
<1>1. PICK g \in Graphs : agents = [a \in Agents |-> Created(g[a])] /\ cache = agents
  BY DEF Init
<1>2. \A a \in Agents : g[a] \in SpecOf
  BY DependenciesAssumption
<1>3. \A a \in Agents : Created(g[a]) \in AgentVersion
  BY <1>2 DEF Created, AgentVersion
<1>4. agents \in [Agents -> AgentVersion] /\ cache \in [Agents -> AgentVersion]
  BY <1>1, <1>3
<1>5. wired \in [Agents -> Env]
  BY IdleFacts DEF Init
<1> QED
  BY <1>4, <1>5, DependenciesAssumption, Types DEF Init

(* A write of a well-typed Agent leaves the store and the inbox typed. *)
LEMMA WriteType ==
  ASSUME TypeOK, NEW a \in Agents, NEW new \in AgentVersion, Write(a, new)
  PROVE  agents' \in [Agents -> AgentVersion] /\ inbox' \in Seq(Event)
<1>1. [key |-> a, new |-> new] \in Event
  BY DEF Event
<1> QED
  BY <1>1, Types DEF Write

LEMMA OutdateType ==
  ASSUME TypeOK, NEW a, Outdate(a)
  PROVE  work' = Idle \/ work' \in Call
<1>1. CASE Working(a)
  BY <1>1, CallFacts DEF Outdate, Working, Call
<1>2. CASE ~Working(a)
  BY <1>2, Types DEF Outdate
<1> QED
  BY <1>1, <1>2

LEMMA StepType ==
  ASSUME TypeOK, [Next]_vars
  PROVE  TypeOK'
<1> DEFINE TypeOf == /\ agents \in [Agents -> AgentVersion]
                     /\ cache \in [Agents -> AgentVersion]
                     /\ inbox \in Seq(Event)
                     /\ queue \subseteq Agents
                     /\ work = Idle \/ work \in Call
                     /\ wired \in [Agents -> Env]
                     /\ gateway \in BOOLEAN
                     /\ edits \in 0..MaxEdits /\ outages \in 0..MaxOutages
<1> SUFFICES TypeOf'
  BY DEF TypeOK, Env, Event, Call
<1>0. TypeOf /\ MaxEdits \in Nat /\ MaxOutages \in Nat
  BY Types, DependenciesAssumption
<1>1. ASSUME NEW a \in Agents, NEW s \in SpecOf, EditSpec(a, s)
      PROVE  TypeOf'
  <2>1. [agents[a] EXCEPT !.spec = s] \in AgentVersion
    BY <1>0 DEF AgentVersion
  <2>2. agents' \in [Agents -> AgentVersion] /\ inbox' \in Seq(Event)
    BY <1>1, <2>1, WriteType DEF EditSpec
  <2>3. work' = Idle \/ work' \in Call
    BY <1>1, OutdateType DEF EditSpec
  <2> QED
    BY <1>0, <1>1, <2>2, <2>3 DEF EditSpec
<1>2. ASSUME NEW a \in Agents, DeleteAgent(a)
      PROVE  TypeOf'
  <2>1. Deleted(a) \in AgentVersion
    BY <1>0 DEF AgentVersion, Deleted
  <2>2. agents' \in [Agents -> AgentVersion] /\ inbox' \in Seq(Event)
    BY <1>2, <2>1, WriteType DEF DeleteAgent
  <2>3. work' = Idle \/ work' \in Call
    BY <1>2, OutdateType DEF DeleteAgent
  <2>4. wired' \in [Agents -> Env]
    BY <1>0, <1>2, IdleFacts DEF DeleteAgent
  <2> QED
    BY <1>0, <1>2, <2>2, <2>3, <2>4 DEF DeleteAgent
<1>3. CASE ChangeGateway
  BY <1>0, <1>3 DEF ChangeGateway, CachedAgents
<1>4. CASE Restart
  <2>1. queue' \subseteq Agents /\ outages' \in 0..MaxOutages
    BY <1>0, <1>4 DEF Restart, CachedAgents
  <2> QED
    BY <1>0, <1>4, <2>1 DEF Restart, Finish
<1>5. CASE Resync
  BY <1>0, <1>5 DEF Resync, CachedAgents
<1>6. CASE DeliverAgent
  <2>1. Head(inbox) \in Event /\ Tail(inbox) \in Seq(Event)
    BY <1>0, <1>6, HeadTailProperties DEF DeliverAgent
  <2>2. cache' \in [Agents -> AgentVersion]
    BY <1>0, <1>6, <2>1 DEF DeliverAgent, Event
  <2>3. queue' \subseteq Agents
    BY <1>0, <1>6, <2>1 DEF DeliverAgent, Event, Parents, CachedAgents
  <2> QED
    BY <1>0, <1>6, <2>1, <2>2, <2>3 DEF DeliverAgent
<1>7. ASSUME NEW a \in Agents, ReconcileNotFound(a)
      PROVE  TypeOf'
  BY <1>0, <1>7 DEF ReconcileNotFound
<1>8. ASSUME NEW a \in Agents, ReconcileBegin(a)
      PROVE  TypeOf'
  <2>1. cache[a].spec.refs \in SUBSET Agents
    BY <1>0 DEF AgentVersion, SpecOf
  <2>2. work' \in Call
    BY <1>0, <1>8, <2>1, IdleFacts DEF ReconcileBegin, Call
  <2> QED
    BY <1>0, <1>8, <2>2 DEF ReconcileBegin
<1>9. ASSUME NEW s \in Agents, ResolveSubAgent(s)
      PROVE  TypeOf'
  <2>1. work \in Call
    BY <1>9, CallFacts DEF ResolveSubAgent
  <2> DEFINE env == IF Resolves(s) THEN [work.env EXCEPT ![s] = cache[s].url] ELSE work.env
  <2>2. env \in Env
    BY <1>0, <2>1 DEF Call, Env, AgentVersion
  <2>3. work' = [work EXCEPT !.todo = @ \ {s}, !.env = env, !.issue = @ \/ ~Resolves(s)]
    BY <1>9, <2>1 DEF ResolveSubAgent, Call
  <2> HIDE DEF env
  <2>4. work' \in Call
    BY <2>1, <2>2, <2>3 DEF Call
  <2> QED
    BY <1>0, <1>9, <2>4 DEF ResolveSubAgent
<1>10. ASSUME Fail, work.pc # "idle"
       PROVE  work' = Idle /\ queue' \subseteq Agents
  BY <1>0, <1>10, CallFacts DEF Fail, Finish, Call
<1>11. CASE ResolveFails
  BY <1>0, <1>10, <1>11 DEF ResolveFails
<1>12. CASE ResolveAiGateway
  <2>1. work' \in Call
    BY <1>12, CallFacts DEF ResolveAiGateway, Call
  <2> QED
    BY <1>0, <1>12, <2>1 DEF ResolveAiGateway
<1>13. CASE EnsureDeployment
  <2>1. work \in Call
    BY <1>13, CallFacts DEF EnsureDeployment
  <2>2. work' \in Call
    BY <1>13, <2>1 DEF EnsureDeployment, Call
  <2>3. wired' \in [Agents -> Env]
    BY <1>0, <1>13, <2>1 DEF EnsureDeployment, Call
  <2> QED
    BY <1>0, <1>13, <2>2, <2>3 DEF EnsureDeployment
<1>14. CASE UpdateStatusReady
  <2>1. work \in Call
    BY <1>14, CallFacts DEF UpdateStatusReady
  <2>2. [agents[work.key] EXCEPT !.ready = "True", !.url = work.snap.spec.url] \in AgentVersion
    BY <1>0, <2>1 DEF Call, AgentVersion, SpecOf
  <2>3. agents' \in [Agents -> AgentVersion] /\ inbox' \in Seq(Event)
    BY <1>14, <2>1, <2>2, WriteType DEF UpdateStatusReady, Call
  <2> QED
    BY <1>0, <1>14, <2>3 DEF UpdateStatusReady, Finish
<1>15. CASE UpdateStatusNotReady
  <2>1. work \in Call
    BY <1>15, CallFacts DEF UpdateStatusNotReady
  <2>2. NotReady(agents[work.key]) \in AgentVersion
    BY <1>0, <2>1 DEF Call, AgentVersion, NotReady
  <2>3. agents' \in [Agents -> AgentVersion] /\ inbox' \in Seq(Event)
    BY <1>0, <1>15, <2>1, <2>2, WriteType DEF UpdateStatusNotReady, Call
  <2> QED
    BY <1>0, <1>10, <1>15, <2>3 DEF UpdateStatusNotReady
<1>16. CASE UpdateStatusFails
  BY <1>0, <1>10, <1>16 DEF UpdateStatusFails
<1>17. CASE UNCHANGED vars
  BY <1>0, <1>17 DEF vars
<1> QED
  BY <1>1, <1>2, <1>3, <1>4, <1>5, <1>6, <1>7, <1>8, <1>9, <1>11, <1>12, <1>13, <1>14,
     <1>15, <1>16, <1>17
  DEF Next, Environment, Step

(* Every reachable state of the sub-agent model is well typed.             *)
THEOREM TypeCorrect == SafetySpec => []TypeOK
BY InitType, StepType, PTL DEF SafetySpec

-----------------------------------------------------------------------------
(* Stuck Agents.                                                           *)
(*                                                                         *)
(* While nobody edits, every version of an Agent, stored, cached or on its *)
(* way, has the spec it was created with and no URL but that of its spec.  *)
(* So the versions of a stuck Agent's blocking sub-agent, which is stuck   *)
(* as well or has no protocol, never have a URL, and a Reconcile call for  *)
(* the stuck Agent cannot resolve it: it has found an issue, or it will,   *)
(* before it gets to a Deployment or a status.                             *)

(* A version has the Agent's spec, and no URL but that of its spec.        *)
Faithful(a, v) ==
  /\ v.exists
  /\ v.spec = agents[a].spec
  /\ v.url \in {NoUrl, v.spec.url}

SpecsAgree ==
  /\ \A a \in Agents : Faithful(a, agents[a]) /\ Faithful(a, cache[a])
  /\ \A i \in 1..Len(inbox) : Faithful(inbox[i].key, inbox[i].new)
  /\ work.pc # "idle" => work.snap.spec = agents[work.key].spec

Silent(v) == v.ready # "True" /\ v.url = NoUrl

Blocking(S, a) ==
  {s \in agents[a].spec.refs : s \in S \/ ~agents[s].exists \/ agents[s].spec.url = NoUrl}

(* Nothing has come of the Agents in S.                                    *)
SetSilent(S) ==
  /\ \A a \in S : Silent(agents[a]) /\ Silent(cache[a]) /\ wired[a] = NoEnv
  /\ \A i \in 1..Len(inbox) : inbox[i].key \in S => Silent(inbox[i].new)
  /\ work.pc # "idle" /\ work.key \in S =>
       work.pc = "resolve" /\ (work.issue \/ Blocking(S, work.key) \cap work.todo # {})

StuckInv ==
  edits = 0 => SpecsAgree /\ \A S \in SUBSET Agents : Stuck(S) => SetSilent(S)

LEMMA InitStuck ==
  ASSUME Init
  PROVE  StuckInv
<1>1. PICK g \in Graphs : agents = [a \in Agents |-> Created(g[a])] /\ cache = agents
  BY DEF Init
<1>2. /\ inbox = <<>> /\ work.pc = "idle"
      /\ wired = [a \in Agents |-> NoEnv]
  BY IdleFacts DEF Init
<1>3. SpecsAgree
  BY <1>1, <1>2 DEF SpecsAgree, Faithful, Created
<1>4. \A S \in SUBSET Agents : SetSilent(S)
  <2>1. \A a \in Agents : Silent(agents[a]) /\ Silent(cache[a])
    BY <1>1 DEF Silent, Created
  <2>2. \A a \in Agents : wired[a] = NoEnv
    BY <1>2
  <2> QED
    BY <1>2, <2>1, <2>2 DEF SetSilent
<1> QED
  BY <1>3, <1>4 DEF StuckInv

(* What stuck means depends on the specs alone.                            *)
LEMMA StuckSame ==
  ASSUME \A a \in Agents : agents'[a].spec = agents[a].spec /\ agents'[a].exists = agents[a].exists,
         TypeOK
  PROVE  /\ \A S \in SUBSET Agents : Stuck(S)' = Stuck(S)
         /\ \A S \in SUBSET Agents : \A a \in Agents : Blocking(S, a)' = Blocking(S, a)
<1>1. \A a \in Agents : agents[a].spec.refs \subseteq Agents
  BY DEF TypeOK, AgentVersion, SpecOf
<1> QED
  BY <1>1 DEF Stuck, Blocking

(* A write that keeps the spec, gives no URL but that of the spec, and     *)
(* leaves the Agent silent if it is in S, disturbs neither part.           *)
LEMMA WriteStuck ==
  ASSUME TypeOK, SpecsAgree, NEW a \in Agents, NEW new \in AgentVersion, Write(a, new),
         Faithful(a, new), work' = Idle, UNCHANGED <<cache, wired>>
  PROVE  /\ SpecsAgree'
         /\ \A x \in Agents : agents'[x].spec = agents[x].spec /\ agents'[x].exists = agents[x].exists
         /\ \A S \in SUBSET Agents : SetSilent(S) /\ (a \in S => Silent(new)) => SetSilent(S)'
<1>1. agents \in [Agents -> AgentVersion] /\ inbox \in Seq(Event)
  BY Types
<1>2. agents' = [agents EXCEPT ![a] = new] /\ inbox' = Append(inbox, [key |-> a, new |-> new])
  BY DEF Write
<1>3. \A x \in Agents : agents'[x].spec = agents[x].spec /\ agents'[x].exists = agents[x].exists
  BY <1>1, <1>2 DEF SpecsAgree, Faithful
<1>4. ASSUME NEW i \in 1..Len(inbox')
      PROVE  \/ inbox'[i].key = a /\ inbox'[i].new = new
             \/ i \in 1..Len(inbox) /\ inbox'[i] = inbox[i] /\ inbox[i].key \in Agents
  <2>1. i = Len(inbox) + 1 \/ i \in 1..Len(inbox)
    BY <1>1, <1>2
  <2>2. CASE i = Len(inbox) + 1
    BY <1>1, <1>2, <2>2
  <2>3. CASE i \in 1..Len(inbox)
    <3>1. inbox'[i] = inbox[i] /\ inbox[i] \in Event
      BY <1>1, <1>2, <2>3
    <3> QED
      BY <2>3, <3>1 DEF Event
  <2> QED
    BY <2>1, <2>2, <2>3
<1>5. \A x \in Agents : \A v : Faithful(x, v)' = Faithful(x, v)
  BY <1>3 DEF Faithful
<1> QED
  <2>1. SpecsAgree'
    BY <1>1, <1>2, <1>3, <1>4, IdleFacts DEF SpecsAgree, Faithful
  <2>2. ASSUME NEW S \in SUBSET Agents, SetSilent(S), a \in S => Silent(new)
        PROVE  SetSilent(S)'
    BY <1>1, <1>2, <1>4, <2>2, IdleFacts DEF SetSilent, Silent
  <2> QED
    BY <1>3, <2>1, <2>2

(* A step that leaves every version and Deployment alone.                  *)
LEMMA QuietStuck ==
  ASSUME TypeOK, SpecsAgree, UNCHANGED <<agents, cache, inbox, wired>>,
         work'.pc # "idle" => work'.snap.spec = agents[work'.key].spec
  PROVE  /\ SpecsAgree'
         /\ \A S \in SUBSET Agents :
              SetSilent(S) /\ (work'.pc # "idle" /\ work'.key \in S =>
                work'.pc = "resolve" /\ (work'.issue \/ Blocking(S, work'.key) \cap work'.todo # {}))
              => SetSilent(S)'
<1>1. SpecsAgree'
  BY DEF SpecsAgree, Faithful
<1>2. \A S \in SUBSET Agents : \A a : Blocking(S, a)' = Blocking(S, a)
  BY DEF Blocking
<1> QED
  BY <1>1, <1>2 DEF SetSilent

LEMMA StepStuck ==
  ASSUME TypeOK, StuckInv, [Next]_vars
  PROVE  StuckInv'
<1> SUFFICES ASSUME edits' = 0
             PROVE  /\ SpecsAgree'
                    /\ \A S \in SUBSET Agents : Stuck(S)' => SetSilent(S)'
  BY DEF StuckInv
<1> DEFINE Goal == SpecsAgree' /\ \A S \in SUBSET Agents : Stuck(S)' => SetSilent(S)'
<1>1. edits \in Nat
  BY DependenciesAssumption, Types
<1>2. ASSUME NEW a \in Agents, NEW s, EditSpec(a, s)
      PROVE  FALSE
  BY <1>1, <1>2 DEF EditSpec
<1>3. ASSUME NEW a \in Agents, DeleteAgent(a)
      PROVE  FALSE
  BY <1>1, <1>3 DEF DeleteAgent
<1>4. ASSUME edits' = edits
      PROVE  SpecsAgree /\ \A S \in SUBSET Agents : Stuck(S) => SetSilent(S)
  BY <1>4 DEF StuckInv
<1>5. ASSUME UNCHANGED agents
      PROVE  \A S \in SUBSET Agents : Stuck(S)' = Stuck(S)
  BY <1>5 DEF Stuck
<1>6. ASSUME UNCHANGED <<agents, cache, inbox, wired, edits>>, work' = Idle \/ work' = work
      PROVE  Goal
  <2>1. SpecsAgree /\ \A S \in SUBSET Agents : Stuck(S)' => SetSilent(S)
    BY <1>4, <1>5, <1>6
  <2>2. CASE work' = Idle
    BY <1>6, <2>1, <2>2, QuietStuck, IdleFacts
  <2>3. CASE work' = work
    BY <1>6, <2>1, <2>3, QuietStuck DEF SpecsAgree, SetSilent
  <2> QED
    BY <1>6, <2>2, <2>3
<1>7. CASE ChangeGateway
  BY <1>6, <1>7 DEF ChangeGateway
<1>8. CASE Resync
  BY <1>6, <1>8 DEF Resync
<1>9. CASE Restart
  <2>1. UNCHANGED <<agents, wired, edits>> /\ cache' = agents /\ inbox' = <<>> /\ work' = Idle
    BY <1>9 DEF Restart, Finish
  <2>2. SpecsAgree /\ \A S \in SUBSET Agents : Stuck(S)' => SetSilent(S)
    BY <1>4, <1>5, <2>1
  <2>3. SpecsAgree'
    BY <2>1, <2>2, IdleFacts DEF SpecsAgree, Faithful
  <2>4. ASSUME NEW S \in SUBSET Agents, SetSilent(S)
        PROVE  SetSilent(S)'
    BY <2>1, <2>4, IdleFacts DEF SetSilent, Silent
  <2> QED
    BY <2>2, <2>3, <2>4
<1>10. CASE DeliverAgent
  <2>1. UNCHANGED <<agents, work, wired, edits>> /\ inbox # <<>> /\ inbox' = Tail(inbox)
        /\ cache' = [cache EXCEPT ![Head(inbox).key] = Head(inbox).new]
    BY <1>10 DEF DeliverAgent
  <2>2. SpecsAgree /\ \A S \in SUBSET Agents : Stuck(S)' => SetSilent(S)
    BY <1>4, <1>5, <2>1
  <2>3. inbox \in Seq(Event) /\ cache \in [Agents -> AgentVersion]
    BY Types
  <2>4. 1 \in 1..Len(inbox) /\ Head(inbox) = inbox[1] /\ inbox[1] \in Event
    BY <2>1, <2>3
  <2>5. inbox[1].key \in Agents
    BY <2>4 DEF Event
  <2>6. \A i \in 1..Len(inbox') : inbox'[i] = inbox[i + 1] /\ i + 1 \in 1..Len(inbox)
    BY <2>1, <2>3
  <2>7. \A x \in Agents : cache'[x] = IF x = inbox[1].key THEN inbox[1].new ELSE cache[x]
    BY <2>1, <2>3, <2>4
  <2>8. SpecsAgree'
    <3>1. \A x \in Agents : Faithful(x, cache'[x])
      BY <2>2, <2>4, <2>7 DEF SpecsAgree
    <3>2. \A i \in 1..Len(inbox') : Faithful(inbox'[i].key, inbox'[i].new)
      BY <2>2, <2>6 DEF SpecsAgree
    <3> QED
      BY <2>1, <2>2, <3>1, <3>2 DEF SpecsAgree, Faithful
  <2>9. ASSUME NEW S \in SUBSET Agents, SetSilent(S)
        PROVE  SetSilent(S)'
    <3>1. \A x \in S : Silent(cache'[x])
      BY <2>4, <2>7, <2>9 DEF SetSilent
    <3>2. \A i \in 1..Len(inbox') : inbox'[i].key \in S => Silent(inbox'[i].new)
      BY <2>6, <2>9 DEF SetSilent
    <3>3. \A x : Blocking(S, x)' = Blocking(S, x)
      BY <2>1 DEF Blocking
    <3> QED
      BY <2>1, <2>9, <3>1, <3>2, <3>3 DEF SetSilent, Silent
  <2> QED
    BY <2>2, <2>8, <2>9
<1>11. ASSUME NEW a \in Agents, ReconcileNotFound(a)
       PROVE  Goal
  BY <1>6, <1>11 DEF ReconcileNotFound
<1>12. ASSUME NEW a \in Agents, ReconcileBegin(a)
       PROVE  Goal
  <2>1. UNCHANGED <<agents, cache, inbox, wired, edits>>
    BY <1>12 DEF ReconcileBegin
  <2>2. SpecsAgree /\ \A S \in SUBSET Agents : Stuck(S)' => Stuck(S) /\ SetSilent(S)
    BY <1>4, <1>5, <2>1
  <2>3. work'.pc = "resolve" /\ work'.key = a /\ work'.snap = cache[a] /\ work'.todo = cache[a].spec.refs
    BY <1>12 DEF ReconcileBegin
  <2>4. cache[a].spec = agents[a].spec
    BY <2>2 DEF SpecsAgree, Faithful
  <2>5. ASSUME NEW S \in SUBSET Agents, Stuck(S), a \in S
        PROVE  Blocking(S, a) \cap work'.todo # {}
    BY <2>3, <2>4, <2>5 DEF Stuck, Blocking
  <2> QED
    BY <2>1, <2>2, <2>3, <2>4, <2>5, QuietStuck
<1>13. ASSUME NEW s \in Agents, ResolveSubAgent(s)
       PROVE  Goal
  <2>1. UNCHANGED <<agents, cache, inbox, wired, edits>> /\ work.pc = "resolve"
    BY <1>13 DEF ResolveSubAgent
  <2>2. SpecsAgree /\ \A S \in SUBSET Agents : Stuck(S)' => SetSilent(S)
    BY <1>4, <1>5, <2>1
  <2>3. work \in Call
    BY <2>1, CallFacts
  <2>4. /\ work'.pc = work.pc /\ work'.key = work.key /\ work'.snap = work.snap
        /\ work'.todo = work.todo \ {s} /\ work'.issue = (work.issue \/ ~Resolves(s))
    BY <1>13, <2>3 DEF ResolveSubAgent, Call
  <2>5. ASSUME NEW S \in SUBSET Agents, SetSilent(S), s \in Blocking(S, work.key)
        PROVE  ~Resolves(s)
    <3>1. s \in S \/ agents[s].spec.url = NoUrl
      BY <2>2, <2>5 DEF Blocking, SpecsAgree, Faithful
    <3>2. cache[s].url = NoUrl
      BY <2>2, <2>5, <3>1 DEF SetSilent, Silent, SpecsAgree, Faithful
    <3> QED
      BY <3>2 DEF Resolves
  <2>6. ASSUME NEW S \in SUBSET Agents, SetSilent(S), work.key \in S
        PROVE  work'.issue \/ Blocking(S, work'.key) \cap work'.todo # {}
    BY <2>1, <2>4, <2>5, <2>6 DEF SetSilent
  <2>7. work'.snap.spec = agents[work'.key].spec
    BY <2>1, <2>2, <2>4 DEF SpecsAgree
  <2> QED
    BY <2>1, <2>2, <2>4, <2>6, <2>7, QuietStuck
<1>14. CASE ResolveFails
  BY <1>6, <1>14 DEF ResolveFails, Fail, Finish
<1>15. CASE ResolveAiGateway
  <2>1. /\ UNCHANGED <<agents, cache, inbox, wired, edits>>
        /\ work.pc = "resolve" /\ work.todo = {} /\ ~work.issue
    BY <1>15 DEF ResolveAiGateway
  <2>2. SpecsAgree /\ \A S \in SUBSET Agents : Stuck(S)' => SetSilent(S)
    BY <1>4, <1>5, <2>1
  <2>3. work \in Call
    BY <2>1, CallFacts
  <2>4. work'.key = work.key /\ work'.snap = work.snap
    BY <1>15, <2>3 DEF ResolveAiGateway, Call
  <2>5. \A S \in SUBSET Agents : SetSilent(S) => work.key \notin S
    BY <2>1 DEF SetSilent
  <2> QED
    BY <2>1, <2>2, <2>4, <2>5, QuietStuck DEF SpecsAgree
<1>16. CASE EnsureDeployment
  <2>1. UNCHANGED <<agents, cache, inbox, edits>> /\ work.pc = "deploy"
    BY <1>16 DEF EnsureDeployment
  <2>2. SpecsAgree /\ \A S \in SUBSET Agents : Stuck(S)' => SetSilent(S)
    BY <1>4, <1>5, <2>1
  <2>3. work \in Call
    BY <2>1, CallFacts
  <2>4. work'.key = work.key /\ work'.snap = work.snap
    BY <1>16, <2>3 DEF EnsureDeployment, Call
  <2>5. \A S \in SUBSET Agents : SetSilent(S) => work.key \notin S
    BY <2>1 DEF SetSilent
  <2>6. \A x \in Agents : x # work.key => wired'[x] = wired[x]
    BY <1>16, Types DEF EnsureDeployment
  <2>7. SpecsAgree'
    BY <2>1, <2>2, <2>4 DEF SpecsAgree, Faithful
  <2>8. ASSUME NEW S \in SUBSET Agents, SetSilent(S)
        PROVE  SetSilent(S)'
    BY <2>1, <2>4, <2>5, <2>6, <2>8 DEF SetSilent, Silent
  <2> QED
    BY <2>2, <2>7, <2>8
<1>17. ASSUME NEW new \in AgentVersion, Write(work.key, new), work.pc # "idle", work' = Idle,
              Faithful(work.key, new), UNCHANGED <<cache, wired, edits>>,
              \A S \in SUBSET Agents : SetSilent(S) /\ work.key \in S => Silent(new)
       PROVE  Goal
  <2>1. work.key \in Agents
    BY <1>17, CallFacts DEF Call
  <2>2. SpecsAgree /\ \A S \in SUBSET Agents : Stuck(S) => SetSilent(S)
    BY <1>4, <1>17
  <2>3. /\ SpecsAgree'
        /\ \A x \in Agents : agents'[x].spec = agents[x].spec /\ agents'[x].exists = agents[x].exists
        /\ \A S \in SUBSET Agents : SetSilent(S) /\ (work.key \in S => Silent(new)) => SetSilent(S)'
    BY <1>17, <2>1, <2>2, WriteStuck
  <2>4. \A S \in SUBSET Agents : Stuck(S)' = Stuck(S)
    BY <2>3, StuckSame
  <2> QED
    BY <1>17, <2>2, <2>3, <2>4
<1>18. CASE UpdateStatusReady
  <2> DEFINE new == [agents[work.key] EXCEPT !.ready = "True", !.url = work.snap.spec.url]
  <2>1. /\ Write(work.key, new) /\ work' = Idle /\ work.pc = "status"
        /\ UNCHANGED <<cache, wired, edits>>
    BY <1>18 DEF UpdateStatusReady, Finish
  <2>2. work \in Call /\ agents[work.key] \in AgentVersion
    BY <2>1, CallFacts, Types DEF Call
  <2>3. new \in AgentVersion
    BY <2>2 DEF Call, AgentVersion, SpecOf
  <2>4. Faithful(work.key, new)
    BY <1>4, <2>1, <2>2 DEF SpecsAgree, Faithful, AgentVersion, Call
  <2>5. \A S \in SUBSET Agents : SetSilent(S) => work.key \notin S
    BY <2>1 DEF SetSilent
  <2> HIDE DEF new
  <2> QED
    BY <1>17, <2>1, <2>3, <2>4, <2>5
<1>19. CASE UpdateStatusNotReady
  <2> DEFINE new == NotReady(agents[work.key])
  <2>1. /\ work' = Idle /\ work.pc = "notReady"
        /\ UNCHANGED <<cache, wired, edits>>
        /\ Write(work.key, new) \/ UNCHANGED <<agents, inbox>>
    BY <1>19 DEF UpdateStatusNotReady, Fail, Finish
  <2>2. work \in Call /\ agents[work.key] \in AgentVersion
    BY <2>1, CallFacts, Types DEF Call
  <2>3. new \in AgentVersion
    BY <2>2 DEF AgentVersion, NotReady
  <2>4. Faithful(work.key, new)
    BY <1>4, <2>1, <2>2 DEF SpecsAgree, Faithful, AgentVersion, Call, NotReady
  <2>5. \A S \in SUBSET Agents : SetSilent(S) => work.key \notin S
    BY <2>1 DEF SetSilent
  <2> HIDE DEF new
  <2> QED
    BY <1>6, <1>17, <2>1, <2>3, <2>4, <2>5
<1>20. CASE UpdateStatusFails
  BY <1>6, <1>20 DEF UpdateStatusFails, Fail, Finish
<1>21. CASE UNCHANGED vars
  BY <1>6, <1>21 DEF vars
<1> QED
  BY <1>2, <1>3, <1>7, <1>8, <1>9, <1>10, <1>11, <1>12, <1>13, <1>14, <1>15, <1>16, <1>18,
     <1>19, <1>20, <1>21
  DEF Next, Environment, Step

(* While nobody changes a spec, an Agent that waits, directly or through   *)
(* others, for a cycle, for a missing Agent or for one without a protocol  *)
(* never gets a Deployment, a URL or a Ready status, in any graph, in any  *)
(* order of events, restarts and outages.                                  *)
THEOREM StuckStaysSilent == SafetySpec => []StuckNeverStarts
<1>1. Init => TypeOK /\ StuckInv
  BY InitType, InitStuck
<1>2. TypeOK /\ StuckInv /\ [Next]_vars => (TypeOK /\ StuckInv)'
  BY StepType, StepStuck
<1>3. StuckInv => StuckNeverStarts
  BY DEF StuckInv, StuckNeverStarts, SetSilent, Silent
<1> QED
  BY <1>1, <1>2, <1>3, PTL DEF SafetySpec

-----------------------------------------------------------------------------
(* Environments.                                                           *)
(*                                                                         *)
(* While nobody edits, a URL found in the cache is the one in the spec     *)
(* (SpecsAgree).  So a call that has found no issue has a URL for every    *)
(* sub-agent it has looked up, and past the lookup for all of them, and    *)
(* what it deploys is still deployed when it writes the status.            *)
Found(s, env) == env[s] # NoUrl /\ env[s] = agents[s].spec.url

CallWired ==
  work.pc # "idle" =>
    /\ ~work.issue => \A s \in agents[work.key].spec.refs \ work.todo : Found(s, work.env)
    /\ work.pc # "resolve" => work.todo = {} /\ ~work.issue
    /\ work.pc = "status" => wired[work.key] = work.env

WiredInv == edits = 0 => CallWired /\ NeverHalfWired

LEMMA InitWired ==
  ASSUME Init
  PROVE  WiredInv
<1>1. PICK g \in Graphs : agents = [a \in Agents |-> Created(g[a])]
  BY DEF Init
<1>2. \A a \in Agents : wired[a] = NoEnv /\ agents[a].ready = "Unknown"
  BY <1>1 DEF Init, Created
<1> QED
  BY <1>2, IdleFacts DEF Init, WiredInv, CallWired, NeverHalfWired

(* Where nobody edits, no step changes a spec.                             *)
LEMMA SpecsKept ==
  ASSUME TypeOK, [Next]_vars, edits' = 0
  PROVE  edits = 0 /\ \A a \in Agents : agents'[a].spec = agents[a].spec
<1>1. edits \in Nat /\ agents \in [Agents -> AgentVersion]
  BY DependenciesAssumption, Types
<1>2. ASSUME NEW a \in Agents, NEW s, EditSpec(a, s)
      PROVE  FALSE
  BY <1>1, <1>2 DEF EditSpec
<1>3. ASSUME NEW a \in Agents, DeleteAgent(a)
      PROVE  FALSE
  BY <1>1, <1>3 DEF DeleteAgent
<1>4. CASE UpdateStatusReady
  BY <1>1, <1>4 DEF UpdateStatusReady, Write, AgentVersion
<1>5. CASE UpdateStatusNotReady
  <2>1. work.key \in Agents
    BY <1>5, CallFacts DEF UpdateStatusNotReady, Call
  <2>2. NotReady(agents[work.key]).spec = agents[work.key].spec
    BY <1>1, <2>1 DEF NotReady, AgentVersion
  <2>3. agents' = agents \/ agents' = [agents EXCEPT ![work.key] = NotReady(agents[work.key])]
    BY <1>5 DEF UpdateStatusNotReady, Write
  <2> QED
    BY <1>1, <1>5, <2>1, <2>2, <2>3 DEF UpdateStatusNotReady
<1>6. CASE UNCHANGED <<agents, edits>>
  BY <1>6
<1>7. CASE Environment
  BY <1>2, <1>3, <1>6, <1>7 DEF Environment, ChangeGateway, Restart, Resync
<1>8. CASE Step
  BY <1>4, <1>5, <1>6, <1>8
  DEF Step, ResolveSubAgent, ResolveFails, ResolveAiGateway, EnsureDeployment, UpdateStatusFails
<1>9. CASE DeliverAgent
  BY <1>6, <1>9 DEF DeliverAgent
<1>10. ASSUME NEW a \in Agents, ReconcileNotFound(a) \/ ReconcileBegin(a)
       PROVE  UNCHANGED <<agents, edits>>
  BY <1>10 DEF ReconcileNotFound, ReconcileBegin
<1> QED
  BY <1>6, <1>7, <1>8, <1>9, <1>10 DEF Next, vars

LEMMA ReachesSame ==
  ASSUME TypeOK, \A a \in Agents : agents'[a].spec = agents[a].spec
  PROVE  /\ \A s \in Agents : \A env : Found(s, env)' = Found(s, env)
         /\ \A a \in Agents : \A env : Reaches(a, env)' = Reaches(a, env)
<1>1. \A a \in Agents : agents[a].spec.refs \subseteq Agents
  BY DEF TypeOK, AgentVersion, SpecOf
<1> QED
  BY <1>1 DEF Found, Reaches

LEMMA StepWired ==
  ASSUME TypeOK, StuckInv, WiredInv, [Next]_vars
  PROVE  WiredInv'
<1> SUFFICES ASSUME edits' = 0
             PROVE  CallWired' /\ NeverHalfWired'
  BY DEF WiredInv
<1> DEFINE Good(a) == wired[a] # NoEnv \/ agents[a].ready = "True" => Reaches(a, wired[a])
<1>0. /\ edits = 0 /\ SpecsAgree /\ CallWired
      /\ \A a \in Agents : Good(a)
      /\ \A a \in Agents : agents'[a].spec = agents[a].spec
  BY SpecsKept DEF WiredInv, StuckInv, NeverHalfWired
<1>1. /\ \A s \in Agents : \A env : Found(s, env)' = Found(s, env)
      /\ \A a \in Agents : \A env : Reaches(a, env)' = Reaches(a, env)
  BY <1>0, ReachesSame
<1>t. /\ agents \in [Agents -> AgentVersion] /\ wired \in [Agents -> Env]
      /\ \A a \in Agents : agents[a].spec.refs \subseteq Agents
  BY Types DEF AgentVersion, SpecOf
<1>2. ASSUME \A a \in Agents : Good(a)'
      PROVE  NeverHalfWired'
  BY <1>2 DEF NeverHalfWired
<1>3. ASSUME work' = Idle
      PROVE  CallWired'
  BY <1>3, IdleFacts DEF CallWired
<1>4. ASSUME UNCHANGED <<agents, wired>>
      PROVE  NeverHalfWired'
  BY <1>0, <1>1, <1>4 DEF NeverHalfWired
<1>5. ASSUME UNCHANGED <<agents, wired, work>>
      PROVE  CallWired' /\ NeverHalfWired'
  BY <1>0, <1>4, <1>5 DEF CallWired, Found
<1>6. ASSUME NEW a \in Agents
      PROVE  ~DeleteAgent(a) /\ \A s : ~EditSpec(a, s)
  BY <1>0 DEF EditSpec, DeleteAgent
<1>7. CASE ChangeGateway \/ Resync \/ DeliverAgent
  BY <1>5, <1>7 DEF ChangeGateway, Resync, DeliverAgent
<1>8. CASE Restart
  BY <1>3, <1>4, <1>8 DEF Restart, Finish
<1>9. ASSUME NEW a \in Agents, ReconcileNotFound(a)
      PROVE  CallWired' /\ NeverHalfWired'
  BY <1>5, <1>9 DEF ReconcileNotFound
<1>10. ASSUME NEW a \in Agents, ReconcileBegin(a)
       PROVE  CallWired' /\ NeverHalfWired'
  <2>1. /\ work'.pc = "resolve" /\ work'.key = a /\ work'.todo = cache[a].spec.refs
        /\ UNCHANGED <<agents, wired>>
    BY <1>10 DEF ReconcileBegin
  <2>2. cache[a].spec = agents[a].spec
    BY <1>0 DEF SpecsAgree, Faithful
  <2>3. CallWired'
    BY <2>1, <2>2 DEF CallWired
  <2> QED
    BY <1>4, <2>1, <2>3
<1>11. ASSUME NEW s \in Agents, ResolveSubAgent(s)
       PROVE  CallWired' /\ NeverHalfWired'
  <2>1. work \in Call /\ work.pc = "resolve" /\ UNCHANGED <<agents, wired>>
    BY <1>11, CallFacts DEF ResolveSubAgent
  <2> DEFINE env == IF Resolves(s) THEN [work.env EXCEPT ![s] = cache[s].url] ELSE work.env
  <2>2. /\ work'.pc = "resolve" /\ work'.key = work.key /\ work'.todo = work.todo \ {s}
        /\ work'.env = env /\ work'.issue = (work.issue \/ ~Resolves(s))
    BY <1>11, <2>1 DEF ResolveSubAgent, Call
  <2>3. ASSUME Resolves(s), NEW x \in Agents, x = s \/ Found(x, work.env)
        PROVE  Found(x, env)
    <3>1. cache[s].url # NoUrl /\ cache[s].url = agents[s].spec.url
      BY <1>0, <2>3 DEF Resolves, SpecsAgree, Faithful
    <3>2. env = [work.env EXCEPT ![s] = cache[s].url] /\ work.env \in Env
      BY <2>1, <2>3 DEF Call
    <3>3. env[x] = IF x = s THEN cache[s].url ELSE work.env[x]
      BY <3>2 DEF Env
    <3> QED
      BY <2>3, <3>1, <3>3 DEF Found
  <2>4. work.key \in Agents
    BY <2>1 DEF Call
  <2> HIDE DEF env
  <2>5. ASSUME ~work'.issue, NEW x \in agents[work.key].spec.refs \ work'.todo
        PROVE  Found(x, env)
    <3>1. ~work.issue /\ Resolves(s) /\ x \in Agents
      BY <1>t, <2>2, <2>4, <2>5
    <3>2. x = s \/ Found(x, work.env)
      BY <1>0, <2>1, <2>2, <2>5, <3>1 DEF CallWired
    <3> QED
      BY <2>3, <3>1, <3>2
  <2>6. CallWired'
    BY <2>1, <2>2, <2>5 DEF CallWired, Found
  <2> QED
    BY <1>4, <2>1, <2>6
<1>12. CASE ResolveFails \/ UpdateStatusFails
  BY <1>3, <1>4, <1>12 DEF ResolveFails, UpdateStatusFails, Fail, Finish
<1>13. CASE ResolveAiGateway
  <2>1. work \in Call
    BY <1>13, CallFacts DEF ResolveAiGateway
  <2>2. /\ work.pc = "resolve" /\ work.todo = {} /\ ~work.issue /\ UNCHANGED <<agents, wired>>
        /\ work'.pc \in {"notReady", "deploy"} /\ work'.key = work.key /\ work'.todo = work.todo
        /\ work'.env = work.env /\ work'.issue = work.issue
    BY <1>13, <2>1 DEF ResolveAiGateway, Call
  <2>3. CallWired'
    BY <1>0, <2>2 DEF CallWired, Found
  <2> QED
    BY <1>4, <2>2, <2>3
<1>14. CASE EnsureDeployment
  <2>1. work \in Call /\ work.key \in Agents
    BY <1>14, CallFacts DEF EnsureDeployment, Call
  <2>2. /\ work.pc = "deploy" /\ UNCHANGED agents
        /\ work'.pc = "status" /\ work'.key = work.key /\ work'.todo = work.todo
        /\ work'.env = work.env /\ work'.issue = work.issue
    BY <1>14, <2>1 DEF EnsureDeployment, Call
  <2>3. wired' = [wired EXCEPT ![work.key] = work.env]
    BY <1>0, <1>14, <2>1 DEF EnsureDeployment, SpecsAgree, Faithful
  <2>4. wired'[work.key] = work.env /\ \A x \in Agents : x # work.key => wired'[x] = wired[x]
    BY <1>t, <2>1, <2>3
  <2>5. work.todo = {} /\ ~work.issue
        /\ \A s \in agents[work.key].spec.refs : Found(s, work.env)
    BY <1>0, <2>2 DEF CallWired
  <2>6. CallWired'
    BY <2>2, <2>4, <2>5 DEF CallWired, Found
  <2>7. Reaches(work.key, work.env)
    BY <2>5 DEF Reaches, Found
  <2>8. ASSUME NEW a \in Agents
        PROVE  Good(a)'
    BY <1>0, <1>1, <2>2, <2>4, <2>7
  <2> QED
    BY <1>2, <2>6, <2>8
<1>15. CASE UpdateStatusReady
  <2>1. work \in Call /\ work.key \in Agents
    BY <1>15, CallFacts DEF UpdateStatusReady, Call
  <2>2. /\ work.pc = "status" /\ work' = Idle /\ UNCHANGED wired
        /\ \A x \in Agents : x # work.key => agents'[x] = agents[x]
    BY <1>15, <1>t, <2>1 DEF UpdateStatusReady, Finish, Write
  <2>3. Reaches(work.key, wired[work.key])
    BY <1>0, <2>2 DEF CallWired, Reaches, Found
  <2>4. ASSUME NEW a \in Agents
        PROVE  Good(a)'
    BY <1>0, <1>1, <2>2, <2>3
  <2> QED
    BY <1>2, <1>3, <2>2, <2>4
<1>16. CASE UpdateStatusNotReady
  <2>1. work \in Call /\ work.key \in Agents
    BY <1>16, CallFacts DEF UpdateStatusNotReady, Call
  <2>2. NotReady(agents[work.key]).ready = "False"
    BY <1>t, <2>1 DEF NotReady, AgentVersion
  <2>3. /\ work' = Idle /\ UNCHANGED wired
        /\ agents' = agents \/ agents' = [agents EXCEPT ![work.key] = NotReady(agents[work.key])]
    BY <1>16 DEF UpdateStatusNotReady, Fail, Finish, Write
  <2>4. \A x \in Agents : agents'[x].ready = "True" => agents[x].ready = "True"
    BY <1>t, <2>1, <2>2, <2>3
  <2>5. ASSUME NEW a \in Agents
        PROVE  Good(a)'
    BY <1>0, <1>1, <2>3, <2>4
  <2> QED
    BY <1>2, <1>3, <2>3, <2>5
<1>17. CASE UNCHANGED vars
  BY <1>5, <1>17 DEF vars
<1> QED
  BY <1>6, <1>7, <1>8, <1>9, <1>10, <1>11, <1>12, <1>13, <1>14, <1>15, <1>16, <1>17
  DEF Next, Environment, Step

(* While nobody changes a spec, in any graph and whatever restarts and     *)
(* outages happen, a Deployment has the URLs of all sub-agents of its      *)
(* Agent, and an Agent that is Ready has such a Deployment.                *)
THEOREM WiredToAll == SafetySpec => []NeverHalfWired
<1>1. Init => TypeOK /\ StuckInv /\ WiredInv
  BY InitType, InitStuck, InitWired
<1>2. TypeOK /\ StuckInv /\ WiredInv /\ [Next]_vars => (TypeOK /\ StuckInv /\ WiredInv)'
  BY StepType, StepStuck, StepWired
<1>3. WiredInv => NeverHalfWired
  BY DEF WiredInv, NeverHalfWired
<1> QED
  BY <1>1, <1>2, <1>3, PTL DEF SafetySpec
=============================================================================
