------------------------- MODULE ToolServerProofs -------------------------
(* Theorems about ToolServer, for any gateways, specs and bounds.          *)
EXTENDS ToolServer, SequenceTheorems, TLAPS

GatewayState == GatewayUrls \cup {NoUrl, None}
Event == [key : Gateways, url : GatewayState]
Call == [pc : {"gateway", "ready", "notReady"} \cup Children, server : Version,
         latest : BOOLEAN, ref : Gateways \cup {None}, base : GatewayUrls \cup {NoUrl}]

LEMMA FreshTyped == \A spec \in Specs \cup {None} : Fresh(spec) \in Version
  BY DEF Fresh, Version

LEMMA ReadyTyped ==
  ASSUME NEW v \in Version, v.spec # None, NEW ref \in Gateways \cup {None},
         NEW base \in GatewayUrls \cup {NoUrl}
  PROVE  Ready(v, ref, base) \in Version
<1>1. v.spec.url \in ServerUrls
  BY ToolServerAssumption DEF Version
<1>2. QED
  BY <1>1 DEF Ready, Version

LEMMA NotReadyTyped == \A v \in Version : NotReady(v) \in Version
  BY DEF NotReady, Version

LEMMA EditedTyped ==
  ASSUME NEW v \in Version, NEW spec \in Specs \cup {None}
  PROVE  [v EXCEPT !.spec = spec] \in Version
  BY DEF Version

(* What a write of the ToolServer does to the stored version and the inbox.*)
LEMMA WriteTyped ==
  ASSUME server \in Version, serverInbox \in Seq(Version), NEW v \in Version, Write(v)
  PROVE  server' \in Version /\ serverInbox' \in Seq(Version)
  BY DEF Write

(* The URL an Agent gets. *)
LEMMA PreferredTyped == \A v \in Version : Preferred(v) \in Urls \cup {NoUrl}
  BY DEF Preferred, Version, Urls

(* A gateway that was found is there, and its URL may be used. *)
LEMMA CandidateTyped ==
  ASSUME NEW v \in Version, v.spec # None, NEW urls \in [Gateways -> GatewayState],
         NEW g \in Candidates(v.spec, urls)
  PROVE  g \in Gateways /\ g # None /\ urls[g] \in GatewayUrls \cup {NoUrl}
<1>1. v.spec.gateway \in Gateways \cup {None}
  BY ToolServerAssumption DEF Version
<1>2. QED
  BY <1>1, ToolServerAssumption DEF Candidates, GatewayState

(* The types, part by part. *)
ServerTyped == server \in Version /\ serverCache \in Version /\ serverInbox \in Seq(Version)
GatewayTyped ==
  /\ gateway \in [Gateways -> GatewayState] /\ gatewayCache \in [Gateways -> GatewayState]
  /\ gatewayInbox \in Seq(Event)
WorkTyped == work = Idle \/ (work \in Call /\ work.server.spec # None)
AgentTyped == agentWork \in Urls \cup {NoUrl} /\ wired \in Urls \cup {NoUrl} /\ agentQueued \in BOOLEAN
RestTyped ==
  /\ child \in [Children -> Specs \cup {None}] /\ queued \in BOOLEAN
  /\ edits \in 0..MaxEdits /\ faults \in 0..MaxFaults /\ crashes \in 0..MaxFaults

LEMMA Parts == TypeOK <=> ServerTyped /\ GatewayTyped /\ WorkTyped /\ AgentTyped /\ RestTyped
  BY DEF TypeOK, ServerTyped, GatewayTyped, WorkTyped, AgentTyped, RestTyped, Call, Event, GatewayState

LEMMA TypeStep == TypeOK /\ [Next]_vars => TypeOK'
<1> SUFFICES ASSUME TypeOK, [Next]_vars
             PROVE  ServerTyped' /\ GatewayTyped' /\ WorkTyped' /\ AgentTyped' /\ RestTyped'
  BY DEF TypeOK, ServerTyped, GatewayTyped, WorkTyped, AgentTyped, RestTyped, Call, Event, GatewayState
<1>t. ServerTyped /\ GatewayTyped /\ WorkTyped /\ AgentTyped /\ RestTyped
  BY Parts
<1> USE ToolServerAssumption
<1> USE DEF vars, serverVars, gatewayVars, toolServerVars, agentVars, counters
<1>1. CASE \E spec \in Specs \cup {None} : EditServer(spec)
  <2> PICK spec \in Specs \cup {None} : EditServer(spec)
    BY <1>1
  <2> DEFINE v == IF server.spec = None \/ spec = None THEN Fresh(spec)
                  ELSE [server EXCEPT !.spec = spec]
  <2>1. v \in Version
    BY <1>t, FreshTyped, EditedTyped DEF ServerTyped
  <2>2. Write(v) /\ UNCHANGED <<serverCache, gatewayVars, child, queued, agentVars>>
    BY DEF EditServer
  <2> HIDE DEF v
  <2>3. ServerTyped'
    BY <1>t, <2>1, <2>2, WriteTyped DEF ServerTyped
  <2>4. WorkTyped'
    <3>1. work' \in {work, [work EXCEPT !.latest = FALSE]} /\ (work = Idle => work' = Idle)
      BY DEF EditServer, Idle
    <3>2. ASSUME work \in Call, work.server.spec # None
          PROVE  work' \in Call /\ work'.server = work.server
      BY <3>1, <3>2 DEF Call
    <3>3. QED
      BY <1>t, <3>1, <3>2 DEF WorkTyped
  <2>5. RestTyped'
    BY <1>t, <2>2 DEF EditServer, Edit, RestTyped
  <2>6. QED
    BY <1>t, <2>2, <2>3, <2>4, <2>5 DEF GatewayTyped, AgentTyped
<1>2. CASE \E g \in Gateways, url \in GatewayUrls \cup {NoUrl, None} : EditGateway(g, url)
  <2> PICK g \in Gateways, url \in GatewayUrls \cup {NoUrl, None} : EditGateway(g, url)
    BY <1>2
  <2>1. [key |-> g, url |-> url] \in Event
    BY DEF Event, GatewayState
  <2>2. GatewayTyped'
    BY <1>t, <2>1 DEF EditGateway, GatewayTyped, GatewayState
  <2>3. RestTyped'
    BY <1>t DEF EditGateway, Edit, RestTyped
  <2>4. QED
    BY <1>t, <2>2, <2>3 DEF EditGateway, ServerTyped, WorkTyped, AgentTyped
<1>3. CASE (\E k \in Children : DeleteChild(k)) \/ CollectGarbage
  <2>1. child' \in [Children -> Specs \cup {None}]
    BY <1>t, <1>3 DEF DeleteChild, CollectGarbage, RestTyped
  <2>2. queued' \in BOOLEAN /\ edits' \in 0..MaxEdits /\ UNCHANGED <<faults, crashes>>
    <3>1. CASE \E k \in Children : DeleteChild(k)
      BY <1>t, <3>1 DEF DeleteChild, Edit, RestTyped
    <3>2. CASE CollectGarbage
      BY <1>t, <3>2 DEF CollectGarbage, RestTyped
    <3>3. QED
      BY <1>3, <3>1, <3>2
  <2>3. UNCHANGED <<serverVars, gatewayVars, work, agentVars>>
    BY <1>3 DEF DeleteChild, CollectGarbage
  <2>4. QED
    BY <1>t, <2>1, <2>2, <2>3 DEF ServerTyped, GatewayTyped, WorkTyped, AgentTyped, RestTyped
<1>4. CASE \E k \in Children : EnsureChildFails(k)
  <2> PICK k \in Children : EnsureChildFails(k)
    BY <1>4
  <2>1. WorkTyped'
    <3>1. work \in Call /\ work.server.spec # None
      BY <1>t DEF EnsureChildFails, WorkTyped, Idle, Children
    <3>2. QED
      BY <3>1 DEF EnsureChildFails, Goto, WorkTyped, Call
  <2>2. RestTyped'
    BY <1>t DEF EnsureChildFails, Fault, RestTyped
  <2>3. QED
    BY <1>t, <2>1, <2>2 DEF EnsureChildFails, ServerTyped, GatewayTyped, AgentTyped
<1>5. CASE Restart
  <2>1. RestTyped'
    BY <1>t, <1>5 DEF Restart, Crash, RestTyped
  <2>2. QED
    BY <1>t, <1>5, <2>1 DEF Restart, ServerTyped, GatewayTyped, WorkTyped, AgentTyped
<1>6. CASE Resync \/ UNCHANGED vars
  BY <1>t, <1>6 DEF Resync, ServerTyped, GatewayTyped, WorkTyped, AgentTyped, RestTyped
<1>7. CASE DeliverServer
  <2>1. Head(serverInbox) \in Version /\ Tail(serverInbox) \in Seq(Version)
    BY <1>t, <1>7, HeadTailProperties DEF DeliverServer, ServerTyped
  <2>2. QED
    BY <1>t, <1>7, <2>1 DEF DeliverServer, ServerTyped, GatewayTyped, WorkTyped, AgentTyped, RestTyped
<1>8. CASE DeliverGateway
  <2>1. Head(gatewayInbox) \in Event /\ Tail(gatewayInbox) \in Seq(Event)
    BY <1>t, <1>8, HeadTailProperties DEF DeliverGateway, GatewayTyped
  <2>2. GatewayTyped'
    BY <1>t, <1>8, <2>1 DEF DeliverGateway, GatewayTyped, Event
  <2>3. References(Head(gatewayInbox).key) \in BOOLEAN
    BY DEF References
  <2>4. RestTyped'
    BY <1>t, <1>8, <2>3 DEF DeliverGateway, RestTyped
  <2>5. QED
    BY <1>t, <1>8, <2>2, <2>4 DEF DeliverGateway, ServerTyped, WorkTyped, AgentTyped
<1>9. CASE Begin
  <2>1. WorkTyped'
    BY <1>t, <1>9 DEF Begin, WorkTyped, ServerTyped, Call
  <2>2. QED
    BY <1>t, <1>9, <2>1 DEF Begin, ServerTyped, GatewayTyped, AgentTyped, RestTyped
<1>10. CASE ResolveToolGateway
  <2>1. work \in Call /\ work.server.spec # None /\ work.server \in Version
    BY <1>t, <1>10 DEF ResolveToolGateway, WorkTyped, Idle, Call
  <2>2. PICK g : /\ Attach(g)
                 /\ g = None \/ g \in Candidates(work.server.spec, gatewayCache)
    BY <1>10 DEF ResolveToolGateway
  <2> DEFINE base == IF g = None THEN NoUrl ELSE gatewayCache[g]
  <2>3. g \in Gateways \cup {None} /\ base \in GatewayUrls \cup {NoUrl}
    BY <1>t, <2>1, <2>2, CandidateTyped DEF GatewayTyped
  <2>4. work' = [work EXCEPT !.pc = "Deployment", !.ref = g, !.base = base]
    BY <2>2 DEF Attach
  <2> HIDE DEF base
  <2>5. WorkTyped'
    BY <2>1, <2>3, <2>4 DEF WorkTyped, Call, Children
  <2>6. QED
    BY <1>t, <2>2, <2>5 DEF Attach, ServerTyped, GatewayTyped, AgentTyped, RestTyped
<1>11. CASE ResolveToolGatewayFails \/ UpdateStatusFails
  <2>1. counters' = counters \/ Fault
    BY <1>11 DEF ResolveToolGatewayFails, UpdateStatusFails
  <2>2. work' = Idle /\ queued' = TRUE /\ UNCHANGED <<serverVars, gatewayVars, child, agentVars>>
    BY <1>11 DEF ResolveToolGatewayFails, UpdateStatusFails
  <2>3. RestTyped'
    BY <1>t, <2>1, <2>2, ToolServerAssumption DEF RestTyped, Fault, counters
  <2>4. QED
    BY <1>t, <2>2, <2>3 DEF ServerTyped, GatewayTyped, WorkTyped, AgentTyped
<1>12. CASE \E k \in Children : EnsureChild(k)
  <2> PICK k \in Children : EnsureChild(k)
    BY <1>12
  <2>1. work \in Call /\ work.server.spec # None
    BY <1>t DEF EnsureChild, WorkTyped, Idle, Children
  <2>2. WorkTyped'
    BY <2>1 DEF EnsureChild, Goto, WorkTyped, Call, Children
  <2>3. work.server.spec \in Specs
    BY <2>1 DEF Call, Version
  <2>4. RestTyped'
    BY <1>t, <2>3 DEF EnsureChild, RestTyped
  <2>5. QED
    BY <1>t, <2>2, <2>4 DEF EnsureChild, ServerTyped, GatewayTyped, AgentTyped
<1>13. CASE UpdateStatusReady
  <2> DEFINE v == Ready(work.server, work.ref, work.base)
  <2>1. work \in Call /\ work.server.spec # None
    BY <1>t, <1>13 DEF UpdateStatusReady, WorkTyped, Idle
  <2>2. v \in Version
    BY <2>1, ReadyTyped DEF Call
  <2>3. Write(v) /\ work' = Idle /\ UNCHANGED <<serverCache, gatewayVars, child, queued, agentVars, counters>>
    BY <1>13 DEF UpdateStatusReady
  <2> HIDE DEF v
  <2>4. QED
    BY <1>t, <2>2, <2>3, WriteTyped DEF ServerTyped, GatewayTyped, WorkTyped, AgentTyped, RestTyped
<1>14. CASE UpdateStatusNotReady
  <2> DEFINE v == NotReady(work.server)
  <2>1. work \in Call
    BY <1>t, <1>14 DEF UpdateStatusNotReady, WorkTyped, Idle
  <2>2. v \in Version
    BY <2>1, NotReadyTyped DEF Call
  <2>3. /\ Write(v) \/ UNCHANGED <<server, serverInbox>>
        /\ work' = Idle /\ queued' = TRUE /\ UNCHANGED <<serverCache, gatewayVars, child, agentVars, counters>>
    BY <1>14 DEF UpdateStatusNotReady
  <2> HIDE DEF v
  <2>4. QED
    BY <1>t, <2>2, <2>3, WriteTyped DEF ServerTyped, GatewayTyped, WorkTyped, AgentTyped, RestTyped
<1>15. CASE AgentReconcile
  <2>1. Preferred(serverCache) \in Urls \cup {NoUrl}
    BY <1>t, PreferredTyped DEF ServerTyped
  <2>2. AgentTyped'
    BY <1>t, <1>15, <2>1 DEF AgentReconcile, ResolveTool, WireTool, AgentTyped
  <2>3. QED
    BY <1>t, <1>15, <2>2 DEF AgentReconcile, ResolveTool, WireTool, ServerTyped, GatewayTyped, WorkTyped,
                             RestTyped
<1>16. QED
  BY <1>1, <1>2, <1>3, <1>4, <1>5, <1>6, <1>7, <1>8, <1>9, <1>10, <1>11, <1>12, <1>13, <1>14, <1>15
  DEF Next, Environment, Failures, Reconcile

(* Every variable keeps its type, for any gateways, specs and bounds.      *)
THEOREM TypeCorrect == SafetySpec => []TypeOK
<1>1. Init => TypeOK
  <2> SUFFICES ASSUME Init PROVE TypeOK
    OBVIOUS
  <2>1. server \in Version
    BY FreshTyped DEF Init
  <2>2. QED
    BY <2>1, ToolServerAssumption DEF Init, TypeOK
<1>2. QED
  BY <1>1, TypeStep, PTL DEF SafetySpec

-----------------------------------------------------------------------------
(* NeverBypassed.  While nothing is changed and no write fails, all caches *)
(* agree on the gateways and on the spec, a call that has resolved its     *)
(* gateway has a URL of it, and a version with the direct URL has the one  *)
(* through the gateway as well.                                            *)

(* There are gateways to attach to, and they have their URLs. *)
GatewaysReady ==
  /\ server.spec # None
  /\ Candidates(server.spec, gateway) # {}
  /\ \A g \in Candidates(server.spec, gateway) : gateway[g] # NoUrl

(* While nothing is changed, everybody sees the same gateways and spec.    *)
Agree ==
  /\ gatewayCache = gateway /\ gatewayInbox = <<>>
  /\ serverCache.spec = server.spec
  /\ \A i \in 1..Len(serverInbox) : serverInbox[i].spec = server.spec
  /\ work # Idle => work.server.spec = server.spec /\ work.pc # "notReady"

(* A version that publishes both URLs or none. *)
Covered(v) == v.url = NoUrl \/ v.gatewayUrl # NoUrl

VersionsCovered ==
  /\ Covered(server) /\ Covered(serverCache)
  /\ \A i \in 1..Len(serverInbox) : Covered(serverInbox[i])

WorkCovered ==
  work # Idle => Covered(work.server) /\ (work.pc # "gateway" => work.base # NoUrl)

AgentCovered == agentWork \in GatewayUrls \cup {NoUrl} /\ wired \in GatewayUrls \cup {NoUrl}

BypassInv ==
  edits = 0 /\ faults = 0 =>
    Agree /\ (GatewaysReady => VersionsCovered /\ WorkCovered /\ AgentCovered)

(* A step without edits and failures is one of the controllers, and leaves *)
(* the spec and the gateways alone.                                        *)
Quiet ==
  \/ CollectGarbage \/ Resync \/ UNCHANGED vars \/ Restart \/ DeliverServer \/ DeliverGateway
  \/ Begin \/ ResolveToolGateway \/ ResolveToolGatewayFails \/ (\E k \in Children : EnsureChild(k))
  \/ UpdateStatusReady \/ UpdateStatusNotReady \/ UpdateStatusFails \/ AgentReconcile

LEMMA QuietStep ==
  ASSUME TypeOK, [Next]_vars, edits' = 0, faults' = 0
  PROVE  Quiet /\ edits = 0 /\ faults = 0
<1>1. edits \in Nat /\ faults \in Nat
  BY ToolServerAssumption DEF TypeOK
<1>2. ASSUME Edit PROVE FALSE
  BY <1>1, <1>2 DEF Edit
<1>3. ASSUME Fault PROVE FALSE
  BY <1>1, <1>3 DEF Fault
<1>4. ~(\E spec \in Specs \cup {None} : EditServer(spec))
  BY <1>2 DEF EditServer
<1>5. ~(\E g \in Gateways, url \in GatewayUrls \cup {NoUrl, None} : EditGateway(g, url))
  BY <1>2 DEF EditGateway
<1>6. ~(\E k \in Children : DeleteChild(k))
  BY <1>2 DEF DeleteChild
<1>7. ~(\E k \in Children : EnsureChildFails(k))
  BY <1>3 DEF EnsureChildFails
<1>8. Quiet
  BY <1>4, <1>5, <1>6, <1>7 DEF Quiet, Next, Environment, Failures, Reconcile
<1>9. QED
  BY <1>3, <1>8 DEF Quiet, CollectGarbage, Restart, Crash, Resync, DeliverServer, vars, counters,
     DeliverGateway, Begin, ResolveToolGateway, Attach, ResolveToolGatewayFails, EnsureChild,
     UpdateStatusReady, UpdateStatusNotReady, UpdateStatusFails, AgentReconcile, ResolveTool, WireTool

(* A write changes the stored version and may add it to the inbox. *)
LEMMA WriteAdds ==
  ASSUME ServerTyped, NEW v \in Version, Write(v)
  PROVE  /\ server' = v
         /\ \A i \in 1..Len(serverInbox') :
              serverInbox'[i] = v \/ (i \in 1..Len(serverInbox) /\ serverInbox'[i] = serverInbox[i])
<1>1. server' = v
  BY DEF Write
<1>2. CASE serverInbox' = serverInbox
  BY <1>1, <1>2
<1>3. CASE serverInbox' = Append(serverInbox, v)
  BY <1>1, <1>3 DEF ServerTyped
<1>4. QED
  BY <1>2, <1>3 DEF Write

(* A delivery shifts the inbox by one. *)
LEMMA DeliveryShifts ==
  ASSUME ServerTyped, DeliverServer
  PROVE  /\ serverCache' = serverInbox[1] /\ 1 \in 1..Len(serverInbox)
         /\ \A i \in 1..Len(serverInbox') :
              i + 1 \in 1..Len(serverInbox) /\ serverInbox'[i] = serverInbox[i + 1]
  BY HeadTailProperties DEF DeliverServer, ServerTyped

LEMMA ReadyCovered ==
  ASSUME NEW v \in Version, NEW ref, NEW base, base # NoUrl
  PROVE  Covered(Ready(v, ref, base)) /\ Ready(v, ref, base).spec = v.spec
  BY DEF Covered, Ready, Version

LEMMA AgreeStep ==
  ASSUME TypeOK, Agree, Quiet
  PROVE  Agree' /\ server'.spec = server.spec /\ gateway' = gateway
<1> USE DEF vars, serverVars, gatewayVars, toolServerVars, agentVars, counters
<1>t. ServerTyped /\ WorkTyped
  BY Parts
<1>1. CASE CollectGarbage \/ Resync \/ UNCHANGED vars
  BY <1>1 DEF CollectGarbage, Resync, Agree
<1>2. CASE Restart
  BY <1>2 DEF Restart, Agree
<1>3. CASE DeliverServer
  BY <1>t, <1>3, DeliveryShifts DEF DeliverServer, Agree
<1>4. CASE DeliverGateway
  BY <1>4 DEF DeliverGateway, Agree
<1>5. CASE Begin
  BY <1>5 DEF Begin, Agree
<1>6. CASE ResolveToolGateway
  <2>1. work \in Call
    BY <1>t, <1>6 DEF ResolveToolGateway, WorkTyped, Idle
  <2>2. PICK g : Attach(g)
    BY <1>6 DEF ResolveToolGateway
  <2>3. work'.server = work.server /\ work'.pc = "Deployment" /\ work # Idle
    BY <1>6, <2>1, <2>2 DEF ResolveToolGateway, Attach, Call, Idle
  <2>4. QED
    BY <2>2, <2>3 DEF Attach, Agree
<1>7. CASE ResolveToolGatewayFails \/ UpdateStatusFails
  BY <1>7 DEF ResolveToolGatewayFails, UpdateStatusFails, Agree
<1>8. CASE \E k \in Children : EnsureChild(k)
  <2> PICK k \in Children : EnsureChild(k)
    BY <1>8
  <2>1. work \in Call /\ work # Idle
    BY <1>t DEF EnsureChild, WorkTyped, Idle, Children
  <2>2. work'.server = work.server /\ work'.pc # "notReady"
    BY <2>1 DEF EnsureChild, Goto, Call
  <2>3. QED
    BY <2>1, <2>2 DEF EnsureChild, Agree
<1>9. CASE UpdateStatusReady
  <2> DEFINE v == Ready(work.server, work.ref, work.base)
  <2>1. work \in Call /\ work # Idle /\ work.server.spec # None
    BY <1>t, <1>9 DEF UpdateStatusReady, WorkTyped, Idle
  <2>2. v \in Version
    BY <2>1, ReadyTyped DEF Call
  <2>3. v.spec = server.spec
    BY <2>1 DEF Ready, Agree, Call, Version
  <2>4. Write(v)
    BY <1>9 DEF UpdateStatusReady
  <2> HIDE DEF v
  <2>5. server'.spec = server.spec /\ \A i \in 1..Len(serverInbox') : serverInbox'[i].spec = server.spec
    BY <1>t, <2>2, <2>3, <2>4, WriteAdds DEF Agree
  <2>6. QED
    BY <1>9, <2>5 DEF UpdateStatusReady, Agree
<1>10. CASE UpdateStatusNotReady
  BY <1>10 DEF UpdateStatusNotReady, Agree, Idle
<1>11. CASE AgentReconcile
  BY <1>11 DEF AgentReconcile, ResolveTool, WireTool, Agree
<1>12. QED
  BY <1>1, <1>2, <1>3, <1>4, <1>5, <1>6, <1>7, <1>8, <1>9, <1>10, <1>11 DEF Quiet

LEMMA CoveredStep ==
  ASSUME TypeOK, Agree, GatewaysReady, VersionsCovered, WorkCovered, AgentCovered, Quiet
  PROVE  VersionsCovered' /\ WorkCovered' /\ AgentCovered'
<1> USE DEF vars, serverVars, gatewayVars, toolServerVars, agentVars, counters
<1>t. ServerTyped /\ GatewayTyped /\ WorkTyped
  BY Parts
<1>1. CASE CollectGarbage \/ Resync \/ UNCHANGED vars \/ DeliverGateway
  BY <1>1 DEF CollectGarbage, Resync, DeliverGateway, VersionsCovered, WorkCovered, AgentCovered
<1>2. CASE Restart
  BY <1>2 DEF Restart, VersionsCovered, WorkCovered, AgentCovered
<1>3. CASE DeliverServer
  <2>1. VersionsCovered'
    BY <1>t, <1>3, DeliveryShifts DEF DeliverServer, VersionsCovered
  <2>2. QED
    BY <1>3, <2>1 DEF DeliverServer, WorkCovered, AgentCovered
<1>5. CASE Begin
  BY <1>5 DEF Begin, VersionsCovered, WorkCovered, AgentCovered
<1>6. CASE ResolveToolGateway
  <2>1. work \in Call /\ work # Idle
    BY <1>t, <1>6 DEF ResolveToolGateway, WorkTyped, Idle
  <2>2. work.server.spec = server.spec /\ gatewayCache = gateway
    BY <2>1 DEF Agree
  <2>3. PICK g \in Candidates(server.spec, gateway) : Attach(g)
    BY <1>6, <2>2 DEF ResolveToolGateway, GatewaysReady
  <2>4. g # None /\ gateway[g] # NoUrl
    BY <1>t, <2>3, CandidateTyped DEF GatewaysReady, ServerTyped, GatewayTyped
  <2>5. work'.server = work.server /\ work'.base # NoUrl
    BY <2>1, <2>2, <2>3, <2>4 DEF Attach, Call
  <2>6. QED
    BY <2>1, <2>3, <2>5 DEF Attach, VersionsCovered, WorkCovered, AgentCovered
<1>7. CASE ResolveToolGatewayFails \/ UpdateStatusFails
  BY <1>7 DEF ResolveToolGatewayFails, UpdateStatusFails, VersionsCovered, WorkCovered, AgentCovered
<1>8. CASE \E k \in Children : EnsureChild(k)
  <2> PICK k \in Children : EnsureChild(k)
    BY <1>8
  <2>1. work \in Call /\ work # Idle /\ work.pc # "gateway"
    BY <1>t DEF EnsureChild, WorkTyped, Idle, Children
  <2>2. work'.server = work.server /\ work'.base = work.base
    BY <2>1 DEF EnsureChild, Goto, Call
  <2>3. QED
    BY <2>1, <2>2 DEF EnsureChild, VersionsCovered, WorkCovered, AgentCovered
<1>9. CASE UpdateStatusReady
  <2> DEFINE v == Ready(work.server, work.ref, work.base)
  <2>1. work \in Call /\ work # Idle /\ work.server.spec # None /\ work.base # NoUrl
    BY <1>t, <1>9 DEF UpdateStatusReady, WorkTyped, Idle, WorkCovered
  <2>2. v \in Version /\ Covered(v)
    BY <2>1, ReadyTyped, ReadyCovered DEF Call
  <2>3. Write(v) /\ work' = Idle /\ UNCHANGED <<serverCache, agentVars>>
    BY <1>9 DEF UpdateStatusReady
  <2> HIDE DEF v
  <2>4. QED
    BY <1>t, <2>2, <2>3, WriteAdds DEF VersionsCovered, WorkCovered, AgentCovered
<1>10. CASE UpdateStatusNotReady
  BY <1>10 DEF UpdateStatusNotReady, Agree, Idle
<1>11. CASE AgentReconcile
  <2>1. Preferred(serverCache) \in GatewayUrls \cup {NoUrl}
    BY <1>t DEF Preferred, VersionsCovered, Covered, ServerTyped, Version
  <2>2. AgentCovered'
    BY <1>11, <2>1 DEF AgentReconcile, ResolveTool, WireTool, AgentCovered
  <2>3. QED
    BY <1>11, <2>2 DEF AgentReconcile, ResolveTool, WireTool, VersionsCovered, WorkCovered
<1>12. QED
  BY <1>1, <1>2, <1>3, <1>5, <1>6, <1>7, <1>8, <1>9, <1>10, <1>11 DEF Quiet

LEMMA BypassStep == TypeOK /\ BypassInv /\ [Next]_vars => BypassInv'
<1> SUFFICES ASSUME TypeOK, BypassInv, [Next]_vars, edits' = 0, faults' = 0
             PROVE  Agree' /\ (GatewaysReady' => VersionsCovered' /\ WorkCovered' /\ AgentCovered')
  BY DEF BypassInv
<1>1. Quiet /\ edits = 0 /\ faults = 0
  BY QuietStep
<1>2. Agree /\ (GatewaysReady => VersionsCovered /\ WorkCovered /\ AgentCovered)
  BY <1>1 DEF BypassInv
<1>3. Agree' /\ server'.spec = server.spec /\ gateway' = gateway
  BY <1>1, <1>2, AgreeStep
<1>4. GatewaysReady' => GatewaysReady
  BY <1>3 DEF GatewaysReady, Candidates
<1>5. QED
  BY <1>1, <1>2, <1>3, <1>4, CoveredStep

(* With gateways ready from the start and no failing write, no Agent is    *)
(* ever given the direct URL, in any interleaving and with any crashes.    *)
THEOREM GatewayRespected == SafetySpec => []NeverBypassed
<1>1. Init => BypassInv
  BY DEF Init, BypassInv, Agree, VersionsCovered, WorkCovered, AgentCovered, Covered, Fresh
<1>2. BypassInv => NeverBypassed
  BY DEF BypassInv, NeverBypassed, GatewaysReady, AgentCovered
<1>3. QED
  BY <1>1, <1>2, BypassStep, TypeCorrect, PTL DEF SafetySpec

-----------------------------------------------------------------------------
(* RestsOnlyRight.  A call that has read the latest ToolServer sees its    *)
(* own gateways in the cache; an event about one of them queues the        *)
(* ToolServer, so a call during which nothing queued it ends with a status *)
(* that fits the cache.  If this status is new it is an event itself, and  *)
(* if it is not, the controller rests on it until one of its gateways, its *)
(* objects or its spec changes.                                            *)

(* The caches show the API server once their inboxes are delivered.        *)
GatewaysFollow ==
  /\ \A g \in Gateways :
       gatewayCache[g] = gateway[g] \/ \E i \in 1..Len(gatewayInbox) : gatewayInbox[i].key = g
  /\ \A i \in 1..Len(gatewayInbox) :
       \/ gatewayInbox[i].url = gateway[gatewayInbox[i].key]
       \/ \E j \in (i + 1)..Len(gatewayInbox) : gatewayInbox[j].key = gatewayInbox[i].key

ServerFollows ==
  IF serverInbox = <<>> THEN serverCache = server ELSE serverInbox[Len(serverInbox)] = server

AttachedTo(spec, urls, ref, base) ==
  IF Candidates(spec, urls) = {} THEN ref = None /\ base = NoUrl
  ELSE ref \in Candidates(spec, urls) /\ base = urls[ref]

LatestIsCached ==
  work # Idle /\ work.latest => serverInbox = <<>> /\ serverCache = server /\ work.server = server

CallRight ==
  work # Idle /\ work.latest /\ ~queued =>
    /\ work.pc \in {"Deployment", "Service", "ready"} =>
         AttachedTo(work.server.spec, gatewayCache, work.ref, work.base)
    /\ work.pc \in {"Service", "ready"} => child["Deployment"] = work.server.spec
    /\ work.pc = "ready" => child["Service"] = work.server.spec

RestRight ==
  ~queued /\ work = Idle /\ serverInbox = <<>> /\ server.spec # None =>
    /\ server.ready = "True" /\ server.url = server.spec.url
    /\ AttachedTo(server.spec, gatewayCache, server.gatewayRef, server.gatewayUrl)
    /\ \A k \in Children : child[k] = server.spec

RestInv == GatewaysFollow /\ ServerFollows /\ LatestIsCached /\ CallRight /\ RestRight

LEMMA InitRest ==
  ASSUME Init
  PROVE  RestInv
<1>1. Len(gatewayInbox) = 0 /\ serverInbox = <<>> /\ work = Idle /\ queued = (server.spec # None)
  BY DEF Init
<1>2. GatewaysFollow /\ ServerFollows
  BY <1>1 DEF Init, GatewaysFollow, ServerFollows
<1> QED
  BY <1>1, <1>2 DEF RestInv, LatestIsCached, CallRight, RestRight

(* An edit is the last word about its gateway. *)
LEMMA EditFollows ==
  ASSUME GatewayTyped, GatewaysFollow, NEW g \in Gateways, NEW u, EditGateway(g, u)
  PROVE  GatewaysFollow'
<1> DEFINE e == [key |-> g, url |-> u]
           n == Len(gatewayInbox)
<1>1. /\ gatewayInbox' = Append(gatewayInbox, e) /\ gatewayCache' = gatewayCache
      /\ gateway' = [gateway EXCEPT ![g] = u]
  BY DEF EditGateway
<1>2. n \in Nat /\ Len(gatewayInbox') = n + 1 /\ gatewayInbox'[n + 1] = e
  BY <1>1 DEF GatewayTyped
<1>3. \A i \in 1..n : gatewayInbox'[i] = gatewayInbox[i]
  BY <1>1 DEF GatewayTyped
<1>4. gateway'[g] = u /\ \A b \in Gateways : b # g => gateway'[b] = gateway[b]
  BY <1>1 DEF GatewayTyped
<1>5. \A i \in 1..n : gatewayInbox[i].key \in Gateways
  <2>1. gatewayInbox \in Seq(Event)
    BY DEF GatewayTyped
  <2>2. \A i \in 1..n : gatewayInbox[i] \in Event
    BY <2>1, ElementOfSeq
  <2> QED
    BY <2>2 DEF Event
<1>6. e.key = g /\ e.url = u
  OBVIOUS
<1> HIDE DEF e, n
<1>7. ASSUME NEW b \in Gateways
      PROVE  gatewayCache'[b] = gateway'[b] \/ \E i \in 1..(n + 1) : gatewayInbox'[i].key = b
  <2>1. CASE b = g
    BY <1>2, <1>6, <2>1
  <2>2. CASE b # g
    <3>1. gatewayCache[b] = gateway[b] \/ \E i \in 1..n : gatewayInbox[i].key = b
      BY DEF GatewaysFollow, n
    <3> QED
      BY <1>1, <1>2, <1>3, <1>4, <2>2, <3>1
  <2> QED
    BY <2>1, <2>2
<1>8. ASSUME NEW i \in 1..(n + 1)
      PROVE  \/ gatewayInbox'[i].url = gateway'[gatewayInbox'[i].key]
             \/ \E j \in (i + 1)..(n + 1) : gatewayInbox'[j].key = gatewayInbox'[i].key
  <2>1. CASE i = n + 1
    BY <1>2, <1>4, <1>6, <2>1
  <2>2. CASE i # n + 1
    <3>1. i \in 1..n
      BY <1>2, <2>2
    <3>2. CASE gatewayInbox[i].key = g
      <4>1. n + 1 \in (i + 1)..(n + 1)
        BY <1>2, <3>1
      <4> QED
        BY <1>2, <1>3, <1>6, <3>1, <3>2, <4>1
    <3>3. CASE gatewayInbox[i].key # g
      <4>1. \/ gatewayInbox[i].url = gateway[gatewayInbox[i].key]
            \/ \E j \in (i + 1)..n : gatewayInbox[j].key = gatewayInbox[i].key
        BY <3>1 DEF GatewaysFollow, n
      <4>2. CASE gatewayInbox[i].url = gateway[gatewayInbox[i].key]
        BY <1>3, <1>4, <1>5, <3>1, <3>3, <4>2
      <4>3. ASSUME NEW j \in (i + 1)..n, gatewayInbox[j].key = gatewayInbox[i].key
            PROVE  \E k \in (i + 1)..(n + 1) : gatewayInbox'[k].key = gatewayInbox'[i].key
        <5>1. j \in 1..n /\ j \in (i + 1)..(n + 1)
          BY <1>2, <3>1
        <5> QED
          BY <1>3, <3>1, <4>3, <5>1
      <4> QED
        BY <4>1, <4>2, <4>3
    <3> QED
      BY <3>2, <3>3
  <2> QED
    BY <2>1, <2>2
<1> QED
  BY <1>2, <1>7, <1>8 DEF GatewaysFollow

(* A delivered event is the last word, or a later one is on its way. *)
LEMMA DeliverFollows ==
  ASSUME GatewayTyped, GatewaysFollow, DeliverGateway
  PROVE  GatewaysFollow'
<1> DEFINE e == Head(gatewayInbox)
           n == Len(gatewayInbox)
<1>1. /\ gatewayInbox' = Tail(gatewayInbox) /\ gateway' = gateway
      /\ gatewayCache' = [gatewayCache EXCEPT ![e.key] = e.url]
  BY DEF DeliverGateway
<1>2. gatewayInbox \in Seq(Event) /\ gatewayInbox # <<>>
  BY DEF GatewayTyped, DeliverGateway
<1>3. n \in Nat /\ n >= 1 /\ e = gatewayInbox[1] /\ e.key \in Gateways
  <2>1. n \in Nat /\ n >= 1 /\ e = gatewayInbox[1]
    BY <1>2
  <2>2. e \in Event
    BY <1>2, HeadTailProperties
  <2> QED
    BY <2>1, <2>2 DEF Event
<1>4. Len(gatewayInbox') = n - 1 /\ \A i \in 1..(n - 1) : gatewayInbox'[i] = gatewayInbox[i + 1]
  BY <1>1, <1>2
<1>5. /\ gatewayCache'[e.key] = e.url
      /\ \A b \in Gateways : b # e.key => gatewayCache'[b] = gatewayCache[b]
  BY <1>1, <1>3 DEF GatewayTyped
<1> HIDE DEF e, n
<1>6. ASSUME NEW b \in Gateways, NEW m \in 1..n, NEW i \in m..n, i # 1, gatewayInbox[i].key = b
      PROVE  i - 1 \in 1..(n - 1) /\ gatewayInbox'[i - 1].key = b
  <2>1. i - 1 \in 1..(n - 1) /\ (i - 1) + 1 = i
    BY <1>3, <1>6
  <2> QED
    BY <1>4, <1>6, <2>1
<1>7. ASSUME NEW b \in Gateways
      PROVE  gatewayCache'[b] = gateway'[b] \/ \E i \in 1..(n - 1) : gatewayInbox'[i].key = b
  <2>1. CASE b = e.key
    <3>1. 1 \in 1..n
      BY <1>3
    <3>2. \/ gatewayInbox[1].url = gateway[gatewayInbox[1].key]
          \/ \E j \in 2..n : gatewayInbox[j].key = gatewayInbox[1].key
      BY <3>1 DEF GatewaysFollow, n
    <3>3. ASSUME NEW j \in 2..n, gatewayInbox[j].key = gatewayInbox[1].key
          PROVE  \E i \in 1..(n - 1) : gatewayInbox'[i].key = b
      <4>1. j \in 1..n /\ j # 1
        BY <1>3
      <4> QED
        BY <1>3, <1>6, <2>1, <3>1, <3>3, <4>1
    <3> QED
      BY <1>1, <1>3, <1>5, <2>1, <3>2, <3>3
  <2>2. CASE b # e.key
    <3>1. gatewayCache[b] = gateway[b] \/ \E i \in 1..n : gatewayInbox[i].key = b
      BY DEF GatewaysFollow, n
    <3>2. ASSUME NEW i \in 1..n, gatewayInbox[i].key = b
          PROVE  \E k \in 1..(n - 1) : gatewayInbox'[k].key = b
      <4>1. i # 1 /\ 1 \in 1..n
        BY <1>3, <2>2, <3>2
      <4> QED
        BY <1>6, <3>2, <4>1
    <3> QED
      BY <1>1, <1>5, <2>2, <3>1, <3>2
  <2> QED
    BY <2>1, <2>2
<1>8. ASSUME NEW i \in 1..(n - 1)
      PROVE  \/ gatewayInbox'[i].url = gateway'[gatewayInbox'[i].key]
             \/ \E j \in (i + 1)..(n - 1) : gatewayInbox'[j].key = gatewayInbox'[i].key
  <2>1. i + 1 \in 1..n /\ gatewayInbox'[i] = gatewayInbox[i + 1]
    BY <1>3, <1>4
  <2>2. \/ gatewayInbox[i + 1].url = gateway[gatewayInbox[i + 1].key]
        \/ \E j \in (i + 1 + 1)..n : gatewayInbox[j].key = gatewayInbox[i + 1].key
    BY <2>1 DEF GatewaysFollow, n
  <2>3. ASSUME NEW j \in (i + 1 + 1)..n, gatewayInbox[j].key = gatewayInbox[i + 1].key
        PROVE  \E k \in (i + 1)..(n - 1) : gatewayInbox'[k].key = gatewayInbox'[i].key
    <3>1. j - 1 \in (i + 1)..(n - 1) /\ j - 1 \in 1..(n - 1) /\ (j - 1) + 1 = j
      BY <1>3
    <3> QED
      BY <1>4, <2>1, <2>3, <3>1
  <2> QED
    BY <1>1, <2>1, <2>2, <2>3
<1> QED
  BY <1>4, <1>7, <1>8 DEF GatewaysFollow


LEMMA StepGatewaysFollow ==
  ASSUME TypeOK, GatewaysFollow, [Next]_vars
  PROVE  GatewaysFollow'
<1>1. CASE UNCHANGED gatewayVars
  BY <1>1 DEF GatewaysFollow, gatewayVars
<1>2. CASE Restart
  <2>1. gatewayCache' = gateway' /\ Len(gatewayInbox') = 0
    BY <1>2 DEF Restart
  <2> QED
    BY <2>1 DEF GatewaysFollow
<1>3. ASSUME NEW g \in Gateways, NEW u, EditGateway(g, u)
      PROVE  GatewaysFollow'
  BY <1>3, EditFollows, Parts
<1>4. CASE DeliverGateway
  BY <1>4, DeliverFollows, Parts
<1> QED
  BY <1>1, <1>2, <1>3, <1>4
  DEF Next, Environment, Failures, Reconcile, AgentReconcile, EditServer, DeleteChild,
      CollectGarbage, EnsureChildFails, Resync, DeliverServer, Begin, ResolveToolGateway, Attach,
      ResolveToolGatewayFails, EnsureChild, UpdateStatusReady, UpdateStatusNotReady,
      UpdateStatusFails, ResolveTool, WireTool, vars

(* What happens to the ToolServer and its cache in a step. *)
LEMMA ServerStep ==
  ASSUME TypeOK, [Next]_vars
  PROVE  \/ UNCHANGED serverVars
         \/ serverCache' = server' /\ serverInbox' = <<>>
         \/ /\ server' = server /\ serverInbox # <<>>
            /\ serverCache' = Head(serverInbox) /\ serverInbox' = Tail(serverInbox)
         \/ /\ server' # server /\ serverInbox' = Append(serverInbox, server')
            /\ serverCache' = serverCache
<1>1. ASSUME NEW v, Write(v), serverCache' = serverCache
      PROVE  \/ UNCHANGED serverVars
             \/ /\ server' # server /\ serverInbox' = Append(serverInbox, server')
                /\ serverCache' = serverCache
  BY <1>1 DEF Write, serverVars
<1>2. UpdateStatusReady => \E v : Write(v) /\ serverCache' = serverCache
  BY Zenon DEF UpdateStatusReady
<1>3. UpdateStatusNotReady => \/ UNCHANGED serverVars
                             \/ \E v : Write(v) /\ serverCache' = serverCache
  BY DEF UpdateStatusNotReady, serverVars
<1>4. (\E spec : EditServer(spec)) => \E v : Write(v) /\ serverCache' = serverCache
  BY Zenon DEF EditServer
<1> QED
  BY <1>1, <1>2, <1>3, <1>4
  DEF Next, Environment, Failures, Reconcile, AgentReconcile, EditGateway, DeleteChild, Restart,
      CollectGarbage, EnsureChildFails, Resync, DeliverServer, DeliverGateway, Begin,
      ResolveToolGateway, Attach, ResolveToolGatewayFails, EnsureChild, UpdateStatusFails,
      ResolveTool, WireTool, vars

LEMMA AppendedLast ==
  ASSUME NEW seq \in Seq(Version), NEW v
  PROVE  Append(seq, v) # <<>> /\ Append(seq, v)[Len(Append(seq, v))] = v
<1>1. Len(Append(seq, v)) = Len(seq) + 1 /\ Len(seq) \in Nat
  OBVIOUS
<1>2. Append(seq, v)[Len(seq) + 1] = v
  OBVIOUS
<1> QED
  BY <1>1, <1>2

LEMMA TailLast ==
  ASSUME NEW seq \in Seq(Version), seq # <<>>
  PROVE  IF Tail(seq) = <<>> THEN Head(seq) = seq[Len(seq)]
         ELSE Tail(seq)[Len(Tail(seq))] = seq[Len(seq)]
<1> DEFINE n == Len(seq)
<1>1. n \in Nat /\ n # 0
  BY EmptySeq
<1>2. Tail(seq) \in Seq(Version) /\ Len(Tail(seq)) = n - 1 /\ Head(seq) = seq[1]
  BY HeadTailProperties
<1>3. \A i \in 1..(n - 1) : Tail(seq)[i] = seq[i + 1]
  OBVIOUS
<1> HIDE DEF n
<1>4. CASE n = 1
  <2>1. Tail(seq) = <<>>
    <3>1. Tail(seq) \in Seq(Version) /\ Len(Tail(seq)) = 0
      BY <1>2, <1>4
    <3> QED
      BY <3>1, EmptySeq
  <2> QED
    BY <1>2, <1>4, <2>1 DEF n
<1>5. CASE n # 1
  <2>1. n - 1 \in 1..(n - 1) /\ (n - 1) + 1 = n /\ n - 1 # 0
    BY <1>1, <1>5
  <2>2. Tail(seq) # <<>>
    BY <1>2, <2>1
  <2> QED
    BY <1>2, <1>3, <2>1, <2>2 DEF n
<1> QED
  BY <1>4, <1>5

LEMMA StepServerFollows ==
  ASSUME TypeOK, ServerFollows, [Next]_vars
  PROVE  ServerFollows'
<1>1. serverInbox \in Seq(Version)
  BY DEF TypeOK
<1>2. CASE UNCHANGED serverVars
  BY <1>2 DEF ServerFollows, serverVars
<1>3. CASE serverCache' = server' /\ serverInbox' = <<>>
  BY <1>3 DEF ServerFollows
<1>4. CASE /\ server' = server /\ serverInbox # <<>>
           /\ serverCache' = Head(serverInbox) /\ serverInbox' = Tail(serverInbox)
  <2>1. serverInbox[Len(serverInbox)] = server
    BY <1>4 DEF ServerFollows
  <2> QED
    BY <1>1, <1>4, <2>1, TailLast DEF ServerFollows
<1>5. CASE serverInbox' = Append(serverInbox, server')
  BY <1>1, <1>5, AppendedLast DEF ServerFollows
<1> QED
  BY <1>2, <1>3, <1>4, <1>5, ServerStep

(* Where a call comes from, and what it has read. *)
LEMMA StepLatest ==
  ASSUME TypeOK, ServerFollows, LatestIsCached, [Next]_vars
  PROVE  LatestIsCached'
<1> SUFFICES ASSUME work' # Idle, work'.latest
             PROVE  serverInbox' = <<>> /\ serverCache' = server' /\ work'.server = server'
  BY DEF LatestIsCached
<1>t. WorkTyped
  BY Parts
<1>1. CASE UNCHANGED serverVars /\ work # Idle /\ work'.latest = work.latest /\ work'.server = work.server
  BY <1>1 DEF LatestIsCached, serverVars
<1>2. CASE UNCHANGED serverVars /\ work' = work
  BY <1>2 DEF LatestIsCached, serverVars
<1>3. CASE Begin
  <2>1. work'.latest = (serverInbox = <<>>) /\ work'.server = serverCache /\ UNCHANGED serverVars
    BY <1>3 DEF Begin
  <2> QED
    BY <2>1 DEF ServerFollows, serverVars
<1>4. ASSUME NEW spec, EditServer(spec)
      PROVE  FALSE
  <2>1. work' = IF work.pc = "idle" THEN work ELSE [work EXCEPT !.latest = FALSE]
    BY <1>4 DEF EditServer
  <2>2. work \in Call
    BY <1>t, <2>1 DEF WorkTyped, Idle
  <2>3. work.pc # "idle"
    BY <2>2 DEF Call, Children
  <2> QED
    BY <2>1, <2>2, <2>3 DEF Call
<1>5. CASE DeliverServer
  BY <1>5 DEF DeliverServer, LatestIsCached
<1>6. CASE ResolveToolGateway \/ (\E k \in Children : EnsureChild(k) \/ EnsureChildFails(k))
  <2>1. work # Idle /\ UNCHANGED serverVars
    <3>1. work.pc \in {"gateway", "Deployment", "Service"} /\ UNCHANGED serverVars
      BY <1>6 DEF ResolveToolGateway, Attach, EnsureChild, EnsureChildFails, Children
    <3> QED
      BY <3>1 DEF Idle
  <2>2. work \in Call
    BY <1>t, <2>1 DEF WorkTyped
  <2>3. work'.latest = work.latest /\ work'.server = work.server
    <3>1. \/ \E pc : work' = [work EXCEPT !.pc = pc]
          \/ \E g, base : work' = [work EXCEPT !.pc = "Deployment", !.ref = g, !.base = base]
      BY <1>6 DEF ResolveToolGateway, Attach, EnsureChild, EnsureChildFails, Goto
    <3> QED
      BY <2>2, <3>1 DEF Call
  <2> QED
    BY <1>1, <2>1, <2>3
<1> QED
  <2>1. Restart \/ ResolveToolGatewayFails \/ UpdateStatusReady \/ UpdateStatusNotReady
          \/ UpdateStatusFails => work' = Idle
    BY DEF Restart, ResolveToolGatewayFails, UpdateStatusReady, UpdateStatusNotReady, UpdateStatusFails
  <2>2. (\E g, u : EditGateway(g, u)) \/ (\E k \in Children : DeleteChild(k)) \/ CollectGarbage
          \/ Resync \/ DeliverGateway \/ AgentReconcile \/ UNCHANGED vars
          => UNCHANGED serverVars /\ work' = work
    BY DEF EditGateway, DeleteChild, CollectGarbage, Resync, DeliverGateway, AgentReconcile,
           ResolveTool, WireTool, vars, toolServerVars
  <2> QED
    BY <1>2, <1>3, <1>4, <1>5, <1>6, <2>1, <2>2 DEF Next, Environment, Failures, Reconcile

(* An event about a gateway that the ToolServer sleeps through changes     *)
(* nothing for the spec it has.                                            *)
LEMMA SleptThrough ==
  ASSUME TypeOK, DeliverGateway, ~queued', serverCache.spec # None,
         NEW ref \in Gateways \cup {None}, NEW base,
         AttachedTo(serverCache.spec, gatewayCache, ref, base)
  PROVE  ~queued /\ AttachedTo(serverCache.spec, gatewayCache', ref, base)
<1> DEFINE spec == serverCache.spec
           key == Head(gatewayInbox).key
<1>1. ~queued /\ ~References(key)
  BY Zenon DEF DeliverGateway
<1>2. gatewayInbox \in Seq(Event) /\ gatewayInbox # <<>> /\ gatewayCache \in [Gateways -> GatewayState]
  BY Parts DEF GatewayTyped, DeliverGateway
<1>3. Head(gatewayInbox) \in Event
  BY <1>2, HeadTailProperties
<1>4. gatewayCache' = [gatewayCache EXCEPT ![key] = Head(gatewayInbox).url]
  BY DEF DeliverGateway
<1> HIDE DEF key
<1>5. \A g \in Gateways : g # key => gatewayCache'[g] = gatewayCache[g]
  BY <1>2, <1>4
<1> DEFINE named == IF spec.gateway # None THEN {spec.gateway} ELSE Default
<1>6. key \notin named
  BY <1>1 DEF References
<1>7. named \subseteq Gateways
  <2>1. spec \in Specs
    BY DEF TypeOK, Version
  <2> QED
    BY <2>1, ToolServerAssumption
<1>8. \A g \in named : gatewayCache'[g] = gatewayCache[g]
  BY <1>5, <1>6, <1>7
<1>9. \A urls : Candidates(spec, urls) = {g \in named : urls[g] # None}
  BY DEF Candidates
<1> HIDE DEF named, spec
<1>10. Candidates(spec, gatewayCache') = Candidates(spec, gatewayCache)
  BY <1>8, <1>9
<1>11. \A g \in Candidates(spec, gatewayCache) : gatewayCache'[g] = gatewayCache[g]
  BY <1>8, <1>9
<1>12. AttachedTo(spec, gatewayCache', ref, base)
  BY <1>10, <1>11 DEF AttachedTo, spec
<1> QED
  BY <1>1, <1>12 DEF spec

(* The call in progress. *)
LEMMA StepCall ==
  ASSUME TypeOK, LatestIsCached, CallRight, [Next]_vars
  PROVE  CallRight'
<1> SUFFICES ASSUME work' # Idle, work'.latest, ~queued'
             PROVE  CallRight'
  BY DEF CallRight
<1>t. WorkTyped /\ GatewayTyped
  BY Parts
<1>1. CASE UNCHANGED <<gatewayCache, child, work, queued>>
  BY <1>1 DEF CallRight
<1>2. CASE CollectGarbage
  <2>1. UNCHANGED <<gatewayCache, work, queued>> /\ server.spec = None
    BY <1>2 DEF CollectGarbage, gatewayVars
  <2>2. work.server.spec # None /\ work.server = server
    BY <1>t, <2>1 DEF WorkTyped, LatestIsCached
  <2> QED
    BY <2>1, <2>2
<1>3. ASSUME NEW spec, EditServer(spec)
      PROVE  CallRight'
  <2>1. work' = IF work.pc = "idle" THEN work ELSE [work EXCEPT !.latest = FALSE]
    BY <1>3 DEF EditServer
  <2>2. work \in Call
    BY <1>t, <2>1 DEF WorkTyped, Idle
  <2>3. work.pc # "idle"
    BY <2>2 DEF Call, Children
  <2> QED
    BY <2>1, <2>2, <2>3 DEF Call
<1>4. CASE DeliverGateway
  <2>1. UNCHANGED <<child, work>> /\ ~queued
    BY <1>4, Zenon DEF DeliverGateway
  <2>2. work \in Call /\ work.server.spec # None /\ serverCache = server /\ work.server = server
    BY <1>t, <2>1 DEF WorkTyped, LatestIsCached
  <2>3. work.ref \in Gateways \cup {None}
    BY <2>2 DEF Call
  <2>4. ASSUME AttachedTo(work.server.spec, gatewayCache, work.ref, work.base)
        PROVE  AttachedTo(work.server.spec, gatewayCache', work.ref, work.base)
    BY <1>4, <2>2, <2>3, <2>4, SleptThrough
  <2> QED
    BY <2>1, <2>4 DEF CallRight
<1>5. CASE Begin
  <2>1. work'.pc = "gateway"
    BY <1>5 DEF Begin
  <2> QED
    BY <2>1 DEF CallRight
<1>6. CASE ResolveToolGateway
  <2>1. work \in Call /\ work.server.spec # None
    BY <1>t, <1>6 DEF ResolveToolGateway, WorkTyped, Idle
  <2> DEFINE found == Candidates(work.server.spec, gatewayCache)
  <2>2. PICK g : Attach(g) /\ (g \in found \/ (found = {} /\ g = None))
    BY <1>6 DEF ResolveToolGateway
  <2>3. /\ work' = [work EXCEPT !.pc = "Deployment", !.ref = g,
                                !.base = IF g = None THEN NoUrl ELSE gatewayCache[g]]
        /\ UNCHANGED gatewayVars
    BY <2>2 DEF Attach
  <2>4. /\ work'.pc = "Deployment" /\ work'.server = work.server /\ work'.ref = g
        /\ work'.base = IF g = None THEN NoUrl ELSE gatewayCache[g]
    BY <2>1, <2>3 DEF Call
  <2>5. g \in found => g # None
    BY <1>t, <2>1, CandidateTyped DEF Call, GatewayTyped
  <2> HIDE DEF found
  <2>6. AttachedTo(work.server.spec, gatewayCache, g, work'.base)
    BY <2>2, <2>4, <2>5 DEF AttachedTo, found
  <2> QED
    BY <2>3, <2>4, <2>6 DEF CallRight, gatewayVars
<1>7. ASSUME NEW k \in Children, EnsureChild(k)
      PROVE  CallRight'
  <2>1. /\ work.pc = k /\ UNCHANGED gatewayCache
        /\ child' = [child EXCEPT ![k] = work.server.spec]
        /\ queued' = (queued \/ child' # child)
        /\ work' = [work EXCEPT !.pc = IF k = "Deployment" THEN "Service" ELSE "ready"]
    BY <1>7 DEF EnsureChild, Goto, gatewayVars
  <2>2. work \in Call /\ work # Idle
    BY <1>t, <2>1 DEF WorkTyped, Idle, Children
  <2>3. /\ work'.pc = (IF k = "Deployment" THEN "Service" ELSE "ready") /\ work'.server = work.server
        /\ work'.ref = work.ref /\ work'.base = work.base /\ work'.latest = work.latest
    BY <2>1, <2>2 DEF Call
  <2>4. ~queued /\ child' = child
    BY <2>1, Zenon
  <2>5. child'[k] = work.server.spec
    BY <2>1 DEF TypeOK
  <2>6. /\ AttachedTo(work.server.spec, gatewayCache, work.ref, work.base)
        /\ k = "Service" => child["Deployment"] = work.server.spec
    BY <2>1, <2>2, <2>3, <2>4 DEF CallRight, Children
  <2>7. k = "Deployment" \/ k = "Service"
    BY DEF Children
  <2> QED
    BY <2>1, <2>3, <2>4, <2>5, <2>6, <2>7 DEF CallRight
<1>8. ASSUME NEW k \in Children, EnsureChildFails(k)
      PROVE  CallRight'
  <2>1. work.pc = k /\ work' = [work EXCEPT !.pc = "notReady"]
    BY <1>8 DEF EnsureChildFails, Goto
  <2>2. work \in Call
    BY <1>t, <2>1 DEF WorkTyped, Idle, Children
  <2>3. work'.pc = "notReady"
    BY <2>1, <2>2 DEF Call
  <2> QED
    BY <2>3 DEF CallRight
<1> QED
  <2>1. Restart \/ ResolveToolGatewayFails \/ UpdateStatusReady \/ UpdateStatusNotReady
          \/ UpdateStatusFails => work' = Idle
    BY DEF Restart, ResolveToolGatewayFails, UpdateStatusReady, UpdateStatusNotReady, UpdateStatusFails
  <2>2. DeliverServer \/ Resync \/ (\E k \in Children : DeleteChild(k)) => queued'
    BY DEF DeliverServer, Resync, DeleteChild
  <2>3. (\E g, u : EditGateway(g, u)) \/ AgentReconcile \/ UNCHANGED vars
          => UNCHANGED <<gatewayCache, child, work, queued>>
    BY DEF EditGateway, AgentReconcile, ResolveTool, WireTool, vars, gatewayVars, toolServerVars
  <2> QED
    BY <1>1, <1>2, <1>3, <1>4, <1>5, <1>6, <1>7, <1>8, <2>1, <2>2, <2>3
    DEF Next, Environment, Failures, Reconcile

(* When the controller comes to rest, and while it rests. *)
LEMMA StepRest ==
  ASSUME TypeOK, ServerFollows, LatestIsCached, CallRight, RestRight, [Next]_vars
  PROVE  RestRight'
<1> SUFFICES ASSUME ~queued', work' = Idle, serverInbox' = <<>>, server'.spec # None
             PROVE  RestRight'
  BY DEF RestRight
<1>t. WorkTyped /\ ServerTyped
  BY Parts
<1>w. ASSUME NEW v, serverInbox' = Append(serverInbox, v)
      PROVE  FALSE
  BY <1>t, <1>w, AppendedLast DEF ServerTyped
<1>1. CASE UNCHANGED <<server, serverInbox, gatewayCache, child, work, queued>>
  BY <1>1 DEF RestRight
<1>2. CASE CollectGarbage
  BY <1>2 DEF CollectGarbage, serverVars
<1>3. ASSUME NEW spec, EditServer(spec)
      PROVE  FALSE
  <2> DEFINE v == IF server.spec = None \/ spec = None THEN Fresh(spec)
                  ELSE [server EXCEPT !.spec = spec]
  <2>2. v.spec = spec
    BY <1>t DEF ServerTyped, Version, Fresh
  <2>3. Write(v) /\ spec # server.spec
    BY <1>3 DEF EditServer
  <2> HIDE DEF v
  <2>4. serverInbox' = Append(serverInbox, v)
    BY <2>2, <2>3 DEF Write
  <2> QED
    BY <1>w, <2>4
<1>4. CASE DeliverGateway
  <2>1. UNCHANGED <<server, serverInbox, serverCache, child, work>>
    BY <1>4 DEF DeliverGateway, serverVars
  <2>2. serverCache = server /\ serverCache.spec # None
    BY <2>1 DEF ServerFollows
  <2>3. ~queued
    BY <1>4, Zenon DEF DeliverGateway
  <2>4. /\ server.ready = "True" /\ server.url = server.spec.url
        /\ AttachedTo(server.spec, gatewayCache, server.gatewayRef, server.gatewayUrl)
        /\ \A k \in Children : child[k] = server.spec
    BY <2>1, <2>3 DEF RestRight
  <2>5. server.gatewayRef \in Gateways \cup {None}
    BY <1>t DEF ServerTyped, Version
  <2>6. AttachedTo(server.spec, gatewayCache', server.gatewayRef, server.gatewayUrl)
    BY <1>4, <2>2, <2>4, <2>5, SleptThrough
  <2> QED
    BY <2>1, <2>4, <2>6 DEF RestRight
<1>5. CASE Begin
  <2>1. work' = IF serverCache.spec = None THEN Idle
                ELSE [pc |-> "gateway", server |-> serverCache, latest |-> serverInbox = <<>>,
                      ref |-> None, base |-> NoUrl]
    BY <1>5 DEF Begin
  <2>2. serverCache.spec = None
    BY <2>1 DEF Idle
  <2>3. UNCHANGED serverVars
    BY <1>5 DEF Begin
  <2> QED
    BY <2>2, <2>3 DEF ServerFollows, serverVars
<1>6. CASE ResolveToolGateway \/ (\E k \in Children : EnsureChild(k) \/ EnsureChildFails(k))
  <2>1. work.pc \in {"gateway", "Deployment", "Service"}
    BY <1>6 DEF ResolveToolGateway, EnsureChild, EnsureChildFails, Children
  <2>2. work \in Call
    BY <1>t, <2>1 DEF WorkTyped, Idle
  <2>3. \/ \E pc \in {"Service", "ready", "notReady"} : work' = [work EXCEPT !.pc = pc]
        \/ \E g, base : work' = [work EXCEPT !.pc = "Deployment", !.ref = g, !.base = base]
    BY <1>6 DEF ResolveToolGateway, Attach, EnsureChild, EnsureChildFails, Goto
  <2>4. work'.pc # "idle"
    BY <2>2, <2>3 DEF Call
  <2> QED
    BY <2>4 DEF Idle
<1>7. CASE UpdateStatusReady
  <2> DEFINE v == Ready(work.server, work.ref, work.base)
  <2>1. /\ work.pc = "ready" /\ work.latest /\ ~queued /\ Write(v)
        /\ UNCHANGED <<gatewayCache, child>>
    BY <1>7 DEF UpdateStatusReady, gatewayVars
  <2>2. work \in Call /\ work # Idle /\ work.server \in Version
    BY <1>t, <2>1 DEF WorkTyped, Idle, Call
  <2>3. work.server = server
    BY <2>1, <2>2 DEF LatestIsCached
  <2>4. v.ready = "True" /\ v.url = server.spec.url /\ v.spec = server.spec
        /\ v.gatewayRef = work.ref /\ v.gatewayUrl = work.base
    BY <2>2, <2>3 DEF Ready, Version
  <2> HIDE DEF v
  <2>5. server' = v /\ v = server
    BY <1>w, <2>1 DEF Write
  <2>6. /\ AttachedTo(server.spec, gatewayCache, work.ref, work.base)
        /\ child["Deployment"] = server.spec /\ child["Service"] = server.spec
    BY <2>1, <2>2, <2>3 DEF CallRight
  <2> QED
    BY <2>1, <2>4, <2>5, <2>6 DEF RestRight, Children
<1> QED
  <2>1. Restart \/ DeliverServer \/ Resync \/ ResolveToolGatewayFails \/ UpdateStatusNotReady
          \/ UpdateStatusFails \/ (\E k \in Children : DeleteChild(k)) => queued'
    BY DEF Restart, DeliverServer, Resync, ResolveToolGatewayFails, UpdateStatusNotReady,
           UpdateStatusFails, DeleteChild
  <2>2. (\E g, u : EditGateway(g, u)) \/ AgentReconcile \/ UNCHANGED vars
          => UNCHANGED <<server, serverInbox, gatewayCache, child, work, queued>>
    BY DEF EditGateway, AgentReconcile, ResolveTool, WireTool, vars, serverVars, gatewayVars,
           toolServerVars
  <2> QED
    BY <1>1, <1>2, <1>3, <1>4, <1>5, <1>6, <1>7, <2>1, <2>2
    DEF Next, Environment, Failures, Reconcile

(* At rest the cache shows the gateways there are. *)
LEMMA RestIsRight ==
  ASSUME TypeOK, RestInv
  PROVE  RestsOnlyRight
<1> SUFFICES ASSUME Resting, server.spec # None
             PROVE  UpToDate
  BY DEF RestsOnlyRight
<1>1. gatewayCache = gateway
  <2>1. Len(gatewayInbox) = 0
    BY DEF Resting
  <2>2. \A i \in 1..Len(gatewayInbox) : FALSE
    BY <2>1
  <2>3. \A g \in Gateways : gatewayCache[g] = gateway[g]
    BY <2>2, Zenon DEF RestInv, GatewaysFollow
  <2> QED
    BY <2>3 DEF TypeOK
<1>2. /\ server.ready = "True" /\ server.url = server.spec.url
      /\ AttachedTo(server.spec, gatewayCache, server.gatewayRef, server.gatewayUrl)
      /\ \A k \in Children : child[k] = server.spec
  BY DEF RestInv, RestRight, Resting
<1> QED
  BY <1>1, <1>2 DEF UpToDate, Attached, AttachedTo

(* No wake-up is lost: in any interleaving of edits, deliveries, calls,    *)
(* failures and crashes the controller only comes to rest with the objects *)
(* built from the present spec and the status attached to a gateway that   *)
(* is there, with its present URL.                                         *)
THEOREM NoWakeUpLost == SafetySpec => []RestsOnlyRight
<1>1. Init => RestInv
  BY InitRest
<1>2. TypeOK /\ RestInv /\ [Next]_vars => RestInv'
  BY StepGatewaysFollow, StepServerFollows, StepLatest, StepCall, StepRest DEF RestInv
<1>3. TypeOK /\ RestInv => RestsOnlyRight
  BY RestIsRight
<1> QED
  BY <1>1, <1>2, <1>3, TypeCorrect, PTL DEF SafetySpec
=============================================================================
