------------------------ MODULE AgentReconcilerProofs ------------------------
(***************************************************************************)
(* Theorems about AgentReconciler, for every set of operators and specs    *)
(* and every bound: the types; that the Merkle chain in the status of an   *)
(* Agent implements AuditTrail; that what the trail says is true; that no  *)
(* operator forgets an Agent; and, for one operator, that a Ready Agent    *)
(* runs its present spec.                                                  *)
(***************************************************************************)
EXTENDS AgentReconciler, TLAPS, SequenceTheorems

USE DEF Kinds, PCs, DepStates

-----------------------------------------------------------------------------
(* Type correctness. *)

(* A Reconcile call in progress works on an Agent it found, and an Agent   *)
(* that exists has a spec.                                                 *)
Known(v) == v.uid # 0 => v.spec \in Specs

SnapshotsExist ==
  /\ Known(agent)
  /\ \A o \in Operators : Known(agentCache[o])
  /\ \A o \in Operators : \A i \in 1..Len(agentInbox[o]) : Known(agentInbox[o][i])
  /\ \A o \in Operators : work[o].pc # "idle" => Exists(work[o].snap)

TypeInv == TypeOK /\ SnapshotsExist

(* A write of a well-typed Agent leaves the store and the inboxes typed. *)
LEMMA WriteAgentType ==
  ASSUME TypeInv, NEW new \in AgentVersion, Known(new), WriteAgent(new)
  PROVE  /\ agent' \in AgentVersion
         /\ agentInbox' \in [Operators -> Seq(AgentVersion)]
         /\ Known(agent')
         /\ \A o \in Operators : \A i \in 1..Len(agentInbox'[o]) : Known(agentInbox'[o][i])
<1> DEFINE v == [new EXCEPT !.rv = agent.rv + 1]
<1>1. v \in AgentVersion /\ Known(v)
  <2>1. agent.rv + 1 \in Nat
    BY DEF TypeInv, TypeOK, AgentVersion
  <2>2. v \in AgentVersion
    BY <2>1 DEF AgentVersion
  <2>3. v.uid = new.uid /\ v.spec = new.spec
    BY DEF AgentVersion
  <2> QED
    BY <2>2, <2>3 DEF Known
<1>2. agent' = v /\ agentInbox' = [o \in Operators |-> Append(agentInbox[o], v)]
  BY DEF WriteAgent
<1> HIDE DEF v
<1>3. agentInbox' \in [Operators -> Seq(AgentVersion)]
  BY <1>1, <1>2 DEF TypeInv, TypeOK
<1>4. ASSUME NEW o \in Operators, NEW i \in 1..Len(agentInbox'[o])
      PROVE  Known(agentInbox'[o][i])
  <2>1. agentInbox[o] \in Seq(AgentVersion)
    BY DEF TypeInv, TypeOK
  <2>2. agentInbox'[o] = Append(agentInbox[o], v)
    BY <1>2
  <2>3. CASE i \in 1..Len(agentInbox[o])
    BY <2>1, <2>2, <2>3, <1>4 DEF TypeInv, SnapshotsExist
  <2>4. CASE i = Len(agentInbox[o]) + 1
    BY <2>1, <2>2, <2>4, <1>1
  <2> QED
    BY <2>1, <2>2, <2>3, <2>4, <1>4
<1> QED
  BY <1>1, <1>2, <1>3, <1>4

(* The same for the Deployment and the Service. *)
LEMMA WriteChildType ==
  ASSUME TypeInv, NEW k \in Kinds, NEW new \in ChildVersion, WriteChild(k, new)
  PROVE  /\ child' \in [Kinds -> ChildVersion]
         /\ childInbox' \in [Operators -> [Kinds -> Seq(ChildVersion)]]
<1> DEFINE v == [new EXCEPT !.ver = child[k].ver + 1]
<1>1. v \in ChildVersion
  <2>1. child[k].ver + 1 \in Nat
    BY DEF TypeInv, TypeOK, ChildVersion
  <2> QED
    BY <2>1 DEF ChildVersion
<1>2. /\ child' = [child EXCEPT ![k] = v]
      /\ childInbox' = [o \in Operators |-> [childInbox[o] EXCEPT ![k] = Append(@, v)]]
  BY DEF WriteChild
<1> HIDE DEF v
<1>3. ASSUME NEW o \in Operators
      PROVE  [childInbox[o] EXCEPT ![k] = Append(@, v)] \in [Kinds -> Seq(ChildVersion)]
  BY <1>1 DEF TypeInv, TypeOK
<1> QED
  BY <1>1, <1>2, <1>3 DEF TypeInv, TypeOK

(* The statuses the controller writes are statuses. *)
LEMMA StatusType ==
  ASSUME NEW a \in AgentVersion, Exists(a)
  PROVE  ReadyStatus(a) \in AgentStatus /\ NotReadyStatus(a) \in AgentStatus
<1>1. a.status \in AgentStatus /\ a.spec \in Specs /\ a.generation \in Nat
  BY DEF AgentVersion, Exists
<1>2. NextCheckpoint(a) \in Checkpoint
  BY <1>1 DEF NextCheckpoint, Checkpoint, AgentStatus
<1>3. ComputeMerkleRoot(a) \in Seq(Checkpoint) /\ GenerateStepProof(a) \in Seq(Checkpoint)
  BY <1>1, <1>2 DEF ComputeMerkleRoot, GenerateStepProof, AgentStatus
<1>4. ReadyStatus(a) \in AgentStatus
  BY <1>1, <1>3 DEF ReadyStatus, AgentStatus
<1>5. NotReadyStatus(a) \in AgentStatus
  BY <1>1 DEF NotReadyStatus, AgentStatus
<1> QED
  BY <1>4, <1>5

(* A Reconcile call that moves on, ends or starts keeps work typed. *)
LEMMA WorkType ==
  ASSUME TypeInv, NEW o \in Operators, NEW pc \in PCs
  PROVE  /\ NoAgent \in AgentVersion
         /\ Goto(o, pc) => /\ work' \in [Operators -> [pc : PCs, snap : AgentVersion]]
                           /\ work[o].pc # "idle" => \A p \in Operators :
                                work'[p].pc # "idle" => Exists(work'[p].snap)
         /\ Finish(o) => /\ work' \in [Operators -> [pc : PCs, snap : AgentVersion]]
                         /\ \A p \in Operators : work'[p].pc # "idle" => Exists(work'[p].snap)
<1>1. EmptyStatus \in AgentStatus
  BY DEF EmptyStatus, AgentStatus
<1>2. NoAgent \in AgentVersion
  BY <1>1 DEF NoAgent, AgentVersion
<1>3. Idle \in [pc : PCs, snap : AgentVersion] /\ Idle.pc = "idle"
  BY <1>2 DEF Idle
<1>4. ASSUME Finish(o)
      PROVE  /\ work' \in [Operators -> [pc : PCs, snap : AgentVersion]]
             /\ \A p \in Operators : work'[p].pc # "idle" => Exists(work'[p].snap)
  BY <1>3, <1>4 DEF Finish, TypeInv, TypeOK, SnapshotsExist
<1>5. ASSUME Goto(o, pc)
      PROVE  /\ work' \in [Operators -> [pc : PCs, snap : AgentVersion]]
             /\ work[o].pc # "idle" => \A p \in Operators :
                  work'[p].pc # "idle" => Exists(work'[p].snap)
  <2>1. /\ work' = [work EXCEPT ![o].pc = pc]
        /\ work \in [Operators -> [pc : PCs, snap : AgentVersion]]
    BY <1>5 DEF Goto, TypeInv, TypeOK
  <2>2. \A p \in Operators : work'[p].snap = work[p].snap /\ (p # o => work'[p].pc = work[p].pc)
    BY <2>1
  <2> QED
    BY <2>1, <2>2 DEF TypeInv, SnapshotsExist
<1> QED
  BY <1>2, <1>4, <1>5

LEMMA InitType == Init => TypeInv
<1> SUFFICES ASSUME Init PROVE TypeInv
  OBVIOUS
<1>1. EmptyStatus \in AgentStatus
  BY DEF EmptyStatus, AgentStatus
<1>2. NoAgent \in AgentVersion /\ Known(NoAgent)
  BY <1>1 DEF NoAgent, AgentVersion, Known
<1>3. NoChild \in ChildVersion
  BY DEF NoChild, ChildVersion
<1>4. Idle \in [pc : PCs, snap : AgentVersion] /\ Idle.pc = "idle"
  BY <1>2 DEF Idle
<1> QED
  BY <1>2, <1>3, <1>4 DEF Init, TypeInv, TypeOK, SnapshotsExist

(* No step breaks a type. *)
LEMMA StepType == TypeInv /\ [Next]_vars => TypeInv'
<1> SUFFICES ASSUME TypeInv, [Next]_vars PROVE TypeInv'
  OBVIOUS
<1> USE DEF TypeInv, TypeOK, SnapshotsExist, apiVars, infVars, envVars
<1>0. /\ NoAgent \in AgentVersion /\ Known(NoAgent)
      /\ NoChild \in ChildVersion
  <2>1. EmptyStatus \in AgentStatus
    BY DEF EmptyStatus, AgentStatus
  <2> QED
    BY <2>1 DEF NoAgent, AgentVersion, Known, NoChild, ChildVersion
<1>1. CASE UNCHANGED vars
  BY <1>1 DEF vars
<1>2. ASSUME NEW s \in Specs, CreateAgent(s) PROVE TypeInv'
  <2> DEFINE new == [NoAgent EXCEPT !.uid = lives + 1, !.generation = 1, !.spec = s]
  <2>1. lives + 1 \in Nat /\ 1 \in Nat /\ s \in Specs \cup {NoSpec}
    OBVIOUS
  <2>3. new \in AgentVersion
    BY <1>0, <2>1 DEF AgentVersion
  <2>4. new.spec = s
    BY <1>0 DEF AgentVersion
  <2>5. Known(new)
    BY <2>4 DEF Known
  <2>2. WriteAgent(new)
    BY <1>2 DEF CreateAgent
  <2> HIDE DEF new
  <2> QED
    BY <1>2, <2>2, <2>3, <2>5, WriteAgentType DEF CreateAgent
<1>3. ASSUME NEW s \in Specs, EditSpec(s) PROVE TypeInv'
  <2> DEFINE new == [agent EXCEPT !.spec = s, !.generation = @ + 1]
  <2>1. agent.generation + 1 \in Nat /\ s \in Specs \cup {NoSpec}
    BY DEF AgentVersion
  <2>3. new \in AgentVersion
    BY <2>1 DEF AgentVersion
  <2>4. new.spec = s
    BY DEF AgentVersion
  <2>5. Known(new)
    BY <2>4 DEF Known
  <2>2. WriteAgent(new)
    BY <1>3 DEF EditSpec
  <2> HIDE DEF new
  <2> QED
    BY <1>3, <2>2, <2>3, <2>5, WriteAgentType DEF EditSpec
<1>4. CASE DeleteAgent
  BY <1>0, <1>4, WriteAgentType DEF DeleteAgent
<1>5. CASE ReportTokens
  <2> DEFINE new == [agent EXCEPT !.status.tokensUsed = @ + 1]
  <2>1. [agent.status EXCEPT !.tokensUsed = @ + 1] \in AgentStatus
    <3>1. agent.status \in AgentStatus
      BY DEF AgentVersion
    <3>2. agent.status.tokensUsed + 1 \in Nat
      BY <3>1 DEF AgentStatus
    <3> QED
      BY <3>1, <3>2 DEF AgentStatus
  <2>2. new \in AgentVersion /\ Known(new)
    BY <2>1 DEF AgentVersion, Known
  <2>3. WriteAgent(new)
    BY <1>5 DEF ReportTokens
  <2> HIDE DEF new
  <2> QED
    BY <1>5, <2>2, <2>3, WriteAgentType DEF ReportTokens
<1>6. ASSUME NEW k \in Kinds, CollectGarbage(k) PROVE TypeInv'
  BY <1>0, <1>6, WriteChildType DEF CollectGarbage
<1>7. ASSUME NEW d \in DepStates, ChangeDependencies(d) PROVE TypeInv'
  BY <1>7 DEF ChangeDependencies
<1>8. ASSUME NEW o \in Operators, Operator(o) PROVE TypeInv'
  <2>1. CASE ReconcileNotFound(o)
    BY <2>1 DEF ReconcileNotFound
  <2>2. CASE ReconcileUnresolved(o)
    BY <2>2 DEF ReconcileUnresolved, vars
  <2>3. CASE ReconcileBegin(o)
    BY <2>3 DEF ReconcileBegin, Known, Exists
  <2>4. ASSUME NEW k \in Kinds, ChildUpToDate(o, k) PROVE TypeInv'
    BY <2>4, WorkType DEF ChildUpToDate, After
  <2>5. ASSUME NEW k \in Kinds, EnsureChild(o, k) PROVE TypeInv'
    <3> DEFINE a == work[o].snap
               new == [owner |-> Desired(k, a).owner, ver |-> 0, built |-> Desired(k, a).built]
    <3>1. a \in AgentVersion /\ Exists(a)
      BY <2>5 DEF EnsureChild, MustWrite
    <3>2. new \in ChildVersion
      BY <3>1 DEF ChildVersion, AgentVersion, Desired
    <3>3. WriteChild(k, new)
      BY <2>5 DEF EnsureChild
    <3>4. applied' \subseteq Nat \X Specs
      BY <2>5, <3>1 DEF EnsureChild, RecordApplied, AgentVersion, Exists
    <3>5. /\ work' \in [Operators -> [pc : PCs, snap : AgentVersion]]
          /\ \A p \in Operators : work'[p].pc # "idle" => Exists(work'[p].snap)
      BY <2>5, WorkType DEF EnsureChild, MustWrite, After
    <3> HIDE DEF a, new
    <3> QED
      BY <2>5, <3>2, <3>3, <3>4, <3>5, WriteChildType DEF EnsureChild
  <2>6. ASSUME NEW k \in Kinds, EnsureChildFails(o, k) PROVE TypeInv'
    BY <2>6, WorkType DEF EnsureChildFails, Fail
  <2>7. CASE DeleteService(o)
    BY <1>0, <2>7, WorkType, WriteChildType DEF DeleteService
  <2>8. CASE DeleteServiceFails(o)
    BY <2>8, WorkType DEF DeleteServiceFails, Fail
  <2>9. CASE UpdateStatusReady(o)
    <3> DEFINE new == [agent EXCEPT !.status = ReadyStatus(work[o].snap)]
    <3>1. new \in AgentVersion /\ Known(new)
      BY <2>9, StatusType DEF UpdateStatusReady, AgentVersion, Known
    <3>2. WriteAgent(new)
      BY <2>9 DEF UpdateStatusReady
    <3> HIDE DEF new
    <3> QED
      BY <2>9, <3>1, <3>2, WriteAgentType, WorkType DEF UpdateStatusReady
  <2>10. CASE UpdateStatusNotReady(o)
    <3> DEFINE new == [agent EXCEPT !.status = NotReadyStatus(work[o].snap)]
    <3>1. new \in AgentVersion /\ Known(new)
      BY <2>10, StatusType DEF UpdateStatusNotReady, AgentVersion, Known
    <3>2. UNCHANGED <<agent, agentInbox>> \/ WriteAgent(new)
      BY <2>10 DEF UpdateStatusNotReady
    <3> HIDE DEF new
    <3> QED
      BY <2>10, <3>1, <3>2, WriteAgentType, WorkType DEF UpdateStatusNotReady, Fail
  <2>11. CASE UpdateStatusFails(o)
    BY <2>11, WorkType DEF UpdateStatusFails, Fail
  <2>12. CASE DeliverAgent(o)
    <3>1. /\ agentInbox[o] \in Seq(AgentVersion) /\ agentInbox[o] # <<>>
          /\ agentCache' = [agentCache EXCEPT ![o] = Head(agentInbox[o])]
          /\ agentInbox' = [agentInbox EXCEPT ![o] = Tail(agentInbox[o])]
      BY <2>12 DEF DeliverAgent
    <3>2. /\ Head(agentInbox[o]) \in AgentVersion /\ Tail(agentInbox[o]) \in Seq(AgentVersion)
          /\ Known(Head(agentInbox[o]))
          /\ \A i \in 1..Len(Tail(agentInbox[o])) : Known(Tail(agentInbox[o])[i])
      BY <3>1, HeadTailProperties
    <3> QED
      BY <2>12, <3>1, <3>2 DEF DeliverAgent
  <2>13. ASSUME NEW k \in Kinds, DeliverChild(o, k) PROVE TypeInv'
    <3>1. childInbox[o][k] \in Seq(ChildVersion) /\ childInbox[o][k] # <<>>
      BY <2>13 DEF DeliverChild
    <3>2. Head(childInbox[o][k]) \in ChildVersion /\ Tail(childInbox[o][k]) \in Seq(ChildVersion)
      BY <3>1, HeadTailProperties
    <3> QED
      BY <2>13, <3>2 DEF DeliverChild
  <2>14. CASE Restart(o)
    <3>1. agentCache' = [agentCache EXCEPT ![o] = agent]
      BY <2>14 DEF Restart
    <3>2. agentInbox' = [agentInbox EXCEPT ![o] = <<>>]
      BY <2>14 DEF Restart
    <3>3. /\ childCache' = [childCache EXCEPT ![o] = child]
          /\ childInbox' = [childInbox EXCEPT ![o] = [k \in Kinds |-> <<>>]]
      BY <2>14 DEF Restart
    <3>4. childCache' \in [Operators -> [Kinds -> ChildVersion]]
          /\ childInbox' \in [Operators -> [Kinds -> Seq(ChildVersion)]]
      BY <3>3
    <3>5. queued' \in [Operators -> BOOLEAN]
      BY <2>14 DEF Restart
    <3>6. /\ work' \in [Operators -> [pc : PCs, snap : AgentVersion]]
          /\ \A p \in Operators : work'[p].pc # "idle" => Exists(work'[p].snap)
      BY <2>14, WorkType DEF Restart
    <3>7. faults' \in Nat /\ UNCHANGED <<agent, child, deps, lives, past, applied>>
      BY <2>14 DEF Restart
    <3>8. agentInbox' \in [Operators -> Seq(AgentVersion)]
      BY <3>2
    <3>9. \A p \in Operators : \A i \in 1..Len(agentInbox'[p]) : Known(agentInbox'[p][i])
      <4> TAKE p \in Operators
      <4>1. agentInbox'[p] = IF p = o THEN <<>> ELSE agentInbox[p]
        BY <3>2
      <4> QED
        BY <4>1
    <3>10. agentCache' \in [Operators -> AgentVersion]
           /\ \A p \in Operators : Known(agentCache'[p])
      BY <3>1
    <3> QED
      BY <3>4, <3>5, <3>6, <3>7, <3>8, <3>9, <3>10 DEF Known
  <2> QED
    BY <1>8, <2>1, <2>2, <2>3, <2>4, <2>5, <2>6, <2>7, <2>8, <2>9, <2>10, <2>11, <2>12, <2>13,
       <2>14 DEF Operator, Reconcile
<1> QED
  BY <1>1, <1>2, <1>3, <1>4, <1>5, <1>6, <1>7, <1>8 DEF Next, Environment

(* Every variable always has its type. *)
THEOREM TypeCorrect == Spec => []TypeOK
<1>1. Spec => []TypeInv
  BY InitType, StepType, PTL DEF Spec
<1>2. TypeInv => TypeOK
  BY DEF TypeInv
<1> QED
  BY <1>1, <1>2, PTL

-----------------------------------------------------------------------------
(* The versions of the Agent.                                              *)
(*                                                                         *)
(* The argument is optimistic concurrency: an operator knows the Agent     *)
(* only by versions the API server stored, each write makes a later one,   *)
(* so a version with the stored version number is the stored Agent, and a  *)
(* status write that is accepted was computed from what it replaces.       *)

(* A version an operator holds is the stored Agent or older than it. *)
Behind(v) == v.rv < agent.rv \/ v = agent

Coherent ==
  /\ \A o \in Operators : Behind(agentCache[o])
  /\ \A o \in Operators : \A i \in 1..Len(agentInbox[o]) : Behind(agentInbox[o][i])
  /\ \A o \in Operators : work[o].pc # "idle" => Behind(work[o].snap)

(* No Reconcile call takes up another snapshot. *)
Continues ==
  \A o \in Operators :
    work'[o].pc # "idle" => work[o].pc # "idle" /\ work'[o].snap = work[o].snap

LEMMA WorkContinues ==
  ASSUME TypeInv, NEW o \in Operators, NEW pc \in PCs
  PROVE  /\ work' = work => Continues
         /\ Finish(o) => Continues
         /\ work[o].pc # "idle" /\ Goto(o, pc) => Continues
<1>1. work \in [Operators -> [pc : PCs, snap : AgentVersion]]
  BY DEF TypeInv, TypeOK
<1>2. Idle.pc = "idle"
  BY DEF Idle
<1> QED
  BY <1>1, <1>2 DEF Continues, Finish, Goto

(* What a write of the Agent does to its version number. *)
Written ==
  /\ agent' \in AgentVersion
  /\ agent'.rv = agent.rv + 1
  /\ agentInbox' = [o \in Operators |-> Append(agentInbox[o], agent')]
  /\ agentCache' = agentCache

LEMMA WriteVersion ==
  ASSUME TypeInv, TypeInv', NEW new, WriteAgent(new), agentCache' = agentCache,
         new \in AgentVersion
  PROVE  Written
  BY DEF Written, WriteAgent, TypeInv, TypeOK, AgentVersion

(* An accepted write makes every version held older than the stored one. *)
LEMMA CoherentWrite ==
  ASSUME TypeInv, Coherent, Written, Continues
  PROVE  Coherent'
<1>2. agent.rv \in Nat /\ agent'.rv = agent.rv + 1
  BY DEF AgentVersion, TypeInv, TypeOK, Written
<1>3. ASSUME NEW v \in AgentVersion, Behind(v) PROVE v.rv < agent'.rv
  <2>1. v.rv \in Nat
    BY DEF AgentVersion
  <2> QED
    BY <1>2, <1>3, <2>1, SMT DEF Behind
<1>4. ASSUME NEW o \in Operators PROVE Behind(agentCache[o])'
  BY <1>3, <1>4 DEF Coherent, Behind, Written, TypeInv, TypeOK
<1>5. ASSUME NEW o \in Operators, NEW i \in 1..Len(agentInbox'[o])
      PROVE  Behind(agentInbox[o][i])'
  <2>1. agentInbox'[o] = Append(agentInbox[o], agent') /\ agentInbox[o] \in Seq(AgentVersion)
    BY DEF Written, TypeInv, TypeOK
  <2>2. CASE i \in 1..Len(agentInbox[o])
    <3>1. /\ agentInbox'[o][i] = agentInbox[o][i] /\ Behind(agentInbox[o][i])
          /\ agentInbox[o][i] \in AgentVersion
      BY <2>1, <2>2 DEF Coherent
    <3> QED
      BY <3>1, <1>3 DEF Behind
  <2>3. CASE i = Len(agentInbox[o]) + 1
    BY <2>1, <2>3 DEF Behind
  <2> QED
    BY <1>5, <2>1, <2>2, <2>3
<1>6. ASSUME NEW o \in Operators, work'[o].pc # "idle" PROVE Behind(work[o].snap)'
  BY <1>3, <1>6 DEF Coherent, Continues, Behind, TypeInv, TypeOK
<1> QED
  BY <1>4, <1>5, <1>6 DEF Coherent

LEMMA CoherentInit == Init => Coherent
  BY DEF Init, Coherent, Behind, Idle

(* The actions that write the Agent. *)
AgentWrite ==
  \/ \E s \in Specs : CreateAgent(s) \/ EditSpec(s)
  \/ DeleteAgent
  \/ ReportTokens
  \/ \E o \in Operators : UpdateStatusReady(o)
  \/ \E o \in Operators : UpdateStatusNotReady(o) /\ NotReadyStatus(work[o].snap) # agent.status

LEMMA AgentWriteVersion ==
  ASSUME TypeInv, TypeInv', AgentWrite
  PROVE  Written /\ Continues
<1> USE DEF TypeInv, TypeOK
<1>0. agent.rv \in Nat /\ agent \in AgentVersion /\ agent' \in AgentVersion
      /\ NoAgent.rv = 0
  BY DEF AgentVersion, NoAgent
<1>1. ASSUME NEW s \in Specs, CreateAgent(s) PROVE Written /\ Continues
  <2>1. agent'.rv = agent.rv + 1
    BY <1>1 DEF CreateAgent, WriteAgent, NoAgent
  <2> QED
    BY <1>0, <1>1, <2>1 DEF CreateAgent, WriteAgent, Written, Continues
<1>2. ASSUME NEW s \in Specs, EditSpec(s) PROVE Written /\ Continues
  <2>1. agent'.rv = agent.rv + 1
    BY <1>0, <1>2 DEF EditSpec, WriteAgent, AgentVersion
  <2> QED
    BY <1>0, <1>2, <2>1 DEF EditSpec, WriteAgent, Written, Continues
<1>3. CASE DeleteAgent
  <2>1. agent'.rv = agent.rv + 1
    BY <1>3 DEF DeleteAgent, WriteAgent, NoAgent
  <2> QED
    BY <1>0, <1>3, <2>1 DEF DeleteAgent, WriteAgent, Written, Continues
<1>4. CASE ReportTokens
  <2>1. agent'.rv = agent.rv + 1
    BY <1>0, <1>4 DEF ReportTokens, WriteAgent, AgentVersion
  <2> QED
    BY <1>0, <1>4, <2>1 DEF ReportTokens, WriteAgent, Written, Continues
<1>5. ASSUME NEW o \in Operators, UpdateStatusReady(o) PROVE Written /\ Continues
  <2>1. agent'.rv = agent.rv + 1
    BY <1>0, <1>5 DEF UpdateStatusReady, WriteAgent, AgentVersion
  <2>2. Continues
    BY <1>5, WorkContinues DEF UpdateStatusReady
  <2> QED
    BY <1>0, <1>5, <2>1, <2>2 DEF UpdateStatusReady, WriteAgent, Written
<1>6. ASSUME NEW o \in Operators, UpdateStatusNotReady(o),
             NotReadyStatus(work[o].snap) # agent.status
      PROVE  Written /\ Continues
  <2>0. WriteAgent([agent EXCEPT !.status = NotReadyStatus(work[o].snap)])
    BY <1>6 DEF UpdateStatusNotReady
  <2>1. agent'.rv = agent.rv + 1
    BY <1>0, <2>0 DEF WriteAgent, AgentVersion
  <2>2. Continues
    BY <1>6, WorkContinues DEF UpdateStatusNotReady, Fail
  <2> QED
    BY <1>0, <1>6, <2>0, <2>1, <2>2 DEF UpdateStatusNotReady, WriteAgent, Written
<1> QED
  BY <1>1, <1>2, <1>3, <1>4, <1>5, <1>6 DEF AgentWrite

(* Every other step leaves the Agent alone. *)
LEMMA AgentOnlyWritten ==
  ASSUME [Next]_vars, ~AgentWrite
  PROVE  UNCHANGED agent
<1> USE DEF apiVars
<1>1. CASE UNCHANGED vars
  BY <1>1 DEF vars
<1>2. CASE Environment
  BY <1>2 DEF Environment, AgentWrite, CollectGarbage, ChangeDependencies
<1>3. ASSUME NEW o \in Operators, Operator(o) PROVE UNCHANGED agent
  <2>1. CASE Reconcile(o)
    BY <2>1 DEF Reconcile, AgentWrite, ReconcileNotFound, ReconcileUnresolved, ReconcileBegin,
         ChildUpToDate, EnsureChild, EnsureChildFails, DeleteService, DeleteServiceFails,
         UpdateStatusNotReady, UpdateStatusFails, vars
  <2> QED
    BY <1>3, <2>1 DEF Operator, DeliverAgent, DeliverChild, Restart
<1> QED
  BY <1>1, <1>2, <1>3 DEF Next

(* How a step can change what the operators know of the Agent. *)
LEMMA KnowledgeSteps ==
  ASSUME TypeInv, TypeInv', [Next]_vars
  PROVE  \/ AgentWrite /\ Written /\ Continues
         \/ UNCHANGED agent /\ \E o \in Operators : ReconcileBegin(o) \/ DeliverAgent(o) \/ Restart(o)
         \/ UNCHANGED <<agent, agentCache, agentInbox>> /\ Continues
<1> USE DEF apiVars, infVars, envVars
<1> DEFINE Unknowing == UNCHANGED <<agent, agentCache, agentInbox>> /\ Continues
<1>1. CASE AgentWrite
  BY <1>1, AgentWriteVersion
<1>2. CASE UNCHANGED vars
  BY <1>2 DEF vars, Continues
<1>3. CASE Environment /\ ~AgentWrite
  BY <1>3 DEF Environment, AgentWrite, CollectGarbage, ChangeDependencies, Continues
<1>4. ASSUME NEW o \in Operators, Operator(o), ~AgentWrite,
             ~ReconcileBegin(o), ~DeliverAgent(o), ~Restart(o)
      PROVE  Unknowing
  <2>1. CASE ReconcileNotFound(o) \/ ReconcileUnresolved(o)
    BY <2>1 DEF ReconcileNotFound, ReconcileUnresolved, Continues, vars
  <2>2. ASSUME NEW k \in Kinds,
               ChildUpToDate(o, k) \/ EnsureChild(o, k) \/ EnsureChildFails(o, k)
        PROVE  Unknowing
    <3>1. After(k) \in PCs /\ k # "idle"
      BY DEF After
    <3>2. Goto(o, After(k)) \/ Finish(o)
      BY <2>2 DEF ChildUpToDate, EnsureChild, EnsureChildFails, Fail
    <3>3. work[o].pc = k
      BY <2>2 DEF ChildUpToDate, EnsureChild, EnsureChildFails, MustWrite
    <3>4. Continues
      BY <3>1, <3>2, <3>3, WorkContinues
    <3> QED
      BY <2>2, <3>4 DEF ChildUpToDate, EnsureChild, EnsureChildFails
  <2>3. CASE DeleteService(o) \/ DeleteServiceFails(o)
    <3>1. work[o].pc = "Service" /\ (Goto(o, "status") \/ Finish(o))
      BY <2>3 DEF DeleteService, DeleteServiceFails, Fail
    <3>2. Continues
      BY <3>1, WorkContinues
    <3> QED
      BY <2>3, <3>2 DEF DeleteService, DeleteServiceFails
  <2>4. CASE UpdateStatusNotReady(o) \/ UpdateStatusFails(o)
    <3>1. Continues
      BY <2>4, WorkContinues DEF UpdateStatusNotReady, UpdateStatusFails, Fail
    <3>2. UNCHANGED <<agent, agentCache, agentInbox>>
      BY <2>4, <1>4 DEF UpdateStatusNotReady, UpdateStatusFails, AgentWrite
    <3> QED
      BY <3>1, <3>2
  <2>5. ASSUME NEW k \in Kinds, DeliverChild(o, k) PROVE Unknowing
    BY <2>5 DEF DeliverChild, Continues
  <2> QED
    BY <1>4, <2>1, <2>2, <2>3, <2>4, <2>5 DEF Operator, Reconcile, AgentWrite
<1> QED
  BY <1>1, <1>2, <1>3, <1>4, AgentOnlyWritten DEF Next

LEMMA CoherentStep == TypeInv /\ Coherent /\ [Next]_vars => Coherent'
<1> SUFFICES ASSUME TypeInv, Coherent, [Next]_vars PROVE Coherent'
  OBVIOUS
<1>0. TypeInv'
  BY StepType
<1> USE DEF TypeInv, TypeOK, apiVars, infVars, envVars
<1>1. CASE Written /\ Continues
  BY <1>1, CoherentWrite
<1>2. CASE UNCHANGED <<agent, agentCache, agentInbox>> /\ Continues
  BY <1>2 DEF Coherent, Continues, Behind
<1>3. ASSUME NEW o \in Operators, ReconcileBegin(o) PROVE Coherent'
  BY <1>3 DEF ReconcileBegin, Coherent, Behind
<1>4. ASSUME NEW o \in Operators, DeliverAgent(o) PROVE Coherent'
  <2>1. /\ agentInbox[o] \in Seq(AgentVersion) /\ agentInbox[o] # <<>>
        /\ agentCache' = [agentCache EXCEPT ![o] = Head(agentInbox[o])]
        /\ agentInbox' = [agentInbox EXCEPT ![o] = Tail(agentInbox[o])]
        /\ agent' = agent /\ work' = work
    BY <1>4 DEF DeliverAgent
  <2>2. /\ Behind(Head(agentInbox[o]))
        /\ \A i \in 1..Len(Tail(agentInbox[o])) : Behind(Tail(agentInbox[o])[i])
    BY <2>1, HeadTailProperties DEF Coherent
  <2> QED
    BY <2>1, <2>2 DEF Coherent, Behind
<1>5. ASSUME NEW o \in Operators, Restart(o) PROVE Coherent'
  <2>1. /\ agentCache' = [agentCache EXCEPT ![o] = agent]
        /\ agentInbox' = [agentInbox EXCEPT ![o] = <<>>]
        /\ agent' = agent
    BY <1>5 DEF Restart
  <2>2. Continues
    BY <1>5, WorkContinues DEF Restart
  <2>3. ASSUME NEW p \in Operators, NEW i \in 1..Len(agentInbox'[p])
        PROVE  Behind(agentInbox'[p][i])
    BY <2>1, <2>3 DEF Coherent
  <2> QED
    BY <2>1, <2>2, <2>3 DEF Coherent, Behind, Continues
<1> QED
  BY <1>0, <1>1, <1>2, <1>3, <1>4, <1>5, KnowledgeSteps

-----------------------------------------------------------------------------
(* The trail. *)

TrailInv ==
  /\ agent.uid = 0 => agent.spec = NoSpec /\ agent.status.merkleRoot = <<>>
  /\ agent.status.checkpointCount = Len(agent.status.merkleRoot)

(* A status write that is accepted was computed from the stored Agent. *)
LEMMA AcceptedIsCurrent ==
  ASSUME TypeInv, Coherent, NEW o \in Operators,
         work[o].pc # "idle", StatusAccepts(work[o].snap)
  PROVE  work[o].snap = agent /\ Exists(agent)
<1>1. agent.rv \in Nat /\ Behind(work[o].snap) /\ Exists(work[o].snap)
  BY DEF TypeInv, TypeOK, SnapshotsExist, AgentVersion, Coherent
<1> QED
  BY <1>1 DEF StatusAccepts, Behind

(* What the accepted writes put into the store. *)
LEMMA ReadyWrites ==
  ASSUME TypeInv, Coherent, NEW o \in Operators, UpdateStatusReady(o)
  PROVE  /\ Exists(agent)
         /\ agent'.uid = agent.uid /\ agent'.spec = agent.spec
         /\ agent'.status = ReadyStatus(agent)
<1>1. work[o].snap = agent /\ Exists(agent)
  BY AcceptedIsCurrent DEF UpdateStatusReady
<1> QED
  BY <1>1 DEF UpdateStatusReady, WriteAgent, TypeInv, TypeOK, AgentVersion

LEMMA NotReadyWrites ==
  ASSUME TypeInv, Coherent, NEW o \in Operators, UpdateStatusNotReady(o),
         NotReadyStatus(work[o].snap) # agent.status
  PROVE  /\ Exists(agent)
         /\ agent'.uid = agent.uid /\ agent'.spec = agent.spec
         /\ agent'.status = NotReadyStatus(agent)
<1>1. work[o].snap = agent /\ Exists(agent)
  BY AcceptedIsCurrent DEF UpdateStatusNotReady
<1> QED
  BY <1>1 DEF UpdateStatusNotReady, WriteAgent, TypeInv, TypeOK, AgentVersion

LEMMA TrailInit == Init => TrailInv /\ Trail!Init
  BY DEF Init, TrailInv, Trail!Init, NoAgent, EmptyStatus

(* One step of the controller is one step of the trail, or none. *)
LEMMA TrailStep ==
  TypeInv /\ Coherent /\ TrailInv /\ [Next]_vars => TrailInv' /\ [Trail!Next]_(Trail!vars)
<1> SUFFICES ASSUME TypeInv, Coherent, TrailInv, [Next]_vars
             PROVE  TrailInv' /\ [Trail!Next]_(Trail!vars)
  OBVIOUS
<1> USE DEF TypeInv, TypeOK, TrailInv
<1>0. agent \in AgentVersion /\ agent.status \in AgentStatus
      /\ agent.status.merkleRoot \in Seq(Checkpoint)
  BY DEF AgentVersion, AgentStatus
<1>1. CASE UNCHANGED agent
  BY <1>1 DEF Trail!vars
<1>2. ASSUME NEW s \in Specs, CreateAgent(s) PROVE TrailInv' /\ [Trail!Next]_(Trail!vars)
  <2>1. /\ agent'.uid = lives + 1 /\ agent'.spec = s /\ agent'.status = EmptyStatus
        /\ agent.uid = 0
    BY <1>2 DEF CreateAgent, WriteAgent, NoAgent
  <2>2. agent'.status.merkleRoot = <<>> /\ agent'.status.checkpointCount = 0
    BY <2>1 DEF EmptyStatus
  <2>3. lives + 1 # 0 /\ Len(<<>>) = 0
    OBVIOUS
  <2> QED
    BY <2>1, <2>2, <2>3 DEF Trail!Next, Trail!StartAfresh
<1>3. ASSUME NEW s \in Specs, EditSpec(s) PROVE TrailInv' /\ [Trail!Next]_(Trail!vars)
  <2>1. /\ agent'.uid = agent.uid /\ agent'.spec = s /\ agent'.status = agent.status
        /\ agent.uid # 0
    BY <1>0, <1>3 DEF EditSpec, WriteAgent, AgentVersion
  <2> QED
    BY <2>1 DEF Trail!Next, Trail!ChangeSpec
<1>4. CASE DeleteAgent
  <2>1. agent'.uid = 0 /\ agent'.spec = NoSpec /\ agent'.status = EmptyStatus /\ agent.uid # 0
    BY <1>4 DEF DeleteAgent, WriteAgent, NoAgent
  <2> QED
    BY <2>1 DEF EmptyStatus, Trail!Next, Trail!StartAfresh
<1>5. CASE ReportTokens
  <2>1. /\ agent'.uid = agent.uid /\ agent'.spec = agent.spec
        /\ agent'.status = [agent.status EXCEPT !.tokensUsed = @ + 1]
    BY <1>0, <1>5 DEF ReportTokens, WriteAgent, AgentVersion
  <2>2. /\ agent'.status.merkleRoot = agent.status.merkleRoot
        /\ agent'.status.checkpointCount = agent.status.checkpointCount
    BY <1>0, <2>1 DEF AgentStatus
  <2> QED
    BY <2>1, <2>2 DEF Trail!vars
<1>6. ASSUME NEW o \in Operators, UpdateStatusReady(o)
      PROVE  TrailInv' /\ [Trail!Next]_(Trail!vars)
  <2>1. /\ Exists(agent) /\ agent'.uid = agent.uid /\ agent'.spec = agent.spec
        /\ agent'.status = ReadyStatus(agent)
    BY <1>6, ReadyWrites
  <2>2. /\ agent'.status.merkleRoot =
             Append(agent.status.merkleRoot,
                    [spec |-> agent.spec, count |-> Len(agent.status.merkleRoot) + 1])
        /\ agent'.status.checkpointCount = Len(agent.status.merkleRoot) + 1
    BY <2>1 DEF ReadyStatus, ComputeMerkleRoot, NextCheckpoint
  <2> QED
    BY <1>0, <2>1, <2>2 DEF Exists, Trail!Next, Trail!Record
<1>7. ASSUME NEW o \in Operators, UpdateStatusNotReady(o),
             NotReadyStatus(work[o].snap) # agent.status
      PROVE  TrailInv' /\ [Trail!Next]_(Trail!vars)
  <2>1. /\ agent'.uid = agent.uid /\ agent'.spec = agent.spec
        /\ agent'.status = NotReadyStatus(agent)
    BY <1>7, NotReadyWrites
  <2>2. /\ agent'.status.merkleRoot = agent.status.merkleRoot
        /\ agent'.status.checkpointCount = agent.status.checkpointCount
    BY <1>0, <2>1 DEF NotReadyStatus, AgentStatus
  <2> QED
    BY <2>1, <2>2 DEF Trail!vars
<1> QED
  BY <1>1, <1>2, <1>3, <1>4, <1>5, <1>6, <1>7, AgentOnlyWritten DEF AgentWrite

(* The Merkle chain implements the audit trail: whatever operators run at  *)
(* the same time, with whatever stale caches, crashes and conflicts, the   *)
(* chain grows only by the spec in force, under the next number.           *)
THEOREM TrailRefinement == Spec => TrailSpec
<1>1. Spec => []TypeInv
  BY InitType, StepType, PTL DEF Spec
<1>2. Spec => []Coherent
  BY <1>1, CoherentInit, CoherentStep, PTL DEF Spec
<1>3. Init => Trail!Init
  BY TrailInit
<1>4. Spec => [][Trail!Next]_(Trail!vars)
  BY <1>1, <1>2, TrailInit, TrailStep, PTL DEF Spec
<1> QED
  BY <1>3, <1>4, PTL DEF Spec, TrailSpec, Trail!Spec

-----------------------------------------------------------------------------
(* What the audit trail says is true: its proof chain is the tail of the   *)
(* Merkle chain, its entries are specs that were deployed, and the status  *)
(* writes that extend it lose no token report.                             *)

(* Writes other than the controller's Ready write keep both chains or, for *)
(* a new or deleted Agent, empty them.                                     *)
LEMMA OtherWrites ==
  ASSUME TypeInv, Coherent, [Next]_vars, ~\E o \in Operators : UpdateStatusReady(o)
  PROVE  \/ agent'.status = EmptyStatus /\ agent'.uid # agent.uid
         \/ /\ agent'.uid = agent.uid
            /\ agent'.status.merkleRoot = agent.status.merkleRoot
            /\ agent'.status.zkProofRoot = agent.status.zkProofRoot
            /\ agent'.status.tokensUsed >= agent.status.tokensUsed
<1> USE DEF TypeInv, TypeOK
<1>0. agent \in AgentVersion /\ agent.status \in AgentStatus /\ agent.status.tokensUsed \in Nat
  BY DEF AgentVersion, AgentStatus
<1>1. CASE UNCHANGED agent
  BY <1>0, <1>1
<1>2. ASSUME NEW s \in Specs, CreateAgent(s)
      PROVE  agent'.status = EmptyStatus /\ agent'.uid # agent.uid
  BY <1>2 DEF CreateAgent, WriteAgent, NoAgent
<1>3. ASSUME NEW s \in Specs, EditSpec(s)
      PROVE  agent'.uid = agent.uid /\ agent'.status = agent.status
  BY <1>0, <1>3 DEF EditSpec, WriteAgent, AgentVersion
<1>4. ASSUME DeleteAgent PROVE agent'.status = EmptyStatus /\ agent'.uid # agent.uid
  BY <1>4 DEF DeleteAgent, WriteAgent, NoAgent
<1>5. ASSUME ReportTokens
      PROVE  agent'.uid = agent.uid /\ agent'.status = [agent.status EXCEPT !.tokensUsed = @ + 1]
  BY <1>0, <1>5 DEF ReportTokens, WriteAgent, AgentVersion
<1>6. ASSUME NEW o \in Operators, UpdateStatusNotReady(o),
             NotReadyStatus(work[o].snap) # agent.status
      PROVE  agent'.uid = agent.uid /\ agent'.status = NotReadyStatus(agent)
  BY <1>6, NotReadyWrites
<1>7. ASSUME agent'.status = [agent.status EXCEPT !.tokensUsed = @ + 1]
      PROVE  /\ agent'.status.merkleRoot = agent.status.merkleRoot
             /\ agent'.status.zkProofRoot = agent.status.zkProofRoot
             /\ agent'.status.tokensUsed >= agent.status.tokensUsed
  BY <1>0, <1>7 DEF AgentStatus
<1>8. ASSUME agent'.status = NotReadyStatus(agent)
      PROVE  /\ agent'.status.merkleRoot = agent.status.merkleRoot
             /\ agent'.status.zkProofRoot = agent.status.zkProofRoot
             /\ agent'.status.tokensUsed >= agent.status.tokensUsed
  BY <1>0, <1>8 DEF AgentStatus, NotReadyStatus
<1> QED
  BY <1>0, <1>1, <1>2, <1>3, <1>4, <1>5, <1>6, <1>7, <1>8, AgentOnlyWritten DEF AgentWrite

(* The token counter of an Agent never goes back. *)
THEOREM TokensKept == Spec => TokensNeverLost
<1>1. Spec => [](TypeInv /\ Coherent)
  BY InitType, StepType, CoherentInit, CoherentStep, PTL DEF Spec
<1>2. TypeInv /\ Coherent /\ [Next]_vars
        => [agent'.uid = agent.uid => agent'.status.tokensUsed >= agent.status.tokensUsed]_agent
  <2> SUFFICES ASSUME TypeInv, Coherent, [Next]_vars, agent'.uid = agent.uid
               PROVE  agent'.status.tokensUsed >= agent.status.tokensUsed
    OBVIOUS
  <2>1. ASSUME NEW o \in Operators, UpdateStatusReady(o)
        PROVE  agent'.status.tokensUsed = agent.status.tokensUsed
    BY <2>1, ReadyWrites DEF ReadyStatus
  <2>2. agent.status.tokensUsed \in Nat
    BY DEF TypeInv, TypeOK, AgentVersion, AgentStatus
  <2> QED
    BY <2>1, <2>2, OtherWrites
<1> QED
  BY <1>1, <1>2, PTL DEF Spec, TokensNeverLost

(* The proof chain is the tail of the Merkle chain. *)
THEOREM ProofChainTail == Spec => []ProofChainIsTailOfMerkleChain
<1>1. Spec => [](TypeInv /\ Coherent)
  BY InitType, StepType, CoherentInit, CoherentStep, PTL DEF Spec
<1>2. Init => ProofChainIsTailOfMerkleChain
  BY DEF Init, NoAgent, EmptyStatus, ProofChainIsTailOfMerkleChain
<1>3. TypeInv /\ Coherent /\ ProofChainIsTailOfMerkleChain /\ [Next]_vars
        => ProofChainIsTailOfMerkleChain'
  <2> SUFFICES ASSUME TypeInv, Coherent, ProofChainIsTailOfMerkleChain, [Next]_vars
               PROVE  ProofChainIsTailOfMerkleChain'
    OBVIOUS
  <2> DEFINE m == agent.status.merkleRoot
             z == agent.status.zkProofRoot
             c == NextCheckpoint(agent)
  <2>a. agent.status \in AgentStatus /\ agent.status.checkpointCount \in Nat
    BY DEF TypeInv, TypeOK, AgentVersion, AgentStatus
  <2>b. m \in Seq(Checkpoint) /\ z \in Seq(Checkpoint)
    BY <2>a DEF AgentStatus
  <2>c. /\ Len(z) <= Len(m)
        /\ \A i \in 1..Len(z) : z[i] = m[Len(m) - Len(z) + i] /\ z[i].spec \in Verified
    BY DEF ProofChainIsTailOfMerkleChain
  <2>0. /\ m \in Seq(Checkpoint) /\ z \in Seq(Checkpoint)
        /\ Len(z) <= Len(m) /\ Len(z) \in Nat /\ Len(m) \in Nat
        /\ \A i \in 1..Len(z) : z[i] = m[Len(m) - Len(z) + i] /\ z[i].spec \in Verified
    <3> HIDE DEF m, z
    <3> QED
      BY <2>b, <2>c
  <2>1. ASSUME NEW o \in Operators, UpdateStatusReady(o) PROVE ProofChainIsTailOfMerkleChain'
    <3>a. agent'.status = ReadyStatus(agent) /\ Exists(agent)
      BY <2>1, ReadyWrites
    <3>b. m' = Append(m, c) /\ z' = GenerateStepProof(agent)
      BY <3>a DEF ReadyStatus, ComputeMerkleRoot
    <3>c. c.spec = agent.spec
      BY DEF NextCheckpoint
    <3>1. /\ m' = Append(m, c)
          /\ z' = IF agent.spec \in Verified THEN Append(z, c) ELSE <<>>
          /\ c.spec = agent.spec
      BY <3>b, <3>c DEF GenerateStepProof
    <3>2. c \in Checkpoint
      BY <2>a, <3>a DEF NextCheckpoint, Checkpoint, Exists
    <3> HIDE DEF m, z, c
    <3>3. CASE agent.spec \in Verified
      <4>1. /\ z' = Append(z, c) /\ Len(z') = Len(z) + 1 /\ Len(m') = Len(m) + 1
            /\ z'[Len(z) + 1] = c /\ m'[Len(m) + 1] = c
        BY <2>0, <3>1, <3>2, <3>3
      <4>2. ASSUME NEW i \in 1..Len(z)
            PROVE  z'[i] = z[i] /\ m'[Len(m) - Len(z) + i] = m[Len(m) - Len(z) + i]
        <5>1. Len(m) - Len(z) + i \in 1..Len(m)
          BY <2>0
        <5> QED
          BY <2>0, <3>1, <3>2, <4>1, <5>1
      <4>3. ASSUME NEW i \in 1..Len(z')
            PROVE  z'[i] = m'[Len(m') - Len(z') + i] /\ z'[i].spec \in Verified
        <5>1. Len(m') - Len(z') + i = Len(m) - Len(z) + i
          BY <2>0, <4>1
        <5>2. CASE i \in 1..Len(z)
          BY <2>0, <4>2, <5>1, <5>2
        <5>3. CASE i = Len(z) + 1
          BY <2>0, <3>1, <3>3, <4>1, <5>1, <5>3
        <5> QED
          BY <2>0, <4>1, <5>2, <5>3
      <4>4. Len(z') <= Len(m')
        BY <2>0, <4>1
      <4>5. \A i \in 1..Len(z') : z'[i] = m'[Len(m') - Len(z') + i] /\ z'[i].spec \in Verified
        BY <4>3
      <4> USE DEF m, z
      <4> QED
        BY <4>4, <4>5 DEF ProofChainIsTailOfMerkleChain
    <3>4. CASE agent.spec \notin Verified
      <4>1. z' = <<>> /\ Len(m') \in Nat
        BY <2>0, <3>1, <3>2, <3>4
      <4>2. Len(z') = 0 /\ Len(z') <= Len(m')
        BY <4>1
      <4>3. /\ Len(agent'.status.zkProofRoot) = 0
            /\ Len(agent'.status.zkProofRoot) <= Len(agent'.status.merkleRoot)
        BY <4>2 DEF m, z
      <4>4. \A i \in 1..Len(agent'.status.zkProofRoot) : FALSE
        BY <4>3
      <4> QED
        BY <4>3, <4>4 DEF ProofChainIsTailOfMerkleChain
    <3> QED
      BY <3>3, <3>4
  <2>2. CASE ~\E o \in Operators : UpdateStatusReady(o)
    <3>1. CASE m' = m /\ z' = z
      BY <3>1 DEF ProofChainIsTailOfMerkleChain
    <3>2. CASE agent'.status = EmptyStatus
      BY <3>2 DEF EmptyStatus, ProofChainIsTailOfMerkleChain
    <3> QED
      BY <2>2, <3>1, <3>2, OtherWrites
  <2> QED
    BY <2>1, <2>2
<1> QED
  BY <1>1, <1>2, <1>3, PTL DEF Spec

-----------------------------------------------------------------------------
(* The entries of the trail were deployed. *)

(* A Deployment, stored or held in a cache, was built from an applied spec. *)
Built(c) == c.owner # 0 => <<c.owner, c.built>> \in applied

AppliedInv ==
  /\ Built(child["Deployment"])
  /\ \A o \in Operators : Built(childCache[o]["Deployment"])
  /\ \A o \in Operators : \A i \in 1..Len(childInbox[o]["Deployment"]) :
       Built(childInbox[o]["Deployment"][i])
  /\ \A o \in Operators : work[o].pc \in {"Service", "status"} =>
       <<work[o].snap.uid, work[o].snap.spec>> \in applied

(* History only grows. *)
LEMMA AppliedGrows == [Next]_vars => applied \subseteq applied'
<1> USE DEF envVars
<1>1. CASE UNCHANGED vars
  BY <1>1 DEF vars
<1>2. CASE Environment
  BY <1>2 DEF Environment, CreateAgent, EditSpec, DeleteAgent, ReportTokens, CollectGarbage,
              ChangeDependencies
<1>3. ASSUME NEW o \in Operators, Operator(o) PROVE applied \subseteq applied'
  <2>1. CASE Reconcile(o)
    BY <2>1 DEF Reconcile, ReconcileNotFound, ReconcileUnresolved, ReconcileBegin, ChildUpToDate,
         EnsureChild, RecordApplied, EnsureChildFails, DeleteService, DeleteServiceFails,
         UpdateStatusReady, UpdateStatusNotReady, UpdateStatusFails, vars
  <2> QED
    BY <1>3, <2>1 DEF Operator, DeliverAgent, DeliverChild, Restart
<1> QED
  BY <1>1, <1>2, <1>3 DEF Next

LEMMA AppliedInit == Init => AppliedInv /\ AuditedWasApplied
  BY DEF Init, AppliedInv, AuditedWasApplied, Built, NoChild, Idle, NoAgent, EmptyStatus

(* What a step leaves unchanged stays applied. *)
LEMMA AppliedKept ==
  ASSUME TypeInv, AppliedInv, applied \subseteq applied',
         UNCHANGED <<child, childCache, childInbox>>,
         \A o \in Operators : work'[o].pc \in {"Service", "status"} =>
            work'[o] = work[o] \/ <<work'[o].snap.uid, work'[o].snap.spec>> \in applied'
  PROVE  AppliedInv'
  BY DEF AppliedInv, Built

(* A write of a Deployment from an applied spec keeps everything applied. *)
LEMMA AppliedWrite ==
  ASSUME TypeInv, TypeInv', AppliedInv, applied \subseteq applied',
         NEW k \in Kinds, NEW new \in ChildVersion, WriteChild(k, new),
         childCache' = childCache,
         k = "Deployment" => Built(new)',
         \A o \in Operators : work'[o].pc \in {"Service", "status"} =>
            work'[o] = work[o] \/ <<work'[o].snap.uid, work'[o].snap.spec>> \in applied'
  PROVE  AppliedInv'
<1> DEFINE v == [new EXCEPT !.ver = child[k].ver + 1]
<1> USE DEF TypeInv, TypeOK
<1>1. /\ child' = [child EXCEPT ![k] = v]
      /\ childInbox' = [o \in Operators |-> [childInbox[o] EXCEPT ![k] = Append(@, v)]]
  BY DEF WriteChild
<1>2. v.owner = new.owner /\ v.built = new.built
  BY DEF ChildVersion
<1>3. k = "Deployment" => (v.owner # 0 => <<v.owner, v.built>> \in applied')
  BY <1>2 DEF Built
<1> HIDE DEF v
<1>4. Built(child["Deployment"])'
  <2>1. CASE k = "Deployment"
    <3>1. child'["Deployment"] = v
      BY <1>1, <2>1
    <3> QED
      BY <1>3, <2>1, <3>1 DEF Built
  <2>2. CASE k # "Deployment"
    <3>1. child'["Deployment"] = child["Deployment"]
      BY <1>1, <2>2
    <3> QED
      BY <3>1 DEF AppliedInv, Built
  <2> QED
    BY <2>1, <2>2
<1>5. ASSUME NEW o \in Operators, NEW i \in 1..Len(childInbox'[o]["Deployment"])
      PROVE  Built(childInbox[o]["Deployment"][i])'
  <2>1. childInbox[o]["Deployment"] \in Seq(ChildVersion)
    OBVIOUS
  <2>2. CASE k # "Deployment"
    <3>1. childInbox'[o]["Deployment"] = childInbox[o]["Deployment"]
      BY <1>1, <2>2
    <3>2. Built(childInbox[o]["Deployment"][i])
      BY <1>5, <3>1 DEF AppliedInv
    <3> QED
      BY <3>1, <3>2 DEF Built
  <2>3. CASE k = "Deployment"
    <3>1. childInbox'[o]["Deployment"] = Append(childInbox[o]["Deployment"], v)
      BY <1>1, <2>3
    <3>2. CASE i \in 1..Len(childInbox[o]["Deployment"])
      <4>1. childInbox'[o]["Deployment"][i] = childInbox[o]["Deployment"][i]
        BY <2>1, <3>1, <3>2
      <4>2. Built(childInbox[o]["Deployment"][i])
        BY <3>2 DEF AppliedInv
      <4> QED
        BY <4>1, <4>2 DEF Built
    <3>3. CASE i = Len(childInbox[o]["Deployment"]) + 1
      <4>1. childInbox'[o]["Deployment"][i] = v
        BY <2>1, <3>1, <3>3
      <4> QED
        BY <1>3, <2>3, <4>1 DEF Built
    <3> QED
      BY <1>5, <2>1, <3>1, <3>2, <3>3
  <2> QED
    BY <2>2, <2>3
<1> QED
  BY <1>4, <1>5 DEF AppliedInv, Built

LEMMA AppliedStep ==
  TypeInv /\ Coherent /\ AppliedInv /\ AuditedWasApplied /\ [Next]_vars
    => AppliedInv' /\ AuditedWasApplied'
<1> SUFFICES ASSUME TypeInv, Coherent, AppliedInv, AuditedWasApplied, [Next]_vars
             PROVE  AppliedInv' /\ AuditedWasApplied'
  OBVIOUS
<1>0. TypeInv' /\ applied \subseteq applied'
  BY StepType, AppliedGrows
<1> USE DEF TypeInv, TypeOK, apiVars, infVars, envVars
<1>1. AuditedWasApplied'
  <2>0. agent.status.merkleRoot \in Seq(Checkpoint)
    BY DEF AgentVersion, AgentStatus
  <2>1. ASSUME NEW o \in Operators, UpdateStatusReady(o) PROVE AuditedWasApplied'
    <3>1. /\ agent'.status = ReadyStatus(agent) /\ Exists(agent) /\ agent'.uid = agent.uid
          /\ work[o].snap = agent
      BY <2>1, ReadyWrites, AcceptedIsCurrent DEF UpdateStatusReady
    <3>2. agent'.status.merkleRoot = Append(agent.status.merkleRoot, NextCheckpoint(agent))
      BY <3>1 DEF ReadyStatus, ComputeMerkleRoot
    <3>3. <<agent.uid, agent.spec>> \in applied'
      BY <1>0, <2>1, <3>1 DEF AppliedInv, UpdateStatusReady
    <3>4. ASSUME NEW i \in 1..Len(agent'.status.merkleRoot)
          PROVE  <<agent'.uid, agent'.status.merkleRoot[i].spec>> \in applied'
      <4>1. CASE i \in 1..Len(agent.status.merkleRoot)
        <5>1. agent'.status.merkleRoot[i] = agent.status.merkleRoot[i]
          BY <2>0, <3>2, <4>1
        <5> QED
          BY <1>0, <3>1, <4>1, <5>1 DEF AuditedWasApplied
      <4>2. CASE i = Len(agent.status.merkleRoot) + 1
        <5>1. agent'.status.merkleRoot[i] = NextCheckpoint(agent)
          BY <2>0, <3>2, <4>2
        <5>2. NextCheckpoint(agent).spec = agent.spec
          BY DEF NextCheckpoint
        <5> QED
          BY <3>1, <3>3, <5>1, <5>2
      <4>3. i \in 1..Len(agent.status.merkleRoot) \/ i = Len(agent.status.merkleRoot) + 1
        BY <2>0, <3>2, <3>4, AppendProperties
      <4> QED
        BY <4>1, <4>2, <4>3
    <3> QED
      BY <3>4 DEF AuditedWasApplied
  <2>2. CASE ~\E o \in Operators : UpdateStatusReady(o)
    <3>1. CASE agent'.status = EmptyStatus
      BY <3>1 DEF EmptyStatus, AuditedWasApplied
    <3>2. CASE agent'.uid = agent.uid /\ agent'.status.merkleRoot = agent.status.merkleRoot
      BY <1>0, <3>2 DEF AuditedWasApplied
    <3> QED
      BY <2>2, <3>1, <3>2, OtherWrites
  <2> QED
    BY <2>1, <2>2
<1>2. CASE UNCHANGED vars
  <2>1. AppliedInv'
    BY <1>0, <1>2, AppliedKept DEF vars
  <2> QED
    BY <1>1, <2>1
<1>3. CASE Environment
  <2>1. ASSUME NEW k \in Kinds, CollectGarbage(k) PROVE AppliedInv'
    <3>1. NoChild \in ChildVersion /\ NoChild.owner = 0
      BY DEF NoChild, ChildVersion
    <3>2. Built(NoChild)'
      BY <3>1 DEF Built, NoChild
    <3> QED
      BY <1>0, <2>1, <3>1, <3>2, AppliedWrite DEF CollectGarbage
  <2>2. ASSUME ~\E k \in Kinds : CollectGarbage(k) PROVE AppliedInv'
    <3>1. UNCHANGED <<child, childCache, childInbox, work>>
      BY <1>3, <2>2 DEF Environment, CreateAgent, EditSpec, DeleteAgent, ReportTokens,
                        ChangeDependencies
    <3> QED
      BY <1>0, <3>1, AppliedKept
  <2>3. AppliedInv'
    BY <2>1, <2>2
  <2> QED
    BY <1>1, <2>3
<1>4. ASSUME NEW o \in Operators, Operator(o) PROVE AppliedInv'
  <2> DEFINE a == work[o].snap
  <2>f. ASSUME Finish(o), NEW p \in Operators, work'[p].pc \in {"Service", "status"}
        PROVE  work'[p] = work[p]
    BY <2>f DEF Finish, Idle
  <2>g. ASSUME NEW pc \in PCs, Goto(o, pc), <<a.uid, a.spec>> \in applied', NEW p \in Operators
        PROVE  work'[p] = work[p] \/ <<work'[p].snap.uid, work'[p].snap.spec>> \in applied'
    <3>1. work' = [work EXCEPT ![o].pc = pc] /\ work \in [Operators -> [pc : PCs, snap : AgentVersion]]
      BY <2>g DEF Goto
    <3>2. p # o => work'[p] = work[p]
      BY <3>1
    <3>3. work'[o].snap = work[o].snap
      BY <3>1
    <3>4. CASE p = o
      BY <2>g, <3>3, <3>4
    <3>5. CASE p # o
      BY <3>2, <3>5
    <3> QED
      BY <3>4, <3>5
  <2>1. CASE \/ ReconcileNotFound(o) \/ ReconcileUnresolved(o)
    BY <1>0, <2>1, AppliedKept DEF ReconcileNotFound, ReconcileUnresolved, vars
  <2>2. CASE ReconcileBegin(o)
    <3>1. \A p \in Operators : work'[p].pc \in {"Service", "status"} => work'[p] = work[p]
      BY <2>2 DEF ReconcileBegin
    <3> QED
      BY <1>0, <2>2, <3>1, AppliedKept DEF ReconcileBegin
  <2>3. ASSUME NEW k \in Kinds, ChildUpToDate(o, k) PROVE AppliedInv'
    <3>1. <<a.uid, a.spec>> \in applied
      <4>1. CASE k = "Deployment"
        <5>1. /\ childCache[o]["Deployment"].owner = a.uid
              /\ childCache[o]["Deployment"].built = a.spec
          BY <2>3, <4>1 DEF ChildUpToDate, Needed, Content, Desired
        <5>2. a.uid # 0
          BY <2>3, <4>1 DEF ChildUpToDate, SnapshotsExist, Exists
        <5> QED
          BY <5>1, <5>2 DEF AppliedInv, Built
      <4>2. CASE k = "Service"
        BY <2>3, <4>2 DEF ChildUpToDate, AppliedInv
      <4> QED
        BY <4>1, <4>2
    <3>2. After(k) \in PCs /\ Goto(o, After(k))
      BY <2>3 DEF ChildUpToDate, After
    <3> QED
      BY <1>0, <2>3, <2>g, <3>1, <3>2, AppliedKept DEF ChildUpToDate
  <2>4. ASSUME NEW k \in Kinds, EnsureChild(o, k) PROVE AppliedInv'
    <3> DEFINE new == [owner |-> Desired(k, a).owner, ver |-> 0, built |-> Desired(k, a).built]
    <3>1. a \in AgentVersion /\ Exists(a)
      BY <2>4 DEF EnsureChild, MustWrite, SnapshotsExist
    <3>2. new \in ChildVersion /\ new.owner = a.uid
      BY <3>1 DEF ChildVersion, AgentVersion, Desired
    <3>3. k = "Deployment" => new.built = a.spec
      BY DEF Desired
    <3>4. <<a.uid, a.spec>> \in applied'
      <4>1. CASE k = "Deployment"
        BY <2>4, <4>1 DEF EnsureChild, RecordApplied
      <4>2. CASE k = "Service"
        BY <1>0, <2>4, <4>2 DEF EnsureChild, MustWrite, AppliedInv
      <4> QED
        BY <4>1, <4>2
    <3>5. After(k) \in PCs /\ Goto(o, After(k)) /\ WriteChild(k, new) /\ childCache' = childCache
      BY <2>4 DEF EnsureChild, After
    <3>6. ASSUME NEW p \in Operators
          PROVE  work'[p] = work[p] \/ <<work'[p].snap.uid, work'[p].snap.spec>> \in applied'
      BY <2>g, <3>4, <3>5
    <3>7. ASSUME NEW c \in ChildVersion, c.owner = a.uid, k = "Deployment" => c.built = a.spec,
                 WriteChild(k, c)
          PROVE  AppliedInv'
      <4>1. k = "Deployment" => Built(c)'
        BY <3>4, <3>7 DEF Built
      <4> QED
        BY <1>0, <3>5, <3>6, <3>7, <4>1, AppliedWrite
    <3> HIDE DEF new
    <3> QED
      BY <3>2, <3>3, <3>5, <3>7
  <2>5. ASSUME NEW k \in Kinds, EnsureChildFails(o, k) PROVE AppliedInv'
    BY <1>0, <2>5, <2>f, AppliedKept DEF EnsureChildFails, Fail
  <2>6. CASE DeleteService(o)
    <3>1. NoChild \in ChildVersion
      BY DEF NoChild, ChildVersion
    <3>2. <<a.uid, a.spec>> \in applied'
      BY <1>0, <2>6 DEF DeleteService, AppliedInv
    <3>3. Goto(o, "status") /\ WriteChild("Service", NoChild) /\ childCache' = childCache
      BY <2>6 DEF DeleteService
    <3>4. ASSUME NEW p \in Operators
          PROVE  work'[p] = work[p] \/ <<work'[p].snap.uid, work'[p].snap.spec>> \in applied'
      BY <2>g, <3>2, <3>3
    <3> QED
      BY <1>0, <3>1, <3>3, <3>4, AppliedWrite
  <2>7. CASE DeleteServiceFails(o) \/ UpdateStatusFails(o)
    BY <1>0, <2>7, <2>f, AppliedKept DEF DeleteServiceFails, UpdateStatusFails, Fail
  <2>8. CASE UpdateStatusReady(o) \/ UpdateStatusNotReady(o)
    BY <1>0, <2>8, <2>f, AppliedKept DEF UpdateStatusReady, UpdateStatusNotReady, Fail
  <2>9. CASE DeliverAgent(o)
    BY <1>0, <2>9, AppliedKept DEF DeliverAgent
  <2>10. ASSUME NEW k \in Kinds, DeliverChild(o, k) PROVE AppliedInv'
    <3>1. /\ childInbox[o][k] \in Seq(ChildVersion) /\ childInbox[o][k] # <<>>
          /\ childCache' = [childCache EXCEPT ![o][k] = Head(childInbox[o][k])]
          /\ childInbox' = [childInbox EXCEPT ![o][k] = Tail(childInbox[o][k])]
          /\ UNCHANGED <<child, work, applied>>
      BY <2>10 DEF DeliverChild
    <3>2. CASE k = "Deployment"
      <4>0. \A i \in 1..Len(childInbox[o][k]) : Built(childInbox[o][k][i])
        BY <3>2 DEF AppliedInv
      <4>1. /\ Built(Head(childInbox[o][k]))
            /\ \A i \in 1..Len(Tail(childInbox[o][k])) : Built(Tail(childInbox[o][k])[i])
        <5> DEFINE q == childInbox[o][k]
        <5>1. q \in Seq(ChildVersion) /\ q # <<>>
          BY <3>1
        <5>2. /\ Head(q) = q[1] /\ Len(Tail(q)) = Len(q) - 1 /\ Len(q) \in Nat /\ Len(q) # 0
              /\ \A i \in 1..Len(Tail(q)) : Tail(q)[i] = q[i+1]
          BY <5>1, HeadTailProperties, EmptySeq
        <5> HIDE DEF q
        <5>3. 1 \in 1..Len(q) /\ \A i \in 1..Len(Tail(q)) : i + 1 \in 1..Len(q)
          BY <5>2
        <5> QED
          BY <4>0, <5>2, <5>3 DEF q
      <4> QED
        BY <3>1, <3>2, <4>1 DEF AppliedInv, Built
    <3>3. CASE k # "Deployment"
      BY <3>1, <3>3 DEF AppliedInv, Built
    <3> QED
      BY <3>2, <3>3
  <2>11. CASE Restart(o)
    <3>1. /\ childCache' = [childCache EXCEPT ![o] = child]
          /\ childInbox' = [childInbox EXCEPT ![o] = [k \in Kinds |-> <<>>]]
          /\ UNCHANGED <<child, applied>> /\ Finish(o)
      BY <2>11 DEF Restart
    <3>2. ASSUME NEW p \in Operators PROVE Built(childCache'[p]["Deployment"])
      BY <3>1 DEF AppliedInv
    <3>3. ASSUME NEW p \in Operators, NEW i \in 1..Len(childInbox'[p]["Deployment"])
          PROVE  Built(childInbox'[p]["Deployment"][i])
      <4>1. CASE p = o
        BY <3>1, <3>3, <4>1
      <4>2. CASE p # o
        BY <3>1, <3>3, <4>2 DEF AppliedInv
      <4> QED
        BY <4>1, <4>2
    <3> QED
      BY <2>f, <3>1, <3>2, <3>3 DEF AppliedInv, Built
  <2> QED
    BY <1>4, <2>1, <2>2, <2>3, <2>4, <2>5, <2>6, <2>7, <2>8, <2>9, <2>10, <2>11
       DEF Operator, Reconcile
<1> QED
  BY <1>1, <1>2, <1>3, <1>4 DEF Next

(* Whatever is chained into the Merkle root was deployed before. *)
THEOREM TrailIsTrue == Spec => []AuditedWasApplied
<1>1. Spec => [](TypeInv /\ Coherent)
  BY InitType, StepType, CoherentInit, CoherentStep, PTL DEF Spec
<1> QED
  BY <1>1, AppliedInit, AppliedStep, PTL DEF Spec

-----------------------------------------------------------------------------
(* An Agent that is Ready runs its present spec, with one operator and     *)
(* users who do not go back to an earlier spec.                            *)
(*                                                                         *)
(* What an operator knows of the Agent only gets newer: call, cache, inbox *)
(* and API server are in this order.  Without a way back, a spec is in     *)
(* force in one stretch of that order.  So once the operator has written   *)
(* the Deployment from the present spec it can no longer read an older     *)
(* one, and there is no other operator that could.                         *)

Entries(q) == {q[i] : i \in 1..Len(q)}

(* The versions of the Agent, and of the Deployment, that operator o knows *)
(* or has on their way to it.                                              *)
Versions(o) ==
  {agentCache[o]} \cup Entries(agentInbox[o])
    \cup (IF work[o].pc = "idle" THEN {} ELSE {work[o].snap})

Deployments(o) ==
  {child["Deployment"], childCache[o]["Deployment"]} \cup Entries(childInbox[o]["Deployment"])

(* A version with the spec in force, a Deployment built from it.           *)
Current(v) == agent.uid # 0 /\ v.uid = agent.uid /\ v.spec = agent.spec
Fits(c) == agent.uid # 0 /\ c.owner = agent.uid /\ c.built = agent.spec

(* A spec that was in force is a past one.                                 *)
IsPast(uid, s) == uid <= lives /\ (agent.uid # 0 /\ uid = agent.uid => s \in past)

PastInv ==
  /\ IsPast(agent.uid, agent.spec)
  /\ agent.status.observedGeneration <= agent.generation
  /\ agent.uid = 0 => agent.status.ready # "True"
  /\ \A o \in Operators : \A v \in Versions(o) : IsPast(v.uid, v.spec)
  /\ \A o \in Operators : \A c \in Deployments(o) : IsPast(c.owner, c.built)

(* What comes after a current version is current.                          *)
InOrder ==
  \A o \in Operators :
    /\ work[o].pc # "idle" /\ Current(work[o].snap) => Current(agentCache[o])
    /\ \A i \in 1..Len(agentInbox[o]) : Current(agentCache[o]) => Current(agentInbox[o][i])
    /\ \A i, j \in 1..Len(agentInbox[o]) :
         i < j /\ Current(agentInbox[o][i]) => Current(agentInbox[o][j])

(* The operator can no longer read an earlier spec.                        *)
UpToDate(o) == Current(agentCache[o]) /\ (work[o].pc # "idle" => Current(work[o].snap))

SettledInv ==
  /\ \A o \in Operators : (\E c \in Deployments(o) : Fits(c)) =>
       Fits(child["Deployment"]) /\ UpToDate(o)
  /\ \A o \in Operators : work[o].pc \in {"Service", "status"} /\ Current(work[o].snap) =>
       Fits(child["Deployment"])
  /\ agent.status.ready = "True" /\ agent.status.observedGeneration = agent.generation =>
       Fits(child["Deployment"])

LEMMA EntriesAppend ==
  ASSUME NEW S, NEW q \in Seq(S), NEW x \in S
  PROVE  Entries(Append(q, x)) = Entries(q) \cup {x}
<1>1. /\ Len(q) \in Nat /\ Len(Append(q, x)) = Len(q) + 1 /\ Append(q, x)[Len(q) + 1] = x
      /\ \A i \in 1..Len(q) : Append(q, x)[i] = q[i]
  BY AppendProperties
<1>2. 1..(Len(q) + 1) = 1..Len(q) \cup {Len(q) + 1}
  BY <1>1
<1> QED
  BY <1>1, <1>2 DEF Entries

LEMMA EntriesTail ==
  ASSUME NEW S, NEW q \in Seq(S), q # <<>>
  PROVE  /\ Head(q) \in Entries(q)
         /\ Entries(Tail(q)) \subseteq Entries(q)
<1>1. /\ Head(q) = q[1] /\ Len(q) \in Nat \ {0} /\ Len(Tail(q)) = Len(q) - 1
      /\ \A i \in 1..Len(Tail(q)) : Tail(q)[i] = q[i + 1]
  BY HeadTailProperties, EmptySeq
<1>2. \A i \in 1..Len(Tail(q)) : i + 1 \in 1..Len(q)
  BY <1>1
<1> QED
  BY <1>1, <1>2 DEF Entries

LEMMA EntriesNone == Entries(<<>>) = {}
  BY DEF Entries

(* Operators come to know no other version than the stored one. *)
LEMMA VersionsStep ==
  ASSUME TypeInv, TypeInv', [Next]_vars, NEW p \in Operators
  PROVE  Versions(p)' \subseteq Versions(p) \cup {agent'}
<1> USE DEF TypeInv, TypeOK, apiVars, infVars, envVars
<1>1. CASE Written /\ Continues
  <2>1. Entries(agentInbox'[p]) = Entries(agentInbox[p]) \cup {agent'}
    BY <1>1, EntriesAppend DEF Written
  <2> QED
    BY <1>1, <2>1 DEF Versions, Written, Continues
<1>2. CASE UNCHANGED <<agent, agentCache, agentInbox>> /\ Continues
  BY <1>2 DEF Versions, Continues
<1>3. ASSUME NEW o \in Operators, ReconcileBegin(o)
      PROVE  Versions(p)' \subseteq Versions(p) \cup {agent'}
  BY <1>3 DEF ReconcileBegin, Versions
<1>4. ASSUME NEW o \in Operators, DeliverAgent(o)
      PROVE  Versions(p)' \subseteq Versions(p) \cup {agent'}
  <2>1. /\ Head(agentInbox[o]) \in Entries(agentInbox[o])
        /\ Entries(Tail(agentInbox[o])) \subseteq Entries(agentInbox[o])
    BY <1>4, EntriesTail DEF DeliverAgent
  <2>2. /\ agentCache'[p] = IF p = o THEN Head(agentInbox[o]) ELSE agentCache[p]
        /\ agentInbox'[p] = IF p = o THEN Tail(agentInbox[o]) ELSE agentInbox[p]
        /\ work' = work
    BY <1>4 DEF DeliverAgent
  <2> QED
    BY <2>1, <2>2 DEF Versions
<1>5. ASSUME NEW o \in Operators, Restart(o)
      PROVE  Versions(p)' \subseteq Versions(p) \cup {agent'}
  <2>1. Continues
    BY <1>5, WorkContinues DEF Restart
  <2>2. /\ agentCache'[p] = IF p = o THEN agent ELSE agentCache[p]
        /\ agentInbox'[p] = IF p = o THEN <<>> ELSE agentInbox[p]
        /\ agent' = agent
    BY <1>5 DEF Restart
  <2> QED
    BY <2>1, <2>2, EntriesNone DEF Versions, Continues
<1> QED
  BY <1>1, <1>2, <1>3, <1>4, <1>5, KnowledgeSteps

(* A write to the Deployment or the Service. *)
LEMMA DeploymentsWritten ==
  ASSUME TypeInv, NEW k \in Kinds, NEW new \in ChildVersion, WriteChild(k, new),
         childCache' = childCache
  PROVE  /\ \A p \in Operators :
              Deployments(p)' \subseteq Deployments(p) \cup {child'["Deployment"]}
         /\ k # "Deployment" => child'["Deployment"] = child["Deployment"]
         /\ k = "Deployment" => /\ child'["Deployment"].owner = new.owner
                                /\ child'["Deployment"].built = new.built
<1> USE DEF TypeInv, TypeOK
<1> DEFINE v == [new EXCEPT !.ver = child[k].ver + 1]
<1>1. /\ child' = [child EXCEPT ![k] = v]
      /\ childInbox' = [o \in Operators |-> [childInbox[o] EXCEPT ![k] = Append(@, v)]]
  BY DEF WriteChild
<1>2. v.owner = new.owner /\ v.built = new.built /\ v \in ChildVersion
  <2>1. child[k].ver + 1 \in Nat
    BY DEF ChildVersion
  <2> QED
    BY <2>1 DEF ChildVersion
<1> HIDE DEF v
<1>3. ASSUME NEW p \in Operators
      PROVE  Entries(childInbox'[p]["Deployment"])
               \subseteq Entries(childInbox[p]["Deployment"]) \cup {child'["Deployment"]}
  <2>1. CASE k = "Deployment"
    <3>1. /\ childInbox'[p]["Deployment"] = Append(childInbox[p]["Deployment"], v)
          /\ child'["Deployment"] = v
      BY <1>1, <2>1
    <3> QED
      BY <1>2, <3>1, EntriesAppend
  <2>2. CASE k # "Deployment"
    <3>1. childInbox'[p]["Deployment"] = childInbox[p]["Deployment"]
      BY <1>1, <2>2
    <3> QED
      BY <3>1
  <2> QED
    BY <2>1, <2>2
<1>4. ASSUME NEW p \in Operators
      PROVE  Deployments(p)' \subseteq Deployments(p) \cup {child'["Deployment"]}
  BY <1>3 DEF Deployments
<1> QED
  BY <1>1, <1>2, <1>4

(* How a step can change the stored Deployment; operators come to know no  *)
(* other Deployment than that one.                                         *)
Collected ==
  child["Deployment"].owner \notin {0, agent.uid} /\ child'["Deployment"].owner = 0

BuiltBy(o) ==
  /\ work[o].pc = "Deployment"
  /\ child'["Deployment"].owner = work[o].snap.uid
  /\ child'["Deployment"].built = work[o].snap.spec

LEMMA DeploymentsStep ==
  ASSUME TypeInv, TypeInv', [Next]_vars
  PROVE  /\ \A p \in Operators :
              Deployments(p)' \subseteq Deployments(p) \cup {child'["Deployment"]}
         /\ \/ child'["Deployment"] = child["Deployment"]
            \/ Collected
            \/ \E o \in Operators : BuiltBy(o)
<1> USE DEF apiVars, infVars, envVars
<1> DEFINE Few == \A p \in Operators :
                    Deployments(p)' \subseteq Deployments(p) \cup {child'["Deployment"]}
           Same == child'["Deployment"] = child["Deployment"]
<1>0. UNCHANGED <<child, childCache, childInbox>> => Few /\ Same
  BY DEF Deployments
<1> HIDE DEF Few
<1>1. UNCHANGED vars => UNCHANGED <<child, childCache, childInbox>>
  BY DEF vars
<1>2. ASSUME NEW k \in Kinds, CollectGarbage(k) PROVE Few /\ (Same \/ Collected)
  <2>1. NoChild \in ChildVersion /\ NoChild.owner = 0
    BY DEF NoChild, ChildVersion
  <2> QED
    BY <1>2, <2>1, DeploymentsWritten DEF CollectGarbage, Collected, Few
<1>3. ASSUME Environment, ~\E k \in Kinds : CollectGarbage(k)
      PROVE  UNCHANGED <<child, childCache, childInbox>>
  BY <1>3 DEF Environment, CreateAgent, EditSpec, DeleteAgent, ReportTokens,
                    ChangeDependencies
<1>4. ASSUME NEW o \in Operators, NEW k \in Kinds, EnsureChild(o, k)
      PROVE  Few /\ (Same \/ BuiltBy(o))
  <2> DEFINE a == work[o].snap
             new == [owner |-> Desired(k, a).owner, ver |-> 0, built |-> Desired(k, a).built]
  <2>1. a \in AgentVersion /\ Exists(a)
    BY <1>4 DEF EnsureChild, MustWrite, TypeInv, TypeOK, SnapshotsExist
  <2>2. new \in ChildVersion
    BY <2>1 DEF ChildVersion, AgentVersion, Desired
  <2>3. new.owner = a.uid /\ (k = "Deployment" => new.built = a.spec)
    BY DEF Desired
  <2>4. WriteChild(k, new) /\ childCache' = childCache /\ work[o].pc = k
    BY <1>4 DEF EnsureChild, MustWrite
  <2> HIDE DEF new
  <2> QED
    BY <2>2, <2>3, <2>4, DeploymentsWritten DEF BuiltBy, Few
<1>5. ASSUME NEW o \in Operators, DeleteService(o) PROVE Few /\ Same
  <2>1. NoChild \in ChildVersion
    BY DEF NoChild, ChildVersion
  <2> QED
    BY <1>5, <2>1, DeploymentsWritten DEF DeleteService, Few
<1>6. ASSUME NEW o \in Operators, NEW k \in Kinds, DeliverChild(o, k) PROVE Few /\ Same
  <2>1. /\ childInbox[o][k] \in Seq(ChildVersion) /\ childInbox[o][k] # <<>>
        /\ childCache' = [childCache EXCEPT ![o][k] = Head(childInbox[o][k])]
        /\ childInbox' = [childInbox EXCEPT ![o][k] = Tail(childInbox[o][k])]
        /\ child' = child
    BY <1>6 DEF DeliverChild, TypeInv, TypeOK
  <2>2. /\ Head(childInbox[o][k]) \in Entries(childInbox[o][k])
        /\ Entries(Tail(childInbox[o][k])) \subseteq Entries(childInbox[o][k])
    BY <2>1, EntriesTail
  <2>3. ASSUME NEW p \in Operators PROVE Deployments(p)' \subseteq Deployments(p)
    BY <2>1, <2>2 DEF Deployments, TypeInv, TypeOK
  <2> QED
    BY <2>1, <2>3 DEF Few
<1>7. ASSUME NEW o \in Operators, Restart(o) PROVE Few /\ Same
  <2>1. /\ childCache' = [childCache EXCEPT ![o] = child]
        /\ childInbox' = [childInbox EXCEPT ![o] = [k \in Kinds |-> <<>>]]
        /\ child' = child
    BY <1>7 DEF Restart
  <2>2. ASSUME NEW p \in Operators PROVE Deployments(p)' \subseteq Deployments(p)
    <3>1. CASE p = o
      BY <2>1, <3>1, EntriesNone DEF Deployments, TypeInv, TypeOK
    <3>2. CASE p # o
      BY <2>1, <3>2 DEF Deployments, TypeInv, TypeOK
    <3> QED
      BY <3>1, <3>2
  <2> QED
    BY <2>1, <2>2 DEF Few
<1>8. ASSUME NEW o \in Operators, Operator(o), ~DeleteService(o), ~Restart(o),
             ~\E k \in Kinds : EnsureChild(o, k) \/ DeliverChild(o, k)
      PROVE  UNCHANGED <<child, childCache, childInbox>>
  <2>1. CASE Reconcile(o)
    BY <1>8, <2>1 DEF Reconcile, ReconcileNotFound, ReconcileUnresolved, ReconcileBegin,
         ChildUpToDate, EnsureChildFails, DeleteServiceFails, UpdateStatusReady,
         UpdateStatusNotReady, UpdateStatusFails, vars
  <2>2. CASE DeliverAgent(o)
    BY <2>2 DEF DeliverAgent
  <2> QED
    BY <1>8, <2>1, <2>2 DEF Operator
<1> QED
  BY <1>0, <1>1, <1>2, <1>3, <1>4, <1>5, <1>6, <1>7, <1>8 DEF Next, Few

(* What a step does to the spec in force: another Agent, another spec, or  *)
(* no Agent, and then its status does not say Ready for it; or the same.   *)
Replaced ==
  /\ agent.uid = 0 /\ lives' = lives + 1 /\ agent'.uid = lives'
  /\ past' = {agent'.spec} /\ agent'.status = EmptyStatus

Edited ==
  /\ agent.uid # 0 /\ agent'.uid = agent.uid /\ lives' = lives
  /\ agent'.spec \notin past /\ past' = past \cup {agent'.spec}
  /\ agent'.generation = agent.generation + 1 /\ agent'.status = agent.status

Removed ==
  agent'.uid = 0 /\ agent'.status = EmptyStatus /\ UNCHANGED <<lives, past>>

Kept ==
  /\ agent'.uid = agent.uid /\ agent'.spec = agent.spec /\ agent'.generation = agent.generation
  /\ UNCHANGED <<lives, past>>
  /\ \/ /\ agent'.status.ready = agent.status.ready
        /\ agent'.status.observedGeneration = agent.status.observedGeneration
     \/ /\ agent'.status.ready = "False"
        /\ agent'.status.observedGeneration = agent'.generation
     \/ /\ agent'.status.observedGeneration = agent'.generation
        /\ agent.uid # 0
        /\ \E o \in Operators : work[o].pc = "status" /\ work[o].snap = agent

LEMMA SpecSteps ==
  ASSUME TypeInv, Coherent, [Next]_vars, ~AllowRevert
  PROVE  Replaced \/ Edited \/ Removed \/ Kept
<1> USE DEF TypeInv, TypeOK, apiVars, infVars, envVars
<1>0. agent \in AgentVersion /\ agent.status \in AgentStatus
  BY DEF AgentVersion
<1>1. ASSUME NEW s \in Specs, CreateAgent(s) PROVE Replaced
  BY <1>1 DEF CreateAgent, WriteAgent, NoAgent, Replaced
<1>2. ASSUME NEW s \in Specs, EditSpec(s) PROVE Edited
  BY <1>0, <1>2 DEF EditSpec, WriteAgent, AgentVersion, Edited
<1>3. CASE DeleteAgent
  BY <1>3 DEF DeleteAgent, WriteAgent, NoAgent, Removed
<1>4. CASE ReportTokens
  <2>1. /\ agent'.uid = agent.uid /\ agent'.spec = agent.spec
        /\ agent'.generation = agent.generation
        /\ agent'.status = [agent.status EXCEPT !.tokensUsed = @ + 1]
    BY <1>0, <1>4 DEF ReportTokens, WriteAgent, AgentVersion
  <2>2. /\ agent'.status.ready = agent.status.ready
        /\ agent'.status.observedGeneration = agent.status.observedGeneration
    BY <1>0, <2>1 DEF AgentStatus
  <2> QED
    BY <1>4, <2>1, <2>2 DEF Kept, ReportTokens
<1>5. ASSUME NEW o \in Operators, UpdateStatusReady(o) PROVE Kept
  <2>1. /\ work[o].snap = agent /\ Exists(agent) /\ work[o].pc = "status"
        /\ agent' = [[agent EXCEPT !.status = ReadyStatus(agent)] EXCEPT !.rv = agent.rv + 1]
    BY <1>5, AcceptedIsCurrent DEF UpdateStatusReady, WriteAgent
  <2>2. /\ agent'.uid = agent.uid /\ agent'.spec = agent.spec
        /\ agent'.generation = agent.generation
        /\ agent'.status = ReadyStatus(agent)
    BY <1>0, <2>1 DEF AgentVersion
  <2>3. agent'.status.observedGeneration = agent'.generation
    BY <2>2 DEF ReadyStatus
  <2> QED
    BY <1>5, <2>1, <2>2, <2>3 DEF Kept, UpdateStatusReady, Exists
<1>6. ASSUME NEW o \in Operators, UpdateStatusNotReady(o),
             NotReadyStatus(work[o].snap) # agent.status
      PROVE  Kept
  <2>1. /\ work[o].snap = agent
        /\ agent' = [[agent EXCEPT !.status = NotReadyStatus(agent)] EXCEPT !.rv = agent.rv + 1]
    BY <1>6, AcceptedIsCurrent DEF UpdateStatusNotReady, WriteAgent
  <2>2. /\ agent'.uid = agent.uid /\ agent'.spec = agent.spec
        /\ agent'.generation = agent.generation
        /\ agent'.status = NotReadyStatus(agent)
    BY <1>0, <2>1 DEF AgentVersion
  <2>3. agent'.status.ready = "False" /\ agent'.status.observedGeneration = agent'.generation
    BY <1>0, <2>2 DEF NotReadyStatus, AgentStatus
  <2> QED
    BY <1>6, <2>2, <2>3 DEF Kept, UpdateStatusNotReady
<1>7. CASE ~AgentWrite
  <2>1. UNCHANGED agent
    BY <1>7, AgentOnlyWritten
  <2>2. UNCHANGED <<lives, past>>
    BY <1>7 DEF vars, Next, AgentWrite, Environment, CollectGarbage, ChangeDependencies, Operator,
         Reconcile, ReconcileNotFound, ReconcileUnresolved, ReconcileBegin, ChildUpToDate,
         EnsureChild, EnsureChildFails, DeleteService, DeleteServiceFails, UpdateStatusNotReady,
         UpdateStatusFails, DeliverAgent, DeliverChild, Restart
  <2> QED
    BY <2>1, <2>2 DEF Kept
<1> QED
  BY <1>1, <1>2, <1>3, <1>4, <1>5, <1>6, <1>7 DEF AgentWrite

(* What is past stays past. *)
LEMMA PastStays ==
  ASSUME TypeInv, NEW uid \in Nat, NEW s, IsPast(uid, s),
         Replaced \/ Edited \/ Removed \/ Kept
  PROVE  IsPast(uid, s)'
<1>1. lives \in Nat /\ agent.uid \in Nat
  BY DEF TypeInv, TypeOK, AgentVersion
<1> QED
  BY <1>1 DEF IsPast, Replaced, Edited, Removed, Kept

(* Versions and Deployments have their types. *)
LEMMA HeldTypes ==
  ASSUME TypeInv, NEW o \in Operators
  PROVE  /\ \A v \in Versions(o) : v \in AgentVersion /\ v.uid \in Nat
         /\ \A c \in Deployments(o) : c \in ChildVersion /\ c.owner \in Nat
<1>1. /\ agentInbox[o] \in Seq(AgentVersion) /\ agentCache[o] \in AgentVersion
      /\ work[o].snap \in AgentVersion
      /\ childInbox[o]["Deployment"] \in Seq(ChildVersion)
      /\ childCache[o]["Deployment"] \in ChildVersion /\ child["Deployment"] \in ChildVersion
  BY DEF TypeInv, TypeOK
<1>2. /\ \A v \in Versions(o) : v \in AgentVersion
      /\ \A c \in Deployments(o) : c \in ChildVersion
  BY <1>1 DEF Versions, Deployments, Entries
<1> QED
  BY <1>2 DEF AgentVersion, ChildVersion

(* A Deployment that is written was built from a past spec. *)
LEMMA BuiltIsPast ==
  ASSUME TypeInv, TypeInv', [Next]_vars, PastInv, NEW o \in Operators, NEW c \in Deployments(o)'
  PROVE  c.owner \in Nat /\ IsPast(c.owner, c.built)
<1>1. CASE c \in Deployments(o)
  BY <1>1, HeldTypes DEF PastInv
<1>2. CASE c = child'["Deployment"] /\ Collected
  BY <1>2 DEF Collected, IsPast, TypeInv, TypeOK
<1>3. ASSUME NEW p \in Operators, BuiltBy(p), c = child'["Deployment"]
      PROVE  c.owner \in Nat /\ IsPast(c.owner, c.built)
  <2>1. work[p].snap \in Versions(p)
    BY <1>3 DEF BuiltBy, Versions
  <2> QED
    BY <1>3, <2>1, HeldTypes DEF BuiltBy, PastInv
<1>4. child["Deployment"] \in Deployments(o)
  BY DEF Deployments
<1> QED
  BY <1>1, <1>2, <1>3, <1>4, DeploymentsStep

LEMMA PastStep ==
  ASSUME TypeInv, TypeInv', Coherent, [Next]_vars, ~AllowRevert, PastInv
  PROVE  PastInv'
<1>0. /\ agent.uid \in Nat /\ agent'.uid \in Nat /\ lives \in Nat /\ agent'.generation \in Nat
      /\ agent.generation \in Nat /\ agent.status.observedGeneration \in Nat
  BY DEF TypeInv, TypeOK, AgentVersion, AgentStatus
<1>1. Replaced \/ Edited \/ Removed \/ Kept
  BY SpecSteps
<1>2. IsPast(agent.uid, agent.spec)'
  BY <1>0, <1>1 DEF PastInv, IsPast, Replaced, Edited, Removed, Kept
<1>3. /\ agent'.status.observedGeneration <= agent'.generation
      /\ agent'.uid = 0 => agent'.status.ready # "True"
  BY <1>0, <1>1 DEF PastInv, Replaced, Edited, Removed, Kept, EmptyStatus
<1>4. ASSUME NEW o \in Operators, NEW v \in Versions(o)' PROVE IsPast(v.uid, v.spec)'
  <2>1. CASE v \in Versions(o)
    BY <1>1, <2>1, HeldTypes, PastStays DEF PastInv
  <2>2. CASE v = agent'
    BY <1>2, <2>2
  <2> QED
    BY <2>1, <2>2, VersionsStep
<1>5. ASSUME NEW o \in Operators, NEW c \in Deployments(o)' PROVE IsPast(c.owner, c.built)'
  BY <1>1, BuiltIsPast, PastStays
<1> QED
  BY <1>2, <1>3, <1>4, <1>5 DEF PastInv

(* With a new spec in force nothing that was there before is current.      *)
LEMMA NothingCurrent ==
  ASSUME TypeInv, PastInv, Replaced \/ Edited \/ Removed, NEW o \in Operators
  PROVE  \A v \in Versions(o) : ~Current(v)'
<1>1. lives \in Nat /\ \A v \in Versions(o) : v.uid \in Nat /\ IsPast(v.uid, v.spec)
  BY HeldTypes DEF TypeInv, TypeOK, PastInv
<1> QED
  BY <1>1 DEF IsPast, Current, Replaced, Edited, Removed

LEMMA NothingFits ==
  ASSUME TypeInv, TypeInv', [Next]_vars, PastInv, Replaced \/ Edited \/ Removed,
         NEW o \in Operators
  PROVE  \A c \in Deployments(o)' : ~Fits(c)'
<1>1. lives \in Nat /\ \A c \in Deployments(o)' : c.owner \in Nat /\ IsPast(c.owner, c.built)
  BY BuiltIsPast DEF TypeInv, TypeOK
<1> QED
  BY <1>1 DEF IsPast, Fits, Replaced, Edited, Removed

LEMMA SameSpec ==
  ASSUME Kept
  PROVE  /\ \A v : Current(v)' <=> Current(v)
         /\ \A c : Fits(c)' <=> Fits(c)
  BY DEF Kept, Current, Fits

LEMMA InOrderStep ==
  ASSUME TypeInv, TypeInv', Coherent, [Next]_vars, ~AllowRevert, PastInv, InOrder
  PROVE  InOrder'
<1> USE DEF TypeInv, TypeOK
<1> DEFINE C(v) == agent'.uid # 0 /\ v.uid = agent'.uid /\ v.spec = agent'.spec
<1> SUFFICES ASSUME NEW p \in Operators
             PROVE  /\ work'[p].pc # "idle" /\ C(work'[p].snap) => C(agentCache'[p])
                    /\ \A i \in 1..Len(agentInbox'[p]) :
                         C(agentCache'[p]) => C(agentInbox'[p][i])
                    /\ \A i, j \in 1..Len(agentInbox'[p]) :
                         i < j /\ C(agentInbox'[p][i]) => C(agentInbox'[p][j])
  BY DEF InOrder, Current
<1> DEFINE q == agentInbox[p]
           r == agentInbox'[p]
           Ordered ==
             /\ work'[p].pc # "idle" /\ C(work'[p].snap) => C(agentCache'[p])
             /\ \A i \in 1..Len(r) : C(agentCache'[p]) => C(r[i])
             /\ \A i, j \in 1..Len(r) : i < j /\ C(r[i]) => C(r[j])
<1>0. /\ q \in Seq(AgentVersion) /\ Len(q) \in Nat
      /\ agentCache[p] \in Versions(p)
      /\ work[p].pc # "idle" => work[p].snap \in Versions(p)
      /\ \A i \in 1..Len(q) : q[i] \in Versions(p)
  BY DEF Versions, Entries
<1>a. /\ work[p].pc # "idle" /\ Current(work[p].snap) => Current(agentCache[p])
      /\ \A i \in 1..Len(q) : Current(agentCache[p]) => Current(q[i])
      /\ \A i, j \in 1..Len(q) : i < j /\ Current(q[i]) => Current(q[j])
  BY DEF InOrder
<1>b. Kept => \A v : C(v) <=> Current(v)
  BY DEF Kept, Current
<1>c. UNCHANGED agent => \A v : C(v) <=> Current(v)
  BY DEF Current
<1>d. (\E v : C(v)) => C(agent')
  OBVIOUS
<1>e. Replaced \/ Edited \/ Removed => \A v \in Versions(p) : ~C(v)
  BY NothingCurrent DEF Current
<1> HIDE DEF C, q, r
<1>1. CASE Written /\ Continues
  <2>1. /\ r = Append(q, agent') /\ agent' \in AgentVersion
        /\ agentCache' = agentCache
        /\ work'[p].pc # "idle" => work[p].pc # "idle" /\ work'[p].snap = work[p].snap
    BY <1>1 DEF Written, Continues, q, r
  <2>2. /\ Len(r) = Len(q) + 1 /\ r[Len(q) + 1] = agent'
        /\ \A i \in 1..Len(q) : r[i] = q[i]
    BY <1>0, <2>1, AppendProperties
  <2>3. \A i \in 1..Len(r) : i \in 1..Len(q) \/ i = Len(q) + 1
    BY <1>0, <2>2
  <2>4. ASSUME Kept PROVE Ordered
    <3>1. work'[p].pc # "idle" /\ C(work'[p].snap) => C(agentCache'[p])
      BY <1>a, <1>b, <2>1, <2>4
    <3>2. ASSUME NEW i \in 1..Len(r), C(agentCache'[p]) PROVE C(r[i])
      BY <1>a, <1>b, <1>d, <2>1, <2>2, <2>3, <2>4, <3>2
    <3>3. ASSUME NEW i \in 1..Len(r), NEW j \in 1..Len(r), i < j, C(r[i]) PROVE C(r[j])
      <4>1. CASE j = Len(q) + 1
        BY <1>d, <2>2, <3>3, <4>1
      <4>2. CASE j \in 1..Len(q)
        <5>1. i \in 1..Len(q)
          BY <1>0, <2>3, <3>3, <4>2
        <5> QED
          BY <1>a, <1>b, <2>2, <2>4, <3>3, <4>2, <5>1
      <4> QED
        BY <2>3, <4>1, <4>2
    <3> QED
      BY <3>1, <3>2, <3>3
  <2>5. ASSUME Replaced \/ Edited \/ Removed PROVE Ordered
    <3>1. /\ ~C(agentCache'[p])
          /\ work'[p].pc # "idle" => ~C(work'[p].snap)
          /\ \A i \in 1..Len(q) : ~C(r[i])
      BY <1>0, <1>e, <2>1, <2>2, <2>5
    <3>2. ASSUME NEW i \in 1..Len(r), NEW j \in 1..Len(r), i < j PROVE i \in 1..Len(q)
      BY <1>0, <2>3, <2>2, <3>2
    <3> QED
      BY <3>1, <3>2
  <2>6. Ordered
    BY <2>4, <2>5, SpecSteps
  <2> QED
    BY <2>6 DEF r
<1>2. CASE UNCHANGED <<agent, agentCache, agentInbox>> /\ Continues
  <2>1. r = q /\ agentCache'[p] = agentCache[p]
        /\ (work'[p].pc # "idle" => work[p].pc # "idle" /\ work'[p].snap = work[p].snap)
    BY <1>2 DEF Continues, q, r
  <2>2. Ordered
    BY <1>2, <1>a, <1>c, <2>1
  <2> QED
    BY <2>2 DEF r
<1>3. ASSUME NEW o \in Operators, ReconcileBegin(o) PROVE Ordered
  <2>1. r = q /\ agentCache'[p] = agentCache[p] /\ agent' = agent
    BY <1>3 DEF ReconcileBegin, apiVars, infVars, q, r
  <2>2. work'[p] = work[p] \/ work'[p].snap = agentCache[p]
    BY <1>3 DEF ReconcileBegin
  <2> QED
    BY <1>a, <1>c, <2>1, <2>2
<1>4. ASSUME NEW o \in Operators, DeliverAgent(o) PROVE Ordered
  <2>1. agent' = agent /\ work' = work
    BY <1>4 DEF DeliverAgent, apiVars
  <2>2. CASE p = o
    <3>1. q # <<>> /\ agentCache'[p] = Head(q) /\ r = Tail(q)
      BY <1>4, <2>2 DEF DeliverAgent, q, r
    <3>2. /\ Head(q) = q[1] /\ Len(q) # 0 /\ Len(r) = Len(q) - 1
          /\ \A i \in 1..Len(r) : r[i] = q[i + 1]
      BY <1>0, <3>1, HeadTailProperties, EmptySeq
    <3>3. /\ 1 \in 1..Len(q)
          /\ \A i \in 1..Len(r) : i + 1 \in 1..Len(q) /\ 1 < i + 1
          /\ \A i, j \in 1..Len(r) : i < j => i + 1 < j + 1
      BY <1>0, <3>2
    <3>4. work'[p].pc # "idle" /\ C(work'[p].snap) => C(agentCache'[p])
      BY <1>a, <1>c, <2>1, <3>1, <3>2, <3>3
    <3>5. ASSUME NEW i \in 1..Len(r), C(agentCache'[p]) PROVE C(r[i])
      BY <1>a, <1>c, <2>1, <3>1, <3>2, <3>3, <3>5
    <3>6. ASSUME NEW i \in 1..Len(r), NEW j \in 1..Len(r), i < j, C(r[i]) PROVE C(r[j])
      BY <1>a, <1>c, <2>1, <3>2, <3>3, <3>6
    <3> QED
      BY <3>4, <3>5, <3>6
  <2>3. CASE p # o
    <3>1. agentCache'[p] = agentCache[p] /\ r = q
      BY <1>4, <2>3 DEF DeliverAgent, q, r
    <3> QED
      BY <1>a, <1>c, <2>1, <3>1
  <2> QED
    BY <2>2, <2>3
<1>5. ASSUME NEW o \in Operators, Restart(o) PROVE Ordered
  <2>1. agent' = agent
    BY <1>5 DEF Restart, apiVars
  <2>2. CASE p = o
    <3>1. r = <<>> /\ work'[p].pc = "idle"
      BY <1>5, <2>2 DEF Restart, Finish, Idle, r
    <3> QED
      BY <3>1
  <2>3. CASE p # o
    <3>1. agentCache'[p] = agentCache[p] /\ r = q /\ work'[p] = work[p]
      BY <1>5, <2>3 DEF Restart, Finish, q, r
    <3> QED
      BY <1>a, <1>c, <2>1, <3>1
  <2> QED
    BY <2>2, <2>3
<1>6. (\E o \in Operators : ReconcileBegin(o) \/ DeliverAgent(o) \/ Restart(o)) => Ordered
  BY <1>3, <1>4, <1>5
<1> QED
  BY <1>1, <1>2, <1>6, KnowledgeSteps DEF r

(* An operator that is up to date stays so while the spec stays. *)
LEMMA StaysUpToDate ==
  ASSUME TypeInv, TypeInv', [Next]_vars, InOrder, Kept, NEW p \in Operators, UpToDate(p)
  PROVE  UpToDate(p)'
<1> USE DEF TypeInv, TypeOK
<1>0. agent.uid # 0
  BY DEF UpToDate, Current
<1>1. CASE Written /\ Continues
  BY <1>1 DEF Written, Continues, UpToDate, Kept, Current
<1>2. CASE UNCHANGED <<agent, agentCache, agentInbox>> /\ Continues
  BY <1>2 DEF Continues, UpToDate, Current
<1>3. ASSUME NEW o \in Operators, ReconcileBegin(o) PROVE UpToDate(p)'
  <2>1. UNCHANGED <<agent, agentCache>>
    BY <1>3 DEF ReconcileBegin, apiVars, infVars
  <2>2. work'[p] = work[p] \/ work'[p].snap = agentCache[p]
    BY <1>3 DEF ReconcileBegin
  <2> QED
    BY <2>1, <2>2 DEF UpToDate, Current
<1>4. ASSUME NEW o \in Operators, DeliverAgent(o) PROVE UpToDate(p)'
  <2>1. UNCHANGED <<agent, work>>
    BY <1>4 DEF DeliverAgent, apiVars
  <2>2. CASE p = o
    <3>1. agentInbox[p] # <<>> /\ agentCache'[p] = Head(agentInbox[p])
      BY <1>4, <2>2 DEF DeliverAgent
    <3>2. Head(agentInbox[p]) = agentInbox[p][1] /\ 1 \in 1..Len(agentInbox[p])
      BY <3>1, HeadTailProperties, EmptySeq
    <3>3. Current(agentInbox[p][1])
      BY <3>2 DEF UpToDate, InOrder
    <3> QED
      BY <2>1, <3>1, <3>2, <3>3 DEF UpToDate, Current
  <2>3. CASE p # o
    <3>1. agentCache'[p] = agentCache[p]
      BY <1>4, <2>3 DEF DeliverAgent
    <3> QED
      BY <2>1, <3>1 DEF UpToDate, Current
  <2> QED
    BY <2>2, <2>3
<1>5. ASSUME NEW o \in Operators, Restart(o) PROVE UpToDate(p)'
  <2>1. agent' = agent /\ Continues
    BY <1>5, WorkContinues DEF Restart, apiVars
  <2>2. agentCache'[p] \in {agentCache[p], agent}
    BY <1>5 DEF Restart
  <2> QED
    BY <1>0, <2>1, <2>2 DEF UpToDate, Current, Continues
<1> QED
  BY <1>1, <1>2, <1>3, <1>4, <1>5, KnowledgeSteps

(* A call gets past its Deployment step when the cached Deployment is what *)
(* it wants, or by writing it.                                             *)
LEMMA PastDeploymentStep ==
  ASSUME TypeInv, TypeInv', [Next]_vars, NEW p \in Operators,
         work'[p].pc \in {"Service", "status"}
  PROVE  /\ work[p].pc # "idle" /\ work'[p].snap = work[p].snap
         /\ \/ work[p].pc \in {"Service", "status"}
            \/ /\ childCache[p]["Deployment"].owner = work[p].snap.uid
               /\ childCache[p]["Deployment"].built = work[p].snap.spec
            \/ BuiltBy(p)
<1> USE DEF TypeInv, TypeOK, apiVars, infVars, envVars
<1> DEFINE Goal ==
      /\ work[p].pc # "idle" /\ work'[p].snap = work[p].snap
      /\ \/ work[p].pc \in {"Service", "status"}
         \/ /\ childCache[p]["Deployment"].owner = work[p].snap.uid
            /\ childCache[p]["Deployment"].built = work[p].snap.spec
         \/ BuiltBy(p)
<1>0. work'[p] = work[p] => Goal
  OBVIOUS
<1>1. UNCHANGED vars => Goal
  BY <1>0 DEF vars
<1>2. Environment => Goal
  BY <1>0 DEF Environment, CreateAgent, EditSpec, DeleteAgent, ReportTokens, CollectGarbage,
              ChangeDependencies
<1>3. ASSUME NEW o \in Operators, Operator(o), o # p PROVE Goal
  <2>1. work' = work \/ Finish(o) \/ (\E pc \in PCs : Goto(o, pc)) \/ ReconcileBegin(o)
    BY <1>3 DEF Operator, Reconcile, ReconcileNotFound, ReconcileUnresolved, ChildUpToDate,
         EnsureChild, EnsureChildFails, DeleteService, DeleteServiceFails, UpdateStatusReady,
         UpdateStatusNotReady, UpdateStatusFails, DeliverAgent, DeliverChild, Restart, Fail,
         After, vars
  <2> QED
    BY <1>0, <1>3, <2>1 DEF Finish, Goto, ReconcileBegin
<1>4. CASE Operator(p)
  <2>0. /\ ~Finish(p) /\ ~Fail(p)
        /\ \A pc \in PCs : Goto(p, pc) => work'[p].snap = work[p].snap /\ work'[p].pc = pc
    BY DEF Finish, Fail, Goto, Idle
  <2>1. ASSUME NEW k \in Kinds, ChildUpToDate(p, k) PROVE Goal
    BY <2>0, <2>1 DEF ChildUpToDate, After, Needed, Content, Desired
  <2>2. ASSUME NEW k \in Kinds, EnsureChild(p, k) PROVE Goal
    <3>1. work[p].pc = k /\ Goto(p, After(k)) /\ After(k) \in PCs
      BY <2>2 DEF EnsureChild, MustWrite, After
    <3>2. CASE k = "Service"
      BY <2>0, <3>1, <3>2
    <3>3. CASE k = "Deployment"
      <4> DEFINE a == work[p].snap
                 new == [owner |-> Desired(k, a).owner, ver |-> 0, built |-> Desired(k, a).built]
      <4>1. a \in AgentVersion /\ Exists(a)
        BY <2>2 DEF EnsureChild, MustWrite, SnapshotsExist
      <4>2. new \in ChildVersion
        BY <4>1 DEF ChildVersion, AgentVersion, Desired
      <4>3. new.owner = a.uid /\ new.built = a.spec
        BY <3>3 DEF Desired
      <4>4. WriteChild(k, new) /\ childCache' = childCache
        BY <2>2 DEF EnsureChild
      <4> HIDE DEF new
      <4>5. BuiltBy(p)
        BY <3>1, <3>3, <4>2, <4>3, <4>4, DeploymentsWritten DEF BuiltBy
      <4> QED
        BY <2>0, <3>1, <3>3, <4>5
    <3> QED
      BY <3>2, <3>3
  <2>3. DeleteService(p) => Goal
    BY <2>0 DEF DeleteService
  <2>4. ~ReconcileBegin(p)
    BY DEF ReconcileBegin
  <2>5. ReconcileNotFound(p) \/ ReconcileUnresolved(p) \/ DeliverAgent(p)
          \/ (\E k \in Kinds : DeliverChild(p, k)) => Goal
    BY <1>0 DEF ReconcileNotFound, ReconcileUnresolved, DeliverAgent, DeliverChild, vars
  <2> QED
    BY <1>4, <2>0, <2>1, <2>2, <2>3, <2>4, <2>5 DEF Operator, Reconcile, EnsureChildFails,
       DeleteServiceFails, UpdateStatusReady, UpdateStatusNotReady, UpdateStatusFails, Restart
<1> QED
  BY <1>1, <1>2, <1>3, <1>4 DEF Next

Lone == \A p, q \in Operators : p = q

(* While the spec stays, a Deployment that fits is replaced by none that   *)
(* does not: a lone operator that is up to date writes what fits.          *)
LEMMA FittingStays ==
  ASSUME TypeInv, TypeInv', [Next]_vars, Lone, SettledInv, Kept, Fits(child["Deployment"])
  PROVE  Fits(child["Deployment"])'
<1>1. CASE child'["Deployment"] = child["Deployment"]
  BY <1>1 DEF Fits, Kept
<1>2. ~Collected
  BY DEF Collected, Fits
<1>3. ASSUME NEW o \in Operators, BuiltBy(o) PROVE Fits(child["Deployment"])'
  <2>1. child["Deployment"] \in Deployments(o)
    BY DEF Deployments
  <2>2. Current(work[o].snap)
    BY <1>3, <2>1 DEF SettledInv, UpToDate, BuiltBy
  <2> QED
    BY <1>3, <2>2 DEF BuiltBy, Current, Fits, Kept
<1> QED
  BY <1>1, <1>2, <1>3, DeploymentsStep

LEMMA SettledStep ==
  ASSUME TypeInv, TypeInv', Coherent, [Next]_vars, ~AllowRevert, Lone,
         PastInv, PastInv', InOrder, SettledInv
  PROVE  SettledInv'
<1>1. CASE Kept
  <2>0. /\ \A v : Current(v)' <=> Current(v)
        /\ \A c : Fits(c)' <=> Fits(c)
    BY <1>1, SameSpec
  <2>1. ASSUME NEW o \in Operators, NEW c \in Deployments(o)', Fits(c)'
        PROVE  Fits(child["Deployment"])' /\ UpToDate(o)'
    <3>1. CASE \E b \in Deployments(o) : Fits(b)
      BY <1>1, <3>1, FittingStays, StaysUpToDate DEF SettledInv
    <3>2. CASE ~\E b \in Deployments(o) : Fits(b)
      <4>1. c = child'["Deployment"] /\ child'["Deployment"] # child["Deployment"] /\ Fits(c)
        <5>1. c \in Deployments(o) \cup {child'["Deployment"]}
          BY DeploymentsStep
        <5>2. Fits(c) /\ child["Deployment"] \in Deployments(o)
          BY <2>0, <2>1 DEF Deployments
        <5> QED
          BY <3>2, <5>1, <5>2
      <4>2. ~Collected
        BY <4>1 DEF Collected, Fits
      <4>3. PICK p \in Operators : BuiltBy(p)
        BY <4>1, <4>2, DeploymentsStep
      <4>4. p = o
        BY DEF Lone
      <4>5. Current(work[o].snap) /\ work[o].pc # "idle"
        BY <4>1, <4>3, <4>4 DEF BuiltBy, Fits, Current
      <4>6. UpToDate(o)
        BY <4>5 DEF InOrder, UpToDate
      <4>7. Fits(child["Deployment"])'
        BY <2>1, <4>1 DEF Fits
      <4> QED
        BY <1>1, <4>6, <4>7, StaysUpToDate
    <3> QED
      BY <3>1, <3>2
  <2>2. ASSUME NEW o \in Operators, work'[o].pc \in {"Service", "status"}, Current(work[o].snap)'
        PROVE  Fits(child["Deployment"])'
    <3>1. /\ work[o].pc # "idle" /\ work'[o].snap = work[o].snap
          /\ \/ work[o].pc \in {"Service", "status"}
             \/ /\ childCache[o]["Deployment"].owner = work[o].snap.uid
                /\ childCache[o]["Deployment"].built = work[o].snap.spec
             \/ BuiltBy(o)
      BY <2>2, PastDeploymentStep
    <3>2. Current(work[o].snap)
      BY <1>1, <2>2, <3>1 DEF Current, Kept
    <3>3. CASE work[o].pc \in {"Service", "status"}
      BY <1>1, <3>2, <3>3, FittingStays DEF SettledInv
    <3>4. CASE /\ childCache[o]["Deployment"].owner = work[o].snap.uid
               /\ childCache[o]["Deployment"].built = work[o].snap.spec
      <4>1. Fits(childCache[o]["Deployment"])
        BY <3>2, <3>4 DEF Current, Fits
      <4>2. childCache[o]["Deployment"] \in Deployments(o)
        BY DEF Deployments
      <4> QED
        BY <1>1, <4>1, <4>2, FittingStays DEF SettledInv
    <3>5. CASE BuiltBy(o)
      BY <1>1, <3>2, <3>5 DEF BuiltBy, Current, Fits, Kept
    <3> QED
      BY <3>1, <3>3, <3>4, <3>5
  <2>3. ASSUME agent'.status.ready = "True",
               agent'.status.observedGeneration = agent'.generation
        PROVE  Fits(child["Deployment"])'
    <3>1. CASE agent.status.ready = "True"
                 /\ agent.status.observedGeneration = agent.generation
      BY <1>1, <3>1, FittingStays DEF SettledInv
    <3>2. ASSUME agent.uid # 0, NEW o \in Operators, work[o].pc = "status", work[o].snap = agent
          PROVE  Fits(child["Deployment"])'
      <4>1. Current(work[o].snap)
        BY <3>2 DEF Current
      <4> QED
        BY <1>1, <3>2, <4>1, FittingStays DEF SettledInv
    <3> QED
      BY <1>1, <2>3, <3>1, <3>2 DEF Kept
  <2> QED
    BY <2>1, <2>2, <2>3 DEF SettledInv
<1>2. CASE Replaced \/ Edited \/ Removed
  <2>1. \A o \in Operators : \A c \in Deployments(o)' : ~Fits(c)'
    BY <1>2, NothingFits
  <2>2. ASSUME NEW o \in Operators, work'[o].pc \in {"Service", "status"}
        PROVE  ~Current(work[o].snap)'
    <3>1. work[o].pc # "idle" /\ work'[o].snap = work[o].snap
      BY <2>2, PastDeploymentStep
    <3>2. work[o].snap \in Versions(o)
      BY <3>1 DEF Versions
    <3>3. \A v \in Versions(o) : ~Current(v)'
      BY <1>2, NothingCurrent
    <3> QED
      BY <3>1, <3>2, <3>3 DEF Current
  <2>3. ~(agent'.status.ready = "True" /\ agent'.status.observedGeneration = agent'.generation)
    <3>1. /\ agent.generation \in Nat /\ agent.status.observedGeneration \in Nat
          /\ agent.status.observedGeneration <= agent.generation
      BY DEF TypeInv, TypeOK, AgentVersion, AgentStatus, PastInv
    <3>2. EmptyStatus.ready # "True"
      BY DEF EmptyStatus
    <3> QED
      BY <1>2, <3>1, <3>2 DEF Replaced, Edited, Removed
  <2> QED
    BY <2>1, <2>2, <2>3 DEF SettledInv
<1> QED
  BY <1>1, <1>2, SpecSteps

LEMMA SettledInit == Init => PastInv /\ InOrder /\ SettledInv
<1> SUFFICES ASSUME Init PROVE PastInv /\ InOrder /\ SettledInv
  OBVIOUS
<1>1. /\ agent = NoAgent /\ NoAgent.uid = 0 /\ NoAgent.status = EmptyStatus
      /\ NoAgent.generation = 0 /\ lives = 0
      /\ EmptyStatus.ready = "Unknown" /\ EmptyStatus.observedGeneration = 0
      /\ NoChild.owner = 0 /\ child["Deployment"] = NoChild
  BY DEF Init, NoAgent, EmptyStatus, NoChild
<1>2. \A o \in Operators : /\ agentCache[o] = NoAgent /\ agentInbox[o] = <<>>
                           /\ work[o].pc = "idle"
                           /\ childCache[o]["Deployment"] = NoChild
                           /\ childInbox[o]["Deployment"] = <<>>
  BY DEF Init, Idle
<1>3. \A o \in Operators : Versions(o) = {NoAgent} /\ Deployments(o) = {NoChild}
  BY <1>1, <1>2, EntriesNone DEF Versions, Deployments
<1>4. PastInv
  BY <1>1, <1>3 DEF PastInv, IsPast
<1>5. InOrder
  BY <1>1, <1>2 DEF InOrder, Current
<1>6. SettledInv
  BY <1>1, <1>2, <1>3 DEF SettledInv, Fits
<1> QED
  BY <1>4, <1>5, <1>6

(* With one operator process, and users who do not go back to an old spec, *)
(* an Agent that is Ready for its present generation runs its present spec. *)
THEOREM ReadyRunsItsSpec ==
  ASSUME \A p, q \in Operators : p = q, ~AllowRevert
  PROVE  Spec => []ReadyMeansDeployed
<1>0. Lone
  BY DEF Lone
<1>1. Spec => [](TypeInv /\ Coherent)
  BY InitType, StepType, CoherentInit, CoherentStep, PTL DEF Spec
<1> DEFINE I == PastInv /\ InOrder /\ SettledInv
<1>2. Init => I
  BY SettledInit
<1>3. TypeInv /\ Coherent /\ I /\ [Next]_vars => I'
  <2> SUFFICES ASSUME TypeInv, Coherent, I, [Next]_vars PROVE I'
    OBVIOUS
  <2>1. TypeInv'
    BY StepType
  <2>2. PastInv'
    BY <2>1, PastStep
  <2>3. InOrder'
    BY <2>1, InOrderStep
  <2>4. SettledInv'
    BY <1>0, <2>1, <2>2, SettledStep
  <2> QED
    BY <2>2, <2>3, <2>4
<1>4. I => ReadyMeansDeployed
  BY DEF SettledInv, Fits, ReadyMeansDeployed, Content, Desired
<1> HIDE DEF I
<1> QED
  BY <1>1, <1>2, <1>3, <1>4, PTL DEF Spec


-----------------------------------------------------------------------------
(* Watching.  What an operator has cached, or else the last version on its    *)
(* way, is the stored Agent, so whoever drops the key because the cache has   *)
(* no Agent has an event to come if there is one.                            *)

Newest(o) == IF agentInbox[o] = <<>> THEN agentCache[o] ELSE agentInbox[o][Len(agentInbox[o])]
WatchInv == (\A o \in Operators : Newest(o) = agent) /\ NeverForgotten

(* A write is on its way to everybody.                                       *)
LEMMA WriteSeen ==
  ASSUME TypeInv, Written
  PROVE  WatchInv'
<1>1. ASSUME NEW o \in Operators PROVE agentInbox'[o] # <<>> /\ Newest(o)' = agent'
  <2>1. /\ agentInbox[o] \in Seq(AgentVersion) /\ agent' \in AgentVersion
        /\ agentInbox'[o] = Append(agentInbox[o], agent')
    BY DEF TypeInv, TypeOK, Written
  <2>2. /\ Len(agentInbox'[o]) = Len(agentInbox[o]) + 1 /\ Len(agentInbox[o]) \in Nat
        /\ agentInbox'[o][Len(agentInbox[o]) + 1] = agent'
    BY <2>1
  <2>3. agentInbox'[o] # <<>>
    BY <2>2, Len(<<>>) = 0
  <2> QED
    BY <2>2, <2>3 DEF Newest
<1> QED
  BY <1>1 DEF WatchInv, NeverForgotten

(* A delivery leaves the last version the last.                              *)
LEMMA LastOfTail ==
  ASSUME NEW S, NEW s \in Seq(S), s # << >>
  PROVE  (IF Tail(s) = << >> THEN Head(s) ELSE Tail(s)[Len(Tail(s))]) = s[Len(s)]
<1>1. /\ Len(s) \in Nat \ {0} /\ Head(s) = s[1]
      /\ Tail(s) \in Seq(S) /\ Len(Tail(s)) = Len(s) - 1
      /\ \A i \in 1..Len(Tail(s)) : Tail(s)[i] = s[i + 1]
  BY EmptySeq, HeadTailProperties
<1>2. Len(<< >>) = 0 /\ (Tail(s) # << >> => Len(Tail(s)) \in Nat \ {0})
  BY <1>1, EmptySeq
<1>3. CASE Tail(s) = << >>
  <2> DEFINE n == Len(s)
             m == Len(Tail(s))
  <2>1. n = 1
    <3>1. m = 0
      BY <1>2, <1>3, Zenon
    <3>2. n \in Nat \ {0} /\ m = n - 1
      BY <1>1
    <3> HIDE DEF n, m
    <3> QED
      BY <3>1, <3>2
  <2> QED
    BY <1>1, <1>3, <2>1
<1>4. CASE Tail(s) # << >>
  <2> DEFINE n == Len(Tail(s))
  <2>1. n \in Nat \ {0} /\ Len(s) = n + 1
    BY <1>1, <1>2, <1>4
  <2>2. Tail(s)[n] = s[n + 1]
    <3>1. \A i \in 1..n : Tail(s)[i] = s[i + 1]
      BY <1>1
    <3> HIDE DEF n
    <3>2. n \in 1..n
      BY <2>1
    <3> QED
      BY <3>1, <3>2
  <2> QED
    BY <1>4, <2>1, <2>2
<1> QED
  BY <1>3, <1>4

(* The other steps end a call only by queueing the key, and take the key only *)
(* to begin a call, or to drop it for an Agent that is not cached.           *)
Awake(o) == queued[o] \/ work[o].pc # "idle"

LEMMA StaysAwake ==
  ASSUME TypeInv, [Next]_vars, ~AgentWrite,
         \A p \in Operators : ~DeliverAgent(p) /\ ~Restart(p), NEW o \in Operators, Awake(o)
  PROVE  UNCHANGED <<agent, agentCache, agentInbox>> /\ (Awake(o)' \/ agentCache[o].uid = 0)
<1> USE DEF apiVars, infVars, envVars
<1> DEFINE Same == UNCHANGED <<agent, agentCache, agentInbox>>
           Goal == Same /\ (Awake(o)' \/ agentCache[o].uid = 0)
<1>0. /\ work \in [Operators -> [pc : PCs, snap : AgentVersion]]
      /\ queued \in [Operators -> BOOLEAN] /\ Idle.pc = "idle"
  BY DEF TypeInv, TypeOK, Idle
<1>1. ASSUME Same, UNCHANGED <<queued, work>> PROVE Goal
  BY <1>1 DEF Awake
<1>2. ASSUME NEW d \in DepStates, ChangeDependencies(d) PROVE Goal
  BY <1>0, <1>2 DEF ChangeDependencies, Awake
<1>3. ASSUME NEW p \in Operators, Fail(p), Same PROVE Goal
  BY <1>0, <1>3 DEF Fail, Finish, Awake
<1>4. ASSUME NEW p \in Operators, NEW pc \in PCs \ {"idle"}, Goto(p, pc), UNCHANGED queued, Same
      PROVE  Goal
  BY <1>0, <1>4 DEF Goto, Awake
<1>5. ASSUME NEW p \in Operators, ReconcileNotFound(p) PROVE Goal
  BY <1>0, <1>5 DEF ReconcileNotFound, Awake
<1>6. ASSUME NEW p \in Operators, ReconcileBegin(p) PROVE Goal
  <2>1. /\ queued' = [queued EXCEPT ![p] = FALSE] /\ Same
        /\ work' = [work EXCEPT ![p] =
             [pc |-> IF deps = "noGateway" THEN "notReady" ELSE "Deployment",
              snap |-> agentCache[p]]]
    BY <1>6 DEF ReconcileBegin
  <2>2. work'[p].pc # "idle" /\ (p # o => work'[o] = work[o] /\ queued'[o] = queued[o])
    BY <1>0, <2>1
  <2> QED
    BY <2>1, <2>2 DEF Awake
<1>7. ASSUME NEW p \in Operators, NEW k \in Kinds,
             ChildUpToDate(p, k) \/ EnsureChild(p, k) \/ EnsureChildFails(p, k)
      PROVE  Goal
  <2>1. After(k) \in PCs \ {"idle"}
    BY DEF After
  <2>2. Same /\ ((Goto(p, After(k)) /\ UNCHANGED queued) \/ Fail(p))
    BY <1>7 DEF ChildUpToDate, EnsureChild, EnsureChildFails
  <2> QED
    BY <1>3, <1>4, <2>1, <2>2
<1>8. ASSUME NEW p \in Operators, DeleteService(p) \/ DeleteServiceFails(p) PROVE Goal
  <2>1. Same /\ ((Goto(p, "status") /\ UNCHANGED queued) \/ Fail(p))
    BY <1>8 DEF DeleteService, DeleteServiceFails
  <2> QED
    BY <1>3, <1>4, <2>1
<1>9. ASSUME NEW p \in Operators, UpdateStatusNotReady(p) \/ UpdateStatusFails(p) PROVE Goal
  <2>1. Same
    BY <1>9 DEF UpdateStatusNotReady, UpdateStatusFails, AgentWrite
  <2>2. Fail(p)
    BY <1>9 DEF UpdateStatusNotReady, UpdateStatusFails
  <2> QED
    BY <1>3, <2>1, <2>2
<1>10. ASSUME NEW p \in Operators, NEW k \in Kinds, DeliverChild(p, k) PROVE Goal
  BY <1>0, <1>10 DEF DeliverChild, Awake
<1>11. CASE UNCHANGED vars
  BY <1>1, <1>11 DEF vars
<1>12. CASE Environment
  <2>1. (\E k \in Kinds : CollectGarbage(k)) => Same /\ UNCHANGED <<queued, work>>
    BY DEF CollectGarbage
  <2> QED
    BY <1>1, <1>2, <1>12, <2>1 DEF Environment, AgentWrite
<1>13. ASSUME NEW p \in Operators, Operator(p) PROVE Goal
  <2>1. CASE ReconcileUnresolved(p)
    BY <1>1, <2>1 DEF ReconcileUnresolved, vars
  <2>2. CASE Reconcile(p)
    BY <1>5, <1>6, <1>7, <1>8, <1>9, <2>1, <2>2 DEF Reconcile, AgentWrite
  <2> QED
    BY <1>10, <1>13, <2>2 DEF Operator
<1> QED
  BY <1>11, <1>12, <1>13 DEF Next

LEMMA WatchStep == TypeInv /\ WatchInv /\ [Next]_vars => WatchInv'
<1> SUFFICES ASSUME TypeInv, WatchInv, [Next]_vars PROVE WatchInv'
  OBVIOUS
<1>0. TypeInv'
  BY StepType
<1> USE DEF apiVars, infVars, envVars
<1>1. CASE AgentWrite
  BY <1>0, <1>1, AgentWriteVersion, WriteSeen
<1>2. ASSUME NEW o \in Operators, DeliverAgent(o) PROVE WatchInv'
  <2>1. /\ agentInbox[o] \in Seq(AgentVersion) /\ agentInbox[o] # <<>>
        /\ agentCache' = [agentCache EXCEPT ![o] = Head(agentInbox[o])]
        /\ agentInbox' = [agentInbox EXCEPT ![o] = Tail(agentInbox[o])]
        /\ queued' = [queued EXCEPT ![o] = TRUE]
        /\ agent' = agent /\ work' = work
        /\ agentCache \in [Operators -> AgentVersion]
        /\ agentInbox \in [Operators -> Seq(AgentVersion)]
        /\ queued \in [Operators -> BOOLEAN]
    BY <1>2 DEF DeliverAgent, TypeInv, TypeOK
  <2>2. Newest(o)' = Newest(o)
    <3>1. agentCache'[o] = Head(agentInbox[o]) /\ agentInbox'[o] = Tail(agentInbox[o])
      BY <2>1
    <3> QED
      BY <2>1, <3>1, LastOfTail DEF Newest
  <2>3. \A p \in Operators \ {o} : Newest(p)' = Newest(p)
    BY <2>1 DEF Newest
  <2>4. \A p \in Operators :
          queued[p] \/ agentInbox[p] # <<>> \/ work[p].pc # "idle"
            => queued'[p] \/ agentInbox'[p] # <<>> \/ work'[p].pc # "idle"
    BY <2>1
  <2> QED
    BY <2>1, <2>2, <2>3, <2>4 DEF WatchInv, NeverForgotten
<1>3. ASSUME NEW o \in Operators, Restart(o) PROVE WatchInv'
  <2>1. /\ agentCache' = [agentCache EXCEPT ![o] = agent]
        /\ agentInbox' = [agentInbox EXCEPT ![o] = <<>>]
        /\ queued' = [queued EXCEPT ![o] = agent.uid # 0 \/ \E k \in Kinds : child[k].owner # 0]
        /\ work' = [work EXCEPT ![o] = Idle] /\ agent' = agent
        /\ agentCache \in [Operators -> AgentVersion]
        /\ agentInbox \in [Operators -> Seq(AgentVersion)]
        /\ queued \in [Operators -> BOOLEAN]
        /\ work \in [Operators -> [pc : PCs, snap : AgentVersion]]
    BY <1>3 DEF Restart, Finish, TypeInv, TypeOK
  <2>2. \A p \in Operators : Newest(p)' = agent'
    BY <2>1 DEF Newest, WatchInv
  <2>3. agent.uid # 0 => queued'[o]
    BY <2>1
  <2>4. \A p \in Operators \ {o} :
          queued'[p] = queued[p] /\ agentInbox'[p] = agentInbox[p] /\ work'[p] = work[p]
    BY <2>1
  <2> QED
    BY <2>1, <2>2, <2>3, <2>4 DEF WatchInv, NeverForgotten
<1>4. CASE ~AgentWrite /\ \A p \in Operators : ~DeliverAgent(p) /\ ~Restart(p)
  <2>1. UNCHANGED agent
    BY <1>4, AgentOnlyWritten
  <2>2. UNCHANGED <<agentCache, agentInbox>>
    BY <1>0, <1>4, KnowledgeSteps DEF ReconcileBegin
  <2>3. ASSUME agent.uid # 0, NEW o \in Operators
        PROVE  queued'[o] \/ agentInbox'[o] # <<>> \/ work'[o].pc # "idle"
    <3>1. CASE agentInbox[o] # <<>>
      BY <2>2, <3>1
    <3>2. CASE agentInbox[o] = <<>>
      <4>1. agentCache[o] = agent /\ Awake(o)
        BY <2>3, <3>2 DEF WatchInv, NeverForgotten, Newest, Awake
      <4> QED
        BY <1>4, <2>3, <4>1, StaysAwake DEF Awake
    <3> QED
      BY <3>1, <3>2
  <2> QED
    BY <2>1, <2>2, <2>3 DEF WatchInv, NeverForgotten, Newest
<1> QED
  BY <1>1, <1>2, <1>3, <1>4

(* With any number of operators, crashes and conflicts, none of them ever     *)
(* loses an Agent that exists out of sight: a call for it will follow.       *)
THEOREM AgentsAreWatched == Spec => []NeverForgotten
<1>1. Init => WatchInv
  BY DEF Init, WatchInv, NeverForgotten, Newest, NoAgent
<1>2. Spec => []TypeInv
  BY InitType, StepType, PTL DEF Spec
<1>3. WatchInv => NeverForgotten
  BY DEF WatchInv
<1> QED
  BY <1>1, <1>2, <1>3, WatchStep, PTL DEF Spec
=============================================================================
