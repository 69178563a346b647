---------------------- MODULE ConfidentialAgentProofs ----------------------
(***************************************************************************)
(* Theorems about ConfidentialAgent, for any keys and bounds: the types,     *)
(* that an Agent becomes verified only by its own spec, and that the          *)
(* controller never rests on an Agent that is verified.                      *)
(***************************************************************************)
EXTENDS ConfidentialAgent, SequenceTheorems, TLAPS

(* The cache lags behind the API server by what is on its way.               *)
Newest == IF caInbox = <<>> THEN caCache ELSE caInbox[Len(caInbox)]

(* A call whose status will be accepted works from the present spec, and one  *)
(* that works from a pinned key is ready only if the service has had it.     *)
WorkInv ==
  /\ service # NoKey => service \in used
  /\ secret \in used \cup {"absent", "empty"}
  /\ work.pc # "idle" /\ work.latest => work.pinned = ca.pinned
  /\ work.pc = "ready" /\ work.pinned => work.key \in used

ConfidentialInv == TypeOK /\ Newest = ca /\ WorkInv

-----------------------------------------------------------------------------
(* The steps in three groups: around the controller, the deliveries, and the  *)
(* controller's own.                                                         *)

Works == [pc : {"idle", "agent", "deploy", "key", "attest", "ready", "notReady"},
          latest : BOOLEAN, pinned : BOOLEAN, key : Keys \cup {NoKey},
          reason : Reasons, retry : {"error", "30s"}]

LEMMA IdleTyped == Idle \in Works /\ Idle.pc = "idle"
  BY DEF Idle, Works, Reasons

LEMMA NothingSent == \A S : << >> \in Seq(S)
  BY EmptySeq

LEMMA InitHolds == Init => ConfidentialInv
<1> SUFFICES ASSUME Init PROVE ConfidentialInv
  OBVIOUS
<1>1. ca \in Version
  BY DEF Init, Version, Reasons
<1>2. TypeOK
  <2>1. ca \in Version /\ caCache \in Version /\ caInbox \in Seq(Version)
    BY <1>1, NothingSent DEF Init
  <2>2. agent \in BOOLEAN /\ agentCache \in BOOLEAN /\ agentInbox \in Seq(BOOLEAN)
    BY NothingSent DEF Init
  <2>3. secret \in Secrets /\ service \in Keys \cup {NoKey} /\ used \subseteq Keys
    BY DEF Init, Secrets
  <2>4. queued \in BOOLEAN /\ timer \in BOOLEAN /\ work \in Works
    BY IdleTyped DEF Init
  <2> QED
    BY <2>1, <2>2, <2>3, <2>4 DEF TypeOK, Works
<1>3. Newest = ca
  BY DEF Init, Newest
<1>4. WorkInv
  BY IdleTyped DEF Init, WorkInv
<1> QED
  BY <1>2, <1>3, <1>4 DEF ConfidentialInv

(* Users, the service, the process and the informers' clock.                 *)
LEMMA EnvironmentStep ==
  ASSUME ConfidentialInv, Environment
  PROVE  ConfidentialInv'
<1> USE DEF ConfidentialInv, apiVars, infVars
<1>1. CASE EditSpec
  <2> DEFINE new == [ca EXCEPT !.pinned = ~@]
  <2>1. ca' = new /\ caInbox' = Append(caInbox, new) /\ work' = [work EXCEPT !.latest = FALSE]
    BY <1>1 DEF EditSpec, Write
  <2>2. new \in Version
    BY DEF TypeOK, Version
  <2>3. work' \in Works /\ ~work'.latest /\ work'.pc = work.pc
        /\ work'.pinned = work.pinned /\ work'.key = work.key
    BY <2>1 DEF TypeOK, Works
  <2> HIDE DEF new
  <2>4. TypeOK'
    BY <1>1, <2>1, <2>2, <2>3 DEF EditSpec, TypeOK, Works
  <2>5. Newest' = ca'
    BY <2>1, <2>2 DEF TypeOK, Newest
  <2>6. WorkInv'
    BY <1>1, <2>3 DEF EditSpec, WorkInv
  <2> QED
    BY <2>4, <2>5, <2>6
<1>2. CASE CreateOrDeleteAgent
  <2>1. TypeOK'
    BY <1>2 DEF CreateOrDeleteAgent, TypeOK
  <2>2. Newest' = ca' /\ WorkInv'
    BY <1>2 DEF CreateOrDeleteAgent, Newest, WorkInv
  <2> QED
    BY <2>1, <2>2
<1>3. ASSUME NEW k \in used \cup {"absent", "empty"}, WriteSecret(k) PROVE ConfidentialInv'
  <2>1. TypeOK'
    BY <1>3 DEF WriteSecret, TypeOK, Secrets
  <2>2. Newest' = ca' /\ WorkInv'
    BY <1>3 DEF WriteSecret, Newest, WorkInv
  <2> QED
    BY <2>1, <2>2
<1>4. CASE StartService \/ StopService
  <2>1. TypeOK'
    BY <1>4 DEF StartService, StopService, TypeOK
  <2>2. Newest' = ca' /\ WorkInv'
    BY <1>4 DEF StartService, StopService, Newest, WorkInv
  <2> QED
    BY <2>1, <2>2
<1>5. CASE Restart
  <2>1. TypeOK'
    <3>1. /\ caInbox' \in Seq(Version) /\ agentInbox' \in Seq(BOOLEAN)
          /\ work' \in Works /\ queued' \in BOOLEAN /\ timer' \in BOOLEAN
      BY <1>5, IdleTyped, NothingSent DEF Restart
    <3> QED
      BY <1>5, <3>1 DEF Restart, TypeOK, Works
  <2>2. Newest' = ca' /\ WorkInv'
    BY <1>5, IdleTyped DEF Restart, Newest, WorkInv
  <2> QED
    BY <2>1, <2>2
<1>6. CASE Resync
  <2>1. TypeOK'
    BY <1>6 DEF Resync, TypeOK
  <2>2. Newest' = ca' /\ WorkInv'
    BY <1>6 DEF Resync, Newest, WorkInv
  <2> QED
    BY <2>1, <2>2
<1> QED
  BY <1>1, <1>2, <1>3, <1>4, <1>5, <1>6 DEF Environment

LEMMA DeliveryStep ==
  ASSUME ConfidentialInv, DeliverCA \/ DeliverAgent \/ TimerFires
  PROVE  ConfidentialInv'
<1> USE DEF ConfidentialInv, apiVars, infVars
<1>1. CASE DeliverCA
  <2>1. /\ caInbox # << >> /\ caCache' = Head(caInbox) /\ caInbox' = Tail(caInbox)
        /\ caInbox \in Seq(Version)
    BY <1>1 DEF DeliverCA, TypeOK
  <2>2. caCache' \in Version /\ caInbox' \in Seq(Version)
    BY <2>1
  <2>3. TypeOK'
    BY <1>1, <2>2 DEF DeliverCA, TypeOK
  <2>4. Newest' = Newest
    <3>1. CASE Len(caInbox) = 1
      BY <2>1, <3>1 DEF Newest
    <3>2. CASE Len(caInbox) # 1
      <4>1. /\ Len(caInbox') = Len(caInbox) - 1 /\ Len(caInbox') \in Nat \ {0}
            /\ \A i \in 1..Len(caInbox') : caInbox'[i] = caInbox[i + 1]
        BY <2>1, <3>2, HeadTailProperties
      <4>2. caInbox'[Len(caInbox')] = caInbox[Len(caInbox)]
        BY <2>1, <4>1
      <4> QED
        BY <2>1, <4>1, <4>2 DEF Newest
    <3> QED
      BY <3>1, <3>2
  <2>5. WorkInv'
    BY <1>1 DEF DeliverCA, WorkInv
  <2> QED
    BY <1>1, <2>3, <2>4, <2>5 DEF DeliverCA
<1>2. CASE DeliverAgent
  <2>1. TypeOK'
    BY <1>2 DEF DeliverAgent, TypeOK
  <2>2. Newest' = ca' /\ WorkInv'
    BY <1>2 DEF DeliverAgent, Newest, WorkInv
  <2> QED
    BY <2>1, <2>2
<1>3. CASE TimerFires
  <2>1. TypeOK'
    BY <1>3 DEF TimerFires, TypeOK
  <2>2. Newest' = ca' /\ WorkInv'
    BY <1>3 DEF TimerFires, Newest, WorkInv
  <2> QED
    BY <2>1, <2>2
<1> QED
  BY <1>1, <1>2, <1>3

(* What a step of Reconcile does to the call, unless it ends it: it keeps      *)
(* what the call has read.                                                   *)
Proceeds ==
  /\ work' \in Works /\ work.pc # "idle" /\ work'.pc # "idle"
  /\ work'.latest = work.latest /\ work'.pinned = work.pinned
  /\ work'.pc = "ready" /\ work.pinned => work'.key \in used

LEMMA CallProceeds ==
  ASSUME ConfidentialInv,
         \/ GetAgent \/ EnsureDeploymentAndService \/ EnsureDeploymentFails \/ LoadPublicKey
         \/ VerifyAttestation \/ AttestationLost
  PROVE  Proceeds
<1>0. work \in Works /\ WorkInv /\ secret \in Secrets
  BY DEF ConfidentialInv, TypeOK, Works
<1>1. ASSUME NEW pc \in {"deploy", "key", "attest"}, Goto(pc), work.pc # "idle" PROVE Proceeds
  BY <1>0, <1>1 DEF Goto, Proceeds, Works
<1>2. ASSUME NEW reason \in Reasons, NEW retry \in {"error", "30s"}, NotReady(reason, retry),
             work.pc # "idle"
      PROVE  Proceeds
  BY <1>0, <1>2 DEF NotReady, Proceeds, Works
<1>3. CASE GetAgent
  BY <1>1, <1>2, <1>3 DEF GetAgent, Reasons
<1>4. CASE EnsureDeploymentAndService
  BY <1>1, <1>4 DEF EnsureDeploymentAndService
<1>5. CASE EnsureDeploymentFails
  BY <1>2, <1>5 DEF EnsureDeploymentFails, Reasons
<1>6. CASE LoadPublicKey
  <2>1. CASE secret = "absent" \/ secret = "empty"
    BY <1>2, <1>6, <2>1 DEF LoadPublicKey, Reasons
  <2>2. CASE secret # "absent" /\ secret # "empty"
    <3>1. work' = [work EXCEPT !.pc = "attest", !.key = secret] /\ work.pc = "key"
      BY <1>6, <2>2 DEF LoadPublicKey
    <3>2. secret \in Keys
      BY <1>0, <2>2 DEF Secrets
    <3> QED
      BY <1>0, <3>1, <3>2 DEF Proceeds, Works
  <2> QED
    BY <2>1, <2>2
<1>7. CASE VerifyAttestation
  <2>1. CASE service # NoKey /\ (work.pinned => work.key = service)
    <3>1. work' = [work EXCEPT !.pc = "ready"] /\ work.pc = "attest"
      BY <1>7, <2>1 DEF VerifyAttestation, Goto
    <3>2. work.pinned => work.key \in used
      BY <1>0, <2>1 DEF WorkInv
    <3> QED
      BY <1>0, <3>1, <3>2 DEF Proceeds, Works
  <2>2. CASE ~(service # NoKey /\ (work.pinned => work.key = service))
    BY <1>2, <1>7, <2>2 DEF VerifyAttestation, Reasons
  <2> QED
    BY <2>1, <2>2
<1>8. CASE AttestationLost
  BY <1>2, <1>8 DEF AttestationLost, Reasons
<1> QED
  BY <1>3, <1>4, <1>5, <1>6, <1>7, <1>8

LEMMA ReconcileStep ==
  ASSUME ConfidentialInv, Reconcile
  PROVE  ConfidentialInv'
<1> USE DEF ConfidentialInv, apiVars, infVars
<1>1. CASE Begin
  <2> DEFINE call == [pc |-> "agent", latest |-> caInbox = <<>>, pinned |-> caCache.pinned,
                      key |-> NoKey, reason |-> "", retry |-> "error"]
  <2>1. work' = call
    BY <1>1 DEF Begin
  <2>2. call \in Works
    <3>1. (caInbox = <<>>) \in BOOLEAN /\ caCache.pinned \in BOOLEAN /\ "" \in Reasons
      BY DEF TypeOK, Version, Reasons
    <3> QED
      BY <3>1 DEF Works
  <2>3. call.pc = "agent" /\ (call.latest <=> caInbox = <<>>) /\ call.pinned = caCache.pinned
    OBVIOUS
  <2> HIDE DEF call
  <2>4. TypeOK'
    BY <1>1, <2>1, <2>2 DEF Begin, TypeOK, Works
  <2>5. Newest' = ca'
    BY <1>1 DEF Begin, Newest
  <2>6. WorkInv'
    BY <1>1, <2>1, <2>3 DEF Begin, WorkInv, Newest
  <2> QED
    BY <2>4, <2>5, <2>6
<1>2. CASE \/ GetAgent \/ EnsureDeploymentAndService \/ EnsureDeploymentFails \/ LoadPublicKey
           \/ VerifyAttestation \/ AttestationLost
  <2>1. Proceeds
    BY <1>2, CallProceeds
  <2>2. UNCHANGED << ca, caCache, caInbox, agent, agentCache, agentInbox, secret, service, used,
                     queued, timer >>
    BY <1>2 DEF GetAgent, EnsureDeploymentAndService, EnsureDeploymentFails, LoadPublicKey,
                VerifyAttestation, AttestationLost
  <2> QED
    BY <2>1, <2>2 DEF Proceeds, TypeOK, Works, Newest, WorkInv
<1>3. CASE EnsureServiceFails
  <2>1. work' = Idle /\ queued' = TRUE /\ UNCHANGED << timer, apiVars, infVars >>
    BY <1>3 DEF EnsureServiceFails, Fail
  <2>2. TypeOK'
    BY <2>1, IdleTyped DEF TypeOK, Works
  <2> QED
    BY <2>1, <2>2, IdleTyped DEF Newest, WorkInv
<1>4. ASSUME NEW new \in Version, new.pinned = ca.pinned, Write(new) \/ UNCHANGED <<ca, caInbox>>,
             work' = Idle, queued' \in BOOLEAN, timer' \in BOOLEAN,
             UNCHANGED <<caCache, agent, agentCache, agentInbox, secret, service, used>>
      PROVE  ConfidentialInv'
  <2>1. TypeOK'
    BY <1>4, IdleTyped DEF Write, TypeOK, Works
  <2>2. Newest' = ca'
    BY <1>4 DEF Write, TypeOK, Newest
  <2>3. WorkInv'
    BY <1>4, IdleTyped DEF WorkInv
  <2> QED
    BY <2>1, <2>2, <2>3
<1>5. CASE UpdateStatusReady
  <2> DEFINE new == [ca EXCEPT !.verified = TRUE, !.reason = "Reconciled"]
  <2>1. new \in Version /\ new.pinned = ca.pinned
    BY DEF TypeOK, Version, Reasons
  <2>2. /\ Write(new) \/ UNCHANGED <<ca, caInbox>>
        /\ work' = Idle
        /\ UNCHANGED <<caCache, agent, agentCache, agentInbox, secret, service, used>>
    BY <1>5 DEF UpdateStatusReady, Fail
  <2>3. queued' \in BOOLEAN /\ timer' \in BOOLEAN
    BY <1>5 DEF UpdateStatusReady, Fail, TypeOK
  <2> QED
    BY <1>4, <2>1, <2>2, <2>3
<1>6. CASE UpdateStatusNotReady
  <2> DEFINE new == [ca EXCEPT !.verified = FALSE, !.reason = work.reason]
  <2>1. new \in Version /\ new.pinned = ca.pinned
    BY DEF TypeOK, Version
  <2>2. /\ Write(new) \/ UNCHANGED <<ca, caInbox>>
        /\ work' = Idle
        /\ UNCHANGED <<caCache, agent, agentCache, agentInbox, secret, service, used>>
    BY <1>6 DEF UpdateStatusNotReady
  <2>3. queued' \in BOOLEAN /\ timer' \in BOOLEAN
    BY <1>6 DEF UpdateStatusNotReady
  <2> QED
    BY <1>4, <2>1, <2>2, <2>3
<1> QED
  BY <1>1, <1>2, <1>3, <1>5, <1>6 DEF Reconcile

LEMMA InvStep == ConfidentialInv /\ [Next]_vars => ConfidentialInv'
<1>1. ASSUME ConfidentialInv, UNCHANGED vars PROVE ConfidentialInv'
  BY <1>1 DEF vars, ConfidentialInv, TypeOK, Newest, WorkInv
<1> QED
  BY <1>1, EnvironmentStep, DeliveryStep, ReconcileStep DEF Next

LEMMA InvHolds == Spec => []ConfidentialInv
  BY InitHolds, InvStep, PTL DEF Spec

-----------------------------------------------------------------------------
(* The theorems.                                                             *)

(* Every variable has its type, for any keys and any number of faults.        *)
THEOREM ConfidentialTyping == Spec => []TypeOK
<1>1. ConfidentialInv => TypeOK
  BY DEF ConfidentialInv
<1> QED
  BY <1>1, InvHolds, PTL

(* A call that was overtaken by an edit of the spec, however late it is, never *)
(* makes an Agent verified that was not: its status is refused.               *)
THEOREM AttestedAsPinned == Spec => VerifiedByItsSpec
<1>1. ASSUME ConfidentialInv, [Next]_vars, ~ca.verified, ca'.verified
      PROVE  work.pinned = ca.pinned /\ ca'.pinned = ca.pinned /\ (ca.pinned => work.key \in used)
  <2>1. ca \in Version
    BY <1>1 DEF ConfidentialInv, TypeOK
  <2>2. ca' # ca
    BY <1>1
  <2>3. ~EditSpec
    BY <1>1, <2>1 DEF EditSpec, Write, Version
  <2>4. ~UpdateStatusNotReady
    BY <1>1, <2>1 DEF UpdateStatusNotReady, Write, Version
  <2>5. UpdateStatusReady
    BY <1>1, <2>2, <2>3, <2>4 DEF Next, Environment, Reconcile, vars, apiVars, infVars,
       CreateOrDeleteAgent, WriteSecret, StartService, StopService, Restart, Resync, DeliverCA,
       DeliverAgent, TimerFires, Begin, GetAgent, EnsureDeploymentAndService,
       EnsureDeploymentFails, EnsureServiceFails, LoadPublicKey, VerifyAttestation,
       AttestationLost
  <2>6. work.pc = "ready" /\ work.latest /\ ca'.pinned = ca.pinned
    BY <2>1, <2>2, <2>5 DEF UpdateStatusReady, Write, Version
  <2> QED
    BY <1>1, <2>6 DEF ConfidentialInv, WorkInv
<1> QED
  BY <1>1, InvHolds, PTL DEF Spec, VerifiedByItsSpec

-----------------------------------------------------------------------------
(* Rest.  A call that no longer has the latest version is followed by the     *)
(* event of the version it has not seen; one that has it writes what it found *)
(* or finds it written, and asks again after an error or when its timer fires. *)

RestInv ==
  /\ work.pc # "idle" /\ ~work.latest => queued \/ caInbox # <<>>
  /\ work.pc = "notReady" /\ work.retry = "30s" => work.reason \in Retried
  /\ RestsOnlyUnverified

(* The calls that end, and the others, which keep the verdict's retry right.  *)
LEMMA VerdictProceeds ==
  ASSUME ConfidentialInv,
         \/ GetAgent \/ EnsureDeploymentAndService \/ EnsureDeploymentFails \/ LoadPublicKey
         \/ VerifyAttestation \/ AttestationLost
  PROVE  work'.pc = "notReady" /\ work'.retry = "30s" => work'.reason \in Retried
<1>0. work \in Works
  BY DEF ConfidentialInv, TypeOK, Works
<1>1. ASSUME NEW pc \in {"deploy", "key", "attest", "ready"}, Goto(pc) PROVE work'.pc = pc
  BY <1>0, <1>1 DEF Goto, Works
<1>2. ASSUME NEW reason, NEW retry, NotReady(reason, retry)
      PROVE  work'.reason = reason /\ work'.retry = retry
  BY <1>0, <1>2 DEF NotReady, Works
<1>3. CASE GetAgent
  BY <1>1, <1>2, <1>3 DEF GetAgent
<1>4. CASE EnsureDeploymentAndService
  BY <1>1, <1>4 DEF EnsureDeploymentAndService
<1>5. CASE EnsureDeploymentFails
  BY <1>2, <1>5 DEF EnsureDeploymentFails
<1>6. CASE LoadPublicKey
  <2>1. CASE secret = "absent" \/ secret = "empty"
    BY <1>2, <1>6, <2>1 DEF LoadPublicKey, Retried
  <2>2. CASE secret # "absent" /\ secret # "empty"
    <3>1. work' = [work EXCEPT !.pc = "attest", !.key = secret]
      BY <1>6, <2>2 DEF LoadPublicKey
    <3> QED
      BY <1>0, <3>1 DEF Works
  <2> QED
    BY <2>1, <2>2
<1>7. CASE VerifyAttestation
  BY <1>1, <1>2, <1>7 DEF VerifyAttestation, Retried
<1>8. CASE AttestationLost
  BY <1>2, <1>8 DEF AttestationLost, Retried
<1> QED
  BY <1>3, <1>4, <1>5, <1>6, <1>7, <1>8

(* A version that has been sent is on its way.                               *)
LEMMA SentIsUnderWay ==
  ASSUME ConfidentialInv, NEW new \in Version, Write(new)
  PROVE  caInbox' # <<>>
<1>1. caInbox \in Seq(Version) /\ caInbox' = Append(caInbox, new)
  BY DEF ConfidentialInv, TypeOK, Write
<1>2. Len(caInbox') = Len(caInbox) + 1 /\ Len(caInbox) \in Nat
  BY <1>1
<1> QED
  BY <1>2, Len(<<>>) = 0

LEMMA RestStep == ConfidentialInv /\ RestInv /\ [Next]_vars => RestInv'
<1> SUFFICES ASSUME ConfidentialInv, RestInv, [Next]_vars PROVE RestInv'
  OBVIOUS
<1> USE DEF apiVars, infVars
<1>0. work \in Works /\ Idle.pc = "idle" /\ ca \in Version
  BY IdleTyped DEF ConfidentialInv, TypeOK, Works
<1>1. CASE UNCHANGED vars
  BY <1>1 DEF vars, RestInv, RestsOnlyUnverified
<1>2. CASE EditSpec
  <2>1. caInbox' # <<>>
    <3>1. [ca EXCEPT !.pinned = ~@] \in Version
      BY <1>0 DEF Version
    <3> QED
      BY <1>2, <3>1, SentIsUnderWay DEF EditSpec
  <2>2. work'.pc = work.pc /\ work'.retry = work.retry /\ work'.reason = work.reason
    BY <1>0, <1>2 DEF EditSpec, Works
  <2> QED
    BY <2>1, <2>2 DEF RestInv, RestsOnlyUnverified
<1>3. CASE \/ CreateOrDeleteAgent \/ StartService \/ StopService
           \/ \E k \in used \cup {"absent", "empty"} : WriteSecret(k)
  <2>1. UNCHANGED << ca, caInbox, queued, timer, work >>
    BY <1>3 DEF CreateOrDeleteAgent, StartService, StopService, WriteSecret
  <2> QED
    BY <2>1 DEF RestInv, RestsOnlyUnverified
<1>4. CASE Restart
  BY <1>0, <1>4 DEF Restart, RestInv, RestsOnlyUnverified
<1>5. CASE Resync \/ DeliverCA \/ DeliverAgent \/ TimerFires
  <2>1. queued' /\ work' = work
    BY <1>5 DEF Resync, DeliverCA, DeliverAgent, TimerFires
  <2> QED
    BY <2>1 DEF RestInv, RestsOnlyUnverified
<1>6. CASE Begin
  <2>1. /\ work'.pc = "agent" /\ (work'.latest <=> caInbox = <<>>)
        /\ caInbox' = caInbox
    BY <1>6 DEF Begin
  <2> QED
    BY <2>1 DEF RestInv, RestsOnlyUnverified
<1>7. CASE \/ GetAgent \/ EnsureDeploymentAndService \/ EnsureDeploymentFails \/ LoadPublicKey
           \/ VerifyAttestation \/ AttestationLost
  <2>1. /\ work.pc # "idle" /\ work'.pc # "idle" /\ work'.latest = work.latest
        /\ work'.pc = "notReady" /\ work'.retry = "30s" => work'.reason \in Retried
    BY <1>7, CallProceeds, VerdictProceeds DEF Proceeds
  <2>2. queued' = queued /\ caInbox' = caInbox
    BY <1>7 DEF GetAgent, EnsureDeploymentAndService, EnsureDeploymentFails, LoadPublicKey,
                VerifyAttestation, AttestationLost
  <2> QED
    BY <2>1, <2>2 DEF RestInv, RestsOnlyUnverified
<1>8. CASE EnsureServiceFails
  BY <1>0, <1>8 DEF EnsureServiceFails, Fail, RestInv, RestsOnlyUnverified
<1>9. CASE UpdateStatusReady
  <2>1. work'.pc = "idle" /\ (queued' \/ caInbox' # <<>>)
    <3>1. CASE work.latest
      <4>1. [ca EXCEPT !.verified = TRUE, !.reason = "Reconciled"] \in Version
        BY <1>0 DEF Version, Reasons
      <4> QED
        BY <1>0, <1>9, <3>1, <4>1, SentIsUnderWay DEF UpdateStatusReady
    <3>2. CASE ~work.latest
      BY <1>0, <1>9, <3>2 DEF UpdateStatusReady, Fail
    <3> QED
      BY <3>1, <3>2
  <2> QED
    BY <2>1 DEF RestInv, RestsOnlyUnverified
<1>10. CASE UpdateStatusNotReady
  <2> DEFINE new == [ca EXCEPT !.verified = FALSE, !.reason = work.reason]
  <2>1. /\ work.pc = "notReady" /\ work'.pc = "idle"
        /\ IF work.latest /\ new # ca THEN Write(new) ELSE UNCHANGED <<ca, caInbox>>
        /\ queued' = (queued \/ work.retry = "error")
        /\ timer' = (timer \/ work.retry = "30s")
    BY <1>0, <1>10 DEF UpdateStatusNotReady
  <2>2. new \in Version /\ new.verified = FALSE /\ new.reason = work.reason
    BY <1>0 DEF Version, Works
  <2> HIDE DEF new
  <2>3. ASSUME ~queued', caInbox' = <<>>
        PROVE  timer' /\ ~ca'.verified /\ ca'.reason \in Retried
    <3>1. ~queued /\ work.retry # "error"
      BY <2>1, <2>3, Zenon
    <3>2. work.retry = "30s"
      BY <1>0, <3>1 DEF Works
    <3>3. timer' /\ work.reason \in Retried
      BY <2>1, <3>2 DEF RestInv
    <3>4. ~(work.latest /\ new # ca)
      BY <2>1, <2>2, <2>3, SentIsUnderWay
    <3>5. caInbox = <<>> /\ ca' = ca
      BY <2>1, <2>3, <3>4
    <3>6. work.latest
      BY <2>1, <3>1, <3>5 DEF RestInv
    <3> QED
      BY <2>2, <3>3, <3>4, <3>5, <3>6
  <2> QED
    BY <2>1, <2>3 DEF RestInv, RestsOnlyUnverified
<1> QED
  BY <1>1, <1>2, <1>3, <1>4, <1>5, <1>6, <1>7, <1>8, <1>9, <1>10
     DEF Next, Environment, Reconcile

(* Between two attempts an Agent is not verified, its status says why, and the *)
(* timer for the next attempt is running; one that is verified is always about *)
(* to be asked again.                                                        *)
THEOREM VerifiedNeverRests == Spec => []RestsOnlyUnverified
<1>1. Init => RestInv
  BY IdleTyped DEF Init, RestInv, RestsOnlyUnverified
<1>2. RestInv => RestsOnlyUnverified
  BY DEF RestInv
<1> QED
  BY <1>1, <1>2, RestStep, InvHolds, PTL DEF Spec
=============================================================================
