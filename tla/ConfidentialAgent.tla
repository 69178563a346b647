------------------------- MODULE ConfidentialAgent -------------------------
(***************************************************************************)
(* The ConfidentialAgent controller (internal/controller/                  *)
(* confidentialagent_reconciler.go) and the attestation service it asks    *)
(* (cmd/attestation-service/main.go), for one ConfidentialAgent.           *)
(*                                                                         *)
(* The service makes a new signing key at every start; the controller      *)
(* checks quotes against the key of a Secret, if the spec names one, and   *)
(* else against the key sent along.  Nothing tells the controller that the *)
(* service or the Secret has changed: it asks again after 30 seconds when  *)
(* an attestation failed, and whenever its own status update wakes it.     *)
(* Quotes carry a fresh nonce and so answer the request they are sent for; *)
(* a key stands for what it has signed.                                    *)
(***************************************************************************)
EXTENDS Naturals, Sequences

CONSTANTS
  Keys,         \* signing keys; as many as the service may start (a bound)
  NoKey,        \* no key
  MaxChanges,   \* bound: changes made to the spec, the Agent and the Secret
  MaxFaults     \* bound: failed writes of Deployment or Service, lost answers, crashes

ASSUME ConfidentialAssumption ==
  NoKey \notin Keys /\ MaxChanges \in Nat /\ MaxFaults \in Nat

VARIABLES
  ca,        \* the ConfidentialAgent in the API server
  caCache,   \* the cached one
  caInbox,   \* its versions on their way to the cache
  agent,     \* does the referenced Agent exist
  agentCache, agentInbox,    \* and what is known and on its way of that
  secret,    \* key in the Secret, or why there is none
  service,   \* key of the running attestation service, NoKey when it is down
  used,      \* keys the service has had
  queued,    \* is the key in the work queue
  timer,     \* is a RequeueAfter pending
  work,      \* the Reconcile call in progress
  changes,   \* changes made so far
  faults     \* faults so far

apiVars == <<ca, agent, secret, service, used>>
infVars == <<caCache, caInbox, agentCache, agentInbox>>
vars == <<ca, caCache, caInbox, agent, agentCache, agentInbox, secret, service, used,
          queued, timer, work, changes, faults>>

Secrets == Keys \cup {"absent", "empty"}
Reasons == {"", "Reconciled", "AgentNotFound", "DeploymentFailed", "PublicKeySecretError",
            "PublicKeyMissing", "AttestationFailed", "AttestationError"}

Version == [pinned : BOOLEAN, verified : BOOLEAN, reason : Reasons]

Idle == [pc |-> "idle", latest |-> FALSE, pinned |-> FALSE, key |-> NoKey,
         reason |-> "", retry |-> "error"]

Init ==
  /\ ca \in [pinned : BOOLEAN, verified : {FALSE}, reason : {""}]
  /\ caCache = ca
  /\ caInbox = <<>>
  /\ agent \in BOOLEAN
  /\ agentCache = agent
  /\ agentInbox = <<>>
  /\ secret = "absent"
  /\ service = NoKey
  /\ used = {}
  /\ queued = TRUE
  /\ timer = FALSE
  /\ work = Idle
  /\ changes = 0
  /\ faults = 0

-----------------------------------------------------------------------------
(* The cluster around the controller. *)

Write(new) ==
  /\ ca' = new
  /\ caInbox' = Append(caInbox, new)

Change == changes < MaxChanges /\ changes' = changes + 1
Fault == faults < MaxFaults /\ faults' = faults + 1

(* A user sets or removes spec.attestationPublicKeySecretRef. *)
EditSpec ==
  /\ Change
  /\ Write([ca EXCEPT !.pinned = ~@])
  /\ work' = [work EXCEPT !.latest = FALSE]
  /\ UNCHANGED <<caCache, agent, agentCache, agentInbox, secret, service, used, queued,
                 timer, faults>>

CreateOrDeleteAgent ==
  /\ Change
  /\ agent' = ~agent
  /\ agentInbox' = Append(agentInbox, agent')
  /\ UNCHANGED <<ca, caCache, caInbox, agentCache, secret, service, used, queued, timer,
                 work, faults>>

(* The Secret is deleted, emptied, or given the key a service logged. *)
WriteSecret(k) ==
  /\ Change
  /\ k # secret
  /\ secret' = k
  /\ UNCHANGED <<ca, infVars, agent, service, used, queued, timer, work, faults>>

StartService ==
  /\ service = NoKey
  /\ service' \in Keys \ used
  /\ used' = used \cup {service'}
  /\ UNCHANGED <<ca, infVars, agent, secret, queued, timer, work, changes, faults>>

StopService ==
  /\ service # NoKey
  /\ service' = NoKey
  /\ UNCHANGED <<ca, infVars, agent, secret, used, queued, timer, work, changes, faults>>

DeliverCA ==
  /\ caInbox # <<>>
  /\ caCache' = Head(caInbox)
  /\ caInbox' = Tail(caInbox)
  /\ queued' = TRUE
  /\ UNCHANGED <<apiVars, agentCache, agentInbox, timer, work, changes, faults>>

DeliverAgent ==
  /\ agentInbox # <<>>
  /\ agentCache' = Head(agentInbox)
  /\ agentInbox' = Tail(agentInbox)
  /\ queued' = TRUE
  /\ UNCHANGED <<apiVars, caCache, caInbox, timer, work, changes, faults>>

TimerFires ==
  /\ timer
  /\ timer' = FALSE
  /\ queued' = TRUE
  /\ UNCHANGED <<apiVars, infVars, work, changes, faults>>

-----------------------------------------------------------------------------
(* Reconcile. *)

Goto(pc) == work' = [work EXCEPT !.pc = pc]

(* Mutant of NotReady: its arguments change places. *)
Swapped(reason, retry) ==
  work' = [work EXCEPT !.pc = "notReady", !.reason = retry, !.retry = reason]

(* How the call ends once the status has been written, or has not been:    *)
(* with the error, or with a RequeueAfter of 30 seconds and no error.      *)
NotReady(reason, retry) ==
  work' = [work EXCEPT !.pc = "notReady", !.reason = reason, !.retry = retry]

Fail == work' = Idle /\ queued' = TRUE /\ UNCHANGED timer

Begin ==
  /\ work.pc = "idle"
  /\ queued
  /\ queued' = FALSE
  /\ work' = [pc |-> "agent", latest |-> caInbox = <<>>, pinned |-> caCache.pinned,
              key |-> NoKey, reason |-> "", retry |-> "error"]
  /\ UNCHANGED <<apiVars, infVars, timer, changes, faults>>

GetAgent ==
  /\ work.pc = "agent"
  /\ IF agentCache THEN Goto("deploy") ELSE NotReady("AgentNotFound", "error")
  /\ UNCHANGED <<apiVars, infVars, queued, timer, changes, faults>>

EnsureDeploymentAndService ==
  /\ work.pc = "deploy"
  /\ Goto(IF work.pinned THEN "key" ELSE "attest")
  /\ UNCHANGED <<apiVars, infVars, queued, timer, changes, faults>>

(* A conflict with the Deployment controller, say: there is no retry. *)
EnsureDeploymentFails ==
  /\ work.pc = "deploy"
  /\ Fault
  /\ NotReady("DeploymentFailed", "error")
  /\ UNCHANGED <<apiVars, infVars, queued, timer, changes>>

(* This error leaves the status as it was. *)
EnsureServiceFails ==
  /\ work.pc = "deploy"
  /\ Fault
  /\ Fail
  /\ UNCHANGED <<apiVars, infVars, changes>>

LoadPublicKey ==
  /\ work.pc = "key"
  /\ CASE secret = "absent" -> NotReady("PublicKeySecretError", "30s")
       [] secret = "empty"  -> NotReady("PublicKeyMissing", "30s")
       [] OTHER             -> work' = [work EXCEPT !.pc = "attest", !.key = secret]
  /\ UNCHANGED <<apiVars, infVars, queued, timer, changes, faults>>

(* Mutant of VerifyAttestation: who is verified is not asked again. *)
VerifiedOnce ==
  /\ work.pc = "attest"
  /\ IF caCache.verified \/ (service # NoKey /\ (work.pinned => work.key = service))
     THEN Goto("ready")
     ELSE NotReady("AttestationFailed", "30s")
  /\ UNCHANGED <<apiVars, infVars, queued, timer, changes, faults>>

(* VerifyAttestation: the service answers within the timeout and its       *)
(* signature verifies, or the attestation has failed.                      *)
VerifyAttestation ==
  /\ work.pc = "attest"
  /\ IF service # NoKey /\ (work.pinned => work.key = service)
     THEN Goto("ready")
     ELSE NotReady("AttestationFailed", "30s")
  /\ UNCHANGED <<apiVars, infVars, queued, timer, changes, faults>>

(* The answer comes too late, or cannot be decoded. *)
AttestationLost ==
  /\ work.pc = "attest"
  /\ service # NoKey
  /\ Fault
  /\ \E reason \in {"AttestationFailed", "AttestationError"} : NotReady(reason, "30s")
  /\ UNCHANGED <<apiVars, infVars, queued, timer, changes>>

(* Mutant of UpdateStatusReady: the status is patched, whatever has been read. *)
Patched ==
  /\ work.pc = "ready"
  /\ Write([ca EXCEPT !.verified = TRUE, !.reason = "Reconciled"])
  /\ work' = Idle
  /\ UNCHANGED <<queued, timer, caCache, agent, agentCache, agentInbox, secret, service, used,
                 changes, faults>>

(* The report, a digest of the quote with its nonce, is new every time. *)
UpdateStatusReady ==
  /\ work.pc = "ready"
  /\ IF work.latest
     THEN /\ Write([ca EXCEPT !.verified = TRUE, !.reason = "Reconciled"])
          /\ work' = Idle
          /\ UNCHANGED <<queued, timer>>
     ELSE /\ Fail
          /\ UNCHANGED <<ca, caInbox>>
  /\ UNCHANGED <<caCache, agent, agentCache, agentInbox, secret, service, used, changes, faults>>

(* Mutant of UpdateStatusNotReady: the RequeueAfter is forgotten. *)
NeverAskedAgain ==
  /\ work.pc = "notReady"
  /\ LET new == [ca EXCEPT !.verified = FALSE, !.reason = work.reason]
     IN  IF work.latest /\ new # ca THEN Write(new) ELSE UNCHANGED <<ca, caInbox>>
  /\ work' = Idle
  /\ queued' = (queued \/ work.retry = "error")
  /\ UNCHANGED <<timer, caCache, agent, agentCache, agentInbox, secret, service, used,
                 changes, faults>>

(* A conflict here is only logged. *)
UpdateStatusNotReady ==
  /\ work.pc = "notReady"
  /\ LET new == [ca EXCEPT !.verified = FALSE, !.reason = work.reason]
     IN  IF work.latest /\ new # ca THEN Write(new) ELSE UNCHANGED <<ca, caInbox>>
  /\ work' = Idle
  /\ queued' = (queued \/ work.retry = "error")
  /\ timer' = (timer \/ work.retry = "30s")
  /\ UNCHANGED <<caCache, agent, agentCache, agentInbox, secret, service, used, changes, faults>>

Restart ==
  /\ Fault
  /\ work' = Idle
  /\ caCache' = ca
  /\ caInbox' = <<>>
  /\ agentCache' = agent
  /\ agentInbox' = <<>>
  /\ queued' = TRUE
  /\ timer' = FALSE
  /\ UNCHANGED <<apiVars, changes>>

(* The informers report all they have every ten hours. *)
Resync ==
  /\ ~queued
  /\ queued' = TRUE
  /\ UNCHANGED <<apiVars, infVars, timer, work, changes, faults>>

-----------------------------------------------------------------------------

Environment ==
  \/ EditSpec
  \/ CreateOrDeleteAgent
  \/ \E k \in used \cup {"absent", "empty"} : WriteSecret(k)
  \/ StartService
  \/ StopService
  \/ Restart
  \/ Resync

Reconcile ==
  \/ Begin
  \/ GetAgent
  \/ EnsureDeploymentAndService
  \/ EnsureDeploymentFails
  \/ EnsureServiceFails
  \/ LoadPublicKey
  \/ VerifyAttestation
  \/ AttestationLost
  \/ UpdateStatusReady
  \/ UpdateStatusNotReady

Next == Environment \/ Reconcile \/ DeliverCA \/ DeliverAgent \/ TimerFires

(* Watches deliver, timers fire and the worker runs; nobody need start the *)
(* service, and no write need fail.                                        *)
Fairness ==
  WF_vars(Reconcile) /\ WF_vars(DeliverCA) /\ WF_vars(DeliverAgent) /\ WF_vars(TimerFires)

Spec == Init /\ [][Next]_vars /\ Fairness

-----------------------------------------------------------------------------
(* Properties. *)

(* Every variable has its type. *)
TypeOK ==
  /\ ca \in Version /\ caCache \in Version /\ caInbox \in Seq(Version)
  /\ agent \in BOOLEAN /\ agentCache \in BOOLEAN /\ agentInbox \in Seq(BOOLEAN)
  /\ secret \in Secrets /\ service \in Keys \cup {NoKey} /\ used \subseteq Keys
  /\ queued \in BOOLEAN /\ timer \in BOOLEAN
  /\ work \in [pc : {"idle", "agent", "deploy", "key", "attest", "ready", "notReady"},
               latest : BOOLEAN, pinned : BOOLEAN, key : Keys \cup {NoKey},
               reason : Reasons, retry : {"error", "30s"}]

(* Who was not verified becomes so only by an attestation that the spec of  *)
(* that moment asks for: a call that an edit has overtaken since it read    *)
(* the spec does not count, and where a key is pinned it is one that the    *)
(* service has had.                                                        *)
VerifiedByItsSpec ==
  [][~ca.verified /\ ca'.verified
       => /\ work.pinned = ca.pinned /\ ca'.pinned = ca.pinned
          /\ ca.pinned => work.key \in used]_vars

(* The controller rests only on a failed attestation, with its timer        *)
(* running: nobody stays verified without being asked again, and none who   *)
(* failed is forgotten, although a status update may fail silently and no   *)
(* event tells of the service or the Secret.                                *)
Retried == {"PublicKeySecretError", "PublicKeyMissing", "AttestationFailed", "AttestationError"}
RestsOnlyUnverified ==
  ~queued /\ caInbox = <<>> /\ work.pc = "idle"
    => timer /\ ~ca.verified /\ ca.reason \in Retried

(* An attestation made now would succeed. *)
Attestable == agent /\ service # NoKey /\ (ca.pinned => secret = service)

(* An Agent that stays attestable ends up verified, although no event      *)
(* tells of a service that came back or of a corrected Secret.             *)
AttestableIsVerified == <>[]Attestable => <>[](ca.verified /\ ca.reason = "Reconciled")

(* "Verified" does not outlive what it was based on: when the service      *)
(* stays away, restarts with another key than the Secret has, or the Agent *)
(* is deleted, the status ends up not verified.                            *)
VerifiedIsWithdrawn == <>[]~Attestable => <>[]~ca.verified

=============================================================================
