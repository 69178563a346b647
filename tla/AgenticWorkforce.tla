-------------------------- MODULE AgenticWorkforce --------------------------
(***************************************************************************)
(* The AgenticWorkforce controller (internal/controller/                   *)
(* agenticworkforce_reconciler.go) for one workforce: it walks from the    *)
(* entry points through all sub-agents and writes what it meets into the   *)
(* status.  A change of an Agent wakes it only if that Agent is an entry   *)
(* point or is in the status it knows, so the status it computes decides   *)
(* what it will hear of next.                                              *)
(*                                                                         *)
(* Tools and remote sub-agents are leaves of the walk; Agents that do not  *)
(* exist are met like others and lead nowhere.  Lists are sets here.       *)
(***************************************************************************)
EXTENDS Naturals, Sequences

CONSTANTS
  Agents,      \* names of Agents
  Leaves,      \* tools and remote sub-agents
  Starts,      \* Agents to start from: functions from Agents to Agent records
  MaxEdits,    \* bound: Agents created, changed or deleted; entry points changed
  MaxCrashes   \* bound: operator crashes

Nodes == Agents \cup Leaves
Agent == [exists : BOOLEAN, refs : SUBSET Nodes]
Nothing == [exists |-> FALSE, refs |-> {}]

ASSUME WorkforceAssumption ==
  /\ Agents \cap Leaves = {}
  /\ Starts \subseteq [Agents -> Agent]
  /\ MaxEdits \in Nat /\ MaxCrashes \in Nat

VARIABLES
  graph,       \* each Agent in the API server: does it exist, what does it refer to
  graphCache,  \* the cached Agents
  graphInbox,  \* changes of Agents on their way to the cache
  workforce,   \* the AgenticWorkforce in the API server
  wfCache,     \* the cached one
  wfInbox,     \* its versions on their way to the cache
  queued,      \* is its key in the work queue
  work,        \* the Reconcile call in progress
  edits,       \* edits so far
  crashes      \* crashes so far

vars == <<graph, graphCache, graphInbox, workforce, wfCache, wfInbox, queued, work,
          edits, crashes>>

Workforce == [entries : SUBSET Agents, ready : {"Unknown", "True", "False"},
              transitive : SUBSET Nodes]

Idle == [pc |-> "idle", latest |-> FALSE, entries |-> {}, missing |-> {},
         todo |-> {}, visited |-> {}]

(* The workforce has just been created. *)
Init ==
  /\ graph \in Starts
  /\ graphCache = graph
  /\ graphInbox = <<>>
  /\ workforce \in [entries : SUBSET Agents \ {{}}, ready : {"Unknown"}, transitive : {{}}]
  /\ wfCache = workforce
  /\ wfInbox = <<>>
  /\ queued = TRUE
  /\ work = Idle
  /\ edits = 0
  /\ crashes = 0

-----------------------------------------------------------------------------

Edit == edits < MaxEdits /\ edits' = edits + 1

(* A user creates, changes or deletes an Agent. *)
EditAgent(a, new) ==
  /\ Edit
  /\ new # graph[a]
  /\ graph' = [graph EXCEPT ![a] = new]
  /\ graphInbox' = Append(graphInbox, [name |-> a, new |-> new])
  /\ UNCHANGED <<graphCache, workforce, wfCache, wfInbox, queued, work, crashes>>

WriteWorkforce(new) ==
  /\ workforce' = new
  /\ wfInbox' = Append(wfInbox, new)

EditWorkforce(entries) ==
  /\ Edit
  /\ entries # workforce.entries
  /\ WriteWorkforce([workforce EXCEPT !.entries = entries])
  /\ work' = [work EXCEPT !.latest = FALSE]
  /\ UNCHANGED <<graph, graphCache, graphInbox, wfCache, queued, crashes>>

(* Mutant of References: the status is not asked. *)
EntriesOnly(a) == a \in wfCache.entries

(* findWorkforcesReferencingAgent: by the entry points and by the status   *)
(* in the cache.                                                           *)
References(a) == a \in wfCache.entries \/ a \in wfCache.transitive

DeliverAgent ==
  /\ graphInbox # <<>>
  /\ LET e == Head(graphInbox)
     IN  /\ graphCache' = [graphCache EXCEPT ![e.name] = e.new]
         /\ queued' = (queued \/ References(e.name))
  /\ graphInbox' = Tail(graphInbox)
  /\ UNCHANGED <<graph, workforce, wfCache, wfInbox, work, edits, crashes>>

(* Mutant of DeliverWorkforce: GenerationChangedPredicate on the watch. *)
StatusFiltered ==
  /\ wfInbox # <<>>
  /\ wfCache' = Head(wfInbox)
  /\ wfInbox' = Tail(wfInbox)
  /\ queued' = (queued \/ Head(wfInbox).entries # wfCache.entries)
  /\ UNCHANGED <<graph, graphCache, graphInbox, workforce, work, edits, crashes>>

DeliverWorkforce ==
  /\ wfInbox # <<>>
  /\ wfCache' = Head(wfInbox)
  /\ wfInbox' = Tail(wfInbox)
  /\ queued' = TRUE
  /\ UNCHANGED <<graph, graphCache, graphInbox, workforce, work, edits, crashes>>

-----------------------------------------------------------------------------
(* Reconcile. *)

ReconcileBegin ==
  /\ work.pc = "idle"
  /\ queued
  /\ queued' = FALSE
  /\ work' = [Idle EXCEPT !.pc = "validate", !.latest = (wfInbox = <<>>),
                          !.entries = wfCache.entries, !.todo = wfCache.entries]
  /\ UNCHANGED <<graph, graphCache, graphInbox, workforce, wfCache, wfInbox, edits, crashes>>

(* One entry point is looked up. *)
ValidateEntryPointAgent(a) ==
  /\ work.pc = "validate"
  /\ a \in work.todo
  /\ work' = [work EXCEPT !.todo = @ \ {a},
                          !.missing = IF graphCache[a].exists THEN @ ELSE @ \cup {a}]
  /\ UNCHANGED <<graph, graphCache, graphInbox, workforce, wfCache, wfInbox, queued, edits,
                 crashes>>

BeginTraversal ==
  /\ work.pc = "validate"
  /\ work.todo = {}
  /\ work' = [work EXCEPT !.pc = "traverse", !.todo = work.entries]
  /\ UNCHANGED <<graph, graphCache, graphInbox, workforce, wfCache, wfInbox, queued, edits,
                 crashes>>

(* Mutant of TraverseAgent: only Agents that exist are recorded. *)
MissingSkipped(a) ==
  /\ work.pc = "traverse"
  /\ a \in work.todo
  /\ LET seen == work.visited \cup ({a} \cap {b \in Agents : graphCache[b].exists})
                   \cup (graphCache[a].refs \cap Leaves)
     IN  work' = [work EXCEPT !.visited = seen,
                              !.todo = (@ \ {a}) \cup ((graphCache[a].refs \cap Agents) \ (seen \cup {a}))]
  /\ UNCHANGED <<graph, graphCache, graphInbox, workforce, wfCache, wfInbox, queued, edits,
                 crashes>>

(* traverseAgent: marked as visited before it is read; its leaves are      *)
(* recorded, its sub-agents that were not visited are next.                *)
TraverseAgent(a) ==
  /\ work.pc = "traverse"
  /\ a \in work.todo
  /\ LET seen == work.visited \cup {a} \cup (graphCache[a].refs \cap Leaves)
     IN  work' = [work EXCEPT !.visited = seen,
                              !.todo = (@ \cup (graphCache[a].refs \cap Agents)) \ seen]
  /\ UNCHANGED <<graph, graphCache, graphInbox, workforce, wfCache, wfInbox, queued, edits,
                 crashes>>

(* Mutant of ReadyCondition: the reason is written where the status belongs. *)
ReasonAsStatus(missing) == IF missing = {} THEN "True" ELSE "AgentsMissing"

ReadyCondition(missing) == IF missing = {} THEN "True" ELSE "False"

(* The lists are written in the random order of a Go map, so the same      *)
(* status may be a new version.                                            *)
Reordered == \E m, n \in work.visited : m # n

(* A status equal to the stored one makes no new version; a conflict is    *)
(* returned as an error and the key queued again.                          *)
UpdateStatus ==
  /\ work.pc = "traverse"
  /\ work.todo = {}
  /\ LET new == [workforce EXCEPT !.transitive = work.visited,
                                  !.ready = ReadyCondition(work.missing)]
     IN  \/ work.latest /\ (new # workforce \/ Reordered) /\ WriteWorkforce(new)
         \/ (work.latest => new = workforce) /\ UNCHANGED <<workforce, wfInbox>>
  /\ queued' = (queued \/ ~work.latest)
  /\ work' = Idle
  /\ UNCHANGED <<graph, graphCache, graphInbox, wfCache, edits, crashes>>

Restart ==
  /\ crashes < MaxCrashes
  /\ crashes' = crashes + 1
  /\ work' = Idle
  /\ graphCache' = graph
  /\ graphInbox' = <<>>
  /\ wfCache' = workforce
  /\ wfInbox' = <<>>
  /\ queued' = TRUE
  /\ UNCHANGED <<graph, workforce, edits>>

(* The informers report all they have every ten hours. *)
Resync ==
  /\ ~queued
  /\ queued' = TRUE
  /\ UNCHANGED <<graph, graphCache, graphInbox, workforce, wfCache, wfInbox, work, edits, crashes>>

-----------------------------------------------------------------------------

Environment ==
  \/ \E a \in Agents :
       \/ EditAgent(a, Nothing)
       \/ \E refs \in SUBSET Nodes : EditAgent(a, [exists |-> TRUE, refs |-> refs])
  \/ \E entries \in SUBSET Agents \ {{}} : EditWorkforce(entries)
  \/ Restart
  \/ Resync

Reconcile ==
  \/ ReconcileBegin
  \/ \E a \in Agents : ValidateEntryPointAgent(a) \/ TraverseAgent(a)
  \/ BeginTraversal
  \/ UpdateStatus

Next == Environment \/ Reconcile \/ DeliverAgent \/ DeliverWorkforce

Fairness == WF_vars(Reconcile) /\ WF_vars(DeliverAgent) /\ WF_vars(DeliverWorkforce)

Spec == Init /\ [][Next]_vars /\ Fairness

-----------------------------------------------------------------------------
(* Properties. *)

(* Every variable has its type. *)
TypeOK ==
  /\ graph \in [Agents -> Agent] /\ graphCache \in [Agents -> Agent]
  /\ graphInbox \in Seq([name : Agents, new : Agent])
  /\ workforce \in Workforce /\ wfCache \in Workforce /\ wfInbox \in Seq(Workforce)
  /\ queued \in BOOLEAN
  /\ work \in [pc : {"idle", "validate", "traverse"}, latest : BOOLEAN,
               entries : SUBSET Agents, missing : SUBSET Agents,
               todo : SUBSET Agents, visited : SUBSET Nodes]
  /\ edits \in 0..MaxEdits /\ crashes \in 0..MaxCrashes

(* What can be reached from the entry points: the least set that has them  *)
(* and all that its Agents refer to.                                       *)
Closed(S) == workforce.entries \subseteq S /\ \A a \in S \cap Agents : graph[a].refs \subseteq S
Reachable == {n \in Nodes : \A S \in SUBSET Nodes : Closed(S) => n \in S}

(* The status lists exactly the Agents, tools and remote Agents that can   *)
(* be reached, and is Ready exactly if all entry points exist.             *)
Discovered ==
  /\ workforce.transitive = Reachable
  /\ (workforce.ready = "True") = (\A a \in workforce.entries : graph[a].exists)

(* Once edits stop, the status becomes right and stays so, although Agents *)
(* that joined while the walk was under way were not in the status that    *)
(* decides which events are heard.                                         *)
EverythingDiscovered == <>[]Discovered

(* No call is running and nothing that would start one is on its way.      *)
Resting == ~queued /\ work.pc = "idle" /\ graphInbox = <<>> /\ wfInbox = <<>>

(* No wake-up is lost, even between edits: when the controller rests its   *)
(* status is right, whatever changed while it walked, and so the events    *)
(* that this status lets through are all it needs to hear of.              *)
RestsOnlyRight == Resting => Discovered

(* While nobody edits, a walk finds exactly what can be reached, in any    *)
(* order, cycles and missing Agents included.                              *)
WalkIsExact == edits = 0 => workforce.transitive \in {{}, Reachable}

=============================================================================
