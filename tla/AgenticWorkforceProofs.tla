----------------------- MODULE AgenticWorkforceProofs -----------------------
(***************************************************************************)
(* Theorems about AgenticWorkforce, for every set of Agents, tools and     *)
(* entry points, every graph between them and every bound: the types, that *)
(* the walk is exact, and that no wake-up is lost.                         *)
(***************************************************************************)
EXTENDS AgenticWorkforce, TLAPS, SequenceTheorems

-----------------------------------------------------------------------------
(* Type correctness. *)

Works == [pc : {"idle", "validate", "traverse"}, latest : BOOLEAN,
          entries : SUBSET Agents, missing : SUBSET Agents,
          todo : SUBSET Agents, visited : SUBSET Nodes]

LEMMA IdleType == Idle \in Works
BY DEF Idle, Works

LEMMA InitType ==
  ASSUME Init
  PROVE  TypeOK
<1>1. graph \in [Agents -> Agent]
  BY WorkforceAssumption DEF Init
<1>2. workforce \in Workforce
  BY DEF Init, Workforce
<1>3. work \in Works
  BY IdleType DEF Init
<1> QED
  BY <1>1, <1>2, <1>3, WorkforceAssumption DEF Init, TypeOK, Works

(* Writes of the workforce leave it and its inbox typed. *)
LEMMA WriteType ==
  ASSUME TypeOK, NEW new \in Workforce, WriteWorkforce(new)
  PROVE  workforce' \in Workforce /\ wfInbox' \in Seq(Workforce)
BY DEF TypeOK, WriteWorkforce

LEMMA StepType ==
  ASSUME TypeOK, [Next]_vars
  PROVE  TypeOK'
<1> USE DEF TypeOK, Works
<1>1. ASSUME NEW a \in Agents, NEW new \in Agent, EditAgent(a, new)
      PROVE  TypeOK'
  <2>1. [name |-> a, new |-> new] \in [name : Agents, new : Agent]
    OBVIOUS
  <2>2. graphInbox' \in Seq([name : Agents, new : Agent])
    BY <1>1, <2>1 DEF EditAgent
  <2>3. edits' \in 0..MaxEdits
    BY <1>1, WorkforceAssumption DEF EditAgent, Edit
  <2> QED
    BY <1>1, <2>2, <2>3 DEF EditAgent
<1>2. ASSUME NEW entries \in SUBSET Agents, EditWorkforce(entries)
      PROVE  TypeOK'
  <2>1. [workforce EXCEPT !.entries = entries] \in Workforce
    BY DEF Workforce
  <2>2. workforce' \in Workforce /\ wfInbox' \in Seq(Workforce)
    BY <1>2, <2>1, WriteType DEF EditWorkforce
  <2>3. edits' \in 0..MaxEdits
    BY <1>2, WorkforceAssumption DEF EditWorkforce, Edit
  <2> QED
    BY <1>2, <2>2, <2>3 DEF EditWorkforce
<1>3. CASE Restart
  BY <1>3, IdleType, WorkforceAssumption DEF Restart
<1>4. CASE Resync
  BY <1>4 DEF Resync
<1>5. CASE DeliverAgent
  <2>1. Head(graphInbox) \in [name : Agents, new : Agent]
    BY <1>5, HeadTailProperties DEF DeliverAgent
  <2>2. graphInbox' \in Seq([name : Agents, new : Agent])
    BY <1>5 DEF DeliverAgent
  <2>3. graphCache' \in [Agents -> Agent]
    BY <1>5, <2>1 DEF DeliverAgent
  <2>4. queued' \in BOOLEAN
    BY <1>5, <2>1, Zenon DEF DeliverAgent, References
  <2> QED
    BY <1>5, <2>2, <2>3, <2>4 DEF DeliverAgent
<1>6. CASE DeliverWorkforce
  BY <1>6 DEF DeliverWorkforce
<1>7. CASE ReconcileBegin
  <2>1. wfCache.entries \in SUBSET Agents
    BY DEF Workforce
  <2>2. work' \in Works
    BY <1>7, <2>1 DEF ReconcileBegin, Idle
  <2> QED
    BY <1>7, <2>2 DEF ReconcileBegin
<1>8. ASSUME NEW a \in Agents, ValidateEntryPointAgent(a)
      PROVE  TypeOK'
  BY <1>8 DEF ValidateEntryPointAgent
<1>9. ASSUME NEW a \in Agents, TraverseAgent(a)
      PROVE  TypeOK'
  <2> DEFINE seen == work.visited \cup {a} \cup (graphCache[a].refs \cap Leaves)
  <2>1. seen \in SUBSET Nodes
    BY DEF Nodes
  <2>2. (work.todo \cup (graphCache[a].refs \cap Agents)) \ seen \in SUBSET Agents
    OBVIOUS
  <2>3. work' = [work EXCEPT !.visited = seen,
                             !.todo = (@ \cup (graphCache[a].refs \cap Agents)) \ seen]
    BY <1>9 DEF TraverseAgent
  <2> HIDE DEF seen
  <2>4. work' \in Works
    BY <2>1, <2>2, <2>3
  <2> QED
    BY <1>9, <2>4 DEF TraverseAgent
<1>10. CASE BeginTraversal
  BY <1>10 DEF BeginTraversal
<1>11. CASE UpdateStatus
  <2> DEFINE new == [workforce EXCEPT !.transitive = work.visited,
                                      !.ready = ReadyCondition(work.missing)]
  <2>1. new \in Workforce
    BY DEF Workforce, ReadyCondition
  <2>2. WriteWorkforce(new) \/ UNCHANGED <<workforce, wfInbox>>
    BY <1>11 DEF UpdateStatus
  <2> HIDE DEF new
  <2>3. workforce' \in Workforce /\ wfInbox' \in Seq(Workforce)
    BY <2>1, <2>2, WriteType
  <2>4. queued' \in BOOLEAN
    BY <1>11, Zenon DEF UpdateStatus
  <2> QED
    BY <1>11, <2>3, <2>4, IdleType DEF UpdateStatus
<1>12. CASE UNCHANGED vars
  BY <1>12 DEF vars
<1> QED
  <2>1. Nothing \in Agent /\ \A refs \in SUBSET Nodes : [exists |-> TRUE, refs |-> refs] \in Agent
    BY DEF Nothing, Agent
  <2> QED
    BY <1>1, <1>2, <1>3, <1>4, <1>5, <1>6, <1>7, <1>8, <1>9, <1>10, <1>11, <1>12, <2>1
    DEF Next, Environment, Reconcile

(* Every reachable state of the workforce controller is well typed.        *)
THEOREM TypeCorrect == Spec => []TypeOK
BY InitType, StepType, PTL DEF Spec

-----------------------------------------------------------------------------
(* The walk.                                                               *)
(*                                                                         *)
(* As long as nobody edits, the caches and the inboxes agree with the API  *)
(* server, so a walk sees one graph whatever else happens: crashes,        *)
(* resyncs, events of its own status.  Its visited and pending nodes have  *)
(* the entry points, stay inside what can be reached, and have all that a  *)
(* visited Agent refers to; when nothing is pending the visited nodes are  *)
(* closed, and therefore all that can be reached.                          *)

CachesAgree ==
  /\ graphCache = graph /\ graphInbox = <<>>
  /\ wfCache.entries = workforce.entries
  /\ \A i \in 1..Len(wfInbox) : wfInbox[i].entries = workforce.entries

Pending == work.visited \cup work.todo

WalkBounded ==
  /\ work.pc # "idle" => work.entries = workforce.entries
  /\ work.pc = "validate" => work.visited = {}
  /\ work.pc = "traverse" =>
       /\ workforce.entries \subseteq Pending
       /\ Pending \subseteq Reachable
       /\ \A x \in work.visited \cap Agents : graph[x].refs \subseteq Pending

WalkInv == edits = 0 => CachesAgree /\ WalkBounded /\ WalkIsExact

(* The entry points can be reached, and what a reached Agent refers to.    *)
LEMMA ReachableClosed ==
  ASSUME TypeOK
  PROVE  /\ workforce.entries \subseteq Reachable
         /\ \A x \in Reachable \cap Agents : graph[x].refs \subseteq Reachable
<1>1. workforce.entries \subseteq Nodes
  BY DEF TypeOK, Workforce, Nodes
<1>2. \A x \in Agents : graph[x].refs \subseteq Nodes
  BY DEF TypeOK, Agent
<1> QED
  BY <1>1, <1>2 DEF Reachable, Closed

(* A closed set of nodes that can be reached is all that can be reached.   *)
LEMMA ReachableLeast ==
  ASSUME NEW S \in SUBSET Nodes, Closed(S)
  PROVE  Reachable \subseteq S
BY DEF Reachable

(* What can be reached depends on the graph and the entry points alone.    *)
LEMMA ReachableSame ==
  ASSUME graph' = graph, workforce'.entries = workforce.entries
  PROVE  Reachable' = Reachable
BY DEF Reachable, Closed

LEMMA InitWalk ==
  ASSUME Init
  PROVE  WalkInv
<1>1. workforce.transitive = {}
  BY DEF Init
<1> QED
  BY <1>1 DEF Init, WalkInv, CachesAgree, WalkBounded, WalkIsExact, Idle

LEMMA StepWalk ==
  ASSUME TypeOK, WalkInv, [Next]_vars
  PROVE  WalkInv'
<1> SUFFICES ASSUME edits' = 0
             PROVE  CachesAgree' /\ WalkBounded' /\ WalkIsExact'
  BY DEF WalkInv
<1>1. edits \in Nat
  BY WorkforceAssumption DEF TypeOK
<1>2. ASSUME NEW a \in Agents, NEW new, EditAgent(a, new)
      PROVE  FALSE
  BY <1>1, <1>2 DEF EditAgent, Edit
<1>3. ASSUME NEW entries, EditWorkforce(entries)
      PROVE  FALSE
  BY <1>1, <1>3 DEF EditWorkforce, Edit
<1> DEFINE Kept == /\ graph' = graph /\ edits' = edits
                   /\ workforce'.entries = workforce.entries
<1>4. ASSUME Kept
      PROVE  Reachable' = Reachable /\ CachesAgree /\ WalkBounded /\ WalkIsExact
  BY <1>4, ReachableSame DEF WalkInv
<1>5. ASSUME UNCHANGED <<graph, workforce, work, edits>>
      PROVE  WalkBounded' /\ WalkIsExact'
  <2>1. Kept
    BY <1>5
  <2> QED
    BY <1>4, <1>5, <2>1 DEF WalkBounded, Pending, WalkIsExact
<1>6. ASSUME UNCHANGED <<graph, graphCache, graphInbox, workforce, wfCache, wfInbox, edits>>
      PROVE  CachesAgree' /\ WalkIsExact' /\ CachesAgree /\ WalkBounded /\ Reachable' = Reachable
  <2>1. Kept
    BY <1>6
  <2> QED
    BY <1>4, <1>6, <2>1 DEF CachesAgree, WalkIsExact
<1>7. CASE Restart
  <2>1. CachesAgree'
    BY <1>7 DEF Restart, CachesAgree
  <2>2. Kept
    BY <1>7 DEF Restart
  <2>3. WalkBounded'
    BY <1>7 DEF Restart, WalkBounded, Idle
  <2> QED
    BY <1>4, <1>7, <2>1, <2>2, <2>3 DEF Restart, WalkIsExact
<1>8. CASE Resync
  BY <1>5, <1>6, <1>8 DEF Resync
<1>9. CASE DeliverAgent
  BY <1>4, <1>9 DEF DeliverAgent, CachesAgree
<1>10. CASE DeliverWorkforce
  <2>1. Kept /\ UNCHANGED <<graph, workforce, work, edits>>
    BY <1>10 DEF DeliverWorkforce
  <2>2. wfInbox \in Seq(Workforce) /\ wfInbox # <<>>
    BY <1>10 DEF TypeOK, DeliverWorkforce
  <2>3. Len(wfInbox) >= 1 /\ Head(wfInbox) = wfInbox[1]
    BY <2>2
  <2>4. \A i \in 1..Len(Tail(wfInbox)) : Tail(wfInbox)[i] = wfInbox[i + 1] /\ i + 1 \in 1..Len(wfInbox)
    BY <2>2
  <2>5. CachesAgree'
    BY <1>4, <1>10, <2>1, <2>3, <2>4 DEF DeliverWorkforce, CachesAgree
  <2> QED
    BY <1>5, <2>1, <2>5
<1>11. CASE ReconcileBegin
  <2>1. UNCHANGED <<graph, graphCache, graphInbox, workforce, wfCache, wfInbox, edits>>
    BY <1>11 DEF ReconcileBegin
  <2>2. /\ work'.pc = "validate" /\ work'.visited = {}
        /\ work'.entries = wfCache.entries
    BY <1>11 DEF ReconcileBegin, Idle
  <2> QED
    BY <1>6, <2>1, <2>2 DEF WalkBounded, CachesAgree
<1>12. ASSUME NEW a \in Agents, ValidateEntryPointAgent(a)
       PROVE  CachesAgree' /\ WalkBounded' /\ WalkIsExact'
  <2>1. UNCHANGED <<graph, graphCache, graphInbox, workforce, wfCache, wfInbox, edits>>
    BY <1>12 DEF ValidateEntryPointAgent
  <2>2. /\ work'.pc = "validate" /\ work'.visited = work.visited
        /\ work'.entries = work.entries /\ work.pc = "validate"
    BY <1>12 DEF ValidateEntryPointAgent, TypeOK
  <2> QED
    BY <1>6, <2>1, <2>2 DEF WalkBounded
<1>13. CASE BeginTraversal
  <2>1. UNCHANGED <<graph, graphCache, graphInbox, workforce, wfCache, wfInbox, edits>>
    BY <1>13 DEF BeginTraversal
  <2>2. /\ work'.pc = "traverse" /\ work'.visited = {}
        /\ work'.todo = workforce.entries /\ work'.entries = workforce.entries
    BY <1>6, <1>13, <2>1 DEF BeginTraversal, TypeOK, WalkBounded
  <2>3. Pending' = workforce.entries
    BY <2>2 DEF Pending
  <2> QED
    BY <1>6, <2>1, <2>2, <2>3, ReachableClosed DEF WalkBounded
<1>14. ASSUME NEW a \in Agents, TraverseAgent(a)
       PROVE  CachesAgree' /\ WalkBounded' /\ WalkIsExact'
  <2>1. UNCHANGED <<graph, graphCache, graphInbox, workforce, wfCache, wfInbox, edits>>
    BY <1>14 DEF TraverseAgent
  <2> DEFINE leaves == graph[a].refs \cap Leaves
             subs == graph[a].refs \cap Agents
             seen == work.visited \cup {a} \cup leaves
  <2>2. /\ work.pc = "traverse" /\ a \in work.todo
        /\ work' = [work EXCEPT !.visited = seen, !.todo = (@ \cup subs) \ seen]
    BY <1>6, <1>14, <2>1 DEF TraverseAgent, CachesAgree
  <2>3. /\ work'.pc = "traverse" /\ work'.visited = seen
        /\ work'.todo = (work.todo \cup subs) \ seen /\ work'.entries = work.entries
    BY <2>2 DEF TypeOK
  <2>4. graph[a].refs = leaves \cup subs
    BY DEF TypeOK, Agent, Nodes
  <2>5. Pending' = Pending \cup graph[a].refs
    BY <2>2, <2>3, <2>4 DEF Pending
  <2>6. a \in Reachable /\ graph[a].refs \subseteq Reachable
    BY <1>6, <2>1, <2>2, ReachableClosed DEF WalkBounded, Pending
  <2>7. \A x \in seen \cap Agents : graph[x].refs \subseteq Pending'
    <3>1. seen \cap Agents = (work.visited \cap Agents) \cup {a}
      BY WorkforceAssumption
    <3> QED
      BY <1>6, <2>1, <2>2, <2>5, <3>1 DEF WalkBounded
  <2> QED
    BY <1>6, <2>1, <2>2, <2>3, <2>5, <2>6, <2>7 DEF WalkBounded
<1>15. CASE UpdateStatus
  <2> DEFINE new == [workforce EXCEPT !.transitive = work.visited,
                                      !.ready = ReadyCondition(work.missing)]
  <2>1. /\ work.pc = "traverse" /\ work.todo = {} /\ work' = Idle
        /\ UNCHANGED <<graph, graphCache, graphInbox, wfCache, edits>>
    BY <1>15 DEF UpdateStatus
  <2>2. WriteWorkforce(new) \/ UNCHANGED <<workforce, wfInbox>>
    BY <1>15 DEF UpdateStatus
  <2>3. new.entries = workforce.entries /\ new.transitive = work.visited
    BY DEF TypeOK, Workforce
  <2> HIDE DEF new
  <2>4. Kept
    BY <2>1, <2>2, <2>3 DEF WriteWorkforce
  <2>5. work.visited = Reachable
    <3>1. Pending = work.visited /\ work.visited \in SUBSET Nodes
      BY <2>1 DEF Pending, TypeOK
    <3>2. Closed(work.visited) /\ work.visited \subseteq Reachable
      BY <1>4, <2>1, <2>4, <3>1 DEF WalkBounded, Closed
    <3> QED
      BY <3>1, <3>2, ReachableLeast
  <2>6. WalkIsExact'
    BY <1>4, <2>2, <2>3, <2>4, <2>5 DEF WriteWorkforce, WalkIsExact
  <2>7. WalkBounded'
    BY <2>1 DEF WalkBounded, Idle
  <2>8. CachesAgree'
    <3>1. CASE WriteWorkforce(new)
      <4>1. wfInbox' = Append(wfInbox, new) /\ wfInbox \in Seq(Workforce)
        BY <3>1 DEF WriteWorkforce, TypeOK
      <4>2. ASSUME NEW i \in 1..Len(wfInbox')
            PROVE  wfInbox'[i] = new \/ (i \in 1..Len(wfInbox) /\ wfInbox'[i] = wfInbox[i])
        BY <4>1
      <4> QED
        BY <1>4, <2>1, <2>3, <2>4, <4>2 DEF CachesAgree
    <3>2. CASE UNCHANGED <<workforce, wfInbox>>
      BY <1>4, <2>1, <2>4, <3>2 DEF CachesAgree
    <3> QED
      BY <2>2, <3>1, <3>2
  <2> QED
    BY <2>6, <2>7, <2>8
<1>16. CASE UNCHANGED vars
  BY <1>5, <1>6, <1>16 DEF vars
<1> QED
  BY <1>2, <1>3, <1>7, <1>8, <1>9, <1>10, <1>11, <1>12, <1>13, <1>14, <1>15, <1>16
  DEF Next, Environment, Reconcile

(* While nobody edits, whatever a walk writes into the status is exactly   *)
(* what can be reached from the entry points, in whatever order it visits  *)
(* the Agents, cycles and missing Agents included, and however often the   *)
(* operator dies half-way.                                                 *)
THEOREM WalkExact == Spec => []WalkIsExact
<1>1. Init => TypeOK /\ WalkInv
  BY InitType, InitWalk
<1>2. TypeOK /\ WalkInv /\ [Next]_vars => (TypeOK /\ WalkInv)'
  BY StepType, StepWalk
<1>3. WalkInv => WalkIsExact
  BY DEF WalkInv, WalkIsExact
<1> QED
  BY <1>1, <1>2, <1>3, PTL DEF Spec

-----------------------------------------------------------------------------
(* Rest.                                                                   *)
(*                                                                         *)
(* An event that does not queue the workforce is about an Agent that is    *)
(* neither an entry point nor in the cached status.  A call that has read  *)
(* the latest workforce either visits no such Agent, and then no event it  *)
(* has slept through matters to it, or it writes a status that differs     *)
(* from the cached one, whose own event queues the workforce again.        *)

(* The caches show the API server once their inboxes are delivered.        *)
GraphFollows ==
  /\ \A a \in Agents :
       graphCache[a] = graph[a] \/ \E i \in 1..Len(graphInbox) : graphInbox[i].name = a
  /\ \A i \in 1..Len(graphInbox) :
       \/ graphInbox[i].new = graph[graphInbox[i].name]
       \/ \E j \in (i + 1)..Len(graphInbox) : graphInbox[j].name = graphInbox[i].name

WorkforceFollows ==
  IF wfInbox = <<>> THEN wfCache = workforce ELSE wfInbox[Len(wfInbox)] = workforce

(* A walk over known: V are the nodes it has visited and P those it has    *)
(* met.  P has the entry points and what the visited refer to, and nothing *)
(* that could be avoided.                                                  *)
Explored(known, E, V, P) ==
  /\ E \subseteq P
  /\ \A x \in V \cap Agents : known[x].refs \subseteq P
  /\ \A S \in SUBSET Nodes :
       E \subseteq S /\ (\A x \in V \cap S \cap Agents : known[x].refs \subseteq S) => P \subseteq S

MissingIn(known, E) == {a \in E : ~known[a].exists}

LatestIsCached ==
  work.latest => /\ work.pc # "idle"
                 /\ wfInbox = <<>> /\ wfCache = workforce
                 /\ work.entries = wfCache.entries

CallRight ==
  work.latest /\ ~queued =>
    /\ work.pc = "validate" =>
         /\ work.visited = {} /\ work.todo \subseteq work.entries
         /\ work.missing = MissingIn(graphCache, work.entries \ work.todo)
    /\ work.pc = "traverse" =>
         /\ work.missing = MissingIn(graphCache, work.entries)
         /\ \/ Explored(graphCache, work.entries, work.visited, Pending)
            \/ ~(work.visited \subseteq wfCache.transitive)

RestRight ==
  ~queued /\ work.pc = "idle" /\ wfInbox = <<>> =>
    /\ Explored(graphCache, wfCache.entries, wfCache.transitive, wfCache.transitive)
    /\ (wfCache.ready = "True") = (MissingIn(graphCache, wfCache.entries) = {})

RestInv == GraphFollows /\ WorkforceFollows /\ LatestIsCached /\ CallRight /\ RestRight

LEMMA InitRest ==
  ASSUME Init
  PROVE  RestInv
<1>1. Len(graphInbox) = 0 /\ wfInbox = <<>>
  BY DEF Init
<1>2. GraphFollows /\ WorkforceFollows
  BY <1>1 DEF Init, GraphFollows, WorkforceFollows
<1>3. ~work.latest /\ queued
  BY DEF Init, Idle
<1> QED
  BY <1>2, <1>3 DEF RestInv, LatestIsCached, CallRight, RestRight

(* An edit is the last word about its Agent. *)
LEMMA EditFollows ==
  ASSUME TypeOK, GraphFollows, NEW a \in Agents, NEW new, EditAgent(a, new)
  PROVE  GraphFollows'
<1> DEFINE e == [name |-> a, new |-> new]
           n == Len(graphInbox)
<1>1. /\ graphInbox' = Append(graphInbox, e) /\ graphCache' = graphCache
      /\ graph' = [graph EXCEPT ![a] = new]
  BY DEF EditAgent
<1>2. n \in Nat /\ Len(graphInbox') = n + 1 /\ graphInbox'[n + 1] = e
  BY <1>1 DEF TypeOK
<1>3. \A i \in 1..n : graphInbox'[i] = graphInbox[i]
  BY <1>1 DEF TypeOK
<1>4. graph'[a] = new /\ \A b \in Agents : b # a => graph'[b] = graph[b]
  BY <1>1 DEF TypeOK
<1>5. \A i \in 1..n : graphInbox[i].name \in Agents
  <2>1. graphInbox \in Seq([name : Agents, new : Agent])
    BY DEF TypeOK
  <2>2. \A i \in 1..n : graphInbox[i] \in [name : Agents, new : Agent]
    BY <2>1, ElementOfSeq
  <2> QED
    BY <2>2
<1>6. e.name = a /\ e.new = new
  OBVIOUS
<1> HIDE DEF e, n
<1>7. ASSUME NEW b \in Agents
      PROVE  graphCache'[b] = graph'[b] \/ \E i \in 1..(n + 1) : graphInbox'[i].name = b
  <2>1. CASE b = a
    BY <1>2, <1>6, <2>1
  <2>2. CASE b # a
    <3>1. graphCache[b] = graph[b] \/ \E i \in 1..n : graphInbox[i].name = b
      BY DEF GraphFollows, n
    <3> QED
      BY <1>1, <1>2, <1>3, <1>4, <2>2, <3>1
  <2> QED
    BY <2>1, <2>2
<1>8. ASSUME NEW i \in 1..(n + 1)
      PROVE  \/ graphInbox'[i].new = graph'[graphInbox'[i].name]
             \/ \E j \in (i + 1)..(n + 1) : graphInbox'[j].name = graphInbox'[i].name
  <2>1. CASE i = n + 1
    BY <1>2, <1>4, <1>6, <2>1
  <2>2. CASE i # n + 1
    <3>1. i \in 1..n
      BY <1>2, <2>2
    <3>2. CASE graphInbox[i].name = a
      <4>1. n + 1 \in (i + 1)..(n + 1)
        BY <1>2, <3>1
      <4> QED
        BY <1>2, <1>3, <1>6, <3>1, <3>2, <4>1
    <3>3. CASE graphInbox[i].name # a
      <4>1. \/ graphInbox[i].new = graph[graphInbox[i].name]
            \/ \E j \in (i + 1)..n : graphInbox[j].name = graphInbox[i].name
        BY <3>1 DEF GraphFollows, n
      <4>2. CASE graphInbox[i].new = graph[graphInbox[i].name]
        BY <1>3, <1>4, <1>5, <3>1, <3>3, <4>2
      <4>3. ASSUME NEW j \in (i + 1)..n, graphInbox[j].name = graphInbox[i].name
            PROVE  \E k \in (i + 1)..(n + 1) : graphInbox'[k].name = graphInbox'[i].name
        <5>1. j \in 1..n /\ j \in (i + 1)..(n + 1)
          BY <1>2, <3>1
        <5> QED
          BY <1>3, <3>1, <4>3, <5>1
      <4> QED
        BY <4>1, <4>2, <4>3
    <3> QED
      BY <3>2, <3>3
  <2> QED
    BY <2>1, <2>2
<1> QED
  BY <1>2, <1>7, <1>8 DEF GraphFollows

(* A delivered event is the last word, or a later one is on its way. *)
LEMMA DeliverFollows ==
  ASSUME TypeOK, GraphFollows, DeliverAgent
  PROVE  GraphFollows'
<1> DEFINE e == Head(graphInbox)
           n == Len(graphInbox)
<1>1. /\ graphInbox' = Tail(graphInbox) /\ graph' = graph
      /\ graphCache' = [graphCache EXCEPT ![e.name] = e.new]
  BY DEF DeliverAgent
<1>2. graphInbox \in Seq([name : Agents, new : Agent]) /\ graphInbox # <<>>
  BY DEF TypeOK, DeliverAgent
<1>3. n \in Nat /\ n >= 1 /\ e = graphInbox[1] /\ e.name \in Agents
  <2>1. n \in Nat /\ n >= 1 /\ e = graphInbox[1]
    BY <1>2
  <2>2. e \in [name : Agents, new : Agent]
    BY <1>2, HeadTailProperties
  <2> QED
    BY <2>1, <2>2
<1>4. Len(graphInbox') = n - 1 /\ \A i \in 1..(n - 1) : graphInbox'[i] = graphInbox[i + 1]
  BY <1>1, <1>2
<1>5. /\ graphCache'[e.name] = e.new
      /\ \A b \in Agents : b # e.name => graphCache'[b] = graphCache[b]
  BY <1>1, <1>3 DEF TypeOK
<1> HIDE DEF e, n
<1>6. ASSUME NEW b \in Agents, NEW m \in 1..n, NEW i \in m..n, i # 1, graphInbox[i].name = b
      PROVE  i - 1 \in 1..(n - 1) /\ graphInbox'[i - 1].name = b
  <2>1. i - 1 \in 1..(n - 1) /\ (i - 1) + 1 = i
    BY <1>3, <1>6
  <2> QED
    BY <1>4, <1>6, <2>1
<1>7. ASSUME NEW b \in Agents
      PROVE  graphCache'[b] = graph'[b] \/ \E i \in 1..(n - 1) : graphInbox'[i].name = b
  <2>1. CASE b = e.name
    <3>1. 1 \in 1..n
      BY <1>3
    <3>2. \/ graphInbox[1].new = graph[graphInbox[1].name]
          \/ \E j \in 2..n : graphInbox[j].name = graphInbox[1].name
      BY <3>1 DEF GraphFollows, n
    <3>3. ASSUME NEW j \in 2..n, graphInbox[j].name = graphInbox[1].name
          PROVE  \E i \in 1..(n - 1) : graphInbox'[i].name = b
      <4>1. j \in 1..n /\ j # 1
        BY <1>3
      <4> QED
        BY <1>3, <1>6, <2>1, <3>1, <3>3, <4>1
    <3> QED
      BY <1>1, <1>3, <1>5, <2>1, <3>2, <3>3
  <2>2. CASE b # e.name
    <3>1. graphCache[b] = graph[b] \/ \E i \in 1..n : graphInbox[i].name = b
      BY DEF GraphFollows, n
    <3>2. ASSUME NEW i \in 1..n, graphInbox[i].name = b
          PROVE  \E k \in 1..(n - 1) : graphInbox'[k].name = b
      <4>1. i # 1 /\ 1 \in 1..n
        BY <1>3, <2>2, <3>2
      <4> QED
        BY <1>6, <3>2, <4>1
    <3> QED
      BY <1>1, <1>5, <2>2, <3>1, <3>2
  <2> QED
    BY <2>1, <2>2
<1>8. ASSUME NEW i \in 1..(n - 1)
      PROVE  \/ graphInbox'[i].new = graph'[graphInbox'[i].name]
             \/ \E j \in (i + 1)..(n - 1) : graphInbox'[j].name = graphInbox'[i].name
  <2>1. i + 1 \in 1..n /\ graphInbox'[i] = graphInbox[i + 1]
    BY <1>3, <1>4
  <2>2. \/ graphInbox[i + 1].new = graph[graphInbox[i + 1].name]
        \/ \E j \in (i + 1 + 1)..n : graphInbox[j].name = graphInbox[i + 1].name
    BY <2>1 DEF GraphFollows, n
  <2>3. ASSUME NEW j \in (i + 1 + 1)..n, graphInbox[j].name = graphInbox[i + 1].name
        PROVE  \E k \in (i + 1)..(n - 1) : graphInbox'[k].name = graphInbox'[i].name
    <3>1. j - 1 \in (i + 1)..(n - 1) /\ j - 1 \in 1..(n - 1) /\ (j - 1) + 1 = j
      BY <1>3
    <3> QED
      BY <1>4, <2>1, <2>3, <3>1
  <2> QED
    BY <1>1, <2>1, <2>2, <2>3
<1> QED
  BY <1>4, <1>7, <1>8 DEF GraphFollows

LEMMA StepFollows ==
  ASSUME TypeOK, GraphFollows, [Next]_vars
  PROVE  GraphFollows'
<1>1. CASE UNCHANGED <<graph, graphCache, graphInbox>>
  BY <1>1 DEF GraphFollows
<1>2. CASE Restart
  <2>1. graphCache' = graph' /\ Len(graphInbox') = 0
    BY <1>2 DEF Restart
  <2> QED
    BY <2>1 DEF GraphFollows
<1>3. ASSUME NEW a \in Agents, NEW new, EditAgent(a, new)
      PROVE  GraphFollows'
  BY <1>3, EditFollows
<1>4. CASE DeliverAgent
  BY <1>4, DeliverFollows
<1> QED
  BY <1>1, <1>2, <1>3, <1>4
  DEF Next, Environment, Reconcile, EditWorkforce, Resync, DeliverWorkforce, ReconcileBegin,
      ValidateEntryPointAgent, BeginTraversal, TraverseAgent, UpdateStatus, vars

(* What happens to the workforce and its cache in a step. *)
LEMMA WorkforceStep ==
  ASSUME TypeOK, [Next]_vars
  PROVE  \/ UNCHANGED <<workforce, wfCache, wfInbox>>
         \/ wfCache' = workforce' /\ wfInbox' = <<>>
         \/ workforce' = workforce /\ wfInbox # <<>> /\ wfCache' = Head(wfInbox) /\ wfInbox' = Tail(wfInbox)
         \/ WriteWorkforce(workforce') /\ wfCache' = wfCache
<1>1. CASE UpdateStatus
  BY <1>1 DEF UpdateStatus, WriteWorkforce
<1>2. ASSUME NEW entries, EditWorkforce(entries)
      PROVE  WriteWorkforce(workforce') /\ wfCache' = wfCache
  BY <1>2 DEF EditWorkforce, WriteWorkforce
<1> QED
  BY <1>1, <1>2
  DEF Next, Environment, Reconcile, EditAgent, Restart, Resync, DeliverAgent, DeliverWorkforce,
      ReconcileBegin, ValidateEntryPointAgent, BeginTraversal, TraverseAgent, vars

LEMMA StepWorkforceFollows ==
  ASSUME TypeOK, WorkforceFollows, [Next]_vars
  PROVE  WorkforceFollows'
<1>1. wfInbox \in Seq(Workforce)
  BY DEF TypeOK
<1>2. CASE UNCHANGED <<workforce, wfCache, wfInbox>>
  BY <1>2 DEF WorkforceFollows
<1>3. CASE wfCache' = workforce' /\ wfInbox' = <<>>
  BY <1>3 DEF WorkforceFollows
<1>4. CASE /\ workforce' = workforce /\ wfInbox # <<>>
           /\ wfCache' = Head(wfInbox) /\ wfInbox' = Tail(wfInbox)
  <2>1. wfInbox[Len(wfInbox)] = workforce
    BY <1>4 DEF WorkforceFollows
  <2>2. CASE Len(wfInbox) = 1
    <3>1. wfInbox' = <<>> /\ wfCache' = wfInbox[1]
      BY <1>1, <1>4, <2>2
    <3> QED
      BY <1>4, <2>1, <2>2, <3>1 DEF WorkforceFollows
  <2>3. CASE Len(wfInbox) # 1
    <3>1. wfInbox' # <<>> /\ wfInbox'[Len(wfInbox')] = wfInbox[Len(wfInbox)]
      <4>1. Len(wfInbox) \in Nat /\ Len(wfInbox) > 1
        <5> DEFINE n == Len(wfInbox)
        <5>1. n \in Nat /\ n # 0 /\ n # 1
          BY <1>1, <1>4, <2>3, EmptySeq
        <5> HIDE DEF n
        <5>2. n > 1
          BY <5>1
        <5> QED
          BY <5>1, <5>2 DEF n
      <4>2. wfInbox' \in Seq(Workforce) /\ Len(wfInbox') = Len(wfInbox) - 1
        BY <1>1, <1>4, HeadTailProperties
      <4>3. wfInbox'[Len(wfInbox) - 1] = wfInbox[Len(wfInbox)]
        BY <1>1, <1>4, <4>1
      <4>4. wfInbox' # <<>>
        BY <4>1, <4>2
      <4> QED
        BY <4>2, <4>3, <4>4
    <3> QED
      BY <1>4, <2>1, <3>1 DEF WorkforceFollows
  <2> QED
    BY <2>2, <2>3
<1>5. CASE WriteWorkforce(workforce') /\ wfCache' = wfCache
  <2>1. wfInbox' = Append(wfInbox, workforce')
    BY <1>5 DEF WriteWorkforce
  <2>2. wfInbox' # <<>> /\ wfInbox'[Len(wfInbox')] = workforce'
    BY <1>1, <2>1
  <2> QED
    BY <2>2 DEF WorkforceFollows
<1> QED
  BY <1>2, <1>3, <1>4, <1>5, WorkforceStep

(* What happens to the call in a step: it is outdated by an edit; it ends  *)
(* or is lost; it begins; or it goes on.                                   *)
LEMMA StepLatest ==
  ASSUME TypeOK, WorkforceFollows, LatestIsCached, [Next]_vars
  PROVE  LatestIsCached'
<1>1. CASE work' = Idle
  BY <1>1 DEF LatestIsCached, Idle
<1>2. ASSUME NEW entries, EditWorkforce(entries)
      PROVE  ~work'.latest
  BY <1>2 DEF EditWorkforce, TypeOK
<1>3. CASE ReconcileBegin
  <2>1. /\ work'.pc = "validate" /\ work'.latest = (wfInbox = <<>>)
        /\ work'.entries = wfCache.entries /\ UNCHANGED <<workforce, wfCache, wfInbox>>
    BY <1>3 DEF ReconcileBegin, Idle
  <2> QED
    BY <2>1 DEF LatestIsCached, WorkforceFollows
<1>4. CASE /\ UNCHANGED <<workforce, wfCache, wfInbox>> /\ work'.latest = work.latest
           /\ work'.entries = work.entries /\ (work'.pc = "idle" => work.pc = "idle")
  BY <1>4 DEF LatestIsCached
<1>5. CASE DeliverWorkforce
  BY <1>5 DEF DeliverWorkforce, LatestIsCached
<1>6. CASE BeginTraversal \/ \E a \in Agents : ValidateEntryPointAgent(a) \/ TraverseAgent(a)
  <2>1. work' = [work EXCEPT !.pc = work'.pc, !.todo = work'.todo, !.visited = work'.visited,
                             !.missing = work'.missing]
    BY <1>6 DEF BeginTraversal, ValidateEntryPointAgent, TraverseAgent, TypeOK
  <2>2. work'.pc # "idle" /\ UNCHANGED <<workforce, wfCache, wfInbox>>
    BY <1>6 DEF BeginTraversal, ValidateEntryPointAgent, TraverseAgent, TypeOK
  <2> QED
    BY <1>4, <2>1, <2>2 DEF TypeOK
<1>7. CASE UNCHANGED <<workforce, wfCache, wfInbox, work>>
  BY <1>7 DEF LatestIsCached
<1> QED
  <2>1. UpdateStatus \/ Restart => work' = Idle
    BY DEF UpdateStatus, Restart
  <2>2. Resync \/ DeliverAgent \/ (\E a \in Agents : \E new : EditAgent(a, new)) \/ UNCHANGED vars
          => UNCHANGED <<workforce, wfCache, wfInbox, work>>
    BY DEF Resync, DeliverAgent, EditAgent, vars
  <2> QED
    BY <1>1, <1>2, <1>3, <1>5, <1>6, <1>7, <2>1, <2>2
    DEF Next, Environment, Reconcile, LatestIsCached

(* Only what is known of the visited Agents counts. *)
LEMMA ExploredSame ==
  ASSUME NEW known, NEW other, NEW E, NEW V, NEW P, Explored(known, E, V, P),
         \A x \in V \cap Agents : other[x] = known[x]
  PROVE  Explored(other, E, V, P)
BY DEF Explored

(* A visit leaves the walk explored. *)
LEMMA VisitExplores ==
  ASSUME TypeOK, NEW E, Explored(graphCache, E, work.visited, Pending),
         NEW a \in Agents, TraverseAgent(a)
  PROVE  Explored(graphCache, E, work'.visited, Pending')
<1> DEFINE refs == graphCache[a].refs
           seen == work.visited \cup {a} \cup (refs \cap Leaves)
<1>1. /\ a \in work.todo
      /\ work' = [work EXCEPT !.visited = seen, !.todo = (@ \cup (refs \cap Agents)) \ seen]
  BY DEF TraverseAgent
<1>2. work'.visited = seen /\ work'.todo = (work.todo \cup (refs \cap Agents)) \ seen
  BY <1>1 DEF TypeOK
<1>3. refs = (refs \cap Leaves) \cup (refs \cap Agents)
  BY DEF TypeOK, Agent, Nodes
<1>4. Pending' = Pending \cup refs
  BY <1>1, <1>2, <1>3 DEF Pending
<1>5. seen \cap Agents = (work.visited \cap Agents) \cup {a}
  BY WorkforceAssumption
<1>6. a \in Pending
  BY <1>1 DEF Pending
<1>7. E \subseteq Pending'
  BY <1>4 DEF Explored
<1>8. \A x \in seen \cap Agents : graphCache[x].refs \subseteq Pending'
  BY <1>4, <1>5 DEF Explored
<1>9. ASSUME NEW S \in SUBSET Nodes, E \subseteq S,
             \A x \in seen \cap S \cap Agents : graphCache[x].refs \subseteq S
      PROVE  Pending' \subseteq S
  <2>1. \A x \in work.visited \cap S \cap Agents : graphCache[x].refs \subseteq S
    BY <1>9
  <2>2. Pending \subseteq S
    BY <1>9, <2>1 DEF Explored
  <2>3. a \in seen \cap S \cap Agents
    BY <1>6, <2>2
  <2>4. refs \subseteq S
    BY <1>9, <2>3
  <2> QED
    BY <1>4, <2>2, <2>4
<1> HIDE DEF seen
<1> QED
  BY <1>2, <1>7, <1>8, <1>9 DEF Explored

(* An event the workforce sleeps through. *)
LEMMA SleptThrough ==
  ASSUME TypeOK, DeliverAgent, ~queued'
  PROVE  /\ ~queued /\ UNCHANGED <<workforce, wfCache, wfInbox, work>>
         /\ \E n \in Agents :
              /\ n \notin wfCache.entries /\ n \notin wfCache.transitive
              /\ \A b \in Agents \ {n} : graphCache'[b] = graphCache[b]
<1>1. UNCHANGED <<workforce, wfCache, wfInbox, work>> /\ ~queued /\ ~References(Head(graphInbox).name)
  BY Zenon DEF DeliverAgent
<1>2. graphInbox \in Seq([name : Agents, new : Agent]) /\ graphInbox # <<>>
  BY DEF TypeOK, DeliverAgent
<1>3. Head(graphInbox) \in [name : Agents, new : Agent]
  BY <1>2, HeadTailProperties
<1>4. Head(graphInbox).name \in Agents
  BY <1>3
<1>5. graphCache' = [graphCache EXCEPT ![Head(graphInbox).name] = Head(graphInbox).new]
  BY DEF DeliverAgent
<1>6. \A b \in Agents \ {Head(graphInbox).name} : graphCache'[b] = graphCache[b]
  BY <1>5 DEF TypeOK
<1> QED
  BY <1>1, <1>4, <1>6 DEF References

(* The call in progress. *)
LEMMA StepCall ==
  ASSUME TypeOK, LatestIsCached, CallRight, [Next]_vars
  PROVE  CallRight'
<1> SUFFICES ASSUME work'.latest, ~queued'
             PROVE  CallRight'
  BY DEF CallRight
<1>1. CASE UNCHANGED <<graphCache, wfCache, work, queued>>
  BY <1>1 DEF CallRight, Pending
<1>2. CASE work' = Idle
  BY <1>2 DEF Idle
<1>3. ASSUME NEW entries, EditWorkforce(entries)
      PROVE  FALSE
  BY <1>3 DEF EditWorkforce, TypeOK
<1>4. CASE DeliverAgent
  <2>1. PICK n \in Agents :
          /\ n \notin wfCache.entries /\ n \notin wfCache.transitive
          /\ \A b \in Agents \ {n} : graphCache'[b] = graphCache[b]
    BY <1>4, SleptThrough
  <2>2. ~queued /\ UNCHANGED <<wfCache, work>> /\ work.latest
    BY <1>4, SleptThrough
  <2>3. work.entries = wfCache.entries /\ work.entries \in SUBSET Agents
    BY <2>2 DEF LatestIsCached, TypeOK
  <2>5. MissingIn(graphCache', work.entries) = MissingIn(graphCache, work.entries)
    BY <2>1, <2>3 DEF MissingIn
  <2>6. MissingIn(graphCache', work.entries \ work.todo)
          = MissingIn(graphCache, work.entries \ work.todo)
    BY <2>1, <2>3 DEF MissingIn
  <2>7. ASSUME work.visited \subseteq wfCache.transitive,
               Explored(graphCache, work.entries, work.visited, Pending)
        PROVE  Explored(graphCache', work.entries, work.visited, Pending)
    <3>1. \A x \in work.visited \cap Agents : graphCache'[x] = graphCache[x]
      BY <2>1, <2>7
    <3> QED
      BY <2>7, <3>1, ExploredSame
  <2> QED
    BY <2>2, <2>5, <2>6, <2>7 DEF CallRight, Pending
<1>5. CASE ReconcileBegin
  <2>1. /\ work'.pc = "validate" /\ work'.visited = {} /\ work'.missing = {}
        /\ work'.entries = wfCache.entries /\ work'.todo = wfCache.entries
    BY <1>5 DEF ReconcileBegin, Idle
  <2> QED
    BY <2>1 DEF CallRight, MissingIn
<1>6. ASSUME NEW a \in Agents, ValidateEntryPointAgent(a)
      PROVE  CallRight'
  <2>1. /\ work.pc = "validate" /\ a \in work.todo /\ UNCHANGED <<graphCache, wfCache, queued>>
        /\ work' = [work EXCEPT !.todo = @ \ {a},
                                !.missing = IF graphCache[a].exists THEN @ ELSE @ \cup {a}]
    BY <1>6 DEF ValidateEntryPointAgent
  <2>2. /\ work'.pc = "validate" /\ work'.visited = work.visited /\ work'.entries = work.entries
        /\ work'.latest = work.latest /\ work'.todo = work.todo \ {a}
        /\ work'.missing = IF graphCache[a].exists THEN work.missing ELSE work.missing \cup {a}
    BY <2>1 DEF TypeOK
  <2>3. /\ work.visited = {} /\ work.todo \subseteq work.entries
        /\ work.missing = MissingIn(graphCache, work.entries \ work.todo)
    BY <2>1, <2>2 DEF CallRight
  <2>4. work'.missing = MissingIn(graphCache, work'.entries \ work'.todo)
    BY <2>1, <2>2, <2>3 DEF MissingIn
  <2> QED
    BY <2>1, <2>2, <2>3, <2>4 DEF CallRight
<1>7. CASE BeginTraversal
  <2>1. /\ work.pc = "validate" /\ work.todo = {} /\ UNCHANGED <<graphCache, wfCache, queued>>
        /\ work' = [work EXCEPT !.pc = "traverse", !.todo = work.entries]
    BY <1>7 DEF BeginTraversal
  <2>2. /\ work'.pc = "traverse" /\ work'.visited = work.visited /\ work'.entries = work.entries
        /\ work'.latest = work.latest /\ work'.todo = work.entries /\ work'.missing = work.missing
    BY <2>1 DEF TypeOK
  <2>3. work.visited = {} /\ work.missing = MissingIn(graphCache, work.entries)
    <3>1. work.entries \ work.todo = work.entries
      BY <2>1
    <3> QED
      BY <2>1, <2>2, <3>1 DEF CallRight
  <2>4. Pending' = work.entries
    BY <2>2, <2>3 DEF Pending
  <2>5. Explored(graphCache', work'.entries, work'.visited, Pending')
    BY <2>2, <2>3, <2>4 DEF Explored
  <2> QED
    BY <2>1, <2>2, <2>3, <2>5 DEF CallRight
<1>8. ASSUME NEW a \in Agents, TraverseAgent(a)
      PROVE  CallRight'
  <2>1. work.pc = "traverse" /\ UNCHANGED <<graphCache, wfCache, queued>>
    BY <1>8 DEF TraverseAgent
  <2>2. /\ work'.pc = "traverse" /\ work'.entries = work.entries /\ work'.latest = work.latest
        /\ work'.missing = work.missing /\ work.visited \subseteq work'.visited
    BY <1>8 DEF TraverseAgent, TypeOK
  <2>3. /\ work.missing = MissingIn(graphCache, work.entries)
        /\ \/ Explored(graphCache, work.entries, work.visited, Pending)
           \/ ~(work.visited \subseteq wfCache.transitive)
    BY <2>1, <2>2 DEF CallRight
  <2>4. \/ Explored(graphCache, work.entries, work'.visited, Pending')
        \/ ~(work'.visited \subseteq wfCache.transitive)
    BY <1>8, <2>2, <2>3, VisitExplores
  <2> QED
    BY <2>1, <2>2, <2>3, <2>4 DEF CallRight
<1> QED
  <2>1. DeliverWorkforce \/ Resync => FALSE
    BY DEF DeliverWorkforce, Resync
  <2>2. UpdateStatus \/ Restart => work' = Idle
    BY DEF UpdateStatus, Restart
  <2>3. (\E a \in Agents : \E new : EditAgent(a, new)) \/ UNCHANGED vars
          => UNCHANGED <<graphCache, wfCache, work, queued>>
    BY DEF EditAgent, vars
  <2> QED
    BY <1>1, <1>2, <1>3, <1>4, <1>5, <1>6, <1>7, <1>8, <2>1, <2>2, <2>3
    DEF Next, Environment, Reconcile

LEMMA WriteIsSent ==
  ASSUME TypeOK, NEW new, WriteWorkforce(new)
  PROVE  wfInbox' # <<>>
<1>1. wfInbox' = Append(wfInbox, new) /\ wfInbox \in Seq(Workforce)
  BY DEF WriteWorkforce, TypeOK
<1>2. Len(wfInbox') = Len(wfInbox) + 1 /\ Len(wfInbox) \in Nat
  BY <1>1
<1> QED
  BY <1>2

(* When the controller comes to rest, and while it rests. *)
LEMMA StepRest ==
  ASSUME TypeOK, WorkforceFollows, LatestIsCached, CallRight, RestRight, [Next]_vars
  PROVE  RestRight'
<1> SUFFICES ASSUME ~queued', work'.pc = "idle", wfInbox' = <<>>
             PROVE  RestRight'
  BY DEF RestRight
<1>1. CASE UNCHANGED <<graphCache, wfCache, wfInbox, work, queued>>
  BY <1>1 DEF RestRight
<1>2. CASE DeliverAgent
  <2>1. PICK n \in Agents :
          /\ n \notin wfCache.entries /\ n \notin wfCache.transitive
          /\ \A b \in Agents \ {n} : graphCache'[b] = graphCache[b]
    BY <1>2, SleptThrough
  <2>2. ~queued /\ UNCHANGED <<wfCache, wfInbox, work>>
    BY <1>2, SleptThrough
  <2>3. /\ Explored(graphCache, wfCache.entries, wfCache.transitive, wfCache.transitive)
        /\ (wfCache.ready = "True") = (MissingIn(graphCache, wfCache.entries) = {})
    BY <2>2 DEF RestRight
  <2>4. wfCache.entries \in SUBSET Agents
    BY DEF TypeOK, Workforce
  <2>5. MissingIn(graphCache', wfCache.entries) = MissingIn(graphCache, wfCache.entries)
    BY <2>1, <2>4 DEF MissingIn
  <2>6. \A x \in wfCache.transitive \cap Agents : graphCache'[x] = graphCache[x]
    BY <2>1
  <2>7. Explored(graphCache', wfCache.entries, wfCache.transitive, wfCache.transitive)
    BY <2>3, <2>6, ExploredSame
  <2> QED
    BY <2>2, <2>3, <2>5, <2>7 DEF RestRight
<1>3. CASE UpdateStatus
  <2> DEFINE new == [workforce EXCEPT !.transitive = work.visited,
                                      !.ready = ReadyCondition(work.missing)]
  <2>1. /\ work.pc = "traverse" /\ work.todo = {} /\ work.latest /\ ~queued
        /\ UNCHANGED <<graphCache, wfCache>>
    BY <1>3 DEF UpdateStatus
  <2>2. workforce \in Workforce /\ wfInbox = <<>> /\ wfCache = workforce
    BY <2>1 DEF TypeOK, LatestIsCached
  <2>3. ~WriteWorkforce(new)
    BY WriteIsSent
  <2>4. new = workforce
    BY <1>3, <2>1, <2>3 DEF UpdateStatus
  <2>5. workforce.transitive = work.visited /\ workforce.ready = ReadyCondition(work.missing)
    <3>1. new.transitive = work.visited /\ new.ready = ReadyCondition(work.missing)
      BY <2>2 DEF Workforce
    <3> QED
      BY <2>4, <3>1
  <2>6. work.entries = wfCache.entries /\ Pending = work.visited
    BY <2>1 DEF LatestIsCached, Pending
  <2>7. /\ work.missing = MissingIn(graphCache, wfCache.entries)
        /\ Explored(graphCache, wfCache.entries, work.visited, work.visited)
    BY <2>1, <2>2, <2>5, <2>6 DEF CallRight
  <2>8. (wfCache.ready = "True") = (MissingIn(graphCache, wfCache.entries) = {})
    BY <2>2, <2>5, <2>7 DEF ReadyCondition
  <2> QED
    BY <2>1, <2>2, <2>5, <2>7, <2>8 DEF RestRight
<1> QED
  <2>1. Restart \/ Resync \/ DeliverWorkforce => queued'
    BY DEF Restart, Resync, DeliverWorkforce
  <2>2. ASSUME NEW entries, EditWorkforce(entries)
        PROVE  FALSE
    BY <2>2, WriteIsSent DEF EditWorkforce
  <2>3. (ReconcileBegin \/ BeginTraversal
           \/ \E a \in Agents : ValidateEntryPointAgent(a) \/ TraverseAgent(a)) => work'.pc # "idle"
    BY DEF ReconcileBegin, BeginTraversal, ValidateEntryPointAgent, TraverseAgent, TypeOK, Idle
  <2>4. (\E a \in Agents : \E new : EditAgent(a, new)) \/ UNCHANGED vars
          => UNCHANGED <<graphCache, wfCache, wfInbox, work, queued>>
    BY DEF EditAgent, vars
  <2> QED
    BY <1>1, <1>2, <1>3, <2>1, <2>2, <2>3, <2>4 DEF Next, Environment, Reconcile

(* At rest the caches are the API server, and what was explored is all     *)
(* that can be reached.                                                    *)
LEMMA RestIsRight ==
  ASSUME TypeOK, RestInv
  PROVE  RestsOnlyRight
<1> SUFFICES ASSUME Resting
             PROVE  Discovered
  BY DEF RestsOnlyRight
<1>1. graphCache = graph
  <2>1. \A a \in Agents : graphCache[a] = graph[a]
    <3>1. Len(graphInbox) = 0
      BY DEF Resting
    <3>2. \A i \in 1..Len(graphInbox) : FALSE
      BY <3>1
    <3> QED
      BY <3>2, Zenon DEF RestInv, GraphFollows
  <2> QED
    BY <2>1 DEF TypeOK
<1>2. wfCache = workforce
  BY DEF RestInv, WorkforceFollows, Resting
<1> DEFINE T == workforce.transitive
<1>3. /\ Explored(graph, workforce.entries, T, T)
      /\ (workforce.ready = "True") = (MissingIn(graph, workforce.entries) = {})
  BY <1>1, <1>2 DEF RestInv, RestRight, Resting
<1>4. T \in SUBSET Nodes /\ workforce.entries \in SUBSET Agents
  BY DEF TypeOK, Workforce
<1>5. Reachable \subseteq T
  BY <1>3, <1>4, ReachableLeast DEF Explored, Closed
<1>6. T \subseteq Reachable
  <2>1. Reachable \in SUBSET Nodes
    BY DEF Reachable
  <2>2. \A x \in T \cap Reachable \cap Agents : graph[x].refs \subseteq Reachable
    BY ReachableClosed
  <2> QED
    BY <1>3, <2>1, <2>2, ReachableClosed DEF Explored
<1>7. (workforce.ready = "True") = (\A a \in workforce.entries : graph[a].exists)
  BY <1>3 DEF MissingIn
<1> QED
  BY <1>5, <1>6, <1>7 DEF Discovered

(* No wake-up is lost: whatever is edited and however deliveries, walks    *)
(* and crashes interleave, the workforce only comes to rest with a status  *)
(* that lists all that can be reached and is Ready exactly if all entry    *)
(* points exist, although this very status decides what is heard.          *)
THEOREM NoWakeUpLost == Spec => []RestsOnlyRight
<1>1. Init => TypeOK /\ RestInv
  BY InitType, InitRest
<1>2. TypeOK /\ RestInv /\ [Next]_vars => (TypeOK /\ RestInv)'
  BY StepType, StepFollows, StepWorkforceFollows, StepLatest, StepCall, StepRest DEF RestInv
<1>3. TypeOK /\ RestInv => RestsOnlyRight
  BY RestIsRight
<1> QED
  BY <1>1, <1>2, <1>3, PTL DEF Spec
=============================================================================
