--------------------------- MODULE DashboardForms ---------------------------
(***************************************************************************)
(* The two forms of the web dashboard, New Agent and Simulation, from what   *)
(* is typed to the Agent in the cluster: the state of the form, the request  *)
(* built from it when it is submitted, what FastAPI and generate_agent_yaml  *)
(* make of the request, what the CRD admits, and what the answer does to the *)
(* page, which may have been left, and opened again, by the time it comes.   *)
(*                                                                           *)
(* The user is logged in throughout (WebDashboard has the session), and a    *)
(* field holds the text that is typed.  A value the code leaves out is the   *)
(* empty set, a value it passes on a set of one.                             *)
(***************************************************************************)
EXTENDS Integers, FiniteSets

CONSTANTS
  Values,      \* what may be typed or chosen in each field of New Agent
  SimValues,   \* and of Simulation
  NumberOf,    \* the texts that are numbers, with what they stand for
  ValidNames,  \* the names that Kubernetes takes
  Premium,     \* the claim of the token; /auth/login always writes TRUE
  MaxClicks,   \* bound: submissions
  MaxEdits,    \* bound: fields changed
  MaxFaults,   \* bound: requests or answers that are lost
  MaxVisits    \* bound: times a form is opened

ASSUME FormsAssumption ==
  /\ Premium \in BOOLEAN
  /\ {MaxClicks, MaxEdits, MaxFaults, MaxVisits} \subseteq Nat

VARIABLES
  doc,       \* the page that is shown, with its form
  calls,     \* the request of each submission
  agents,    \* the Agents of the namespace, by name
  clicked,   \* history: the forms submitted on New Agent
  ran,       \* history: the form last submitted on Simulation
  executed,  \* history: the submissions that created an Agent
  edits, faults

vars == << doc, calls, agents, clicked, ran, executed, edits, faults >>

Clicks == 1..MaxClicks

(***************************************************************************)
(* From the text to the request.                                             *)
(***************************************************************************)

(* Number(), of what can be typed; {} is NaN, which JSON writes as null.     *)
Number(text) == IF text \in DOMAIN NumberOf THEN {NumberOf[text]} ELSE {}

(* A falsy value is left out.                                                *)
Given(text) == {text} \ {""}
NonZero(numbers) == numbers \ {0}

InitialForm ==
  [name |-> "", instruction |-> "", model |-> "gemini", replicas |-> "1",
   apiKey |-> "", maxMonthlyCost |-> "", optimizationMode |-> "",
   verifiableEnabled |-> FALSE, proofMode |-> "snark-groth16",
   autonomyLevel |-> "3", strategy |-> "", promptVersion |-> ""]

InitialSim ==
  [name |-> "test-agent", replicas |-> "1", maxMonthlyCost |-> "50",
   verifiableEnabled |-> FALSE]

(* The empty text counts as zero.  Autonomy is a slider from 1 to 5, the     *)
(* proof chain a checkbox.                                                   *)
ASSUME FieldsAssumption ==
  /\ \A text \in DOMAIN NumberOf : NumberOf[text] \in Int
  /\ {"", "3"} \subseteq DOMAIN NumberOf /\ NumberOf[""] = 0 /\ NumberOf["3"] = 3
  /\ DOMAIN Values = DOMAIN InitialForm /\ DOMAIN SimValues = DOMAIN InitialSim
  /\ \A text \in Values["autonomyLevel"] : Number(text) # {} /\ Number(text) \subseteq 1..5
  /\ Values["verifiableEnabled"] \subseteq BOOLEAN

(* What the browser checks before it submits the form: required, min, max.   *)
Submittable(form) ==
  form.name # "" /\ (form.replicas = "" \/ Number(form.replicas) \subseteq 1..10)

(* The object given to createAgent; the texts that are not numbers go as     *)
(* they are.                                                                 *)
Posted(form) ==
  [form EXCEPT !.replicas = Number(@),
               !.maxMonthlyCost = IF @ = "" THEN {} ELSE Number(@),
               !.autonomyLevel = Number(@)]

(* Simulation converts a number when it is typed; the rest of what            *)
(* generate_agent_yaml asks for is not in its form.                          *)
PostedSim(sim) ==
  [InitialForm EXCEPT !.name = sim.name, !.model = "",
                      !.replicas = Number(sim.replicas),
                      !.maxMonthlyCost = Number(sim.maxMonthlyCost),
                      !.verifiableEnabled = sim.verifiableEnabled,
                      !.autonomyLevel = {}]

(***************************************************************************)
(* From the request to the Agent.                                            *)
(***************************************************************************)

(* generate_agent_yaml.  Without a strategy there is no lifecycle, and the    *)
(* prompt version has no place to go.                                        *)
generate_agent_yaml(req) ==
  [name |-> req.name, instruction |-> req.instruction, replicas |-> req.replicas,
   model |-> Given(req.model), key |-> Given(req.apiKey),
   budget |-> NonZero(req.maxMonthlyCost),
   optimization |-> Given(req.optimizationMode),
   proof |-> IF req.verifiableEnabled THEN {req.proofMode} ELSE {},
   autonomy |-> NonZero(req.autonomyLevel),
   strategy |-> Given(req.strategy),
   prompt |-> IF req.strategy = "" THEN {} ELSE Given(req.promptVersion)]

(* Mutant: no pattern on the budget.                                         *)
PatternMissing(agent) == agent.name \in ValidNames /\ agent.replicas \subseteq Nat

(* What the CRD admits: a replica count and a budget that is a decimal       *)
(* number without a sign.                                                    *)
Admissible(agent) ==
  /\ agent.name \in ValidNames
  /\ agent.replicas \subseteq Nat /\ agent.budget \subseteq Nat

(* simulation.py: an estimate from the form alone; the cluster is not asked.  *)
Estimate(req) ==
  [agent |-> generate_agent_yaml(req), pods |-> req.replicas,
   containers |-> IF req.verifiableEnabled THEN 2 ELSE 1,
   cost |-> req.maxMonthlyCost,
   warnings |-> (IF req.apiKey = "" THEN {"apiKey"} ELSE {})
                  \cup {"replicas" : n \in {r \in req.replicas : r > 5}}]

(***************************************************************************)
(* The page: "list" is Live Agents, where a creation leads, "home" any      *)
(* other page without a form.                                                *)
(***************************************************************************)

Idle == [status |-> "none", op |-> "create", visit |-> 0,
         req |-> Posted(InitialForm), answer |-> {}]

(* A page that has just been mounted.                                        *)
Mount(page, visit, click) ==
  [page |-> page, visit |-> visit, form |-> InitialForm, sim |-> InitialSim,
   loading |-> FALSE, error |-> FALSE, result |-> {}, click |-> click]

(* A link is followed.                                                       *)
Open(page) ==
  /\ doc.visit < MaxVisits /\ page # doc.page
  /\ doc' = Mount(page, doc.visit + 1, 0)
  /\ UNCHANGED << calls, agents, clicked, ran, executed, edits, faults >>

(* One field is changed, the request in flight notwithstanding.              *)
Edit ==
  /\ doc.page = "new" /\ edits < MaxEdits
  /\ \E field \in DOMAIN Values : \E value \in Values[field] \ {doc.form[field]} :
       /\ (field = "proofMode" => doc.form.verifiableEnabled)
       /\ doc' = [doc EXCEPT !.form[field] = value]
  /\ edits' = edits + 1
  /\ UNCHANGED << calls, agents, clicked, ran, executed, faults >>

EditSim ==
  /\ doc.page = "simulation" /\ edits < MaxEdits
  /\ \E field \in DOMAIN SimValues : \E value \in SimValues[field] \ {doc.sim[field]} :
       doc' = [doc EXCEPT !.sim[field] = value]
  /\ edits' = edits + 1
  /\ UNCHANGED << calls, agents, clicked, ran, executed, faults >>

Fresh == {k \in Clicks : calls[k].status = "none"}

(* The next submission is sent, with what was typed by then.                  *)
Sent(k, op, req) ==
  /\ k \in Fresh /\ \A j \in Fresh : k <= j
  /\ calls' = [calls EXCEPT ![k] = [Idle EXCEPT !.status = "sent", !.op = op,
                                                 !.visit = doc.visit, !.req = req]]

handleSubmit(k) ==
  /\ doc.page = "new" /\ ~doc.loading /\ Submittable(doc.form)
  /\ Sent(k, "create", Posted(doc.form))
  /\ doc' = [doc EXCEPT !.loading = TRUE, !.error = FALSE, !.click = k]
  /\ clicked' = clicked \cup {doc.form}
  /\ UNCHANGED << agents, ran, executed, edits, faults >>

(* Mutant: the button Run Simulation stays enabled.                          *)
NotDisabled(k) ==
  /\ doc.page = "simulation"
  /\ Sent(k, "preview", PostedSim(doc.sim))
  /\ doc' = [doc EXCEPT !.loading = TRUE, !.click = k]
  /\ ran' = doc.sim
  /\ UNCHANGED << agents, clicked, executed, edits, faults >>

(* The result of the run before stays on the page meanwhile.                 *)
runPreview(k) ==
  /\ doc.page = "simulation" /\ ~doc.loading
  /\ Sent(k, "preview", PostedSim(doc.sim))
  /\ doc' = [doc EXCEPT !.loading = TRUE, !.click = k]
  /\ ran' = doc.sim
  /\ UNCHANGED << agents, clicked, executed, edits, faults >>

(***************************************************************************)
(* The server and the cluster.                                               *)
(***************************************************************************)

(* Mutant: the request is built from the form as it is by then.              *)
LatestForm(k) == IF doc.page = "new" THEN Posted(doc.form) ELSE calls[k].req

(* The body of submission k.                                                 *)
Body(k) == calls[k].req

(* PlonK is for premium users; an Agent that exists is a conflict, one that  *)
(* the CRD does not admit is invalid, and both are 400.                      *)
Creatable(agent) ==
  /\ agent.name \notin DOMAIN agents /\ Admissible(agent)
PlonkRefused(req) == req.proofMode = "plonk-universal" /\ ~Premium

create_agent(k) ==
  LET agent == generate_agent_yaml(Body(k))
  IN /\ calls[k].status = "sent" /\ calls[k].op = "create"
     /\ ~PlonkRefused(Body(k)) /\ Creatable(agent)
     /\ agents' = [n \in DOMAIN agents \cup {agent.name} |->
                     IF n = agent.name THEN agent ELSE agents[n]]
     /\ executed' = executed \cup {k}
     /\ calls' = [calls EXCEPT ![k].status = "ok"]
     /\ UNCHANGED << doc, clicked, ran, edits, faults >>

create_refused(k) ==
  /\ calls[k].status = "sent" /\ calls[k].op = "create"
  /\ PlonkRefused(Body(k)) \/ ~Creatable(generate_agent_yaml(Body(k)))
  /\ calls' = [calls EXCEPT ![k].status = "failed"]
  /\ UNCHANGED << doc, agents, clicked, ran, executed, edits, faults >>

preview_simulation(k) ==
  /\ calls[k].status = "sent" /\ calls[k].op = "preview"
  /\ calls' = [calls EXCEPT ![k].status = "ok", ![k].answer = {Estimate(Body(k))}]
  /\ UNCHANGED << doc, agents, clicked, ran, executed, edits, faults >>

(* The request or its answer is lost: executed or not, the browser reports   *)
(* a failure.                                                                *)
Lose(k) ==
  /\ calls[k].status \in {"sent", "ok"} /\ faults < MaxFaults
  /\ faults' = faults + 1
  /\ calls' = [calls EXCEPT ![k].status = "failed", ![k].answer = {}]
  /\ UNCHANGED << doc, agents, clicked, ran, executed, edits >>

(* Somebody else deletes an Agent.                                           *)
Remove ==
  /\ \E n \in DOMAIN agents :
       agents' = [m \in DOMAIN agents \ {n} |-> agents[m]]
  /\ UNCHANGED << doc, calls, clicked, ran, executed, edits, faults >>

(***************************************************************************)
(* The answer.                                                               *)
(***************************************************************************)

(* The form that sent the request is still mounted.                          *)
Mounted(k) == doc.page \in {"new", "simulation"} /\ calls[k].visit = doc.visit

Done(k) == calls' = [calls EXCEPT ![k] = [Idle EXCEPT !.status = "done"]]

(* navigate('/agents'), whether the form is still there or not.              *)
Created(k) ==
  /\ calls[k].status = "ok" /\ calls[k].op = "create"
  /\ doc' = IF doc.page = "list" THEN doc ELSE Mount("list", doc.visit, k)
  /\ Done(k)
  /\ UNCHANGED << agents, clicked, ran, executed, edits, faults >>

(* Mutant: the error is not kept.                                            *)
NoCatch(k) ==
  /\ calls[k].status = "failed" /\ calls[k].op = "create"
  /\ doc' = IF Mounted(k) THEN [doc EXCEPT !.loading = FALSE] ELSE doc
  /\ Done(k)
  /\ UNCHANGED << agents, clicked, ran, executed, edits, faults >>

(* Mutant: navigate('/agents') in finally.                                   *)
NavigateAnyway(k) ==
  /\ calls[k].status = "failed" /\ calls[k].op = "create"
  /\ doc' = Mount("list", doc.visit, k)
  /\ Done(k)
  /\ UNCHANGED << agents, clicked, ran, executed, edits, faults >>

NotCreated(k) ==
  /\ calls[k].status = "failed" /\ calls[k].op = "create"
  /\ doc' = IF Mounted(k) THEN [doc EXCEPT !.loading = FALSE, !.error = TRUE] ELSE doc
  /\ Done(k)
  /\ UNCHANGED << agents, clicked, ran, executed, edits, faults >>

(* setResult, of the answer or of the error, and the spinner stops.          *)
Previewed(k) ==
  /\ calls[k].status \in {"ok", "failed"} /\ calls[k].op = "preview"
  /\ doc' = IF Mounted(k)
              THEN [doc EXCEPT !.loading = FALSE, !.result = calls[k].answer,
                               !.error = (calls[k].status = "failed")]
              ELSE doc
  /\ Done(k)
  /\ UNCHANGED << agents, clicked, ran, executed, edits, faults >>

(* The panel next to Simulation's form: the resources, cost, warnings and     *)
(* generated YAML of one answer, or the error, or nothing yet.               *)
ResultView == IF doc.error THEN {} ELSE doc.result

-----------------------------------------------------------------------------

(* An Agent somebody else deployed.                                          *)
Foreign(n) == [generate_agent_yaml(Posted(InitialForm)) EXCEPT !.name = n, !.model = {}]

Init ==
  /\ doc = Mount("home", 0, 0)
  /\ calls = [k \in Clicks |-> Idle]
  /\ \E names \in SUBSET ValidNames : agents = [n \in names |-> Foreign(n)]
  /\ clicked = {} /\ ran = InitialSim /\ executed = {} /\ edits = 0 /\ faults = 0

Progress(k) ==
  \/ create_agent(k) \/ create_refused(k) \/ preview_simulation(k)
  \/ Created(k) \/ NotCreated(k) \/ Previewed(k)

Next ==
  \/ Open("new") \/ Open("simulation") \/ Open("home")
  \/ Edit \/ EditSim \/ Remove
  \/ \E k \in Clicks : handleSubmit(k) \/ runPreview(k) \/ Progress(k) \/ Lose(k)

(* Every request is answered, or fails, and every answer is handled.         *)
Spec == Init /\ [][Next]_vars /\ \A k \in Clicks : WF_vars(Progress(k))

-----------------------------------------------------------------------------
(* Properties. *)

Options(S) == {x \in SUBSET S : Cardinality(x) <= 1}
Numbers == {NumberOf[text] : text \in DOMAIN NumberOf}

TypeOK ==
  /\ doc.page \in {"home", "list", "new", "simulation"}
  /\ \A field \in DOMAIN Values : doc.form[field] \in Values[field] \cup {InitialForm[field]}
  /\ \A field \in DOMAIN SimValues : doc.sim[field] \in SimValues[field] \cup {InitialSim[field]}
  /\ doc.loading \in BOOLEAN /\ doc.error \in BOOLEAN
  /\ \A k \in Clicks :
       /\ calls[k].status \in {"none", "sent", "ok", "failed", "done"}
       /\ calls[k].req.replicas \in Options(Numbers)
       /\ calls[k].req.maxMonthlyCost \in Options(Numbers)
       /\ calls[k].req.autonomyLevel \in Options(Numbers)
  /\ \A n \in DOMAIN agents :
       /\ agents[n].name = n /\ agents[n].autonomy \subseteq 1..5
       /\ agents[n].budget \subseteq Nat \ {0}
  /\ executed \subseteq Clicks

(* What a form asks for, read off its labels: each field decides about its   *)
(* own part of the Agent, except that a proof mode is chosen only with the   *)
(* proof chain and a prompt version only with a strategy, and that what is   *)
(* no number, or zero, is no budget.                                         *)
Wanted(form, agent) ==
  /\ agent.name = form.name /\ agent.instruction = form.instruction
  /\ agent.replicas = Number(form.replicas)
  /\ agent.autonomy = Number(form.autonomyLevel)
  /\ agent.budget = {n \in Numbers \ {0} : {n} = Number(form.maxMonthlyCost)}
  /\ agent.proof = {m \in {form.proofMode} : form.verifiableEnabled}
  /\ agent.model = Given(form.model) /\ agent.key = Given(form.apiKey)
  /\ agent.optimization = Given(form.optimizationMode)
  /\ agent.strategy = Given(form.strategy)
  /\ agent.prompt = {v \in Given(form.promptVersion) : form.strategy # ""}

(* Every Agent the dashboard has created is, in all its parts, what one form  *)
(* asked for at the moment of a click: what is typed while the request is on *)
(* its way, a failed attempt before it or a visit to another page is no part *)
(* of it.                                                                    *)
CreatedAsSubmitted ==
  \A n \in DOMAIN agents :
    agents[n] = Foreign(n) \/ \E form \in clicked : Wanted(form, agents[n])

(* What the user is told of a submission is so: the list comes up only for a *)
(* submission that created its Agent, and, as long as nothing was lost on    *)
(* the way, an error is shown only for one that created nothing.             *)
ToldTruth ==
  /\ doc.page = "list" => doc.click \in executed
  /\ doc.page = "new" /\ doc.error /\ faults = 0 => doc.click \notin executed

(* The result that Simulation shows once it has come to rest belongs to the  *)
(* form that was run last, and says of replicas, budget and proof what New    *)
(* Agent would create from the same values.                                  *)
PreviewIsLatest ==
  LET same == generate_agent_yaml(Posted(
                [InitialForm EXCEPT !.name = ran.name, !.replicas = ran.replicas,
                                    !.maxMonthlyCost = ran.maxMonthlyCost,
                                    !.verifiableEnabled = ran.verifiableEnabled]))
  IN doc.page = "simulation" /\ ~doc.loading =>
       \A r \in ResultView :
         /\ r.pods = same.replicas
         /\ \A part \in {"name", "replicas", "budget", "proof"} : r.agent[part] = same[part]

(* A submission, or one that is repeated after its answer was lost, never    *)
(* changes an Agent that exists.                                             *)
NeverOverwritten ==
  [][\A n \in DOMAIN agents \cap DOMAIN agents' : agents'[n] = agents[n]]_vars

(* A form whose button is disabled waits for the answer to its own last      *)
(* click, which is still under way and will find the form mounted: no loss,  *)
(* earlier submission or other visit leaves it disabled with nothing to come. *)
WaitsForAnswer ==
  doc.loading =>
    \E k \in Clicks :
      /\ doc.click = k /\ Mounted(k)
      /\ calls[k].status \in {"sent", "ok", "failed"}
      /\ calls[k].op = IF doc.page = "new" THEN "create" ELSE "preview"

(* Who submits New Agent and stays is told the outcome: the list comes up,   *)
(* or the form is enabled again with an error.                               *)
OutcomeTold ==
  doc.page = "new" /\ doc.loading
    ~> doc.page # "new" \/ (doc.error /\ ~doc.loading)
=============================================================================
