------------------------ MODULE DashboardFormsProofs ------------------------
(***************************************************************************)
(* Theorems about DashboardForms, for any fields, texts, names and bounds:   *)
(* the types, that an Agent is what one form asked for, that no Agent is      *)
(* overwritten, that what a page tells of a submission is so, and that a      *)
(* disabled form has an answer to come.                                      *)
(***************************************************************************)
EXTENDS DashboardForms, FiniteSetTheorems, TLAPS

-----------------------------------------------------------------------------
(* The inductive invariant.                                                  *)

Choices(field) == Values[field] \cup {InitialForm[field]}
SimChoices(field) == SimValues[field] \cup {InitialSim[field]}

(* A form has all its fields, each with a text that can be in it.            *)
FormTyped(form) ==
  /\ DOMAIN form = DOMAIN InitialForm
  /\ \A field \in DOMAIN InitialForm : form[field] \in Choices(field)

CallTyped(call) ==
  /\ DOMAIN call = {"status", "op", "visit", "req", "answer"}
  /\ call.status \in {"none", "sent", "ok", "failed", "done"}
  /\ call.op \in {"create", "preview"} /\ call.visit \in Nat
  /\ call.req.replicas \in Options(Numbers)
  /\ call.req.maxMonthlyCost \in Options(Numbers)
  /\ call.req.autonomyLevel \in Options(Numbers)

DocTyped ==
  /\ DOMAIN doc = {"page", "visit", "form", "sim", "loading", "error", "result", "click"}
  /\ doc.page \in {"home", "list", "new", "simulation"} /\ doc.visit \in Nat
  /\ FormTyped(doc.form)
  /\ DOMAIN doc.sim = DOMAIN InitialSim
  /\ \A field \in DOMAIN InitialSim : doc.sim[field] \in SimChoices(field)
  /\ doc.loading \in BOOLEAN /\ doc.error \in BOOLEAN

AgentTyped(agent, n) ==
  agent.name = n /\ agent.autonomy \subseteq 1..5 /\ agent.budget \subseteq Nat \ {0}

Typed ==
  /\ DocTyped
  /\ DOMAIN calls = Clicks /\ \A k \in Clicks : CallTyped(calls[k])
  /\ \A n \in DOMAIN agents : AgentTyped(agents[n], n)
  /\ \A form \in clicked : FormTyped(form)
  /\ executed \subseteq Clicks /\ faults \in Nat

Live(k) == calls[k].status \in {"sent", "ok", "failed"}

(* A request to create says what a form said at a click, to the end.         *)
AsClicked ==
  \A k \in Clicks : calls[k].op = "create" /\ calls[k].status = "sent"
    => \E form \in clicked : calls[k].req = Posted(form)

(* A creation is executed once, when its request has come to the server.     *)
ExecutedOnce ==
  \A k \in Clicks :
    /\ calls[k].status \in {"none", "sent"} => k \notin executed
    /\ calls[k].op = "create" /\ calls[k].status = "ok" => k \in executed
    /\ calls[k].op = "create" /\ calls[k].status = "failed" /\ faults = 0 => k \notin executed

(* A form that is open waits for one request at most: its last.              *)
OneInFlight ==
  \A k \in Clicks :
    /\ calls[k].visit <= doc.visit
    /\ Live(k) /\ Mounted(k)
         => doc.click = k /\ doc.loading /\ (calls[k].op = "create" <=> doc.page = "new")

(* What New Agent and the list tell of the last submission.                  *)
Told ==
  /\ doc.page = "list" => doc.click \in executed
  /\ doc.page = "new" /\ doc.error
       => /\ doc.click \in Clicks /\ calls[doc.click].status = "done"
          /\ faults = 0 => doc.click \notin executed

(* What is asked and answered for the Simulation that is open is about the   *)
(* form that was run last.                                                   *)
Previewing ==
  /\ \A k \in Clicks : Live(k) /\ calls[k].op = "preview"
       => /\ Mounted(k) => calls[k].req = PostedSim(ran)
          /\ calls[k].status = "ok" => calls[k].answer = {Estimate(calls[k].req)}
  /\ doc.page = "simulation" /\ ~doc.loading
       => \A r \in ResultView : r = Estimate(PostedSim(ran))

FormsInv ==
  /\ Typed /\ AsClicked /\ CreatedAsSubmitted /\ ExecutedOnce /\ OneInFlight /\ Told
  /\ Previewing

-----------------------------------------------------------------------------
(* What the conversions return.                                              *)

LEMMA NumberTyped ==
  ASSUME NEW text
  PROVE  Number(text) \in Options(Numbers)
<1>1. Cardinality({}) = 0 /\ {} \in SUBSET Numbers
  BY FS_EmptySet
<1>2. ASSUME text \in DOMAIN NumberOf
      PROVE  Cardinality({NumberOf[text]}) = 1 /\ {NumberOf[text]} \in SUBSET Numbers
  BY <1>2, FS_Singleton DEF Numbers
<1> QED
  BY <1>1, <1>2 DEF Number, Options

LEMMA NoNumber == {} \in Options(Numbers)
  BY FS_EmptySet DEF Options

(* Nothing in autonomyLevel is not a number from 1 to 5.                     *)
LEMMA AutonomyTyped ==
  ASSUME NEW form, FormTyped(form)
  PROVE  Number(form.autonomyLevel) \subseteq 1..5
<1>1. form.autonomyLevel \in Values["autonomyLevel"] \cup {"3"}
  BY DEF FormTyped, InitialForm, Choices
<1>2. Number("3") = {3}
  BY FieldsAssumption DEF Number
<1>3. \A text \in Values["autonomyLevel"] : Number(text) \subseteq 1..5
  BY FieldsAssumption, Zenon
<1> QED
  BY <1>1, <1>2, <1>3

(* The request has the fields of the form, three of them as numbers.         *)
LEMMA PostedFields ==
  ASSUME NEW form, DOMAIN form = DOMAIN InitialForm
  PROVE  LET req == Posted(form)
         IN /\ req.replicas = Number(form.replicas)
            /\ req.maxMonthlyCost
                 = IF form.maxMonthlyCost = "" THEN {} ELSE Number(form.maxMonthlyCost)
            /\ req.autonomyLevel = Number(form.autonomyLevel)
            /\ \A field \in {"name", "instruction", "model", "apiKey", "optimizationMode",
                             "verifiableEnabled", "proofMode", "strategy", "promptVersion"} :
                 req[field] = form[field]
  BY DEF Posted, InitialForm

LEMMA PostedTyped ==
  ASSUME NEW form, DOMAIN form = DOMAIN InitialForm
  PROVE  /\ Posted(form).replicas \in Options(Numbers)
         /\ Posted(form).maxMonthlyCost \in Options(Numbers)
         /\ Posted(form).autonomyLevel \in Options(Numbers)
  BY PostedFields, NumberTyped, NoNumber

LEMMA PostedSimFields ==
  ASSUME NEW sim
  PROVE  LET req == PostedSim(sim)
         IN /\ req.name = sim.name /\ req.verifiableEnabled = sim.verifiableEnabled
            /\ req.replicas = Number(sim.replicas)
            /\ req.maxMonthlyCost = Number(sim.maxMonthlyCost)
            /\ req.autonomyLevel = {} /\ req.proofMode = InitialForm.proofMode
  BY DEF PostedSim, InitialForm

LEMMA PostedSimTyped ==
  ASSUME NEW sim
  PROVE  /\ PostedSim(sim).replicas \in Options(Numbers)
         /\ PostedSim(sim).maxMonthlyCost \in Options(Numbers)
         /\ PostedSim(sim).autonomyLevel \in Options(Numbers)
  BY PostedSimFields, NumberTyped, NoNumber

LEMMA IdleTyped == CallTyped(Idle)
<1>1. DOMAIN InitialForm = DOMAIN InitialForm
  OBVIOUS
<1>2. /\ Idle.req = Posted(InitialForm) /\ Idle.status = "none" /\ Idle.op = "create"
      /\ Idle.visit = 0 /\ DOMAIN Idle = {"status", "op", "visit", "req", "answer"}
  BY DEF Idle
<1> QED
  BY <1>1, <1>2, PostedTyped DEF CallTyped

(* The Agent made of a request: the budget is no zero.                       *)
LEMMA AgentFields ==
  ASSUME NEW req
  PROVE  LET agent == generate_agent_yaml(req)
         IN /\ agent.name = req.name /\ agent.replicas = req.replicas
            /\ agent.budget = req.maxMonthlyCost \ {0}
            /\ agent.autonomy = req.autonomyLevel \ {0}
            /\ agent.proof = IF req.verifiableEnabled THEN {req.proofMode} ELSE {}
  BY DEF generate_agent_yaml, NonZero

(* What is made of the request is what the form asks for.                    *)
LEMMA CreatedIsWanted ==
  ASSUME NEW form, FormTyped(form)
  PROVE  Wanted(form, generate_agent_yaml(Posted(form)))
<1> DEFINE req == Posted(form)
           agent == generate_agent_yaml(req)
<1>1. DOMAIN form = DOMAIN InitialForm
  BY DEF FormTyped
<1>2. /\ agent.name = form.name /\ agent.instruction = form.instruction
      /\ agent.replicas = Number(form.replicas)
      /\ agent.model = Given(form.model) /\ agent.key = Given(form.apiKey)
      /\ agent.optimization = Given(form.optimizationMode)
      /\ agent.strategy = Given(form.strategy)
  BY <1>1, PostedFields DEF generate_agent_yaml
<1>3. agent.autonomy = Number(form.autonomyLevel)
  <2>1. 0 \notin Number(form.autonomyLevel)
    BY AutonomyTyped
  <2>2. agent.autonomy = Number(form.autonomyLevel) \ {0}
    BY <1>1, PostedFields, AgentFields
  <2> QED
    BY <2>1, <2>2
<1>4. agent.budget = {n \in Numbers \ {0} : {n} = Number(form.maxMonthlyCost)}
  <2>1. Number("") = {0}
    BY FieldsAssumption DEF Number
  <2>2. agent.budget = IF form.maxMonthlyCost = "" THEN {} \ {0}
                       ELSE Number(form.maxMonthlyCost) \ {0}
    BY <1>1, PostedFields, AgentFields
  <2>3. CASE form.maxMonthlyCost = ""
    BY <2>1, <2>2, <2>3
  <2>4. CASE form.maxMonthlyCost # ""
    <3>1. CASE form.maxMonthlyCost \in DOMAIN NumberOf
      BY <2>2, <2>4, <3>1 DEF Number, Numbers
    <3>2. CASE form.maxMonthlyCost \notin DOMAIN NumberOf
      BY <2>2, <2>4, <3>2 DEF Number
    <3> QED
      BY <3>1, <3>2
  <2> QED
    BY <2>3, <2>4
<1>5. agent.proof = {m \in {form.proofMode} : form.verifiableEnabled}
  <2>1. agent.proof = IF form.verifiableEnabled THEN {form.proofMode} ELSE {}
    BY <1>1, PostedFields, AgentFields
  <2> QED
    BY <2>1, Zenon
<1>6. agent.prompt = {v \in Given(form.promptVersion) : form.strategy # ""}
  <2>1. agent.prompt = IF form.strategy = "" THEN {} ELSE Given(form.promptVersion)
    BY <1>1, PostedFields DEF generate_agent_yaml
  <2> QED
    BY <2>1
<1> QED
  BY <1>2, <1>3, <1>4, <1>5, <1>6 DEF Wanted

LEMMA ForeignTyped == ASSUME NEW n PROVE AgentTyped(Foreign(n), n)
<1> DEFINE agent == generate_agent_yaml(Posted(InitialForm))
<1>1. /\ Foreign(n).name = n /\ Foreign(n).autonomy = agent.autonomy
      /\ Foreign(n).budget = agent.budget
  BY DEF Foreign, generate_agent_yaml
<1>2. agent.autonomy = Number("3") \ {0} /\ agent.budget = {} \ {0}
  <2>1. InitialForm.autonomyLevel = "3" /\ InitialForm.maxMonthlyCost = ""
    BY DEF InitialForm
  <2>2. /\ Posted(InitialForm).autonomyLevel = Number("3")
        /\ Posted(InitialForm).maxMonthlyCost = {}
    BY <2>1, PostedFields
  <2> QED
    BY <2>2, AgentFields
<1>3. Number("3") = {3}
  BY FieldsAssumption DEF Number
<1> QED
  BY <1>1, <1>2, <1>3 DEF AgentTyped

-----------------------------------------------------------------------------
(* What the actions on the calls do to the call of one submission.           *)

LEMMA SentCall ==
  ASSUME DOMAIN calls = Clicks, NEW k \in Clicks, NEW op, NEW req, Sent(k, op, req)
  PROVE  /\ calls[k].status = "none" /\ DOMAIN calls' = Clicks
         /\ DOMAIN calls'[k] = {"status", "op", "visit", "req", "answer"}
         /\ calls'[k].status = "sent" /\ calls'[k].op = op /\ calls'[k].visit = doc.visit
         /\ calls'[k].req = req
         /\ \A j \in Clicks \ {k} : calls'[j] = calls[j]
<1>1. calls[k].status = "none"
  BY DEF Sent, Fresh
<1>2. calls' = [calls EXCEPT ![k] = [Idle EXCEPT !.status = "sent", !.op = op,
                                                  !.visit = doc.visit, !.req = req]]
  BY DEF Sent
<1>3. calls'[k] = [Idle EXCEPT !.status = "sent", !.op = op, !.visit = doc.visit, !.req = req]
  BY <1>2
<1> QED
  BY <1>1, <1>2, <1>3 DEF Idle

(* The server's answer, or a failure: the request stays what it was.         *)
Answered(k, status) ==
  /\ DOMAIN calls' = Clicks /\ DOMAIN calls'[k] = DOMAIN calls[k]
  /\ calls'[k].status = status /\ calls'[k].op = calls[k].op
  /\ calls'[k].visit = calls[k].visit /\ calls'[k].req = calls[k].req
  /\ \A j \in Clicks \ {k} : calls'[j] = calls[j]

LEMMA AnsweredCall ==
  ASSUME Typed, NEW k \in Clicks
  PROVE  /\ create_agent(k) => Answered(k, "ok")
         /\ create_refused(k) => Answered(k, "failed")
         /\ preview_simulation(k)
              => Answered(k, "ok") /\ calls'[k].answer = {Estimate(calls[k].req)}
         /\ Lose(k) => Answered(k, "failed")
<1>1. DOMAIN calls = Clicks /\ DOMAIN calls[k] = {"status", "op", "visit", "req", "answer"}
  BY DEF Typed, CallTyped
<1>2. create_agent(k) => Answered(k, "ok")
  BY <1>1 DEF create_agent, Answered
<1>3. create_refused(k) => Answered(k, "failed")
  BY <1>1 DEF create_refused, Answered
<1>4. preview_simulation(k)
        => Answered(k, "ok") /\ calls'[k].answer = {Estimate(calls[k].req)}
  BY <1>1 DEF preview_simulation, Answered, Body
<1>5. Lose(k) => Answered(k, "failed")
  BY <1>1 DEF Lose, Answered
<1> QED
  BY <1>2, <1>3, <1>4, <1>5

LEMMA DoneCall ==
  ASSUME DOMAIN calls = Clicks, NEW k \in Clicks, Done(k)
  PROVE  /\ DOMAIN calls' = Clicks /\ CallTyped(calls'[k])
         /\ calls'[k].status = "done" /\ calls'[k].visit = 0
         /\ \A j \in Clicks \ {k} : calls'[j] = calls[j]
<1>1. calls'[k] = [Idle EXCEPT !.status = "done"]
  BY DEF Done
<1>2. /\ DOMAIN calls'[k] = DOMAIN Idle /\ calls'[k].status = "done"
      /\ calls'[k].op = Idle.op /\ calls'[k].visit = Idle.visit /\ calls'[k].req = Idle.req
  BY <1>1 DEF Idle
<1>3. Idle.visit = 0
  BY DEF Idle
<1> QED
  BY <1>2, <1>3, IdleTyped DEF CallTyped, Done

LEMMA MountTyped ==
  ASSUME NEW page \in {"home", "list", "new", "simulation"}, NEW visit \in Nat, NEW click,
         doc' = Mount(page, visit, click)
  PROVE  DocTyped'
<1>1. FormTyped(InitialForm) /\ \A field \in DOMAIN InitialSim : InitialSim[field] \in SimChoices(field)
  BY DEF FormTyped, Choices, SimChoices
<1> QED
  BY <1>1 DEF DocTyped, Mount

-----------------------------------------------------------------------------
(* Typed is kept, one step at a time.                                        *)

LEMMA DocStep ==
  ASSUME Typed, [Next]_vars
  PROVE  DocTyped'
<1> DEFINE Kept == /\ DOMAIN doc' = DOMAIN doc /\ doc'.page = doc.page /\ doc'.visit = doc.visit
                   /\ doc'.form = doc.form /\ doc'.sim = doc.sim
                   /\ doc'.loading \in BOOLEAN /\ doc'.error \in BOOLEAN
<1>0. DocTyped
  BY DEF Typed
<1>1. ASSUME Kept PROVE DocTyped'
  BY <1>0, <1>1 DEF DocTyped, FormTyped
<1>2. ASSUME UNCHANGED doc PROVE DocTyped'
  BY <1>0, <1>2 DEF DocTyped
<1>3. ASSUME NEW page \in {"new", "simulation", "home"}, Open(page) PROVE DocTyped'
  <2>1. doc.visit + 1 \in Nat
    BY <1>0 DEF DocTyped
  <2> QED
    BY <1>3, <2>1, MountTyped DEF Open
<1>4. ASSUME Edit PROVE DocTyped'
  <2>1. PICK field \in DOMAIN Values : \E value \in Values[field] :
          doc' = [doc EXCEPT !.form[field] = value]
    BY <1>4 DEF Edit
  <2>2. PICK value \in Values[field] : doc' = [doc EXCEPT !.form[field] = value]
    BY <2>1
  <2>3. DOMAIN Values = DOMAIN InitialForm
    BY FieldsAssumption
  <2>4. /\ doc'.form = [doc.form EXCEPT ![field] = value]
        /\ DOMAIN doc' = DOMAIN doc /\ doc'.page = doc.page /\ doc'.visit = doc.visit
        /\ doc'.sim = doc.sim /\ doc'.loading = doc.loading /\ doc'.error = doc.error
    BY <1>0, <2>2 DEF DocTyped
  <2>5. FormTyped(doc'.form)
    BY <1>0, <2>2, <2>3, <2>4 DEF DocTyped, FormTyped, Choices
  <2> QED
    BY <1>0, <2>4, <2>5 DEF DocTyped
<1>5. ASSUME EditSim PROVE DocTyped'
  <2>1. PICK field \in DOMAIN SimValues : \E value \in SimValues[field] :
          doc' = [doc EXCEPT !.sim[field] = value]
    BY <1>5 DEF EditSim
  <2>2. PICK value \in SimValues[field] : doc' = [doc EXCEPT !.sim[field] = value]
    BY <2>1
  <2>3. DOMAIN SimValues = DOMAIN InitialSim
    BY FieldsAssumption
  <2>4. /\ doc'.sim = [doc.sim EXCEPT ![field] = value]
        /\ DOMAIN doc' = DOMAIN doc /\ doc'.page = doc.page /\ doc'.visit = doc.visit
        /\ doc'.form = doc.form /\ doc'.loading = doc.loading /\ doc'.error = doc.error
    BY <1>0, <2>2 DEF DocTyped
  <2>5. /\ DOMAIN doc'.sim = DOMAIN InitialSim
        /\ \A f \in DOMAIN InitialSim : doc'.sim[f] \in SimChoices(f)
    BY <1>0, <2>2, <2>3, <2>4 DEF DocTyped, SimChoices
  <2> QED
    BY <1>0, <2>4, <2>5 DEF DocTyped
<1>6. ASSUME NEW k \in Clicks, handleSubmit(k) \/ runPreview(k) PROVE DocTyped'
  BY <1>0, <1>1, <1>6 DEF handleSubmit, runPreview, DocTyped
<1>7. ASSUME NEW k \in Clicks,
             create_agent(k) \/ create_refused(k) \/ preview_simulation(k) \/ Lose(k)
      PROVE  DocTyped'
  BY <1>2, <1>7 DEF create_agent, create_refused, preview_simulation, Lose
<1>8. ASSUME NEW k \in Clicks, Created(k) PROVE DocTyped'
  <2>1. doc.visit \in Nat
    BY <1>0 DEF DocTyped
  <2> QED
    BY <1>2, <1>8, <2>1, MountTyped DEF Created
<1>9. ASSUME NEW k \in Clicks, NotCreated(k) \/ Previewed(k) PROVE DocTyped'
  <2>1. \/ UNCHANGED doc
        \/ doc' = [doc EXCEPT !.loading = FALSE, !.error = TRUE]
        \/ doc' = [doc EXCEPT !.loading = FALSE, !.result = calls[k].answer,
                              !.error = (calls[k].status = "failed")]
    BY <1>9 DEF NotCreated, Previewed
  <2> QED
    BY <1>0, <1>1, <1>2, <2>1 DEF DocTyped
<1>10. ASSUME Remove \/ UNCHANGED vars PROVE DocTyped'
  BY <1>2, <1>10 DEF Remove, vars
<1> QED
  BY <1>3, <1>4, <1>5, <1>6, <1>7, <1>8, <1>9, <1>10 DEF Next, Progress

LEMMA CallsStep ==
  ASSUME Typed, [Next]_vars
  PROVE  DOMAIN calls' = Clicks /\ \A k \in Clicks : CallTyped(calls'[k])
<1> DEFINE Goal == DOMAIN calls' = Clicks /\ \A k \in Clicks : CallTyped(calls'[k])
<1>0. /\ DOMAIN calls = Clicks /\ \A k \in Clicks : CallTyped(calls[k])
      /\ doc.visit \in Nat /\ DOMAIN doc.form = DOMAIN InitialForm
  BY DEF Typed, DocTyped, FormTyped
<1>1. ASSUME UNCHANGED calls PROVE Goal
  BY <1>0, <1>1
<1>2. ASSUME NEW k \in Clicks, NEW op \in {"create", "preview"}, NEW req, Sent(k, op, req),
             /\ req.replicas \in Options(Numbers) /\ req.maxMonthlyCost \in Options(Numbers)
             /\ req.autonomyLevel \in Options(Numbers)
      PROVE  Goal
  BY <1>0, <1>2, SentCall DEF CallTyped
<1>3. ASSUME NEW k \in Clicks, handleSubmit(k) PROVE Goal
  BY <1>0, <1>2, <1>3, PostedTyped DEF handleSubmit
<1>4. ASSUME NEW k \in Clicks, runPreview(k) PROVE Goal
  BY <1>2, <1>4, PostedSimTyped DEF runPreview
<1>5. ASSUME NEW k \in Clicks,
             create_agent(k) \/ create_refused(k) \/ preview_simulation(k) \/ Lose(k)
      PROVE  Goal
  <2>1. Answered(k, "ok") \/ Answered(k, "failed")
    BY <1>5, AnsweredCall
  <2> QED
    BY <1>0, <2>1 DEF Answered, CallTyped
<1>6. ASSUME NEW k \in Clicks, Created(k) \/ NotCreated(k) \/ Previewed(k) PROVE Goal
  <2>1. Done(k)
    BY <1>6 DEF Created, NotCreated, Previewed
  <2> QED
    BY <1>0, <2>1, DoneCall
<1>7. ASSUME \/ Open("new") \/ Open("simulation") \/ Open("home")
             \/ Edit \/ EditSim \/ Remove \/ UNCHANGED vars
      PROVE  Goal
  BY <1>1, <1>7 DEF Open, Edit, EditSim, Remove, vars
<1> QED
  BY <1>3, <1>4, <1>5, <1>6, <1>7 DEF Next, Progress

(* The Agents that exist are left alone, but for one that is new or gone.     *)
LEMMA AgentsStep ==
  ASSUME [Next]_vars
  PROVE  \/ UNCHANGED agents
         \/ \E n \in DOMAIN agents : agents' = [m \in DOMAIN agents \ {n} |-> agents[m]]
         \/ \E k \in Clicks :
              LET agent == generate_agent_yaml(calls[k].req)
              IN /\ create_agent(k)
                 /\ agent.name \notin DOMAIN agents /\ Admissible(agent)
                 /\ agents' = [n \in DOMAIN agents \cup {agent.name} |->
                                 IF n = agent.name THEN agent ELSE agents[n]]
<1>1. ASSUME NEW k \in Clicks, create_agent(k)
      PROVE  LET agent == generate_agent_yaml(calls[k].req)
             IN /\ agent.name \notin DOMAIN agents /\ Admissible(agent)
                /\ agents' = [n \in DOMAIN agents \cup {agent.name} |->
                                IF n = agent.name THEN agent ELSE agents[n]]
  BY <1>1 DEF create_agent, Creatable, Body
<1>2. ASSUME Remove
      PROVE  \E n \in DOMAIN agents : agents' = [m \in DOMAIN agents \ {n} |-> agents[m]]
  BY <1>2 DEF Remove
<1>3. ASSUME \/ Open("new") \/ Open("simulation") \/ Open("home")
             \/ Edit \/ EditSim \/ UNCHANGED vars
      PROVE  UNCHANGED agents
  BY <1>3 DEF Open, Edit, EditSim, vars
<1>4. ASSUME NEW k \in Clicks,
             \/ handleSubmit(k) \/ runPreview(k) \/ create_refused(k) \/ preview_simulation(k)
             \/ Created(k) \/ NotCreated(k) \/ Previewed(k) \/ Lose(k)
      PROVE  UNCHANGED agents
  BY <1>4 DEF handleSubmit, runPreview, create_refused, preview_simulation, Created,
              NotCreated, Previewed, Lose
<1> QED
  BY <1>1, <1>2, <1>3, <1>4 DEF Next, Progress

LEMMA AgentTypesStep ==
  ASSUME Typed, AsClicked, [Next]_vars
  PROVE  \A n \in DOMAIN agents' : AgentTyped(agents'[n], n)
<1>0. \A n \in DOMAIN agents : AgentTyped(agents[n], n)
  BY DEF Typed
<1>1. CASE UNCHANGED agents
  BY <1>0, <1>1
<1>2. ASSUME NEW n \in DOMAIN agents, agents' = [m \in DOMAIN agents \ {n} |-> agents[m]]
      PROVE  \A m \in DOMAIN agents' : AgentTyped(agents'[m], m)
  BY <1>0, <1>2
<1>3. ASSUME NEW k \in Clicks, create_agent(k), Admissible(generate_agent_yaml(calls[k].req)),
             LET agent == generate_agent_yaml(calls[k].req)
             IN agents' = [n \in DOMAIN agents \cup {agent.name} |->
                             IF n = agent.name THEN agent ELSE agents[n]]
      PROVE  \A n \in DOMAIN agents' : AgentTyped(agents'[n], n)
  <2> DEFINE agent == generate_agent_yaml(calls[k].req)
  <2>1. PICK form \in clicked : calls[k].req = Posted(form)
    BY <1>3 DEF create_agent, AsClicked
  <2>2. FormTyped(form) /\ DOMAIN form = DOMAIN InitialForm
    BY DEF Typed, FormTyped
  <2>3. agent.autonomy \subseteq 1..5
    <3>1. agent.autonomy = Number(form.autonomyLevel)
      BY <2>1, <2>2, CreatedIsWanted DEF Wanted
    <3>2. Number(form.autonomyLevel) \subseteq 1..5
      BY <2>2, AutonomyTyped
    <3> QED
      BY <3>1, <3>2
  <2>4. agent.budget \subseteq Nat \ {0}
    BY <1>3, AgentFields DEF Admissible
  <2>5. AgentTyped(agent, agent.name)
    BY <2>3, <2>4 DEF AgentTyped
  <2> QED
    BY <1>0, <1>3, <2>5
<1> QED
  BY <1>1, <1>2, <1>3, AgentsStep

LEMMA TypedStep ==
  ASSUME Typed, AsClicked, [Next]_vars
  PROVE  Typed'
<1>1. \A form \in clicked' : FormTyped(form)
  <2>1. clicked' \subseteq clicked \cup {doc.form}
    BY DEF Next, Progress, vars, Open, Edit, EditSim, Remove, handleSubmit, runPreview,
           create_agent, create_refused, preview_simulation, Created, NotCreated, Previewed, Lose
  <2> QED
    BY <2>1 DEF Typed, DocTyped
<1>2. executed' \subseteq Clicks
  BY DEF Typed, Next, Progress, vars, Open, Edit, EditSim, Remove, handleSubmit, runPreview,
         create_agent, create_refused, preview_simulation, Created, NotCreated, Previewed, Lose
<1>3. faults' \in Nat
  <2>1. faults' = faults \/ faults' = faults + 1
    BY DEF Next, Progress, vars, Open, Edit, EditSim, Remove, handleSubmit, runPreview,
           create_agent, create_refused, preview_simulation, Created, NotCreated, Previewed, Lose
  <2> QED
    BY <2>1 DEF Typed
<1> QED
  BY <1>1, <1>2, <1>3, DocStep, CallsStep, AgentTypesStep DEF Typed

-----------------------------------------------------------------------------
(* What the other parts of the invariant need to know of a step.             *)

(* The actions that leave calls and executed alone, and the page or its visit. *)
LEMMA CallsSteps ==
  ASSUME Typed, [Next]_vars
  PROVE  \/ UNCHANGED << calls, executed, clicked, ran, faults >>
         \/ \E k \in Clicks :
              \/ handleSubmit(k) \/ runPreview(k) \/ create_agent(k) \/ create_refused(k)
              \/ preview_simulation(k) \/ Lose(k) \/ Created(k) \/ NotCreated(k) \/ Previewed(k)
  BY DEF Next, Progress, vars, Open, Edit, EditSim, Remove

LEMMA AsClickedStep ==
  ASSUME Typed, AsClicked, [Next]_vars
  PROVE  AsClicked'
<1> DEFINE Goal == \A k \in Clicks : calls'[k].op = "create" /\ calls'[k].status = "sent"
                     => \E form \in clicked' : calls'[k].req = Posted(form)
<1>0. DOMAIN calls = Clicks
  BY DEF Typed
<1>1. ASSUME UNCHANGED << calls, clicked >> PROVE Goal
  BY <1>1 DEF AsClicked
<1>2. ASSUME NEW k \in Clicks, handleSubmit(k) PROVE Goal
  <2>1. Sent(k, "create", Posted(doc.form)) /\ clicked' = clicked \cup {doc.form}
    BY <1>2 DEF handleSubmit
  <2>2. calls'[k].req = Posted(doc.form) /\ \A j \in Clicks \ {k} : calls'[j] = calls[j]
    BY <1>0, <2>1, SentCall
  <2> QED
    BY <2>1, <2>2 DEF AsClicked
<1>3. ASSUME NEW k \in Clicks, runPreview(k) PROVE Goal
  <2>1. Sent(k, "preview", PostedSim(doc.sim)) /\ clicked' = clicked
    BY <1>3 DEF runPreview
  <2>2. calls'[k].op = "preview" /\ \A j \in Clicks \ {k} : calls'[j] = calls[j]
    BY <1>0, <2>1, SentCall
  <2> QED
    BY <2>1, <2>2 DEF AsClicked
<1>4. ASSUME NEW k \in Clicks,
             create_agent(k) \/ create_refused(k) \/ preview_simulation(k) \/ Lose(k)
      PROVE  Goal
  <2>1. Answered(k, "ok") \/ Answered(k, "failed")
    BY <1>4, AnsweredCall
  <2>2. clicked' = clicked
    BY <1>4 DEF create_agent, create_refused, preview_simulation, Lose
  <2> QED
    BY <2>1, <2>2 DEF AsClicked, Answered
<1>5. ASSUME NEW k \in Clicks, Created(k) \/ NotCreated(k) \/ Previewed(k) PROVE Goal
  <2>1. Done(k) /\ clicked' = clicked
    BY <1>5 DEF Created, NotCreated, Previewed
  <2>2. calls'[k].status = "done" /\ \A j \in Clicks \ {k} : calls'[j] = calls[j]
    BY <1>0, <2>1, DoneCall
  <2> QED
    BY <2>1, <2>2 DEF AsClicked
<1> QED
  BY <1>1, <1>2, <1>3, <1>4, <1>5, CallsSteps DEF AsClicked

(* What is created is what the form of its click asks for; the other Agents   *)
(* stay as they were, and no click is forgotten.                             *)
LEMMA CreatedStep ==
  ASSUME Typed, AsClicked, CreatedAsSubmitted, [Next]_vars
  PROVE  CreatedAsSubmitted'
<1> DEFINE Good(agent, n) == agent = Foreign(n) \/ \E form \in clicked' : Wanted(form, agent)
<1>0. \A n \in DOMAIN agents : Good(agents[n], n)
  <2>1. clicked \subseteq clicked'
    BY DEF Next, Progress, vars, Open, Edit, EditSim, Remove, handleSubmit, runPreview,
           create_agent, create_refused, preview_simulation, Created, NotCreated, Previewed, Lose
  <2> QED
    BY <2>1 DEF CreatedAsSubmitted
<1>1. ASSUME NEW k \in Clicks, create_agent(k)
      PROVE  Good(generate_agent_yaml(calls[k].req), generate_agent_yaml(calls[k].req).name)
  <2>1. PICK form \in clicked : calls[k].req = Posted(form)
    BY <1>1 DEF create_agent, AsClicked
  <2>2. FormTyped(form) /\ form \in clicked'
    BY <1>1 DEF Typed, create_agent
  <2> QED
    BY <2>1, <2>2, CreatedIsWanted
<1> HIDE DEF Good
<1>2. \A n \in DOMAIN agents' : Good(agents'[n], n)
  <2>1. CASE UNCHANGED agents
    BY <1>0, <2>1
  <2>2. ASSUME NEW n \in DOMAIN agents, agents' = [m \in DOMAIN agents \ {n} |-> agents[m]]
        PROVE  \A m \in DOMAIN agents' : Good(agents'[m], m)
    BY <1>0, <2>2
  <2>3. ASSUME NEW k \in Clicks, create_agent(k),
               LET agent == generate_agent_yaml(calls[k].req)
               IN agents' = [n \in DOMAIN agents \cup {agent.name} |->
                               IF n = agent.name THEN agent ELSE agents[n]]
        PROVE  \A n \in DOMAIN agents' : Good(agents'[n], n)
    BY <1>0, <1>1, <2>3
  <2> QED
    BY <2>1, <2>2, <2>3, AgentsStep
<1> QED
  BY <1>2 DEF Good, CreatedAsSubmitted

LEMMA ExecutedStep ==
  ASSUME Typed, ExecutedOnce, [Next]_vars
  PROVE  ExecutedOnce'
<1> DEFINE Goal == \A k \in Clicks :
             /\ calls'[k].status \in {"none", "sent"} => k \notin executed'
             /\ calls'[k].op = "create" /\ calls'[k].status = "ok" => k \in executed'
             /\ calls'[k].op = "create" /\ calls'[k].status = "failed" /\ faults' = 0
                  => k \notin executed'
<1>0. DOMAIN calls = Clicks /\ faults \in Nat
  BY DEF Typed
<1>1. ASSUME UNCHANGED << calls, executed, faults >> PROVE Goal
  BY <1>1 DEF ExecutedOnce
<1>2. ASSUME NEW k \in Clicks, handleSubmit(k) \/ runPreview(k) PROVE Goal
  <2>1. UNCHANGED << executed, faults >>
    BY <1>2 DEF handleSubmit, runPreview
  <2>2. PICK op, req : Sent(k, op, req)
    BY <1>2 DEF handleSubmit, runPreview
  <2>3. /\ calls[k].status = "none" /\ calls'[k].status = "sent"
        /\ \A j \in Clicks \ {k} : calls'[j] = calls[j]
    BY <1>0, <2>2, SentCall
  <2> QED
    BY <2>1, <2>3 DEF ExecutedOnce
<1>3. ASSUME NEW k \in Clicks, create_agent(k) PROVE Goal
  <2>1. Answered(k, "ok") /\ executed' = executed \cup {k} /\ faults' = faults
    BY <1>3, AnsweredCall DEF create_agent
  <2> QED
    BY <2>1 DEF ExecutedOnce, Answered
<1>4. ASSUME NEW k \in Clicks, create_refused(k) PROVE Goal
  <2>1. /\ Answered(k, "failed") /\ UNCHANGED << executed, faults >>
        /\ calls[k].status = "sent"
    BY <1>4, AnsweredCall DEF create_refused
  <2> QED
    BY <2>1 DEF ExecutedOnce, Answered
<1>5. ASSUME NEW k \in Clicks, preview_simulation(k) PROVE Goal
  <2>1. /\ Answered(k, "ok") /\ UNCHANGED << executed, faults >>
        /\ calls[k].op = "preview"
    BY <1>5, AnsweredCall DEF preview_simulation
  <2> QED
    BY <2>1 DEF ExecutedOnce, Answered
<1>6. ASSUME NEW k \in Clicks, Lose(k) PROVE Goal
  <2>1. Answered(k, "failed") /\ UNCHANGED executed /\ faults' = faults + 1
    BY <1>6, AnsweredCall DEF Lose
  <2>2. faults' # 0
    BY <1>0, <2>1
  <2> QED
    BY <2>1, <2>2 DEF ExecutedOnce, Answered
<1>7. ASSUME NEW k \in Clicks, Created(k) \/ NotCreated(k) \/ Previewed(k) PROVE Goal
  <2>1. Done(k) /\ UNCHANGED << executed, faults >>
    BY <1>7 DEF Created, NotCreated, Previewed
  <2>2. calls'[k].status = "done" /\ \A j \in Clicks \ {k} : calls'[j] = calls[j]
    BY <1>0, <2>1, DoneCall
  <2> QED
    BY <2>1, <2>2 DEF ExecutedOnce
<1> QED
  BY <1>1, <1>2, <1>3, <1>4, <1>5, <1>6, <1>7, CallsSteps DEF ExecutedOnce

(* How the page moves: it is left for another visit or for the list, or       *)
(* stays, submits, or takes the answer of a request it has sent itself.      *)
LEMMA DocSteps ==
  ASSUME Typed, [Next]_vars
  PROVE  \/ \E page \in {"new", "simulation", "home"} : Open(page)
         \/ Edit \/ EditSim
         \/ UNCHANGED doc
         \/ \E k \in Clicks :
              \/ handleSubmit(k) \/ runPreview(k)
              \/ Created(k) \/ NotCreated(k) \/ Previewed(k)
  BY DEF Next, Progress, vars, Remove, create_agent, create_refused, preview_simulation, Lose

LEMMA EditedDoc ==
  ASSUME Typed, Edit \/ EditSim
  PROVE  /\ UNCHANGED << calls, ran, executed, faults >>
         /\ doc'.page = doc.page /\ doc'.visit = doc.visit /\ doc'.click = doc.click
         /\ doc'.loading = doc.loading /\ doc'.error = doc.error /\ doc'.result = doc.result
<1>1. \/ \E field, value : doc' = [doc EXCEPT !.form[field] = value]
      \/ \E field, value : doc' = [doc EXCEPT !.sim[field] = value]
  BY DEF Edit, EditSim
<1> QED
  BY <1>1 DEF Typed, DocTyped, Edit, EditSim

(* An answer leads to the list, is shown by the form that asked, or is lost   *)
(* on a page that has gone.                                                  *)
LEMMA AnswerShown ==
  ASSUME Typed, NEW k \in Clicks, Created(k) \/ NotCreated(k) \/ Previewed(k)
  PROVE  \/ UNCHANGED doc
         \/ doc'.page = "list" /\ doc'.visit = doc.visit
         \/ Mounted(k) /\ doc'.page = doc.page /\ doc'.visit = doc.visit
<1>1. CASE Created(k)
  BY <1>1 DEF Created, Mount
<1>2. ASSUME NEW error, NEW result,
             \/ doc' = [doc EXCEPT !.loading = FALSE, !.error = error]
             \/ doc' = [doc EXCEPT !.loading = FALSE, !.result = result, !.error = error]
      PROVE  doc'.page = doc.page /\ doc'.visit = doc.visit
  BY <1>2 DEF Typed, DocTyped
<1>3. CASE NotCreated(k) \/ Previewed(k)
  BY <1>2, <1>3 DEF NotCreated, Previewed
<1> QED
  BY <1>1, <1>3

LEMMA OneInFlightStep ==
  ASSUME Typed, OneInFlight, [Next]_vars
  PROVE  OneInFlight'
<1> DEFINE Goal == \A j \in Clicks :
             /\ calls'[j].visit <= doc'.visit
             /\ Live(j)' /\ Mounted(j)'
                  => doc'.click = j /\ doc'.loading /\ (calls'[j].op = "create" <=> doc'.page = "new")
<1>0. /\ DOMAIN calls = Clicks /\ doc.visit \in Nat /\ \A j \in Clicks : calls[j].visit \in Nat
      /\ DOMAIN doc = {"page", "visit", "form", "sim", "loading", "error", "result", "click"}
  BY DEF Typed, DocTyped, CallTyped
<1>1. ASSUME UNCHANGED << calls, doc >> PROVE Goal
  BY <1>1 DEF OneInFlight, Live, Mounted
<1>2. ASSUME NEW page \in {"new", "simulation", "home"}, Open(page) PROVE Goal
  <2>1. doc'.visit = doc.visit + 1 /\ calls' = calls
    BY <1>2 DEF Open, Mount
  <2>2. \A j \in Clicks : calls'[j].visit <= doc'.visit /\ calls'[j].visit # doc'.visit
    BY <1>0, <2>1 DEF OneInFlight
  <2> QED
    BY <2>2 DEF Mounted
<1>3. ASSUME Edit \/ EditSim PROVE Goal
  BY <1>3, EditedDoc DEF OneInFlight, Live, Mounted
<1>4. ASSUME NEW k \in Clicks, handleSubmit(k) \/ runPreview(k) PROVE Goal
  <2>1. /\ doc'.page = doc.page /\ doc'.visit = doc.visit /\ doc'.loading /\ doc'.click = k
        /\ ~doc.loading
    BY <1>0, <1>4 DEF handleSubmit, runPreview
  <2>2. PICK op, req :
          /\ Sent(k, op, req)
          /\ op = "create" <=> doc.page = "new"
    BY <1>4 DEF handleSubmit, runPreview
  <2>3. /\ calls'[k].op = op /\ calls'[k].visit = doc.visit
        /\ \A j \in Clicks \ {k} : calls'[j] = calls[j]
    BY <1>0, <2>2, SentCall
  <2>4. \A j \in Clicks \ {k} : ~(Live(j)' /\ Mounted(j)') /\ calls'[j].visit <= doc'.visit
    BY <2>1, <2>3 DEF OneInFlight, Live, Mounted
  <2> QED
    BY <1>0, <2>1, <2>2, <2>3, <2>4
<1>5. ASSUME NEW k \in Clicks,
             create_agent(k) \/ create_refused(k) \/ preview_simulation(k) \/ Lose(k)
      PROVE  Goal
  <2>1. /\ calls[k].status \in {"sent", "ok"} /\ UNCHANGED doc
        /\ Answered(k, "ok") \/ Answered(k, "failed")
    BY <1>5, AnsweredCall DEF create_agent, create_refused, preview_simulation, Lose
  <2> QED
    BY <2>1 DEF OneInFlight, Live, Mounted, Answered
<1>6. ASSUME NEW k \in Clicks, Created(k) \/ NotCreated(k) \/ Previewed(k) PROVE Goal
  <2>1. Done(k) /\ Live(k)
    BY <1>6 DEF Created, NotCreated, Previewed, Live
  <2>2. /\ calls'[k].status = "done" /\ calls'[k].visit = 0
        /\ \A j \in Clicks \ {k} : calls'[j] = calls[j]
    BY <1>0, <2>1, DoneCall
  <2>3. \/ UNCHANGED doc
        \/ doc'.page = "list" /\ doc'.visit = doc.visit
        \/ Mounted(k) /\ doc'.page = doc.page /\ doc'.visit = doc.visit
    BY <1>6, AnswerShown
  <2>4. doc'.visit = doc.visit
    BY <2>3
  <2>5. \A j \in Clicks : calls'[j].visit <= doc'.visit
    BY <1>0, <2>2, <2>4 DEF OneInFlight
  <2>6. ASSUME NEW j \in Clicks, Live(j)', Mounted(j)'
        PROVE  UNCHANGED doc /\ Live(j) /\ Mounted(j) /\ calls'[j] = calls[j]
    <3>1. j # k /\ calls'[j] = calls[j]
      BY <2>2, <2>6 DEF Live
    <3>2. Live(j) /\ doc'.page # "list"
      BY <2>6, <3>1 DEF Live, Mounted
    <3>3. CASE UNCHANGED doc
      BY <2>6, <3>1, <3>2, <3>3 DEF Mounted
    <3>4. CASE Mounted(k) /\ doc'.page = doc.page /\ doc'.visit = doc.visit
      BY <2>1, <2>6, <3>1, <3>2, <3>4 DEF Mounted, OneInFlight
    <3> QED
      BY <2>3, <3>2, <3>3, <3>4
  <2> QED
    BY <2>5, <2>6 DEF OneInFlight
<1> QED
  BY <1>1, <1>2, <1>3, <1>4, <1>5, <1>6, CallsSteps, DocSteps DEF OneInFlight

(* The error on New Agent is the answer of its last submission, which was not *)
(* executed unless something was lost.                                       *)
LEMMA ToldStep ==
  ASSUME Typed, ExecutedOnce, OneInFlight, Told, [Next]_vars
  PROVE  Told'
<1> DEFINE Goal == /\ doc'.page = "list" => doc'.click \in executed'
                   /\ doc'.page = "new" /\ doc'.error
                        => /\ doc'.click \in Clicks /\ calls'[doc'.click].status = "done"
                           /\ faults' = 0 => doc'.click \notin executed'
<1>0. /\ DOMAIN calls = Clicks /\ faults \in Nat
      /\ DOMAIN doc = {"page", "visit", "form", "sim", "loading", "error", "result", "click"}
  BY DEF Typed, DocTyped
<1>1. ASSUME UNCHANGED << calls, executed, faults >>,
             doc'.page = doc.page, doc'.click = doc.click, doc'.error = doc.error
      PROVE  Goal
  BY <1>1 DEF Told
<1>2. ASSUME NEW page \in {"new", "simulation", "home"}, Open(page) PROVE Goal
  BY <1>2 DEF Open, Mount
<1>3. ASSUME NEW k \in Clicks, handleSubmit(k) PROVE Goal
  <2>1. doc'.page = "new" /\ ~doc'.error
    BY <1>0, <1>3 DEF handleSubmit
  <2> QED
    BY <2>1
<1>4. ASSUME NEW k \in Clicks, runPreview(k) PROVE Goal
  <2>1. doc'.page = "simulation"
    BY <1>0, <1>4 DEF runPreview
  <2> QED
    BY <2>1
<1>5. ASSUME NEW k \in Clicks,
             create_agent(k) \/ create_refused(k) \/ preview_simulation(k) \/ Lose(k)
      PROVE  Goal
  <2>1. /\ UNCHANGED doc /\ calls[k].status # "done"
        /\ faults' = faults \/ faults' = faults + 1
        /\ executed' = executed \/ executed' = executed \cup {k}
    BY <1>5 DEF create_agent, create_refused, preview_simulation, Lose
  <2>2. \A j \in Clicks \ {k} : calls'[j] = calls[j]
    BY <1>5, AnsweredCall DEF Answered
  <2>3. faults' = 0 => faults = 0
    BY <1>0, <2>1
  <2> QED
    BY <2>1, <2>2, <2>3 DEF Told
<1>6. ASSUME NEW k \in Clicks, Created(k) \/ NotCreated(k) \/ Previewed(k), Done(k),
             UNCHANGED doc
      PROVE  Goal
  <2>1. /\ UNCHANGED << executed, faults >> /\ calls'[k].status = "done"
        /\ \A j \in Clicks \ {k} : calls'[j] = calls[j]
    BY <1>0, <1>6, DoneCall DEF Created, NotCreated, Previewed
  <2> QED
    BY <1>6, <2>1 DEF Told
<1>7. ASSUME NEW k \in Clicks, Created(k), doc.page # "list" PROVE Goal
  <2>1. doc'.page = "list" /\ doc'.click = k /\ executed' = executed
    BY <1>7 DEF Created, Mount
  <2>2. k \in executed
    BY <1>7 DEF Created, ExecutedOnce
  <2> QED
    BY <2>1, <2>2
<1>8. ASSUME NEW k \in Clicks, NotCreated(k), Mounted(k) PROVE Goal
  <2>1. /\ doc' = [doc EXCEPT !.loading = FALSE, !.error = TRUE] /\ Done(k)
        /\ calls[k].op = "create" /\ calls[k].status = "failed"
        /\ UNCHANGED << executed, faults >>
    BY <1>8 DEF NotCreated
  <2>2. doc'.page = doc.page /\ doc'.click = doc.click
    BY <1>0, <2>1
  <2>3. doc.click = k /\ doc.page = "new"
    BY <1>8, <2>1 DEF OneInFlight, Live
  <2>4. calls'[k].status = "done"
    BY <1>0, <2>1, DoneCall
  <2>5. faults = 0 => k \notin executed
    BY <2>1 DEF ExecutedOnce
  <2> QED
    BY <2>1, <2>2, <2>3, <2>4, <2>5
<1>9. ASSUME NEW k \in Clicks, Previewed(k), Mounted(k) PROVE Goal
  <2>1. doc.page = "simulation"
    BY <1>9 DEF OneInFlight, Live, Previewed, Mounted
  <2>2. doc' = [doc EXCEPT !.loading = FALSE, !.result = calls[k].answer,
                           !.error = (calls[k].status = "failed")]
    BY <1>9 DEF Previewed
  <2>3. doc'.page = doc.page
    BY <1>0, <2>2
  <2> QED
    BY <2>1, <2>3
<1>10. ASSUME NEW k \in Clicks, Created(k) \/ NotCreated(k) \/ Previewed(k) PROVE Goal
  <2>1. Done(k)
    BY <1>10 DEF Created, NotCreated, Previewed
  <2>2. \/ UNCHANGED doc
        \/ Created(k) /\ doc.page # "list"
        \/ (NotCreated(k) \/ Previewed(k)) /\ Mounted(k)
    BY <1>10 DEF Created, NotCreated, Previewed
  <2> QED
    BY <1>6, <1>7, <1>8, <1>9, <1>10, <2>1, <2>2
<1>11. ASSUME Edit \/ EditSim PROVE Goal
  BY <1>1, <1>11, EditedDoc
<1> QED
  BY <1>1, <1>2, <1>3, <1>4, <1>5, <1>10, <1>11, CallsSteps, DocSteps DEF Told

LEMMA AskedStep ==
  ASSUME Typed, OneInFlight, Previewing, [Next]_vars
  PROVE  \A j \in Clicks : Live(j)' /\ calls'[j].op = "preview"
           => /\ Mounted(j)' => calls'[j].req = PostedSim(ran')
              /\ calls'[j].status = "ok" => calls'[j].answer = {Estimate(calls'[j].req)}
<1> DEFINE Asked(j) == Live(j)' /\ calls'[j].op = "preview"
             => /\ Mounted(j)' => calls'[j].req = PostedSim(ran')
                /\ calls'[j].status = "ok" => calls'[j].answer = {Estimate(calls'[j].req)}
<1>0. /\ DOMAIN calls = Clicks /\ doc.visit \in Nat /\ \A j \in Clicks : calls[j].visit \in Nat
      /\ DOMAIN doc = {"page", "visit", "form", "sim", "loading", "error", "result", "click"}
  BY DEF Typed, DocTyped, CallTyped
<1>1. ASSUME NEW j \in Clicks, calls'[j] = calls[j], ran' = ran, Mounted(j)' => Mounted(j)
      PROVE  Asked(j)
  BY <1>1 DEF Previewing, Live
<1>2. ASSUME UNCHANGED << calls, ran, doc >> PROVE \A j \in Clicks : Asked(j)
  BY <1>1, <1>2 DEF Mounted
<1>3. ASSUME NEW page \in {"new", "simulation", "home"}, Open(page)
      PROVE  \A j \in Clicks : Asked(j)
  <2>1. doc'.visit = doc.visit + 1 /\ calls' = calls /\ ran' = ran
    BY <1>3 DEF Open, Mount
  <2>2. \A j \in Clicks : calls'[j].visit # doc'.visit
    BY <1>0, <2>1 DEF OneInFlight
  <2> QED
    BY <1>1, <2>1, <2>2 DEF Mounted
<1>4. ASSUME Edit \/ EditSim PROVE \A j \in Clicks : Asked(j)
  BY <1>1, <1>4, EditedDoc DEF Mounted
<1>5. ASSUME NEW k \in Clicks, handleSubmit(k) PROVE \A j \in Clicks : Asked(j)
  <2>1. doc'.page = doc.page /\ doc'.visit = doc.visit /\ ran' = ran
    BY <1>0, <1>5 DEF handleSubmit
  <2>2. Sent(k, "create", Posted(doc.form))
    BY <1>5 DEF handleSubmit
  <2>3. calls'[k].op = "create" /\ \A j \in Clicks \ {k} : calls'[j] = calls[j]
    BY <1>0, <2>2, SentCall
  <2> QED
    BY <1>1, <2>1, <2>3 DEF Mounted
<1>6. ASSUME NEW k \in Clicks, runPreview(k) PROVE \A j \in Clicks : Asked(j)
  <2>1. /\ doc'.page = doc.page /\ doc'.visit = doc.visit /\ ran' = doc.sim
        /\ ~doc.loading
    BY <1>0, <1>6 DEF runPreview
  <2>2. Sent(k, "preview", PostedSim(doc.sim))
    BY <1>6 DEF runPreview
  <2>3. /\ calls'[k].req = PostedSim(doc.sim) /\ calls'[k].status = "sent"
        /\ \A j \in Clicks \ {k} : calls'[j] = calls[j]
    BY <1>0, <2>2, SentCall
  <2>4. ASSUME NEW j \in Clicks \ {k} PROVE Asked(j)
    BY <2>1, <2>3, <2>4 DEF OneInFlight, Previewing, Live, Mounted
  <2> QED
    BY <2>1, <2>3, <2>4
<1>7. ASSUME NEW k \in Clicks,
             create_agent(k) \/ create_refused(k) \/ preview_simulation(k) \/ Lose(k)
      PROVE  \A j \in Clicks : Asked(j)
  <2>1. /\ UNCHANGED << doc, ran >> /\ calls[k].status \in {"sent", "ok"}
        /\ create_agent(k) => calls[k].op = "create"
    BY <1>7 DEF create_agent, create_refused, preview_simulation, Lose
  <2>2. Answered(k, "ok") \/ Answered(k, "failed")
    BY <1>7, AnsweredCall
  <2>3. Answered(k, "ok") /\ ~create_agent(k)
          => calls'[k].answer = {Estimate(calls[k].req)}
    <3>1. create_refused(k) \/ Lose(k) => calls'[k].status = "failed"
      BY AnsweredCall DEF Answered
    <3> QED
      BY <1>7, <3>1, AnsweredCall DEF Answered
  <2>4. Asked(k)
    BY <2>1, <2>2, <2>3 DEF Answered, Previewing, Live, Mounted
  <2> QED
    BY <1>1, <2>1, <2>2, <2>4 DEF Answered, Mounted
<1>8. ASSUME NEW k \in Clicks, Created(k) \/ NotCreated(k) \/ Previewed(k)
      PROVE  \A j \in Clicks : Asked(j)
  <2>1. Done(k) /\ ran' = ran
    BY <1>8 DEF Created, NotCreated, Previewed
  <2>2. calls'[k].status = "done" /\ \A j \in Clicks \ {k} : calls'[j] = calls[j]
    BY <1>0, <2>1, DoneCall
  <2>3. \A j \in Clicks \ {k} : Mounted(j)' => Mounted(j)
    <3>1. doc'.page = "list" \/ (doc'.page = doc.page /\ doc'.visit = doc.visit)
      BY <1>8, AnswerShown
    <3> QED
      BY <2>2, <3>1 DEF Mounted
  <2> QED
    BY <1>1, <2>1, <2>2, <2>3 DEF Live
<1> QED
  BY <1>2, <1>3, <1>4, <1>5, <1>6, <1>7, <1>8, CallsSteps, DocSteps

LEMMA PreviewingStep ==
  ASSUME Typed, OneInFlight, Previewing, [Next]_vars
  PROVE  Previewing'
<1> DEFINE Goal == doc'.page = "simulation" /\ ~doc'.loading /\ ~doc'.error
                     => \A r \in doc'.result : r = Estimate(PostedSim(ran'))
<1>0. DOMAIN doc = {"page", "visit", "form", "sim", "loading", "error", "result", "click"}
  BY DEF Typed, DocTyped
<1>1. ASSUME doc'.page = doc.page, doc'.loading = doc.loading, doc'.error = doc.error,
             doc'.result = doc.result, ran' = ran
      PROVE  Goal
  BY <1>1 DEF Previewing, ResultView
<1>2. ASSUME UNCHANGED doc PROVE Goal
  <2>1. CASE ran' = ran
    BY <1>1, <1>2, <2>1
  <2>2. CASE \E k \in Clicks : runPreview(k)
    BY <1>0, <1>2, <2>2 DEF runPreview
  <2> QED
    BY <2>1, <2>2, CallsSteps DEF handleSubmit, create_agent, create_refused,
          preview_simulation, Lose, Created, NotCreated, Previewed
<1>3. ASSUME NEW page \in {"new", "simulation", "home"}, Open(page) PROVE Goal
  BY <1>3 DEF Open, Mount
<1>4. ASSUME Edit \/ EditSim PROVE Goal
  BY <1>1, <1>4, EditedDoc
<1>5. ASSUME NEW k \in Clicks, handleSubmit(k) \/ runPreview(k) PROVE Goal
  <2>1. doc'.loading
    BY <1>0, <1>5 DEF handleSubmit, runPreview
  <2> QED
    BY <2>1
<1>6. ASSUME NEW k \in Clicks, Created(k) PROVE Goal
  <2>1. UNCHANGED doc \/ doc'.page = "list"
    BY <1>6 DEF Created, Mount
  <2> QED
    BY <1>2, <2>1
<1>7. ASSUME NEW k \in Clicks, NotCreated(k) PROVE Goal
  <2>1. CASE Mounted(k)
    <3>1. doc' = [doc EXCEPT !.loading = FALSE, !.error = TRUE]
      BY <1>7, <2>1 DEF NotCreated
    <3>2. doc'.error
      BY <1>0, <3>1
    <3> QED
      BY <3>2
  <2>2. CASE ~Mounted(k)
    BY <1>2, <1>7, <2>2 DEF NotCreated
  <2> QED
    BY <2>1, <2>2
<1>8. ASSUME NEW k \in Clicks, Previewed(k) PROVE Goal
  <2>1. CASE Mounted(k)
    <3>1. /\ doc' = [doc EXCEPT !.loading = FALSE, !.result = calls[k].answer,
                                !.error = (calls[k].status = "failed")]
          /\ ran' = ran /\ calls[k].op = "preview" /\ calls[k].status \in {"ok", "failed"}
      BY <1>8, <2>1 DEF Previewed
    <3>2. doc'.error = (calls[k].status = "failed") /\ doc'.result = calls[k].answer
      BY <1>0, <3>1
    <3>3. calls[k].status = "ok" => calls[k].answer = {Estimate(PostedSim(ran))}
      BY <2>1, <3>1 DEF Previewing, Live
    <3> QED
      BY <3>1, <3>2, <3>3
  <2>2. CASE ~Mounted(k)
    BY <1>2, <1>8, <2>2 DEF Previewed
  <2> QED
    BY <2>1, <2>2
<1>9. Goal
  BY <1>2, <1>3, <1>4, <1>5, <1>6, <1>7, <1>8, DocSteps
<1> QED
  BY <1>9, AskedStep DEF Previewing, ResultView

-----------------------------------------------------------------------------
(* The theorems.                                                             *)

LEMMA FormsInit == Init => FormsInv
<1> SUFFICES ASSUME Init PROVE FormsInv
  OBVIOUS
<1>1. /\ DOMAIN calls = Clicks
      /\ \A k \in Clicks : /\ CallTyped(calls[k]) /\ calls[k].status = "none"
                           /\ calls[k].visit = 0
  <2>1. calls = [k \in Clicks |-> Idle]
    BY DEF Init
  <2>2. Idle.status = "none" /\ Idle.visit = 0
    BY DEF Idle
  <2> QED
    BY <2>1, <2>2, IdleTyped
<1>2. /\ doc.page = "home" /\ doc.visit = 0
      /\ clicked = {} /\ executed = {} /\ faults = 0
  BY DEF Init, Mount
<1>3. DocTyped
  <2>1. FormTyped(InitialForm) /\ \A field \in DOMAIN InitialSim : InitialSim[field] \in SimChoices(field)
    BY DEF FormTyped, Choices, SimChoices
  <2>2. doc = Mount("home", 0, 0)
    BY DEF Init
  <2> QED
    BY <2>1, <2>2 DEF DocTyped, Mount
<1>4. \A n \in DOMAIN agents : agents[n] = Foreign(n)
  BY DEF Init
<1>5. Typed
  BY <1>1, <1>2, <1>3, <1>4, ForeignTyped DEF Typed
<1>6. CreatedAsSubmitted
  BY <1>4 DEF CreatedAsSubmitted
<1>7. AsClicked /\ ExecutedOnce /\ OneInFlight /\ Told /\ Previewing
  BY <1>1, <1>2 DEF AsClicked, ExecutedOnce, OneInFlight, Told, Previewing, Live
<1> QED
  BY <1>5, <1>6, <1>7 DEF FormsInv

LEMMA FormsStep == FormsInv /\ [Next]_vars => FormsInv'
  BY TypedStep, AsClickedStep, CreatedStep, ExecutedStep, OneInFlightStep, ToldStep,
     PreviewingStep DEF FormsInv

LEMMA FormsHold == Spec => []FormsInv
  BY FormsInit, FormsStep, PTL DEF Spec

(* The types: what is sent is no number or one, and every Agent has its own   *)
(* name, an autonomy the slider has and a budget above zero, if it has one.   *)
THEOREM FormsTyping == Spec => []TypeOK
<1>1. ASSUME FormsInv PROVE TypeOK
  <2>1. DOMAIN Values = DOMAIN InitialForm /\ DOMAIN SimValues = DOMAIN InitialSim
    BY FieldsAssumption
  <2>2. Typed
    BY <1>1 DEF FormsInv
  <2> QED
    BY <2>1, <2>2 DEF Typed, DocTyped, FormTyped, CallTyped, AgentTyped, Choices, SimChoices,
       TypeOK
<1> QED
  BY <1>1, FormsHold, PTL

(* Every Agent that the dashboard has created is what one form asked for at   *)
(* the moment of a click, in all its parts, whatever is typed, lost, deleted *)
(* or opened meanwhile.                                                      *)
THEOREM CreatedIsSubmitted == Spec => []CreatedAsSubmitted
<1>1. FormsInv => CreatedAsSubmitted
  BY DEF FormsInv
<1> QED
  BY <1>1, FormsHold, PTL

(* The list comes up only for a submission that created its Agent, and        *)
(* without losses an error only for one that created nothing.                *)
THEOREM OutcomeIsTrue == Spec => []ToldTruth
<1>1. FormsInv => ToldTruth
  BY DEF FormsInv, Told, ToldTruth
<1> QED
  BY <1>1, FormsHold, PTL

(* The preview shown belongs to the form run last and agrees with what New    *)
(* Agent makes of the same values.                                           *)
THEOREM PreviewIsTrue == Spec => []PreviewIsLatest
<1>1. ASSUME FormsInv PROVE PreviewIsLatest
  <2> DEFINE form == [InitialForm EXCEPT !.name = ran.name, !.replicas = ran.replicas,
                                         !.maxMonthlyCost = ran.maxMonthlyCost,
                                         !.verifiableEnabled = ran.verifiableEnabled]
             same == generate_agent_yaml(Posted(form))
             shown == generate_agent_yaml(PostedSim(ran))
  <2>1. /\ DOMAIN form = DOMAIN InitialForm
        /\ form.name = ran.name /\ form.replicas = ran.replicas
        /\ form.maxMonthlyCost = ran.maxMonthlyCost
        /\ form.verifiableEnabled = ran.verifiableEnabled
        /\ form.proofMode = InitialForm.proofMode
    BY DEF InitialForm
  <2> HIDE DEF form
  <2>2. /\ Posted(form).name = ran.name /\ Posted(form).replicas = Number(ran.replicas)
        /\ Posted(form).maxMonthlyCost
             = IF ran.maxMonthlyCost = "" THEN {} ELSE Number(ran.maxMonthlyCost)
        /\ Posted(form).verifiableEnabled = ran.verifiableEnabled
        /\ Posted(form).proofMode = InitialForm.proofMode
    BY <2>1, PostedFields
  <2>3. Number("") = {0}
    BY FieldsAssumption DEF Number
  <2>4. same.budget = shown.budget
    <3>1. /\ same.budget = Posted(form).maxMonthlyCost \ {0}
          /\ shown.budget = Number(ran.maxMonthlyCost) \ {0}
      BY AgentFields, PostedSimFields
    <3> QED
      BY <2>2, <2>3, <3>1
  <2>5. same.name = shown.name /\ same.replicas = shown.replicas /\ same.proof = shown.proof
    <3>1. /\ same.name = ran.name /\ same.replicas = Number(ran.replicas)
          /\ same.proof = IF ran.verifiableEnabled THEN {InitialForm.proofMode} ELSE {}
      BY <2>2, AgentFields
    <3>2. /\ shown.name = ran.name /\ shown.replicas = Number(ran.replicas)
          /\ shown.proof = IF ran.verifiableEnabled THEN {InitialForm.proofMode} ELSE {}
      BY AgentFields, PostedSimFields
    <3> QED
      BY <3>1, <3>2
  <2>6. /\ Estimate(PostedSim(ran)).agent = shown
        /\ Estimate(PostedSim(ran)).pods = PostedSim(ran).replicas
    BY DEF Estimate
  <2>7. PostedSim(ran).replicas = same.replicas
    BY <2>2, AgentFields, PostedSimFields
  <2>8. doc.page = "simulation" /\ ~doc.loading
          => \A r \in ResultView : r = Estimate(PostedSim(ran))
    BY <1>1 DEF FormsInv, Previewing
  <2> HIDE DEF same, shown
  <2>9. doc.page = "simulation" /\ ~doc.loading
          => \A r \in ResultView :
               /\ r.pods = same.replicas
               /\ \A part \in {"name", "replicas", "budget", "proof"} : r.agent[part] = same[part]
    BY <2>4, <2>5, <2>6, <2>7, <2>8
  <2> QED
    BY <2>9 DEF same, form, PreviewIsLatest
<1> QED
  BY <1>1, FormsHold, PTL

(* The request a disabled form waits for is under way until an answer to it   *)
(* enables the form again, or the form is left.                              *)
LEMMA WaitingStep ==
  ASSUME Typed, OneInFlight, WaitsForAnswer, [Next]_vars
  PROVE  WaitsForAnswer'
<1> DEFINE Waits(j) == /\ doc.click = j /\ Mounted(j) /\ Live(j)
                       /\ calls[j].op = IF doc.page = "new" THEN "create" ELSE "preview"
<1> DEFINE Goal == doc'.loading => \E j \in Clicks : Waits(j)'
<1>0. /\ DOMAIN calls = Clicks
      /\ DOMAIN doc = {"page", "visit", "form", "sim", "loading", "error", "result", "click"}
  BY DEF Typed, DocTyped
<1>w. doc.loading => \E j \in Clicks : Waits(j)
  BY DEF WaitsForAnswer, Live
<1>1. ASSUME UNCHANGED << calls, doc >> PROVE Goal
  BY <1>w, <1>1 DEF Live, Mounted
<1>2. ASSUME NEW page \in {"new", "simulation", "home"}, Open(page) PROVE Goal
  BY <1>2 DEF Open, Mount
<1>3. ASSUME Edit \/ EditSim PROVE Goal
  BY <1>w, <1>3, EditedDoc DEF Live, Mounted
<1>4. ASSUME NEW k \in Clicks, handleSubmit(k) \/ runPreview(k) PROVE Goal
  <2>1. /\ doc'.page = doc.page /\ doc'.visit = doc.visit /\ doc'.click = k
        /\ doc.page \in {"new", "simulation"}
    BY <1>0, <1>4 DEF handleSubmit, runPreview
  <2>2. PICK op, req :
          /\ Sent(k, op, req)
          /\ op = IF doc.page = "new" THEN "create" ELSE "preview"
    BY <1>4 DEF handleSubmit, runPreview
  <2>3. calls'[k].status = "sent" /\ calls'[k].op = op /\ calls'[k].visit = doc.visit
    BY <1>0, <2>2, SentCall
  <2> QED
    BY <2>1, <2>2, <2>3 DEF Live, Mounted
<1>5. ASSUME NEW k \in Clicks,
             create_agent(k) \/ create_refused(k) \/ preview_simulation(k) \/ Lose(k)
      PROVE  Goal
  <2>1. UNCHANGED doc /\ (Answered(k, "ok") \/ Answered(k, "failed"))
    BY <1>5, AnsweredCall DEF create_agent, create_refused, preview_simulation, Lose
  <2>2. \A j \in Clicks : Waits(j) => Waits(j)'
    BY <2>1 DEF Live, Mounted, Answered
  <2> QED
    BY <1>w, <2>1, <2>2
<1>6. ASSUME NEW k \in Clicks, Created(k) \/ NotCreated(k) \/ Previewed(k) PROVE Goal
  <2>1. Done(k)
    BY <1>6 DEF Created, NotCreated, Previewed
  <2>2. \A j \in Clicks \ {k} : calls'[j] = calls[j]
    BY <1>0, <2>1, DoneCall
  <2>3. ~doc'.loading \/ (UNCHANGED doc /\ ~(doc.loading /\ Mounted(k)))
    <3>1. CASE Created(k)
      BY <1>w, <1>6, <3>1 DEF Created, Mount, Mounted
    <3>2. CASE NotCreated(k)
      BY <1>0, <3>2 DEF NotCreated
    <3>3. CASE Previewed(k)
      BY <1>0, <3>3 DEF Previewed
    <3> QED
      BY <1>6, <3>1, <3>2, <3>3
  <2>4. ASSUME NEW j \in Clicks, Waits(j), j # k, UNCHANGED doc PROVE Waits(j)'
    BY <2>2, <2>4 DEF Live, Mounted
  <2> QED
    BY <1>w, <2>3, <2>4
<1> HIDE DEF Waits
<1>7. Goal
  BY <1>1, <1>2, <1>3, <1>4, <1>5, <1>6, CallsSteps, DocSteps
<1> QED
  BY <1>7 DEF Waits, Live, WaitsForAnswer

(* No button stays disabled with nothing to come: the request it waits for is *)
(* the one of its last click, and its answer will find the form mounted.     *)
THEOREM DisabledFormsWait == Spec => []WaitsForAnswer
<1>1. Init => WaitsForAnswer
  BY DEF Init, Mount, WaitsForAnswer
<1>2. FormsInv => Typed /\ OneInFlight
  BY DEF FormsInv
<1> QED
  BY <1>1, <1>2, WaitingStep, FormsHold, PTL DEF Spec

(* No submission, repeated or not, changes an Agent that exists.             *)
THEOREM AgentsAreKept == Spec => NeverOverwritten
<1>1. [Next]_vars => [\A n \in DOMAIN agents \cap DOMAIN agents' : agents'[n] = agents[n]]_vars
  <2> SUFFICES ASSUME [Next]_vars, NEW n \in DOMAIN agents \cap DOMAIN agents'
               PROVE  agents'[n] = agents[n]
    OBVIOUS
  <2>1. CASE UNCHANGED agents
    BY <2>1
  <2>2. ASSUME NEW m, agents' = [i \in DOMAIN agents \ {m} |-> agents[i]]
        PROVE  agents'[n] = agents[n]
    BY <2>2
  <2>3. ASSUME NEW agent, agent.name \notin DOMAIN agents,
               agents' = [i \in DOMAIN agents \cup {agent.name} |->
                            IF i = agent.name THEN agent ELSE agents[i]]
        PROVE  agents'[n] = agents[n]
    BY <2>3
  <2> QED
    BY <2>1, <2>2, <2>3, AgentsStep
<1> QED
  BY <1>1, PTL DEF Spec, NeverOverwritten
=============================================================================
