---------------------------- MODULE WebDashboard ----------------------------
(***************************************************************************)
(* The web dashboard as its users run it: the documents open in several     *)
(* tabs of one browser, the token they share in localStorage, the requests  *)
(* of fetchAPI in flight, and the API server that answers them from the      *)
(* cluster.  A request carries the token that was stored when it was sent,   *)
(* the server answers it from the state at that moment, and the answer is    *)
(* handled some time later, by a page that may have been left since.        *)
(***************************************************************************)
EXTENDS DashboardPages, FiniteSets

CONSTANTS
  Tabs,            \* tabs of the browser
  Names,           \* names of objects in the namespace
  Plans,           \* scenarios: the paths that are gone to in each tab and the bounds
                   \* on tokens issued, on requests or answers that fail, and on
                   \* states of the namespace
  MaxWithdrawals,  \* bound: times that tokens stop being accepted
  MaxCalls         \* bound: requests of the browser in flight

ASSUME DashboardAssumption ==
  /\ Tabs # {} /\ MaxWithdrawals \in Nat /\ MaxCalls \in Nat
  /\ Plans \subseteq [paths : [Tabs -> SUBSET Paths],
                     logins : Nat, faults : Nat, versions : Nat]

VARIABLES
  stored,       \* localStorage 'agentk_token', shared by the tabs; 0: none
  issued,       \* tokens handed out are 1..issued
  accepted,     \* the tokens the server takes: not expired, signed with its secret
  cluster,      \* the states of the namespace so far, a sequence of sets of names
  tab,          \* the document of each tab
  calls,        \* the requests of the browser in flight
  withdrawals,
  faults,
  plan,         \* the scenario of this behaviour
  session       \* history: nobody has logged in, somebody has, or it had to end

vars == << stored, issued, accepted, cluster, tab, calls, withdrawals, faults, plan, session >>

Slots == 1..MaxCalls

Pages == [loading : BOOLEAN, error : BOOLEAN, first : Nat, got : [Kinds -> Nat]]
Documents == [path : Paths, page : Pages, since : Nat, leaving : BOOLEAN]

(* A request: who handles its answer is the page that sent it, the document  *)
(* when that page is no longer mounted, or nobody when the document is gone.  *)
Calls ==
  {c \in [status : {"free", "waiting", "ok", "unauthorized", "failed"}, tab : Tabs,
          op : Ops, arg : Names \cup {"none", "right", "wrong"},
          owner : {"page", "document", "nobody"}, token : Nat, value : Nat] :
     c.op = "create" /\ c.status = "waiting" => c.arg \in Names}

TypeOK ==
  /\ stored \in Nat /\ issued \in Nat /\ accepted \in SUBSET (1..issued)
  /\ cluster \in Seq(SUBSET Names) /\ cluster # << >>
  /\ tab \in [Tabs -> Documents]
  /\ calls \in [Slots -> Calls]
  /\ withdrawals \in Nat /\ faults \in Nat
  /\ plan \in Plans /\ session \in {"none", "open", "ended"}

Present == Len(cluster)

Free(cs) == {k \in Slots : cs[k].status = "free"}

NoCall == [status |-> "free", tab |-> CHOOSE t \in Tabs : TRUE, op |-> "agents",
           arg |-> "none", owner |-> "nobody", token |-> 0, value |-> 0]

(* fetchAPI reads the token when it is called.                               *)
Fetch(t, op, arg, token, owner) ==
  [status |-> "waiting", tab |-> t, op |-> op, arg |-> arg, owner |-> owner,
   token |-> token, value |-> 0]

(* The requests of ops, in order, in the first free slots.                   *)
Rank(cs, k) == Cardinality({j \in Free(cs) : j <= k})
Send(cs, t, ops, token) ==
  [k \in Slots |-> IF k \in Free(cs) /\ Rank(cs, k) \in DOMAIN ops
                     THEN Fetch(t, ops[Rank(cs, k)], "none", token, "page")
                     ELSE cs[k]]
Room(cs, n) == Cardinality(Free(cs)) >= n

(* What the user or a timer sends leaves one slot for the page that the      *)
(* answer to a login may bring up, so that the bound delays no answer.       *)
Spare(n) == Room(calls, n + 1)

(* One more request of the page in tab t.                                    *)
Sent(t, op, arg, cs) ==
  LET k == CHOOSE j \in Free(cs) : \A i \in Free(cs) : j <= i
  IN [cs EXCEPT ![k] = Fetch(t, op, arg, stored, "page")]

(***************************************************************************)
(* Documents and routes.                                                     *)
(***************************************************************************)

(* Mutant: a route that does not exist.                                      *)
RouteMisspelt(path, token) ==
  IF path \in Protected /\ token = 0 THEN "/signin" ELSE path

(* ProtectedLayout: without a token the route is /login.                     *)
Route(path, token) == IF path \in Protected /\ token = 0 THEN "/login" ELSE path

Document(path, leaving) ==
  [path |-> path, page |-> Mounted(path), since |-> Present, leaving |-> leaving]

(* Mutant: the handlers of a page that was left set the state of the next.   *)
StillMounted(cs, t) == cs

(* The page is unmounted: setState on it does nothing from now on, what else *)
(* its handlers do is still done.                                            *)
Unmounted(cs, t) ==
  [k \in Slots |-> IF cs[k].tab = t /\ cs[k].owner = "page"
                     THEN [cs[k] EXCEPT !.owner = "document"] ELSE cs[k]]

(* The document is gone, and with it what waits for an answer; a write that  *)
(* was sent may still reach the server.                                      *)
Dropped(cs, t) ==
  [k \in Slots |->
     CASE cs[k].tab # t \/ cs[k].status = "free" -> cs[k]
       [] cs[k].tab = t /\ cs[k].status = "waiting" /\ cs[k].op \in {"create", "delete"} ->
            [cs[k] EXCEPT !.owner = "nobody"]
       [] OTHER -> NoCall]

(* Tab t shows the route of path, with the requests cs left of the old page  *)
(* and those the new page sends when it is mounted.                          *)
Show(t, path, token, cs, leaving) ==
  LET to == Route(path, token)
  IN /\ Room(cs, Len(Loads(to)))
     /\ tab' = [tab EXCEPT ![t] = Document(to, leaving)]
     /\ calls' = Send(cs, t, Loads(to), token)

(* navigate() and <Link>: within the document.                               *)
Navigate(t, path, token, cs) == Show(t, path, token, Unmounted(cs, t), tab[t].leaving)

(* window.location.href, an address that is typed in, a reload: a new one.   *)
OpenDocument(t, path) ==
  /\ Show(t, path, stored, Dropped(calls, t), FALSE)
  /\ UNCHANGED << stored, issued, accepted, cluster, withdrawals, faults, plan, session >>

(***************************************************************************)
(* The user of tab t.                                                        *)
(***************************************************************************)

UNCHANGED_SERVER == UNCHANGED << issued, accepted, cluster, withdrawals, faults, plan >>

(* The user types an address: the way in when another tab has logged in.     *)
Type(t) ==
  /\ ~tab[t].leaving /\ tab[t].path = "/login"
  /\ \E path \in plan.paths[t] \ {"/login"} :
       Spare(Len(Loads(path))) /\ OpenDocument(t, path)

(* A link of the sidebar or of the dashboard.                                *)
Follow(t) ==
  /\ ~tab[t].leaving /\ tab[t].path \in Protected
  /\ \E path \in (plan.paths[t] \cap Links) \ {tab[t].path} :
       /\ Spare(Len(Loads(path)))
       /\ Navigate(t, path, stored, calls)
  /\ UNCHANGED << stored, session >> /\ UNCHANGED_SERVER

(* Sign Out.                                                                 *)
SignOut(t) ==
  /\ ~tab[t].leaving /\ tab[t].path \in Protected
  /\ stored' = 0 /\ session' = "ended"
  /\ tab' = [tab EXCEPT ![t].leaving = TRUE]
  /\ UNCHANGED calls /\ UNCHANGED_SERVER

(* The document that was asked for by window.location.href replaces this one. *)
Unload(t) == tab[t].leaving /\ OpenDocument(t, "/login")

(* Writes that are still to be executed; the bound on states leaves room for *)
(* each of them.                                                             *)
Pending(op) ==
  {k \in Slots : calls[k].status = "waiting" /\ calls[k].op = op}
WritesLeft ==
  Present + Cardinality(Pending("create")) + Cardinality(Pending("delete")) < plan.versions

(* A form is submitted; its button is disabled until the answer is handled.  *)
Submit(t, path, op, arg) ==
  /\ ~tab[t].leaving /\ tab[t].path = path /\ path \in plan.paths[t]
  /\ ~tab[t].page.loading
  /\ Spare(1)
  /\ tab' = [tab EXCEPT ![t].page.loading = TRUE,
                        ![t].page.error = IF op = "preview" THEN @ ELSE FALSE]
  /\ calls' = Sent(t, op, arg, calls)
  /\ UNCHANGED stored /\ UNCHANGED_SERVER

Login(t) ==
  /\ issued + Cardinality(Pending("login")) < plan.logins
  /\ Submit(t, "/login", "login", "right") /\ UNCHANGED session

Mistype(t) == Submit(t, "/login", "login", "wrong") /\ session' = "ended"

Create(t) ==
  /\ WritesLeft
  /\ \E n \in Names : Submit(t, "/agents/new", "create", n)
  /\ UNCHANGED session

RunPreview(t) == Submit(t, "/simulation", "preview", "none") /\ UNCHANGED session

(* Delete, confirmed, on a row that is shown.                                *)
Delete(t) ==
  /\ ~tab[t].leaving /\ tab[t].path = "/agents" /\ Spare(1) /\ WritesLeft
  /\ \E n \in LiveAgentsView(tab[t].page, cluster).agents :
       calls' = Sent(t, "delete", n, calls)
  /\ UNCHANGED << stored, tab, session >> /\ UNCHANGED_SERVER

(* A report of the list is clicked.                                          *)
Select(t) ==
  /\ ~tab[t].leaving /\ tab[t].path = "/attestation" /\ Spare(1)
  /\ \E n \in AttestationView(tab[t].page, cluster).reports :
       calls' = Sent(t, "detail", n, calls)
  /\ UNCHANGED << stored, tab, session >> /\ UNCHANGED_SERVER

(* Mutant: a timeout where the interval is.                                  *)
RefreshOnce(t) ==
  /\ tab[t].path = "/agents" /\ Spare(1) /\ tab[t].page.got["agents"] = 0
  /\ tab' = [tab EXCEPT ![t].page.loading = TRUE]
  /\ calls' = Sent(t, "agents", "none", calls)
  /\ UNCHANGED << stored, session >> /\ UNCHANGED_SERVER

(* LiveAgents asks again: its interval of 10 s, or the button Refresh.       *)
Refresh(t) ==
  /\ tab[t].path = "/agents" /\ Spare(1)
  /\ tab' = [tab EXCEPT ![t].page.loading = TRUE]
  /\ calls' = Sent(t, "agents", "none", calls)
  /\ UNCHANGED << stored, session >> /\ UNCHANGED_SERVER

(***************************************************************************)
(* The server.                                                               *)
(***************************************************************************)

Waiting(k) == calls[k].status = "waiting"
Answer(k, status, v) ==
  calls' = [calls EXCEPT ![k] = [@ EXCEPT !.status = status, !.value = v,
                                             !.arg = "none", !.token = 0]]

Contents == Of(cluster, Present)

(* /auth/login: a token for the right password, 401 for any other.           *)
AnswerLogin(k) ==
  /\ Waiting(k) /\ calls[k].op = "login"
  /\ IF calls[k].arg = "right"
       THEN /\ issued' = issued + 1 /\ accepted' = accepted \cup {issued + 1}
            /\ Answer(k, "ok", issued + 1)
       ELSE /\ Answer(k, "unauthorized", 0)
            /\ UNCHANGED << issued, accepted >>
  /\ UNCHANGED << stored, cluster, tab, withdrawals, faults, plan, session >>

(* Every other route first asks get_current_user: no token is an error of    *)
(* HTTPBearer (403), a token that does not decode is 401.                    *)
Admitted(k) ==
  Waiting(k) /\ calls[k].op # "login" /\ calls[k].token \in accepted

Refuse(k) ==
  /\ Waiting(k) /\ calls[k].op # "login" /\ calls[k].token \notin accepted
  /\ Answer(k, IF calls[k].token = 0 THEN "failed" ELSE "unauthorized", 0)
  /\ UNCHANGED << stored, issued, accepted, cluster, tab, withdrawals, faults, plan, session >>

(* Lists and the preview are computed from the namespace as it is; a report  *)
(* that is no longer there is 404.                                           *)
AnswerRead(k) ==
  /\ Admitted(k) /\ calls[k].op \in Kinds \cup {"preview"}
  /\ IF calls[k].op = "detail" /\ calls[k].arg \notin Contents
       THEN Answer(k, "failed", 0) ELSE Answer(k, "ok", Present)
  /\ UNCHANGED << stored, issued, accepted, cluster, tab, withdrawals, faults, plan, session >>

(* Creating what exists and deleting what does not are errors (400).         *)
AnswerWrite(k) ==
  LET c == calls[k]
      changed == IF c.op = "create" THEN Contents \cup {c.arg} ELSE Contents \ {c.arg}
  IN /\ Admitted(k) /\ c.op \in {"create", "delete"}
     /\ IF changed # Contents
          THEN cluster' = Append(cluster, changed) /\ Answer(k, "ok", 0)
          ELSE UNCHANGED cluster /\ Answer(k, "failed", 0)
     /\ UNCHANGED << stored, issued, accepted, tab, withdrawals, faults, plan, session >>

Serve(k) ==
  AnswerLogin(k) \/ Refuse(k) \/ AnswerRead(k) \/ AnswerWrite(k)

(* Kubernetes or the server is away, or the connection breaks before or      *)
(* after the request was executed.                                           *)
Fail(k) ==
  /\ calls[k].status \in {"waiting", "ok", "unauthorized"} /\ faults < plan.faults
  /\ faults' = faults + 1
  /\ Answer(k, "failed", 0)
  /\ UNCHANGED << stored, issued, accepted, cluster, tab, withdrawals, plan, session >>

(* The oldest token expires; the server starts again with another random     *)
(* JWT_SECRET and takes none of the old ones.                                *)
Withdraw ==
  /\ accepted # {} /\ withdrawals < MaxWithdrawals
  /\ withdrawals' = withdrawals + 1
  /\ \/ \E k \in accepted : /\ \A j \in accepted : k <= j
                            /\ accepted' = accepted \ {k}
     \/ accepted' = {}
  /\ session' = "ended"
  /\ UNCHANGED << stored, issued, cluster, tab, calls, faults, plan >>

(* kubectl, or a controller, changes the namespace.                          *)
Change ==
  /\ WritesLeft
  /\ \E names \in SUBSET Names \ {Contents} : cluster' = Append(cluster, names)
  /\ UNCHANGED << stored, issued, accepted, tab, calls, withdrawals, faults, plan, session >>

(***************************************************************************)
(* An answer is handled in the document of its tab.                           *)
(***************************************************************************)

Done(k) == [calls EXCEPT ![k] = NoCall]

(* What the page does with the answer, if it is still mounted.               *)
HandledBy(k, ok) ==
  LET c == calls[k]
  IN IF c.owner = "page"
       THEN [tab[c.tab] EXCEPT !.page = Handle(tab[c.tab].path, @, c.op, ok, c.value)]
       ELSE tab[c.tab]

(* Mutant: a 401 is thrown like any other error.                             *)
UnauthorizedThrown(k) ==
  /\ calls[k].status = "unauthorized" /\ calls[k].owner # "nobody"
  /\ tab' = [tab EXCEPT ![calls[k].tab] = HandledBy(k, FALSE)]
  /\ calls' = Done(k)
  /\ UNCHANGED << stored, session >> /\ UNCHANGED_SERVER

(* 401: fetchAPI removes the token, whichever is stored by now, asks for the  *)
(* document of /login and throws to the page.                                *)
Unauthorized(k) ==
  /\ calls[k].status = "unauthorized" /\ calls[k].owner # "nobody"
  /\ stored' = 0
  /\ tab' = [tab EXCEPT ![calls[k].tab] = [HandledBy(k, FALSE) EXCEPT !.leaving = TRUE]]
  /\ calls' = Done(k)
  /\ UNCHANGED session /\ UNCHANGED_SERVER

(* Mutant: every error ends the session.                                     *)
AnyErrorEndsSession(k) ==
  /\ calls[k].status = "failed" /\ calls[k].owner # "nobody"
  /\ stored' = 0
  /\ tab' = [tab EXCEPT ![calls[k].tab] = [HandledBy(k, FALSE) EXCEPT !.leaving = TRUE]]
  /\ calls' = Done(k)
  /\ UNCHANGED session /\ UNCHANGED_SERVER

(* Any other error is thrown to the page.                                    *)
Failed(k) ==
  /\ calls[k].status = "failed" /\ calls[k].owner # "nobody"
  /\ tab' = [tab EXCEPT ![calls[k].tab] = HandledBy(k, FALSE)]
  /\ calls' = Done(k)
  /\ UNCHANGED << stored, session >> /\ UNCHANGED_SERVER

Arrived(k, op) ==
  calls[k].status = "ok" /\ calls[k].owner # "nobody" /\ calls[k].op = op

Loaded(k) ==
  /\ \E op \in Kinds \cup {"preview"} : Arrived(k, op)
  /\ tab' = [tab EXCEPT ![calls[k].tab] = HandledBy(k, TRUE)]
  /\ calls' = Done(k)
  /\ UNCHANGED << stored, session >> /\ UNCHANGED_SERVER

(* The token is stored, over any other, and the dashboard is shown.          *)
LoggedIn(k) ==
  /\ Arrived(k, "login")
  /\ stored' = calls[k].value
  /\ session' = IF session = "none" THEN "open" ELSE session
  /\ Navigate(calls[k].tab, "/", calls[k].value, Done(k))
  /\ UNCHANGED_SERVER

(* NewAgent goes to the list, from wherever the user is by now.              *)
Created(k) ==
  /\ Arrived(k, "create")
  /\ IF tab[calls[k].tab].path = "/agents"
       THEN UNCHANGED tab /\ calls' = Done(k)
       ELSE Navigate(calls[k].tab, "/agents", stored, Done(k))
  /\ UNCHANGED << stored, session >> /\ UNCHANGED_SERVER

(* A deletion is followed by a refresh, of the same page, mounted or not.    *)
Deleted(k) ==
  /\ Arrived(k, "delete")
  /\ tab' = [tab EXCEPT ![calls[k].tab].page.loading =
                @ \/ (calls[k].owner = "page")]
  /\ calls' = [calls EXCEPT ![k] =
                 Fetch(calls[k].tab, "agents", "none", stored, calls[k].owner)]
  /\ UNCHANGED << stored, session >> /\ UNCHANGED_SERVER

Deliver(k) ==
  Unauthorized(k) \/ Failed(k) \/ Loaded(k) \/ LoggedIn(k)
    \/ Created(k) \/ Deleted(k)

(* A write of a document that is gone was executed, or never reaches the     *)
(* server: the browser cancelled it.                                         *)
Forget(k) ==
  /\ calls[k].status # "free" /\ calls[k].owner = "nobody"
  /\ calls' = Done(k)
  /\ UNCHANGED << stored, tab, session >> /\ UNCHANGED_SERVER

-----------------------------------------------------------------------------

Init ==
  /\ stored = 0 /\ issued = 0 /\ accepted = {}
  /\ \E names \in SUBSET Names : cluster = << names >>
  /\ tab = [t \in Tabs |-> [path |-> "/login", page |-> Mounted("/login"),
                            since |-> 1, leaving |-> FALSE]]
  /\ calls = [k \in Slots |-> NoCall]
  /\ plan \in Plans /\ withdrawals = 0 /\ faults = 0 /\ session = "none"

User(t) ==
  \/ Type(t) \/ Follow(t) \/ SignOut(t) \/ Login(t) \/ Mistype(t)
  \/ Create(t) \/ RunPreview(t) \/ Delete(t) \/ Select(t)

Progress(k) == Serve(k) \/ Deliver(k) \/ Forget(k)

Next ==
  \/ \E t \in Tabs : User(t) \/ Unload(t) \/ Refresh(t)
  \/ \E k \in Slots : Progress(k) \/ Fail(k)
  \/ Withdraw \/ Change

(* Every request is answered and every answer handled in the end, a document *)
(* that was asked for replaces the old one, and the timer of LiveAgents goes *)
(* off again and again (strong: only the bound on requests in flight, which   *)
(* is not the browser's, disables it).                                       *)
Fairness ==
  /\ \A t \in Tabs : WF_vars(Unload(t)) /\ SF_vars(Refresh(t))
  /\ \A k \in Slots : WF_vars(Progress(k))

Spec == Init /\ [][Next]_vars /\ Fairness

-----------------------------------------------------------------------------
(* Properties. *)

(* The dashboard never shows a part of its data as if it were all: with the  *)
(* banner it shows nothing, and without it both lists are answers to this    *)
(* visit's requests, so that "No agents deployed yet" means what it says.    *)
DashboardWhole ==
  \A t \in Tabs :
    LET page == tab[t].page
        view == DashboardView(page, cluster)
    IN tab[t].path = "/" /\ ~view.spinner =>
         IF view.banner THEN view.agents = {} /\ view.costs = {}
                        ELSE page.got["agents"] # 0 /\ page.got["costs"] # 0

(* What a page shows was true of the namespace at some time since the page   *)
(* was opened: the late answer to a page that was left is never shown by the *)
(* one that took its place.                                                  *)
ShownWasTrue ==
  \A t \in Tabs : \A kind \in Kinds :
    tab[t].page.got[kind] \in {0} \cup tab[t].since..Present

(* Failing requests, lost answers and cluster outages never end a session:   *)
(* once somebody has logged in, and until a token expires or is withdrawn,   *)
(* somebody signs out or mistypes the password, in any tab, the token stored *)
(* is one the server accepts, whatever logins follow.                        *)
OutagesKeepSession == session = "open" => stored \in accepted

(* A tab that stays on Live Agents with a good token ends up showing the     *)
(* agents there are: a lost or a late answer, or a failed deletion, is       *)
(* repaired by a later refresh.                                              *)
ListFollowsCluster ==
  \A t \in Tabs :
    <>[](tab[t].path = "/agents" /\ stored \in accepted)
      => <>[](LiveAgentsView(tab[t].page, cluster).agents = Contents)

(* The requests whose answers stop the spinner of a page: those it sends     *)
(* when it is mounted, and for a form its submission.                        *)
Awaited(path) ==
  CASE path = "/login"      -> {"login"}
    [] path = "/agents/new" -> {"create"}
    [] path = "/simulation" -> {"preview"}
    [] OTHER                -> {Loads(path)[i] : i \in DOMAIN Loads(path)}

(* A request of the page mounted in tab t that has not been handled.          *)
UnderWay(t, op) ==
  \E k \in Slots :
    /\ calls[k].status # "free" /\ calls[k].owner = "page"
    /\ calls[k].tab = t /\ calls[k].op = op

(* A spinner never turns with nothing to stop it: whatever failed, was left,  *)
(* refreshed or deleted meanwhile, a request the page waits for is under way  *)
(* and still its own, on Dashboard both of them until one has come.           *)
SpinnersHaveCause ==
  \A t \in Tabs :
    tab[t].page.loading =>
      /\ \E op \in Awaited(tab[t].path) : UnderWay(t, op)
      /\ tab[t].page.first = 0 => \A op \in Awaited(tab[t].path) : UnderWay(t, op)

(* No spinner turns for ever on a page that is not left, and no button stays *)
(* disabled, whatever answer comes or fails to come.                         *)
Turning(t) == Spinning(tab[t].path, tab[t].page, cluster)
SpinnersStop ==
  \A t \in Tabs :
    []<>~Turning(t) \/ []<><< tab'[t].path # tab[t].path >>_vars

(* No tab stays on Live Agents with a token the server no longer takes: its  *)
(* refresh finds out and brings it to /login.                                *)
RejectedLeaves ==
  \A t \in Tabs :
    ~<>[](tab[t].path = "/agents" /\ stored # 0 /\ stored \notin accepted)
=============================================================================
