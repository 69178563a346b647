--------------------------- MODULE DashboardPages ---------------------------
(***************************************************************************)
(* The pages of the web dashboard as values: what a page asks the server    *)
(* for when it is mounted, the local state (useState) it starts from, what   *)
(* its handlers do with an answer, and what the user reads on it.  The       *)
(* session, the requests and the browser are in WebDashboard.                *)
(*                                                                           *)
(* The content of an answer is the position, in the history of the           *)
(* namespace, of the state it was read from; 0 is the empty initial state    *)
(* of a page ([] or null), which is also what a page keeps after a failure.  *)
(***************************************************************************)
EXTENDS Naturals, Sequences

(* The routes of App.tsx; ProtectedLayout wraps all of them but /login.      *)
Protected == {"/", "/agents", "/agents/new", "/cost", "/attestation", "/simulation"}
Paths == Protected \cup {"/login"}

(* The links of the sidebar; the pages' own links lead to a subset of them.  *)
Links == {"/", "/agents", "/agents/new"} \cup {"/cost", "/attestation", "/simulation"}

(* What the answers a page keeps are about.                                  *)
Kinds == {"agents", "costs", "attestations", "detail"}
Ops == Kinds \cup {"login", "create", "delete", "preview"}

(* The requests an effect of the page sends when it is mounted.              *)
Loads(path) ==
  CASE path = "/"            -> << "agents", "costs" >>
    [] path = "/agents"      -> << "agents" >>
    [] path = "/cost"        -> << "costs" >>
    [] path = "/attestation" -> << "attestations" >>
    [] OTHER                 -> << >>

(* A page just mounted: the pages that load something start with their       *)
(* spinner on, the forms with their button enabled.  "first" is the answer   *)
(* Promise.all of the dashboard holds until the other one has come.          *)
Mounted(path) ==
  [loading |-> Loads(path) # << >>, error |-> FALSE, first |-> 0,
   got |-> [k \in Kinds |-> 0]]

(* Mutant: the failure is swallowed, as the other pages do.                  *)
ErrorSwallowed(page, op, ok, v) ==
  IF page.loading /\ ~ok THEN [page EXCEPT !.loading = FALSE]
  ELSE IF page.loading /\ page.first = 0 THEN [page EXCEPT !.first = v]
  ELSE [page EXCEPT !.loading = FALSE]

(* Dashboard: both lists are set together, when the second one has come; the *)
(* first failure settles the promise for good and an answer that comes after *)
(* it is ignored.                                                            *)
DashboardAnswer(page, op, ok, v) ==
  CASE ~page.loading -> page
    [] page.loading /\ ~ok -> [page EXCEPT !.error = TRUE, !.loading = FALSE]
    [] page.loading /\ ok /\ page.first = 0 -> [page EXCEPT !.first = v]
    [] OTHER ->
         [page EXCEPT !.loading = FALSE,
                      !.got = [k \in Kinds |->
                                 CASE k = op                           -> v
                                   [] k \in {"agents", "costs"} \ {op} -> page.first
                                   [] OTHER                            -> page.got[k]]]

(* Mutant: the spinner stops in then and not in finally.                     *)
LoadingStopsOnSuccess(page, op, ok, v) ==
  IF ok THEN [page EXCEPT !.loading = FALSE, !.got[op] = v] ELSE page

(* LiveAgents, CostGraph and the list of Attestation: the answer is kept, a   *)
(* failure is swallowed, the spinner stops either way.                       *)
ListAnswer(page, op, ok, v) ==
  [page EXCEPT !.loading = FALSE, !.got[op] = IF ok THEN v ELSE @]

(* A report that was clicked: shown when it comes, whatever was clicked      *)
(* since; a failure leaves the report shown before.                          *)
DetailAnswer(page, ok, v) ==
  [page EXCEPT !.got["detail"] = IF ok THEN v ELSE @]

(* The forms: the button is enabled again and a failure is written down      *)
(* (DashboardForms has the details).                                         *)
FormAnswer(page, ok) == [page EXCEPT !.loading = FALSE, !.error = ~ok]

(* What the page at this path does with an answer to a request of its own.   *)
(* A failed deletion is handled nowhere.                                     *)
Handle(path, page, op, ok, v) ==
  IF path = "/" THEN DashboardAnswer(page, op, ok, v)
  ELSE CASE op = "detail" -> DetailAnswer(page, ok, v)
         [] op \in {"login", "create", "preview"} -> FormAnswer(page, ok)
         [] op \in {"agents", "costs", "attestations"} -> ListAnswer(page, op, ok, v)
         [] OTHER -> page

(***************************************************************************)
(* What the user reads, given the history of the namespace.                  *)
(***************************************************************************)

(* What an answer contains: the names there were when it was read.            *)
Of(history, v) == IF v \in DOMAIN history THEN history[v] ELSE {}

(* Dashboard: the spinner alone, or the banner of the error above the        *)
(* counts and the table of the agents and the sum of the costs.              *)
DashboardView(page, history) ==
  IF page.loading
    THEN [spinner |-> TRUE, banner |-> FALSE, agents |-> {}, costs |-> {}]
    ELSE [spinner |-> FALSE, banner |-> page.error,
          agents |-> Of(history, page.got["agents"]), costs |-> Of(history, page.got["costs"])]

(* LiveAgents: the spinner only while there is nothing to show.              *)
LiveAgentsView(page, history) ==
  [spinner |-> page.loading /\ Of(history, page.got["agents"]) = {},
   agents |-> Of(history, page.got["agents"])]

(* CostGraph: "No cost data available" when there is no row, whatever the    *)
(* reason.                                                                   *)
CostView(page, history) ==
  IF page.loading THEN [spinner |-> TRUE, costs |-> {}]
                  ELSE [spinner |-> FALSE, costs |-> Of(history, page.got["costs"])]

(* Attestation: the list and, next to it, the report that came last.         *)
AttestationView(page, history) ==
  IF page.loading
    THEN [spinner |-> TRUE, reports |-> {}, detail |-> 0]
    ELSE [spinner |-> FALSE, reports |-> Of(history, page.got["attestations"]),
          detail |-> page.got["detail"]]

(* Login, NewAgent and Simulation: the button is disabled and turning.       *)
FormView(page) == [spinner |-> page.loading, error |-> page.error]

(* A spinner is on.                                                          *)
Spinning(path, page, history) ==
  CASE path = "/"            -> DashboardView(page, history).spinner
    [] path = "/agents"      -> LiveAgentsView(page, history).spinner
    [] path = "/cost"        -> CostView(page, history).spinner
    [] path = "/attestation" -> AttestationView(page, history).spinner
    [] OTHER                 -> FormView(page).spinner
=============================================================================
