------------------------ MODULE WebDashboardProofs ------------------------
(***************************************************************************)
(* Theorems about WebDashboard, for any tabs, names, scenarios and bounds:   *)
(* the types, that outages keep the session, what the pages show, and that   *)
(* a spinner that turns has an answer to come.                               *)
(***************************************************************************)
EXTENDS WebDashboard, SequenceTheorems, FiniteSetTheorems, WellFoundedInduction, TLAPS

Args == Names \cup {"none", "right", "wrong"}

-----------------------------------------------------------------------------
(* What the operators on pages, documents and requests return. *)

LEMMA LoadsTyped ==
  ASSUME NEW path \in Paths, NEW i \in DOMAIN Loads(path)
  PROVE  /\ Loads(path)[i] \in Kinds
         /\ path = "/" => Loads(path)[i] \in {"agents", "costs"}
<1>1. CASE path = "/"
  BY <1>1 DEF Loads, Kinds
<1>2. CASE path = "/agents"
  BY <1>2 DEF Loads, Kinds
<1>3. CASE path = "/cost"
  BY <1>3 DEF Loads, Kinds
<1>4. CASE path = "/attestation"
  BY <1>4 DEF Loads, Kinds
<1>5. CASE path \notin {"/", "/agents", "/cost", "/attestation"}
  <2>1. Loads(path) = << >>
    BY <1>5 DEF Loads
  <2> QED
    BY <2>1
<1> QED
  BY <1>1, <1>2, <1>3, <1>4, <1>5

LEMMA MountedTyped == \A path \in Paths : Mounted(path) \in Pages
  BY DEF Mounted, Pages

LEMMA RouteTyped == \A path \in Paths : \A token : Route(path, token) \in Paths
  BY DEF Route, Paths

LEMMA KindsAreOps == Kinds \subseteq Ops
  BY DEF Ops

LEMMA NoCallTyped == NoCall \in Calls
<1>1. (CHOOSE t \in Tabs : TRUE) \in Tabs
  BY DashboardAssumption
<1> QED
  BY <1>1 DEF NoCall, Calls, Ops, Kinds

LEMMA FetchTyped ==
  ASSUME NEW t \in Tabs, NEW op \in Ops, NEW arg \in Args, NEW token \in Nat,
         op = "create" => arg \in Names,
         NEW owner \in {"page", "document", "nobody"}
  PROVE  Fetch(t, op, arg, token, owner) \in Calls
  BY DEF Fetch, Calls, Args

(* A request of a page that is mounted is sent or left alone.                *)
LEMMA SendTyped ==
  ASSUME NEW cs \in [Slots -> Calls], NEW t \in Tabs, NEW path \in Paths, NEW token \in Nat
  PROVE  LET sent == Send(cs, t, Loads(path), token)
         IN /\ sent \in [Slots -> Calls]
            /\ \A k \in Slots :
                 \/ sent[k] = cs[k]
                 \/ \E op \in Kinds :
                      /\ path = "/" => op \in {"agents", "costs"}
                      /\ sent[k] = Fetch(t, op, "none", token, "page")
<1> DEFINE sent == Send(cs, t, Loads(path), token)
<1>1. \A k \in Slots :
        \/ sent[k] = cs[k]
        \/ \E op \in Kinds :
             /\ path = "/" => op \in {"agents", "costs"}
             /\ sent[k] = Fetch(t, op, "none", token, "page")
  <2> SUFFICES ASSUME NEW k \in Slots, Rank(cs, k) \in DOMAIN Loads(path)
               PROVE  \E op \in Kinds :
                        /\ path = "/" => op \in {"agents", "costs"}
                        /\ Fetch(t, Loads(path)[Rank(cs, k)], "none", token, "page")
                             = Fetch(t, op, "none", token, "page")
    BY DEF Send
  <2> QED
    BY LoadsTyped
<1>2. \A op \in Kinds : Fetch(t, op, "none", token, "page") \in Calls
  BY FetchTyped, KindsAreOps DEF Args, Kinds
<1>3. \A k \in Slots : sent[k] \in Calls
  BY <1>1, <1>2
<1>4. sent \in [Slots -> Calls]
  BY <1>3 DEF Send
<1> QED
  BY <1>1, <1>4

LEMMA SentTyped ==
  ASSUME NEW cs \in [Slots -> Calls], NEW t \in Tabs, NEW op \in Ops, NEW arg \in Args,
         op = "create" => arg \in Names, stored \in Nat
  PROVE  /\ Sent(t, op, arg, cs) \in [Slots -> Calls]
         /\ \A k \in Slots : \/ Sent(t, op, arg, cs)[k] = cs[k]
                             \/ Sent(t, op, arg, cs)[k] = Fetch(t, op, arg, stored, "page")
<1>1. Fetch(t, op, arg, stored, "page") \in Calls
  BY FetchTyped
<1>2. PICK j : Sent(t, op, arg, cs) = [cs EXCEPT ![j] = Fetch(t, op, arg, stored, "page")]
  BY DEF Sent
<1> QED
  BY <1>1, <1>2

(* Requests whose page or document is gone lose their owner, or go too.      *)
Weakened(c, d) ==
  \/ d = c
  \/ d = [c EXCEPT !.owner = "document"]
  \/ d = [c EXCEPT !.owner = "nobody"]
  \/ d = NoCall

LEMMA UnmountedTyped ==
  ASSUME NEW cs \in [Slots -> Calls], NEW t \in Tabs
  PROVE  /\ Unmounted(cs, t) \in [Slots -> Calls]
         /\ \A k \in Slots : /\ Weakened(cs[k], Unmounted(cs, t)[k])
                             /\ Unmounted(cs, t)[k].tab = t => Unmounted(cs, t)[k].owner # "page"
<1> SUFFICES ASSUME NEW k \in Slots
             PROVE  /\ Unmounted(cs, t)[k] \in Calls
                    /\ Weakened(cs[k], Unmounted(cs, t)[k])
                    /\ Unmounted(cs, t)[k].tab = t => Unmounted(cs, t)[k].owner # "page"
  BY DEF Unmounted
<1>1. Unmounted(cs, t)[k] = IF cs[k].tab = t /\ cs[k].owner = "page"
                              THEN [cs[k] EXCEPT !.owner = "document"] ELSE cs[k]
  BY DEF Unmounted
<1>2. cs[k] \in Calls
  OBVIOUS
<1> QED
  BY <1>1, <1>2 DEF Weakened, Calls

LEMMA DroppedTyped ==
  ASSUME NEW cs \in [Slots -> Calls], NEW t \in Tabs
  PROVE  /\ Dropped(cs, t) \in [Slots -> Calls]
         /\ \A k \in Slots :
              /\ Weakened(cs[k], Dropped(cs, t)[k])
              /\ Dropped(cs, t)[k].tab = t /\ Dropped(cs, t)[k].status # "free"
                   => Dropped(cs, t)[k].owner # "page"
<1> SUFFICES ASSUME NEW k \in Slots
             PROVE  /\ Dropped(cs, t)[k] \in Calls
                    /\ Weakened(cs[k], Dropped(cs, t)[k])
                    /\ Dropped(cs, t)[k].tab = t /\ Dropped(cs, t)[k].status # "free"
                         => Dropped(cs, t)[k].owner # "page"
  BY DEF Dropped
<1>1. cs[k] \in Calls
  OBVIOUS
<1>2. CASE cs[k].tab # t \/ cs[k].status = "free"
  <2>1. Dropped(cs, t)[k] = cs[k]
    BY <1>2 DEF Dropped
  <2> QED
    BY <2>1, <1>1, <1>2 DEF Weakened
<1>3. CASE cs[k].tab = t /\ cs[k].status = "waiting" /\ cs[k].op \in {"create", "delete"}
  <2>1. Dropped(cs, t)[k] = [cs[k] EXCEPT !.owner = "nobody"]
    BY <1>3 DEF Dropped
  <2> QED
    BY <2>1, <1>1 DEF Weakened, Calls
<1>4. CASE ~(cs[k].tab # t \/ cs[k].status = "free")
             /\ ~(cs[k].tab = t /\ cs[k].status = "waiting" /\ cs[k].op \in {"create", "delete"})
  <2>1. Dropped(cs, t)[k] = NoCall
    BY <1>4 DEF Dropped
  <2> QED
    BY <2>1, NoCallTyped DEF Weakened, NoCall
<1> QED
  BY <1>2, <1>3, <1>4

-----------------------------------------------------------------------------
(* What a page does with an answer. *)

(* What is kept of the answers was read between two states of the namespace. *)
Within(page, low, high) ==
  /\ page.first \in {0} \cup low..high
  /\ \A kind \in Kinds : page.got[kind] \in {0} \cup low..high

(* The dashboard has both lists or none.                                     *)
Whole(page) ==
  LET agents == page.got["agents"]
      costs == page.got["costs"]
  IN IF page.loading THEN ~page.error /\ agents = 0 /\ costs = 0
     ELSE IF page.error THEN agents = 0 /\ costs = 0
     ELSE agents # 0 /\ costs # 0

LEMMA DashboardAnswerGood ==
  ASSUME NEW page \in Pages, NEW op \in Ops, NEW ok \in BOOLEAN, NEW v \in Nat
  PROVE  LET after == DashboardAnswer(page, op, ok, v)
         IN /\ after \in Pages
            /\ \A low, high \in Nat :
                 Within(page, low, high) /\ (ok => v \in low..high) => Within(after, low, high)
            /\ Whole(page) /\ op \in {"agents", "costs"} /\ (ok => v # 0) => Whole(after)
<1> DEFINE after == DashboardAnswer(page, op, ok, v)
<1>0. "agents" \in Kinds /\ "costs" \in Kinds /\ page.first \in Nat
         /\ page.got \in [Kinds -> Nat] /\ page.loading \in BOOLEAN /\ page.error \in BOOLEAN
  BY DEF Kinds, Pages
<1>1. CASE ~page.loading
  <2>1. after = page
    BY <1>1 DEF DashboardAnswer
  <2> QED
    BY <2>1
<1>2. CASE page.loading /\ ~ok
  <2>1. after = [page EXCEPT !.error = TRUE, !.loading = FALSE]
    BY <1>2 DEF DashboardAnswer
  <2>2. after \in Pages
    BY <2>1 DEF Pages
  <2>3. after.first = page.first /\ after.got = page.got /\ after.error /\ ~after.loading
    BY <2>1 DEF Pages
  <2> QED
    BY <2>2, <2>3, <1>2 DEF Within, Whole
<1>3. CASE page.loading /\ ok /\ page.first = 0
  <2>1. after = [page EXCEPT !.first = v]
    BY <1>3 DEF DashboardAnswer
  <2>2. after \in Pages
    BY <2>1 DEF Pages
  <2>3. /\ after.first = v /\ after.got = page.got
        /\ after.error = page.error /\ after.loading = page.loading
    BY <2>1 DEF Pages
  <2> QED
    BY <2>2, <2>3, <1>3 DEF Within, Whole
<1>4. CASE page.loading /\ ok /\ page.first # 0
  <2> DEFINE got == [k \in Kinds |-> CASE k = op                           -> v
                                       [] k \in {"agents", "costs"} \ {op} -> page.first
                                       [] OTHER                            -> page.got[k]]
  <2>1. after = [page EXCEPT !.loading = FALSE, !.got = got]
    BY <1>4 DEF DashboardAnswer
  <2>2. got \in [Kinds -> Nat]
    BY <1>0
  <2>3. \A k \in Kinds : got[k] \in {v, page.first, page.got[k]}
    OBVIOUS
  <2>4. op \in {"agents", "costs"} =>
          got["agents"] \in {v, page.first} /\ got["costs"] \in {v, page.first}
    BY <1>0
  <2>5. after.first = page.first /\ after.got = got /\ after.error = page.error /\ ~after.loading
    BY <2>1, <2>2 DEF Pages
  <2>6. after \in Pages
    BY <2>1, <2>2 DEF Pages
  <2>7. ASSUME NEW low \in Nat, NEW high \in Nat, Within(page, low, high), v \in low..high
        PROVE  Within(after, low, high)
    <3>1. \A k \in Kinds : after.got[k] \in {0} \cup low..high
      BY <2>3, <2>5, <2>7 DEF Within
    <3> QED
      BY <3>1, <2>5, <2>7 DEF Within
  <2>8. Whole(page) /\ op \in {"agents", "costs"} /\ v # 0 => Whole(after)
    BY <2>4, <2>5, <1>4 DEF Whole
  <2> QED
    BY <2>6, <2>7, <2>8, <1>4
<1> QED
  BY <1>1, <1>2, <1>3, <1>4, <1>0

(* A page other than the dashboard keeps one answer at most.                 *)
LEMMA OtherAnswerGood ==
  ASSUME NEW page \in Pages, NEW op \in Kinds, NEW ok \in BOOLEAN, NEW v \in Nat,
         NEW after \in {ListAnswer(page, op, ok, v), DetailAnswer(page, ok, v),
                        FormAnswer(page, ok), page}
  PROVE  /\ after \in Pages
         /\ \A low, high \in Nat :
              Within(page, low, high) /\ (ok => v \in low..high) => Within(after, low, high)
<1>0. "detail" \in Kinds
  BY DEF Kinds
<1>1. CASE after = ListAnswer(page, op, ok, v)
  <2>1. after \in Pages
    BY <1>1 DEF ListAnswer, Pages
  <2>2. /\ after.first = page.first
        /\ \A k \in Kinds : after.got[k] \in {page.got[k]} \cup {n \in {v} : ok}
    BY <1>1 DEF ListAnswer, Pages
  <2> QED
    BY <2>1, <2>2 DEF Within
<1>2. CASE after = DetailAnswer(page, ok, v)
  <2>1. after \in Pages
    BY <1>2, <1>0 DEF DetailAnswer, Pages
  <2>2. /\ after.first = page.first
        /\ \A k \in Kinds : after.got[k] \in {page.got[k]} \cup {n \in {v} : ok}
    BY <1>2 DEF DetailAnswer, Pages
  <2> QED
    BY <2>1, <2>2 DEF Within
<1>3. CASE after = FormAnswer(page, ok)
  <2>1. after \in Pages /\ after.first = page.first /\ after.got = page.got
    BY <1>3 DEF FormAnswer, Pages
  <2> QED
    BY <2>1 DEF Within
<1>4. CASE after = page
  BY <1>4
<1> QED
  BY <1>1, <1>2, <1>3, <1>4

(* The operations whose answer carries what was read.                        *)
Reads == Kinds \cup {"preview"}

LEMMA HandleGood ==
  ASSUME NEW path \in Paths, NEW page \in Pages, NEW op \in Ops, NEW ok \in BOOLEAN,
         NEW v \in Nat
  PROVE  LET after == Handle(path, page, op, ok, v)
         IN /\ after \in Pages
            /\ \A low, high \in Nat :
                 /\ Within(page, low, high)
                 /\ path = "/" => op \in {"agents", "costs"}
                 /\ ok /\ op \in Reads => v \in low..high
                 => Within(after, low, high)
            /\ /\ path = "/" /\ Whole(page) /\ op \in {"agents", "costs"}
               /\ ok => v # 0
               => Whole(after)
<1> DEFINE after == Handle(path, page, op, ok, v)
<1>0. {"agents", "costs", "attestations", "detail"} = Kinds
  BY DEF Kinds
<1>1. CASE path = "/"
  <2>1. after = DashboardAnswer(page, op, ok, v)
    BY <1>1 DEF Handle
  <2>2. op \in {"agents", "costs"} => op \in Reads
    BY <1>0 DEF Reads
  <2> QED
    BY <2>1, <2>2, <1>1, DashboardAnswerGood
<1>2. CASE path # "/" /\ op = "detail"
  <2>1. after = DetailAnswer(page, ok, v) /\ op \in Reads /\ op \in Kinds
    BY <1>2, <1>0 DEF Handle, Reads
  <2> QED
    BY <2>1, <1>2, OtherAnswerGood
<1>3. CASE path # "/" /\ op \in {"login", "create", "preview"}
  <2>1. after = FormAnswer(page, ok)
    BY <1>3 DEF Handle
  <2>2. after \in Pages /\ after.first = page.first /\ after.got = page.got
    BY <2>1 DEF FormAnswer, Pages
  <2> QED
    BY <2>2, <1>3 DEF Within
<1>4. CASE path # "/" /\ op \in {"agents", "costs", "attestations"}
  <2>1. after = ListAnswer(page, op, ok, v) /\ op \in Reads /\ op \in Kinds
    BY <1>4, <1>0 DEF Handle, Reads
  <2> QED
    BY <2>1, <1>4, OtherAnswerGood
<1>5. CASE path # "/" /\ op = "delete"
  <2>1. after = page
    BY <1>5 DEF Handle
  <2> QED
    BY <2>1, <1>5
<1>6. op \in {"detail", "login", "create", "preview", "agents", "costs", "attestations", "delete"}
  BY DEF Ops, Kinds
<1> QED
  BY <1>1, <1>2, <1>3, <1>4, <1>5, <1>6

-----------------------------------------------------------------------------
(* The inductive invariant. *)

(* A document shows what was read since it was opened, n being the present.  *)
Recent(d, n) ==
  /\ d.since \in 1..n /\ Within(d.page, d.since, n)
  /\ d.path = "/" => Whole(d.page)

(* A request of a page that is mounted in document d is one the page sends,  *)
(* and its answer was read since the document was opened.                    *)
Proper(c, d, n) ==
  c.owner = "page" /\ c.status # "free" =>
    /\ d.path = "/" => c.op \in {"agents", "costs"}
    /\ c.status = "ok" /\ c.op \in Reads => c.value \in d.since..n

(* While a session lasts no request was rejected or will be, n being the     *)
(* number of tokens issued.                                                  *)
Honest(c, n) ==
  /\ c.token \in 0..n /\ c.status # "unauthorized"
  /\ c.op = "login" => /\ c.status = "waiting" => c.arg = "right"
                       /\ c.status = "ok" => c.value \in 1..n

ShownGood == \A t \in Tabs : Recent(tab[t], Present)
CallsGood == \A k \in Slots : Proper(calls[k], tab[calls[k].tab], Present)
SessionGood ==
  session # "ended" =>
    /\ accepted = 1..issued /\ stored \in 0..issued
    /\ session = "open" => stored # 0
    /\ \A k \in Slots : Honest(calls[k], issued)

DashboardInv == TypeOK /\ ShownGood /\ CallsGood /\ SessionGood

LEMMA CallFields ==
  ASSUME NEW c \in Calls
  PROVE  /\ c.status \in {"free", "waiting", "ok", "unauthorized", "failed"}
         /\ c.tab \in Tabs /\ c.op \in Ops /\ c.arg \in Args
         /\ c.owner \in {"page", "document", "nobody"}
         /\ c.token \in Nat /\ c.value \in Nat
  BY DEF Calls, Args

LEMMA NoCallGood ==
  /\ NoCall.status = "free" /\ NoCall.owner = "nobody"
  /\ \A n \in Nat : Honest(NoCall, n)
  BY DEF NoCall, Honest

LEMMA FetchGood ==
  ASSUME NEW t \in Tabs, NEW op \in Ops, NEW arg \in Args, NEW n \in Nat, NEW token \in 0..n,
         NEW owner \in {"page", "document", "nobody"}
  PROVE  LET c == Fetch(t, op, arg, token, owner)
         IN /\ c.tab = t /\ c.op = op /\ c.owner = owner /\ c.status = "waiting"
            /\ (op = "login" => arg = "right") => Honest(c, n)
  BY DEF Fetch, Honest

LEMMA WeakenedGood ==
  ASSUME NEW c \in Calls, NEW d, Weakened(c, d)
  PROVE  /\ \A n \in Nat : Honest(c, n) => Honest(d, n)
         /\ d.owner = "page" => d = c
<1>1. CASE d = c
  BY <1>1
<1>2. CASE d = [c EXCEPT !.owner = "document"]
  BY <1>2 DEF Honest, Calls
<1>3. CASE d = [c EXCEPT !.owner = "nobody"]
  BY <1>3 DEF Honest, Calls
<1>4. CASE d = NoCall
  BY <1>4, NoCallGood
<1> QED
  BY <1>1, <1>2, <1>3, <1>4 DEF Weakened

LEMMA PresentTyped == TypeOK => Present \in Nat /\ Present >= 1
<1> SUFFICES ASSUME TypeOK PROVE Present \in Nat /\ Present >= 1
  OBVIOUS
<1>1. cluster \in Seq(SUBSET Names) /\ cluster # << >>
  BY DEF TypeOK
<1>2. Len(cluster) \in Nat /\ Len(cluster) # 0
  BY <1>1, EmptySeq, LenProperties
<1> QED
  BY <1>2 DEF Present

(* A new state of the namespace changes nothing about what was shown.        *)
LEMMA LaterRecent ==
  ASSUME NEW d, NEW n \in Nat, NEW m \in Nat, n <= m, Recent(d, n)
  PROVE  Recent(d, m)
<1>1. d.since \in 1..n /\ d.since..n \subseteq d.since..m
  BY DEF Recent
<1>2. Within(d.page, d.since, m)
  BY <1>1 DEF Recent, Within
<1> QED
  BY <1>1, <1>2 DEF Recent

LEMMA LaterProper ==
  ASSUME NEW c, NEW d, NEW n \in Nat, NEW m \in Nat, n <= m, d.since \in Nat, Proper(c, d, n)
  PROVE  Proper(c, d, m)
<1>1. d.since..n \subseteq d.since..m
  OBVIOUS
<1> QED
  BY <1>1 DEF Proper

(* A page that has just been mounted.                                        *)
LEMMA DocumentGood ==
  ASSUME TypeOK, NEW path \in Paths, NEW leaving \in BOOLEAN
  PROVE  /\ Document(path, leaving) \in Documents
         /\ Document(path, leaving).path = path
         /\ Recent(Document(path, leaving), Present)
<1> DEFINE d == Document(path, leaving)
<1>1. Present \in Nat /\ Present >= 1
  BY PresentTyped
<1>2. d \in Documents
  BY <1>1, MountedTyped DEF Document, Documents
<1>3. /\ d.path = path /\ d.since = Present /\ d.page = Mounted(path)
  BY DEF Document
<1>4. Mounted(path).first = 0 /\ \A kind \in Kinds : Mounted(path).got[kind] = 0
  BY DEF Mounted
<1>5. path = "/" => Mounted(path).loading /\ ~Mounted(path).error
  <2>1. << "agents", "costs" >> # << >>
    OBVIOUS
  <2> QED
    BY <2>1 DEF Mounted, Loads
<1>6. "agents" \in Kinds /\ "costs" \in Kinds
  BY DEF Kinds
<1>7. Within(d.page, d.since, Present)
  BY <1>1, <1>3, <1>4 DEF Within
<1>8. path = "/" => Whole(d.page)
  BY <1>3, <1>4, <1>5, <1>6 DEF Whole
<1> QED
  BY <1>1, <1>2, <1>3, <1>7, <1>8 DEF Recent

(* Another page is shown in tab t, and keeps nothing of the old one.         *)
LEMMA ShowGood ==
  ASSUME TypeOK, ShownGood, NEW t \in Tabs, NEW path \in Paths, NEW token \in Nat,
         NEW leaving \in BOOLEAN, NEW cs \in [Slots -> Calls],
         \A k \in Slots : cs[k].tab = t /\ cs[k].status # "free" => cs[k].owner # "page",
         \A k \in Slots : Proper(cs[k], tab[cs[k].tab], Present),
         Show(t, path, token, cs, leaving), UNCHANGED cluster
  PROVE  /\ tab' \in [Tabs -> Documents] /\ calls' \in [Slots -> Calls]
         /\ ShownGood' /\ CallsGood'
         /\ \A k \in Slots :
              \/ calls'[k] = cs[k]
              \/ \E op \in Kinds : calls'[k] = Fetch(t, op, "none", token, "page")
<1> DEFINE to == Route(path, token)
           d == Document(to, leaving)
<1>1. to \in Paths
  BY RouteTyped
<1>2. tab' = [tab EXCEPT ![t] = d] /\ calls' = Send(cs, t, Loads(to), token)
  BY DEF Show
<1>3. d \in Documents /\ d.path = to /\ Recent(d, Present)
  BY <1>1, DocumentGood
<1>4. tab \in [Tabs -> Documents] /\ Present' = Present
  BY DEF TypeOK, Present
<1> HIDE DEF d, to
<1>5. tab' \in [Tabs -> Documents]
  BY <1>2, <1>3, <1>4
<1>6. ShownGood'
  BY <1>2, <1>3, <1>4 DEF ShownGood
<1>7. /\ calls' \in [Slots -> Calls]
      /\ \A k \in Slots :
           \/ calls'[k] = cs[k]
           \/ \E op \in Kinds : /\ to = "/" => op \in {"agents", "costs"}
                                /\ calls'[k] = Fetch(t, op, "none", token, "page")
  BY <1>1, <1>2, SendTyped
<1>8. ASSUME NEW k \in Slots
      PROVE  Proper(calls'[k], tab'[calls'[k].tab], Present')
  <2>1. CASE calls'[k] = cs[k]
    <3>1. cs[k] \in Calls
      OBVIOUS
    <3>2. cs[k].tab \in Tabs
      BY <3>1, CallFields
    <3>3. CASE cs[k].tab = t
      BY <2>1, <3>3 DEF Proper
    <3>4. CASE cs[k].tab # t
      <4>1. tab'[cs[k].tab] = tab[cs[k].tab]
        BY <1>2, <1>4, <3>2, <3>4
      <4> QED
        BY <4>1, <2>1, <1>4
    <3> QED
      BY <3>3, <3>4
  <2>2. ASSUME NEW op \in Kinds, to = "/" => op \in {"agents", "costs"},
               calls'[k] = Fetch(t, op, "none", token, "page")
        PROVE  Proper(calls'[k], tab'[calls'[k].tab], Present')
    <3>1. calls'[k].tab = t /\ calls'[k].op = op /\ calls'[k].status = "waiting"
      BY <2>2 DEF Fetch
    <3>2. tab'[t].path = to
      BY <1>2, <1>3, <1>4
    <3> QED
      BY <2>2, <3>1, <3>2 DEF Proper
  <2> QED
    BY <2>1, <2>2, <1>7
<1> QED
  BY <1>5, <1>6, <1>7, <1>8 DEF CallsGood

(* The page that is left keeps no request, the ones of the next are honest.  *)
LEMMA NavigateGood ==
  ASSUME TypeOK, ShownGood, NEW t \in Tabs, NEW path \in Paths, NEW token \in Nat,
         NEW cs \in [Slots -> Calls],
         \A k \in Slots : Proper(cs[k], tab[cs[k].tab], Present),
         Navigate(t, path, token, cs), UNCHANGED cluster
  PROVE  /\ tab' \in [Tabs -> Documents] /\ calls' \in [Slots -> Calls]
         /\ ShownGood' /\ CallsGood'
         /\ \A n \in Nat : token <= n /\ (\A k \in Slots : Honest(cs[k], n))
                             => \A k \in Slots : Honest(calls'[k], n)
<1> DEFINE un == Unmounted(cs, t)
<1>1. /\ un \in [Slots -> Calls]
      /\ \A k \in Slots : Weakened(cs[k], un[k]) /\ (un[k].tab = t => un[k].owner # "page")
  BY UnmountedTyped
<1>2. tab[t].leaving \in BOOLEAN
  BY DEF TypeOK, Documents
<1>3. Show(t, path, token, un, tab[t].leaving)
  BY DEF Navigate
<1> HIDE DEF un
<1>4. ASSUME NEW k \in Slots PROVE Proper(un[k], tab[un[k].tab], Present)
  <2>1. un[k].owner = "page" => un[k] = cs[k]
    BY <1>1, WeakenedGood
  <2> QED
    BY <2>1 DEF Proper
<1>5. /\ tab' \in [Tabs -> Documents] /\ calls' \in [Slots -> Calls]
      /\ ShownGood' /\ CallsGood'
      /\ \A k \in Slots :
           \/ calls'[k] = un[k]
           \/ \E op \in Kinds : calls'[k] = Fetch(t, op, "none", token, "page")
  BY <1>1, <1>2, <1>3, <1>4, ShowGood
<1>6. ASSUME NEW n \in Nat, token <= n, NEW k \in Slots, Honest(cs[k], n)
      PROVE  Honest(calls'[k], n)
  <2>1. Honest(un[k], n)
    BY <1>1, <1>6, WeakenedGood
  <2>2. \A op \in Kinds : Honest(Fetch(t, op, "none", token, "page"), n)
    BY <1>6 DEF Fetch, Honest, Kinds
  <2> QED
    BY <2>1, <2>2, <1>5
<1> QED
  BY <1>5, <1>6

LEMMA OpenGood ==
  ASSUME TypeOK, ShownGood, CallsGood, NEW t \in Tabs, NEW path \in Paths,
         OpenDocument(t, path)
  PROVE  /\ tab' \in [Tabs -> Documents] /\ calls' \in [Slots -> Calls]
         /\ ShownGood' /\ CallsGood'
         /\ \A n \in Nat : stored <= n /\ (\A k \in Slots : Honest(calls[k], n))
                             => \A k \in Slots : Honest(calls'[k], n)
<1> DEFINE un == Dropped(calls, t)
<1>0. calls \in [Slots -> Calls] /\ stored \in Nat
  BY DEF TypeOK
<1>1. /\ un \in [Slots -> Calls]
      /\ \A k \in Slots : Weakened(calls[k], un[k])
                            /\ (un[k].tab = t /\ un[k].status # "free" => un[k].owner # "page")
  BY <1>0, DroppedTyped
<1>3. Show(t, path, stored, un, FALSE) /\ UNCHANGED cluster
  BY DEF OpenDocument
<1> HIDE DEF un
<1>4. ASSUME NEW k \in Slots PROVE Proper(un[k], tab[un[k].tab], Present)
  <2>1. un[k].owner = "page" => un[k] = calls[k]
    BY <1>0, <1>1, WeakenedGood
  <2> QED
    BY <2>1 DEF Proper, CallsGood
<1>5. /\ tab' \in [Tabs -> Documents] /\ calls' \in [Slots -> Calls]
      /\ ShownGood' /\ CallsGood'
      /\ \A k \in Slots :
           \/ calls'[k] = un[k]
           \/ \E op \in Kinds : calls'[k] = Fetch(t, op, "none", stored, "page")
  BY <1>0, <1>1, <1>3, <1>4, ShowGood
<1>6. ASSUME NEW n \in Nat, stored <= n, NEW k \in Slots, Honest(calls[k], n)
      PROVE  Honest(calls'[k], n)
  <2>1. Honest(un[k], n)
    BY <1>0, <1>1, <1>6, WeakenedGood
  <2>2. \A op \in Kinds : Honest(Fetch(t, op, "none", stored, "page"), n)
    BY <1>0, <1>6 DEF Fetch, Honest, Kinds
  <2> QED
    BY <2>1, <2>2, <1>5
<1> QED
  BY <1>5, <1>6

(* What the pages show is left alone, and requests are sent or forgotten.    *)
LEMMA UndisturbedGood ==
  ASSUME TypeOK, ShownGood, CallsGood, UNCHANGED cluster,
         \A u \in Tabs : /\ tab'[u].path = tab[u].path /\ tab'[u].since = tab[u].since
                         /\ tab'[u].page.first = tab[u].page.first
                         /\ tab'[u].page.got = tab[u].page.got
                         /\ tab[u].path = "/" => tab'[u].page = tab[u].page,
         \A k \in Slots :
           \/ calls'[k] = calls[k]
           \/ calls'[k] = NoCall
           \/ /\ calls'[k].status = "waiting"
              /\ tab'[calls'[k].tab].path = "/" => calls'[k].owner # "page"
  PROVE  ShownGood' /\ CallsGood'
<1>1. Present' = Present
  BY DEF Present
<1>2. ASSUME NEW u \in Tabs PROVE Recent(tab'[u], Present')
  <2>1. Recent(tab[u], Present)
    BY DEF ShownGood
  <2>2. Within(tab'[u].page, tab'[u].since, Present)
    BY <2>1 DEF Recent, Within
  <2> QED
    BY <1>1, <2>1, <2>2 DEF Recent
<1>3. ASSUME NEW k \in Slots PROVE Proper(calls'[k], tab'[calls'[k].tab], Present')
  <2>1. CASE calls'[k] = calls[k]
    <3>1. calls[k] \in Calls /\ calls[k].tab \in Tabs
      BY CallFields DEF TypeOK
    <3>2. Proper(calls[k], tab[calls[k].tab], Present)
      BY DEF CallsGood
    <3> QED
      BY <2>1, <3>1, <3>2, <1>1 DEF Proper
  <2>2. CASE calls'[k] = NoCall
    BY <2>2, NoCallGood DEF Proper
  <2>3. CASE /\ calls'[k].status = "waiting"
             /\ tab'[calls'[k].tab].path = "/" => calls'[k].owner # "page"
    BY <2>3 DEF Proper
  <2> QED
    BY <2>1, <2>2, <2>3
<1> QED
  BY <1>2, <1>3 DEF ShownGood, CallsGood

(* The server answers, and the namespace may have a new state.               *)
LEMMA AnswerGood ==
  ASSUME TypeOK, ShownGood, CallsGood, NEW k \in Slots,
         NEW status \in {"ok", "unauthorized", "failed"}, NEW v \in Nat, Answer(k, status, v),
         calls[k].status # "free", UNCHANGED tab,
         Present' \in Nat, Present <= Present',
         status = "ok" /\ calls[k].op \in Reads => v = Present
  PROVE  /\ calls' \in [Slots -> Calls] /\ ShownGood' /\ CallsGood'
         /\ calls'[k].op = calls[k].op /\ calls'[k].status = status
         /\ calls'[k].token = 0 /\ calls'[k].value = v
         /\ \A j \in Slots \ {k} : calls'[j] = calls[j]
<1> DEFINE c == calls[k]
           d == [c EXCEPT !.status = status, !.value = v, !.arg = "none", !.token = 0]
<1>0. Present \in Nat /\ Present >= 1
  BY PresentTyped
<1>1. calls \in [Slots -> Calls] /\ c \in Calls /\ c.tab \in Tabs
  BY CallFields DEF TypeOK
<1>2. calls' = [calls EXCEPT ![k] = d]
  BY DEF Answer
<1>3. d \in Calls
  BY <1>1 DEF Calls
<1>4. /\ d.op = c.op /\ d.status = status /\ d.token = 0 /\ d.value = v
      /\ d.tab = c.tab /\ d.owner = c.owner
  BY <1>1 DEF Calls
<1> HIDE DEF d
<1>5. calls'[k] = d /\ \A j \in Slots \ {k} : calls'[j] = calls[j]
  BY <1>1, <1>2
<1>6. ShownGood'
  BY <1>0, LaterRecent DEF ShownGood
<1>7. \A t \in Tabs : tab[t].since \in 1..Present
  BY DEF ShownGood, Recent
<1>8. ASSUME NEW j \in Slots PROVE Proper(calls'[j], tab'[calls'[j].tab], Present')
  <2>1. Proper(calls[j], tab[calls[j].tab], Present) /\ calls[j].tab \in Tabs
    BY CallFields DEF CallsGood, TypeOK
  <2>2. CASE j # k
    <3>1. calls'[j] = calls[j] /\ tab' = tab
      BY <2>2, <1>5
    <3> QED
      BY <2>1, <3>1, <1>0, <1>7, LaterProper
  <2>3. CASE j = k
    <3>1. c.owner = "page" => (tab[c.tab].path = "/" => c.op \in {"agents", "costs"})
      BY <2>1, <2>3 DEF Proper
    <3>2. status = "ok" /\ c.op \in Reads => v \in tab[c.tab].since..Present'
      BY <1>0, <1>1, <1>7
    <3>3. tab' = tab /\ calls'[j] = d
      BY <2>3, <1>5
    <3> QED
      BY <3>1, <3>2, <3>3, <1>4 DEF Proper
  <2> QED
    BY <2>2, <2>3
<1>9. calls' \in [Slots -> Calls]
  BY <1>1, <1>2, <1>3
<1> QED
  BY <1>4, <1>5, <1>6, <1>8, <1>9 DEF CallsGood

(* An answer is handled by its page, if that is still mounted.               *)
LEMMA HandledGood ==
  ASSUME TypeOK, ShownGood, CallsGood, NEW k \in Slots, NEW ok \in BOOLEAN,
         calls[k].status # "free",
         ok => calls[k].status = "ok" /\ calls[k].op \in Reads,
         NEW leaving \in BOOLEAN, UNCHANGED cluster, calls' = Done(k),
         tab' = [tab EXCEPT ![calls[k].tab] = [HandledBy(k, ok) EXCEPT !.leaving = leaving]]
  PROVE  /\ tab' \in [Tabs -> Documents] /\ calls' \in [Slots -> Calls]
         /\ ShownGood' /\ CallsGood'
<1> DEFINE c == calls[k]
           old == tab[c.tab]
           after == IF c.owner = "page" THEN Handle(old.path, old.page, c.op, ok, c.value)
                                        ELSE old.page
           new == [old EXCEPT !.page = after, !.leaving = leaving]
<1>0. Present' = Present /\ Present \in Nat /\ Present >= 1
  BY PresentTyped DEF Present
<1>1. /\ calls \in [Slots -> Calls] /\ c \in Calls /\ c.tab \in Tabs /\ c.op \in Ops
      /\ c.value \in Nat
  BY CallFields DEF TypeOK
<1>2. tab \in [Tabs -> Documents] /\ old \in Documents
  BY <1>1 DEF TypeOK
<1>3. old.path \in Paths /\ old.page \in Pages /\ old.since \in Nat
  BY <1>2 DEF Documents
<1>4. Recent(old, Present) /\ Proper(c, old, Present)
  BY <1>1 DEF ShownGood, CallsGood
<1>5. [HandledBy(k, ok) EXCEPT !.leaving = leaving] = new
  BY <1>2 DEF HandledBy, Documents
<1>6. /\ after \in Pages /\ Within(after, old.since, Present)
      /\ old.path = "/" => Whole(after)
  <2>1. CASE c.owner # "page"
    BY <2>1, <1>3, <1>4 DEF Recent
  <2>2. CASE c.owner = "page"
    <3>1. /\ old.path = "/" => c.op \in {"agents", "costs"}
          /\ ok => c.value \in old.since..Present
      BY <2>2, <1>4 DEF Proper
    <3>2. ok => c.value # 0
      BY <3>1, <1>0, <1>4 DEF Recent
    <3>3. after = Handle(old.path, old.page, c.op, ok, c.value)
      BY <2>2
    <3>4. /\ Within(old.page, old.since, Present)
          /\ old.path = "/" => Whole(old.page)
      BY <1>4 DEF Recent
    <3>5. after \in Pages
      BY <3>3, <1>1, <1>3, HandleGood
    <3>6. Within(after, old.since, Present)
      BY <3>1, <3>3, <3>4, <1>0, <1>1, <1>3, HandleGood
    <3>7. old.path = "/" => Whole(after)
      BY <3>1, <3>2, <3>3, <3>4, <1>1, <1>3, HandleGood
    <3> QED
      BY <3>5, <3>6, <3>7
  <2> QED
    BY <2>1, <2>2
<1> HIDE DEF after
<1>7. /\ new \in Documents /\ new.path = old.path /\ new.since = old.since
      /\ new.page = after
  BY <1>2, <1>6 DEF Documents
<1>8. Recent(new, Present)
  BY <1>4, <1>6, <1>7 DEF Recent
<1>9. tab' = [tab EXCEPT ![c.tab] = new]
  BY <1>5
<1> HIDE DEF new
<1>10. tab' \in [Tabs -> Documents] /\ ShownGood'
  BY <1>0, <1>1, <1>2, <1>7, <1>8, <1>9 DEF ShownGood
<1>11. calls' \in [Slots -> Calls] /\ calls'[k] = NoCall
          /\ \A j \in Slots \ {k} : calls'[j] = calls[j]
  BY <1>1, NoCallTyped DEF Done
<1>12. \A u \in Tabs : tab'[u].path = tab[u].path /\ tab'[u].since = tab[u].since
  BY <1>1, <1>2, <1>7, <1>9
<1>13. ASSUME NEW j \in Slots PROVE Proper(calls'[j], tab'[calls'[j].tab], Present')
  <2>1. CASE j = k
    BY <2>1, <1>11, NoCallGood DEF Proper
  <2>2. CASE j # k
    <3>1. Proper(calls[j], tab[calls[j].tab], Present) /\ calls[j].tab \in Tabs
      BY CallFields DEF CallsGood, TypeOK
    <3> QED
      BY <3>1, <2>2, <1>0, <1>11, <1>12 DEF Proper
  <2> QED
    BY <2>1, <2>2
<1> QED
  BY <1>10, <1>11, <1>13 DEF CallsGood

-----------------------------------------------------------------------------
(* Every step keeps the invariant, action by action. *)

LEMMA InitGood == Init => DashboardInv
<1> SUFFICES ASSUME Init PROVE DashboardInv
  OBVIOUS
<1>1. PICK names \in SUBSET Names : cluster = << names >>
  BY DEF Init
<1>2. cluster \in Seq(SUBSET Names) /\ cluster # << >> /\ Present = 1
  BY <1>1 DEF Present
<1>3. calls = [k \in Slots |-> NoCall] /\ calls \in [Slots -> Calls]
  BY NoCallTyped DEF Init
<1>4. "/login" \in Paths /\ Mounted("/login") \in Pages
  BY MountedTyped DEF Paths
<1>5. tab \in [Tabs -> Documents]
  BY <1>4 DEF Init, Documents
<1>6. TypeOK
  BY <1>2, <1>3, <1>5 DEF Init, TypeOK
<1>7. ShownGood
  <2>1. Mounted("/login").first = 0 /\ \A kind \in Kinds : Mounted("/login").got[kind] = 0
    BY DEF Mounted
  <2> QED
    BY <2>1, <1>2 DEF Init, ShownGood, Recent, Within
<1>8. CallsGood
  BY <1>3, NoCallGood DEF CallsGood, Proper
<1>9. SessionGood
  BY <1>3, NoCallGood DEF Init, SessionGood
<1> QED
  BY <1>6, <1>7, <1>8, <1>9 DEF DashboardInv

LEMMA OpenStep ==
  ASSUME DashboardInv, NEW t \in Tabs, NEW path \in Paths, OpenDocument(t, path)
  PROVE  DashboardInv'
<1>1. /\ TypeOK /\ ShownGood /\ CallsGood /\ SessionGood
      /\ UNCHANGED << stored, issued, accepted, cluster, withdrawals, faults, plan, session >>
  BY DEF DashboardInv, OpenDocument
<1>2. /\ tab' \in [Tabs -> Documents] /\ calls' \in [Slots -> Calls]
      /\ ShownGood' /\ CallsGood'
      /\ \A n \in Nat : stored <= n /\ (\A k \in Slots : Honest(calls[k], n))
                          => \A k \in Slots : Honest(calls'[k], n)
  BY <1>1, OpenGood
<1>3. TypeOK'
  BY <1>1, <1>2 DEF TypeOK
<1>4. SessionGood'
  BY <1>1, <1>2 DEF SessionGood, TypeOK
<1> QED
  BY <1>2, <1>3, <1>4 DEF DashboardInv

LEMMA PlannedPaths == TypeOK => \A t \in Tabs : plan.paths[t] \subseteq Paths
  BY DashboardAssumption DEF TypeOK

LEMMA TypeStep == ASSUME DashboardInv, NEW t \in Tabs, Type(t) PROVE DashboardInv'
  BY OpenStep, PlannedPaths DEF Type, DashboardInv

LEMMA UnloadStep == ASSUME DashboardInv, NEW t \in Tabs, Unload(t) PROVE DashboardInv'
  BY OpenStep DEF Unload, Paths

LEMMA FollowStep == ASSUME DashboardInv, NEW t \in Tabs, Follow(t) PROVE DashboardInv'
<1>1. /\ TypeOK /\ ShownGood /\ CallsGood /\ SessionGood
      /\ UNCHANGED << stored, session, issued, accepted, cluster, withdrawals, faults, plan >>
  BY DEF DashboardInv, Follow, UNCHANGED_SERVER
<1>2. PICK path \in plan.paths[t] : Navigate(t, path, stored, calls)
  BY DEF Follow
<1>3. /\ path \in Paths /\ stored \in Nat /\ issued \in Nat /\ calls \in [Slots -> Calls]
      /\ \A k \in Slots : Proper(calls[k], tab[calls[k].tab], Present)
  BY <1>1, PlannedPaths DEF TypeOK, CallsGood
<1>4. /\ tab' \in [Tabs -> Documents] /\ calls' \in [Slots -> Calls]
      /\ ShownGood' /\ CallsGood'
      /\ \A n \in Nat : stored <= n /\ (\A k \in Slots : Honest(calls[k], n))
                          => \A k \in Slots : Honest(calls'[k], n)
  BY <1>1, <1>2, <1>3, NavigateGood
<1>5. TypeOK'
  BY <1>1, <1>4 DEF TypeOK
<1>6. SessionGood'
  BY <1>1, <1>3, <1>4 DEF SessionGood
<1> QED
  BY <1>4, <1>5, <1>6 DEF DashboardInv

LEMMA DoneGood ==
  ASSUME TypeOK, CallsGood, NEW k \in Slots
  PROVE  /\ Done(k) \in [Slots -> Calls]
         /\ \A j \in Slots : /\ Done(k)[j] \in {calls[j], NoCall}
                             /\ Proper(Done(k)[j], tab[Done(k)[j].tab], Present)
                             /\ \A n \in Nat : Honest(calls[j], n) => Honest(Done(k)[j], n)
<1>1. calls \in [Slots -> Calls]
  BY DEF TypeOK
<1>2. Done(k) \in [Slots -> Calls] /\ \A j \in Slots : Done(k)[j] \in {calls[j], NoCall}
  BY <1>1, NoCallTyped DEF Done
<1> QED
  BY <1>2, NoCallGood DEF CallsGood, Proper

LEMMA LoggedInStep == ASSUME DashboardInv, NEW k \in Slots, LoggedIn(k) PROVE DashboardInv'
<1> DEFINE c == calls[k]
<1>1. /\ TypeOK /\ ShownGood /\ CallsGood /\ SessionGood
      /\ UNCHANGED << issued, accepted, cluster, withdrawals, faults, plan >>
      /\ stored' = c.value /\ session' = IF session = "none" THEN "open" ELSE session
      /\ c.status = "ok" /\ c.op = "login"
      /\ Navigate(c.tab, "/", c.value, Done(k))
  BY DEF DashboardInv, LoggedIn, Arrived, UNCHANGED_SERVER
<1>2. /\ c \in Calls /\ c.tab \in Tabs /\ c.value \in Nat /\ "/" \in Paths /\ issued \in Nat
  BY <1>1, CallFields DEF TypeOK, Paths, Protected
<1>3. /\ Done(k) \in [Slots -> Calls]
      /\ \A j \in Slots : /\ Proper(Done(k)[j], tab[Done(k)[j].tab], Present)
                          /\ \A n \in Nat : Honest(calls[j], n) => Honest(Done(k)[j], n)
  BY <1>1, DoneGood
<1>4. /\ tab' \in [Tabs -> Documents] /\ calls' \in [Slots -> Calls]
      /\ ShownGood' /\ CallsGood'
      /\ \A n \in Nat : c.value <= n /\ (\A j \in Slots : Honest(Done(k)[j], n))
                          => \A j \in Slots : Honest(calls'[j], n)
  BY <1>1, <1>2, <1>3, NavigateGood
<1>5. TypeOK'
  BY <1>1, <1>2, <1>4 DEF TypeOK
<1>6. SessionGood'
  <2> SUFFICES ASSUME session # "ended"
               PROVE  /\ accepted' = 1..issued' /\ stored' \in 0..issued' /\ stored' # 0
                      /\ \A j \in Slots : Honest(calls'[j], issued')
    BY <1>1 DEF SessionGood
  <2>1. accepted = 1..issued /\ \A j \in Slots : Honest(calls[j], issued)
    BY <1>1 DEF SessionGood
  <2>2. c.value \in 1..issued
    BY <2>1, <1>1 DEF Honest
  <2> QED
    BY <2>1, <2>2, <1>1, <1>2, <1>3, <1>4
<1> QED
  BY <1>4, <1>5, <1>6 DEF DashboardInv

LEMMA CreatedStep == ASSUME DashboardInv, NEW k \in Slots, Created(k) PROVE DashboardInv'
<1> DEFINE c == calls[k]
<1>1. /\ TypeOK /\ ShownGood /\ CallsGood /\ SessionGood
      /\ UNCHANGED << stored, session, issued, accepted, cluster, withdrawals, faults, plan >>
  BY DEF DashboardInv, Created, UNCHANGED_SERVER
<1>2. /\ c \in Calls /\ c.tab \in Tabs /\ "/agents" \in Paths /\ issued \in Nat
      /\ stored \in Nat /\ tab \in [Tabs -> Documents]
  BY <1>1, CallFields DEF TypeOK, Paths, Protected
<1>3. /\ Done(k) \in [Slots -> Calls]
      /\ \A j \in Slots : /\ Done(k)[j] \in {calls[j], NoCall}
                          /\ Proper(Done(k)[j], tab[Done(k)[j].tab], Present)
                          /\ \A n \in Nat : Honest(calls[j], n) => Honest(Done(k)[j], n)
  BY <1>1, DoneGood
<1>4. /\ tab' \in [Tabs -> Documents] /\ calls' \in [Slots -> Calls]
      /\ ShownGood' /\ CallsGood'
      /\ \A n \in Nat : stored <= n /\ (\A j \in Slots : Honest(calls[j], n))
                          => \A j \in Slots : Honest(calls'[j], n)
  <2>1. CASE tab[c.tab].path = "/agents"
    <3>1. tab' = tab /\ calls' = Done(k)
      BY <2>1 DEF Created
    <3>2. \A j \in Slots : calls'[j] = calls[j] \/ calls'[j] = NoCall
      BY <3>1, <1>3
    <3>3. ShownGood' /\ CallsGood'
      BY <3>1, <3>2, <1>1, UndisturbedGood
    <3> QED
      BY <3>1, <3>3, <1>2, <1>3
  <2>2. CASE tab[c.tab].path # "/agents"
    <3>1. Navigate(c.tab, "/agents", stored, Done(k))
      BY <2>2 DEF Created
    <3> QED
      BY <3>1, <1>1, <1>2, <1>3, NavigateGood
  <2> QED
    BY <2>1, <2>2
<1>5. TypeOK'
  BY <1>1, <1>4 DEF TypeOK
<1>6. SessionGood'
  BY <1>1, <1>2, <1>4 DEF SessionGood
<1> QED
  BY <1>4, <1>5, <1>6 DEF DashboardInv

(* A page that is not the dashboard sends a request.                         *)
LEMMA SentStep ==
  ASSUME DashboardInv, NEW t \in Tabs, NEW op \in Ops, NEW arg \in Args,
         tab[t].path # "/", calls' = Sent(t, op, arg, calls), op = "create" => arg \in Names,
         op = "login" => arg = "right" \/ session' = "ended",
         NEW loading \in BOOLEAN, NEW error \in BOOLEAN,
         tab' = [tab EXCEPT ![t].page.loading = loading, ![t].page.error = error],
         session' \in {session, "ended"},
         UNCHANGED << stored, issued, accepted, cluster, withdrawals, faults, plan >>
  PROVE  DashboardInv'
<1>1. TypeOK /\ ShownGood /\ CallsGood /\ SessionGood
  BY DEF DashboardInv
<1>2. /\ tab \in [Tabs -> Documents] /\ tab[t] \in Documents /\ tab[t].page \in Pages
      /\ calls \in [Slots -> Calls] /\ stored \in Nat /\ issued \in Nat
  BY <1>1 DEF TypeOK, Documents
<1> DEFINE d == [tab[t] EXCEPT !.page.loading = loading, !.page.error = error]
<1>3. /\ d \in Documents /\ d.path = tab[t].path /\ d.since = tab[t].since
      /\ d.page.first = tab[t].page.first /\ d.page.got = tab[t].page.got
  BY <1>2 DEF Documents, Pages
<1>4. tab' = [tab EXCEPT ![t] = d]
  BY <1>2
<1> HIDE DEF d
<1>5. /\ tab' \in [Tabs -> Documents]
      /\ \A u \in Tabs : /\ tab'[u].path = tab[u].path /\ tab'[u].since = tab[u].since
                         /\ tab'[u].page.first = tab[u].page.first
                         /\ tab'[u].page.got = tab[u].page.got
                         /\ tab[u].path = "/" => tab'[u].page = tab[u].page
  BY <1>2, <1>3, <1>4
<1>6. /\ calls' \in [Slots -> Calls]
      /\ \A k \in Slots : calls'[k] = calls[k] \/ calls'[k] = Fetch(t, op, arg, stored, "page")
  BY <1>2, SentTyped
<1>7. ShownGood' /\ CallsGood'
  <2>1. LET c == Fetch(t, op, arg, stored, "page")
        IN c.status = "waiting" /\ c.tab = t
    BY DEF Fetch
  <2>2. tab'[t].path # "/"
    BY <1>5
  <2>3. \A k \in Slots :
          \/ calls'[k] = calls[k]
          \/ calls'[k] = NoCall
          \/ /\ calls'[k].status = "waiting"
             /\ tab'[calls'[k].tab].path = "/" => calls'[k].owner # "page"
    BY <1>6, <2>1, <2>2
  <2> QED
    BY <1>1, <1>5, <2>3, UndisturbedGood
<1>8. TypeOK'
  BY <1>1, <1>5, <1>6 DEF TypeOK
<1>9. SessionGood'
  <2> SUFFICES ASSUME session' # "ended"
               PROVE  /\ accepted' = 1..issued' /\ stored' \in 0..issued'
                      /\ session' = "open" => stored' # 0
                      /\ \A k \in Slots : Honest(calls'[k], issued')
    BY DEF SessionGood
  <2>1. /\ session' = session /\ accepted = 1..issued /\ stored \in 0..issued
        /\ session = "open" => stored # 0
        /\ \A k \in Slots : Honest(calls[k], issued)
    BY <1>1 DEF SessionGood
  <2>2. Honest(Fetch(t, op, arg, stored, "page"), issued)
    BY <2>1, <1>2, FetchGood
  <2> QED
    BY <2>1, <2>2, <1>6
<1> QED
  BY <1>7, <1>8, <1>9 DEF DashboardInv

LEMMA PageOfTab ==
  ASSUME TypeOK, NEW t \in Tabs
  PROVE  /\ tab[t].page.loading \in BOOLEAN /\ tab[t].page.error \in BOOLEAN
         /\ tab[t].page.got \in [Kinds -> Nat]
         /\ tab = [tab EXCEPT ![t].page.loading = tab[t].page.loading,
                              ![t].page.error = tab[t].page.error]
<1>1. tab \in [Tabs -> Documents] /\ tab[t] \in Documents /\ tab[t].page \in Pages
  BY DEF TypeOK, Documents
<1>2. /\ tab[t].page.loading \in BOOLEAN /\ tab[t].page.error \in BOOLEAN
      /\ tab[t].page.got \in [Kinds -> Nat]
  BY <1>1 DEF Pages
<1>3. tab[t] = [tab[t] EXCEPT !.page.loading = tab[t].page.loading,
                              !.page.error = tab[t].page.error]
  BY <1>1 DEF Documents, Pages
<1>4. [tab EXCEPT ![t].page.loading = tab[t].page.loading,
                  ![t].page.error = tab[t].page.error]
        = [tab EXCEPT ![t] = [tab[t] EXCEPT !.page.loading = tab[t].page.loading,
                                            !.page.error = tab[t].page.error]]
  BY <1>1
<1> QED
  BY <1>1, <1>2, <1>3, <1>4

LEMMA SubmitStep ==
  ASSUME DashboardInv, NEW t \in Tabs, NEW path \in Paths \ {"/"},
         NEW op \in {"login", "create", "preview"}, NEW arg \in Args,
         Submit(t, path, op, arg), op = "create" => arg \in Names, op = "login" => arg = "right" \/ session' = "ended",
         session' \in {session, "ended"}
  PROVE  DashboardInv'
<1>1. /\ tab[t].path # "/" /\ calls' = Sent(t, op, arg, calls)
      /\ UNCHANGED << stored, issued, accepted, cluster, withdrawals, faults, plan >>
  BY DEF Submit, UNCHANGED_SERVER
<1> DEFINE error == IF op = "preview" THEN tab[t].page.error ELSE FALSE
<1>2. error \in BOOLEAN
  BY PageOfTab DEF DashboardInv
<1>3. tab' = [tab EXCEPT ![t].page.loading = TRUE, ![t].page.error = error]
  <2>1. tab \in [Tabs -> Documents] /\ tab[t] \in Documents /\ tab[t].page \in Pages
    BY DEF DashboardInv, TypeOK, Documents
  <2>2. tab' = [tab EXCEPT ![t].page.loading = TRUE,
                           ![t].page.error = IF op = "preview" THEN @ ELSE FALSE]
    BY DEF Submit
  <2> QED
    BY <2>1, <2>2 DEF Documents, Pages
<1> HIDE DEF error
<1>4. op \in Ops
  BY DEF Ops
<1> QED
  BY <1>1, <1>2, <1>3, <1>4, SentStep

LEMMA FormStep ==
  ASSUME DashboardInv, NEW t \in Tabs, Login(t) \/ Mistype(t) \/ Create(t) \/ RunPreview(t)
  PROVE  DashboardInv'
<1>0. {"/login", "/agents/new", "/simulation"} \subseteq Paths \ {"/"}
        /\ {"right", "wrong", "none"} \subseteq Args /\ Names \subseteq Args
  BY DEF Paths, Protected, Args
<1>1. CASE Login(t)
  BY <1>0, <1>1, SubmitStep DEF Login
<1>2. CASE Mistype(t)
  BY <1>0, <1>2, SubmitStep DEF Mistype
<1>3. CASE Create(t)
  BY <1>0, <1>3, SubmitStep DEF Create
<1>4. CASE RunPreview(t)
  BY <1>0, <1>4, SubmitStep DEF RunPreview
<1> QED
  BY <1>1, <1>2, <1>3, <1>4

LEMMA OfTyped == ASSUME TypeOK PROVE \A v \in Nat : Of(cluster, v) \subseteq Names
<1>1. cluster \in Seq(SUBSET Names)
  BY DEF TypeOK
<1>2. \A v \in DOMAIN cluster : cluster[v] \in SUBSET Names
  BY <1>1, ElementOfSeq
<1> QED
  BY <1>2 DEF Of

LEMMA RowStep ==
  ASSUME DashboardInv, NEW t \in Tabs, Delete(t) \/ Select(t)
  PROVE  DashboardInv'
<1>1. TypeOK /\ tab[t].page.got \in [Kinds -> Nat]
  BY PageOfTab DEF DashboardInv
<1>2. {"agents", "attestations"} \subseteq Kinds /\ {"delete", "detail"} \subseteq Ops
  BY DEF Kinds, Ops
<1>3. /\ LiveAgentsView(tab[t].page, cluster).agents \subseteq Names
      /\ AttestationView(tab[t].page, cluster).reports \subseteq Names
  <2>1. /\ Of(cluster, tab[t].page.got["agents"]) \subseteq Names
        /\ Of(cluster, tab[t].page.got["attestations"]) \subseteq Names
    BY <1>1, <1>2, OfTyped
  <2> QED
    BY <2>1 DEF LiveAgentsView, AttestationView
<1>4. PICK op \in {"delete", "detail"}, n \in Names : calls' = Sent(t, op, n, calls)
  <2>1. CASE Delete(t)
    BY <2>1, <1>3 DEF Delete
  <2>2. CASE Select(t)
    BY <2>2, <1>3 DEF Select
  <2> QED
    BY <2>1, <2>2
<1>5. /\ tab[t].path # "/" /\ session' = session /\ tab' = tab
      /\ UNCHANGED << stored, issued, accepted, cluster, withdrawals, faults, plan >>
  BY DEF Delete, Select, UNCHANGED_SERVER
<1>6. op \in Ops /\ n \in Args /\ op # "login"
  BY <1>2, <1>4 DEF Args
<1> QED
  BY <1>1, <1>4, <1>5, <1>6, PageOfTab, SentStep

LEMMA RefreshStep == ASSUME DashboardInv, NEW t \in Tabs, Refresh(t) PROVE DashboardInv'
<1>1. /\ tab[t].path # "/" /\ session' = session
      /\ calls' = Sent(t, "agents", "none", calls)
      /\ tab' = [tab EXCEPT ![t].page.loading = TRUE]
      /\ UNCHANGED << stored, issued, accepted, cluster, withdrawals, faults, plan >>
  BY DEF Refresh, UNCHANGED_SERVER
<1>2. "agents" \in Ops /\ "none" \in Args
  BY DEF Ops, Kinds, Args
<1>3. tab' = [tab EXCEPT ![t].page.loading = TRUE, ![t].page.error = tab[t].page.error]
  <2>1. tab \in [Tabs -> Documents] /\ tab[t] \in Documents /\ tab[t].page \in Pages
    BY DEF DashboardInv, TypeOK, Documents
  <2> QED
    BY <2>1, <1>1 DEF Documents, Pages
<1>4. tab[t].page.error \in BOOLEAN
  BY PageOfTab DEF DashboardInv
<1> QED
  BY <1>1, <1>2, <1>3, <1>4, SentStep

(* Signing out, and forgetting a request of a document that is gone.          *)
LEMMA LeaveStep ==
  ASSUME DashboardInv,
         (\E t \in Tabs : SignOut(t)) \/ (\E k \in Slots : Forget(k))
  PROVE  DashboardInv'
<1>1. TypeOK /\ ShownGood /\ CallsGood /\ SessionGood
  BY DEF DashboardInv
<1>2. tab \in [Tabs -> Documents] /\ calls \in [Slots -> Calls] /\ issued \in Nat
  BY <1>1 DEF TypeOK
<1>3. ASSUME NEW t \in Tabs, SignOut(t) PROVE DashboardInv'
  <2>1. /\ stored' = 0 /\ session' = "ended" /\ tab' = [tab EXCEPT ![t].leaving = TRUE]
        /\ UNCHANGED << calls, issued, accepted, cluster, withdrawals, faults, plan >>
    BY <1>3 DEF SignOut, UNCHANGED_SERVER
  <2>2. tab[t] \in Documents
    BY <1>2
  <2> DEFINE d == [tab[t] EXCEPT !.leaving = TRUE]
  <2>3. /\ d \in Documents /\ d.path = tab[t].path /\ d.since = tab[t].since
        /\ d.page = tab[t].page
    BY <2>2 DEF Documents
  <2>4. tab' = [tab EXCEPT ![t] = d]
    BY <2>1, <1>2
  <2> HIDE DEF d
  <2>5. /\ tab' \in [Tabs -> Documents]
        /\ \A u \in Tabs : /\ tab'[u].path = tab[u].path /\ tab'[u].since = tab[u].since
                           /\ tab'[u].page = tab[u].page
    BY <1>2, <2>3, <2>4
  <2>6. ShownGood' /\ CallsGood'
    BY <1>1, <2>1, <2>5, UndisturbedGood
  <2>7. TypeOK' /\ SessionGood'
    BY <1>1, <2>1, <2>5 DEF TypeOK, SessionGood
  <2> QED
    BY <2>6, <2>7 DEF DashboardInv
<1>4. ASSUME NEW k \in Slots, Forget(k) PROVE DashboardInv'
  <2>1. /\ calls' = Done(k)
        /\ UNCHANGED << stored, tab, session, issued, accepted, cluster, withdrawals, faults, plan >>
    BY <1>4 DEF Forget, UNCHANGED_SERVER
  <2>2. /\ calls' \in [Slots -> Calls]
        /\ \A j \in Slots : /\ calls'[j] = calls[j] \/ calls'[j] = NoCall
                            /\ Honest(calls[j], issued) => Honest(calls'[j], issued)
    BY <1>1, <1>2, <2>1, DoneGood
  <2>3. ShownGood' /\ CallsGood'
    BY <1>1, <2>1, <2>2, UndisturbedGood
  <2>4. TypeOK'
    BY <1>1, <2>1, <2>2 DEF TypeOK
  <2>5. SessionGood'
    BY <1>1, <2>1, <2>2 DEF SessionGood
  <2> QED
    BY <2>3, <2>4, <2>5 DEF DashboardInv
<1> QED
  BY <1>3, <1>4

LEMMA DeletedStep == ASSUME DashboardInv, NEW k \in Slots, Deleted(k) PROVE DashboardInv'
<1> DEFINE c == calls[k]
           t == c.tab
           f == Fetch(t, "agents", "none", stored, c.owner)
           loading == tab[t].page.loading \/ c.owner = "page"
           d == [tab[t] EXCEPT !.page.loading = loading]
<1>1. /\ TypeOK /\ ShownGood /\ CallsGood /\ SessionGood
      /\ UNCHANGED << stored, session, issued, accepted, cluster, withdrawals, faults, plan >>
      /\ c.status = "ok" /\ c.op = "delete"
      /\ tab' = [tab EXCEPT ![t].page.loading = @ \/ (c.owner = "page")]
      /\ calls' = [calls EXCEPT ![k] = f]
  BY DEF DashboardInv, Deleted, Arrived, UNCHANGED_SERVER
<1>2. /\ calls \in [Slots -> Calls] /\ c \in Calls /\ t \in Tabs /\ stored \in Nat
      /\ c.owner \in {"page", "document", "nobody"} /\ issued \in Nat
      /\ tab \in [Tabs -> Documents] /\ tab[t] \in Documents /\ tab[t].page \in Pages
  BY <1>1, CallFields DEF TypeOK, Documents
<1>3. tab[t].path = "/" => c.owner # "page"
  <2>1. Proper(c, tab[t], Present)
    BY <1>1 DEF CallsGood
  <2> QED
    BY <2>1, <1>1 DEF Proper
<1>4. f \in Calls /\ f.status = "waiting" /\ f.tab = t /\ f.owner = c.owner
  BY <1>2, FetchTyped DEF Fetch, Ops, Kinds, Args
<1>5. stored <= issued => Honest(f, issued)
  BY <1>2 DEF Fetch, Honest
<1>6. /\ d \in Documents /\ d.path = tab[t].path /\ d.since = tab[t].since
      /\ d.page.first = tab[t].page.first /\ d.page.got = tab[t].page.got
      /\ tab[t].path = "/" => d.page = tab[t].page
  <2>1. tab[t].page.loading \in BOOLEAN /\ loading \in BOOLEAN
    BY <1>2 DEF Pages
  <2>2. tab[t].path = "/" => loading = tab[t].page.loading
    BY <1>3, <2>1
  <2> HIDE DEF loading
  <2> QED
    BY <2>1, <2>2, <1>2 DEF Documents, Pages
<1>7. tab' = [tab EXCEPT ![t] = d]
  BY <1>1, <1>2
<1> HIDE DEF d, f
<1>8. /\ tab' \in [Tabs -> Documents]
      /\ \A u \in Tabs : /\ tab'[u].path = tab[u].path /\ tab'[u].since = tab[u].since
                         /\ tab'[u].page.first = tab[u].page.first
                         /\ tab'[u].page.got = tab[u].page.got
                         /\ tab[u].path = "/" => tab'[u].page = tab[u].page
  BY <1>2, <1>6, <1>7
<1>9. /\ calls' \in [Slots -> Calls] /\ calls'[k] = f
      /\ \A j \in Slots \ {k} : calls'[j] = calls[j]
  BY <1>1, <1>2, <1>4
<1>10. \A j \in Slots :
         \/ calls'[j] = calls[j]
         \/ calls'[j] = NoCall
         \/ /\ calls'[j].status = "waiting"
            /\ tab'[calls'[j].tab].path = "/" => calls'[j].owner # "page"
  BY <1>2, <1>3, <1>4, <1>8, <1>9
<1>11. ShownGood' /\ CallsGood'
  BY <1>1, <1>8, <1>10, UndisturbedGood
<1>12. TypeOK'
  BY <1>1, <1>8, <1>9 DEF TypeOK
<1>13. SessionGood'
  BY <1>1, <1>2, <1>5, <1>9 DEF SessionGood
<1> QED
  BY <1>11, <1>12, <1>13 DEF DashboardInv

(* An answer of the server.                                                  *)
LEMMA AnsweredStep ==
  ASSUME DashboardInv, NEW k \in Slots, NEW status \in {"ok", "unauthorized", "failed"},
         NEW v \in Nat, Answer(k, status, v), calls[k].status # "free",
         status = "ok" /\ calls[k].op \in Reads => v = Present,
         cluster' \in Seq(SUBSET Names), cluster' # << >>, Len(cluster) <= Len(cluster'),
         faults' \in Nat, issued' \in Nat, issued <= issued',
         accepted' \in SUBSET (1..issued'),
         session # "ended" =>
           /\ accepted' = 1..issued' /\ status # "unauthorized"
           /\ calls[k].op = "login" /\ status = "ok" => v \in 1..issued',
         UNCHANGED << stored, tab, withdrawals, plan, session >>
  PROVE  DashboardInv'
<1>1. TypeOK /\ ShownGood /\ CallsGood /\ SessionGood
  BY DEF DashboardInv
<1>2. Present' \in Nat /\ Present <= Present'
  <2>1. Len(cluster') \in Nat
    BY LenProperties
  <2> QED
    BY <2>1 DEF Present
<1>3. /\ calls' \in [Slots -> Calls] /\ ShownGood' /\ CallsGood'
      /\ calls'[k].op = calls[k].op /\ calls'[k].status = status
      /\ calls'[k].token = 0 /\ calls'[k].value = v
      /\ \A j \in Slots \ {k} : calls'[j] = calls[j]
  BY <1>1, <1>2, AnswerGood
<1>4. TypeOK'
  BY <1>1, <1>3 DEF TypeOK
<1>5. SessionGood'
  <2> SUFFICES ASSUME session # "ended"
               PROVE  /\ stored \in 0..issued'
                      /\ session = "open" => stored # 0
                      /\ \A j \in Slots : Honest(calls'[j], issued')
    BY DEF SessionGood
  <2>0. issued \in Nat
    BY <1>1 DEF TypeOK
  <2>1. /\ stored \in 0..issued
        /\ session = "open" => stored # 0
        /\ \A j \in Slots : Honest(calls[j], issued)
    BY <1>1 DEF SessionGood
  <2>2. \A j \in Slots \ {k} : Honest(calls'[j], issued')
    BY <1>3, <2>0, <2>1 DEF Honest
  <2>3. Honest(calls'[k], issued')
    BY <1>3, <2>0 DEF Honest
  <2> QED
    BY <2>0, <2>1, <2>2, <2>3
<1> QED
  BY <1>3, <1>4, <1>5 DEF DashboardInv

(* An answer that changes nothing in the cluster and hands out no token.     *)
LEMMA RepliedStep ==
  ASSUME DashboardInv, NEW k \in Slots, NEW status \in {"ok", "unauthorized", "failed"},
         NEW v \in Nat, Answer(k, status, v), calls[k].status # "free",
         status = "ok" /\ calls[k].op \in Reads => v = Present,
         faults' \in Nat,
         session # "ended" => status # "unauthorized" /\ ~(calls[k].op = "login" /\ status = "ok"),
         UNCHANGED << stored, issued, accepted, cluster, tab, withdrawals, plan, session >>
  PROVE  DashboardInv'
<1>1. TypeOK /\ SessionGood
  BY DEF DashboardInv
<1>2. /\ issued' \in Nat /\ issued <= issued' /\ accepted' \in SUBSET (1..issued')
      /\ cluster' \in Seq(SUBSET Names) /\ cluster' # << >>
      /\ Len(cluster) <= Len(cluster')
  BY <1>1, LenProperties DEF TypeOK
<1>3. session # "ended" => accepted' = 1..issued'
  BY <1>1 DEF SessionGood
<1>4. UNCHANGED << stored, tab, withdrawals, plan, session >>
  OBVIOUS
<1> QED
  BY <1>2, <1>3, <1>4, AnsweredStep

LEMMA ServeStep ==
  ASSUME DashboardInv, NEW k \in Slots, Serve(k) \/ Fail(k)
  PROVE  DashboardInv'
<1> DEFINE c == calls[k]
<1>1. TypeOK /\ SessionGood
  BY DEF DashboardInv
<1>2. /\ c \in Calls /\ c.op \in Ops /\ c.token \in Nat /\ issued \in Nat
      /\ accepted \in SUBSET (1..issued) /\ faults \in Nat
      /\ cluster \in Seq(SUBSET Names) /\ cluster # << >> /\ Len(cluster) \in Nat
      /\ Present = Len(cluster)
  BY <1>1, CallFields, LenProperties DEF TypeOK, Present
<1>3. session # "ended" => accepted = 1..issued /\ Honest(c, issued)
  BY <1>1 DEF SessionGood
<1>4. "login" \notin Reads /\ "create" \notin Reads /\ "delete" \notin Reads
  BY DEF Reads, Kinds
<1>5. CASE AnswerLogin(k)
  <2>1. c.status = "waiting" /\ c.op = "login"
          /\ UNCHANGED << stored, cluster, tab, withdrawals, faults, plan, session >>
    BY <1>5 DEF AnswerLogin, Waiting
  <2>2. CASE c.arg = "right"
    <3>1. /\ issued' = issued + 1 /\ accepted' = accepted \cup {issued + 1}
          /\ Answer(k, "ok", issued + 1)
      BY <1>5, <2>2 DEF AnswerLogin
    <3>2. accepted' \in SUBSET (1..issued') /\ (accepted = 1..issued => accepted' = 1..issued')
      BY <3>1, <1>2
    <3>3. issued' \in Nat /\ issued <= issued' /\ issued + 1 \in 1..issued'
      BY <3>1, <1>2
    <3>4. session # "ended" => accepted' = 1..issued'
      BY <3>2, <1>3
    <3>5. /\ cluster' \in Seq(SUBSET Names) /\ cluster' # << >>
          /\ Len(cluster) <= Len(cluster') /\ faults' \in Nat
      BY <2>1, <1>2
    <3>6. calls[k].status # "free" /\ calls[k].op \notin Reads
            /\ UNCHANGED << stored, tab, withdrawals, plan, session >>
      BY <2>1, <1>4
    <3> HIDE DEF c
    <3> QED
      BY <3>1, <3>2, <3>3, <3>4, <3>5, <3>6, AnsweredStep
  <2>3. CASE c.arg # "right"
    <3>1. Answer(k, "unauthorized", 0) /\ UNCHANGED << issued, accepted >>
      BY <1>5, <2>3 DEF AnswerLogin
    <3>2. session = "ended"
      BY <2>1, <2>3, <1>3 DEF Honest
    <3> QED
      BY <2>1, <3>1, <3>2, <1>2, <1>4, RepliedStep
  <2> QED
    BY <2>2, <2>3
<1>6. CASE Refuse(k)
  <2>1. /\ c.status = "waiting" /\ c.op # "login" /\ c.token \notin accepted
        /\ Answer(k, IF c.token = 0 THEN "failed" ELSE "unauthorized", 0)
        /\ UNCHANGED << stored, issued, accepted, cluster, tab, withdrawals, faults, plan, session >>
    BY <1>6 DEF Refuse, Waiting
  <2> DEFINE status == IF c.token = 0 THEN "failed" ELSE "unauthorized"
  <2>2. session # "ended" => status # "unauthorized"
    BY <2>1, <1>2, <1>3 DEF Honest
  <2>3. status \in {"unauthorized", "failed"}
    OBVIOUS
  <2> HIDE DEF status
  <2>4. Answer(k, status, 0)
    BY <2>1 DEF status
  <2> QED
    BY <2>1, <2>2, <2>3, <2>4, <1>2, RepliedStep
<1>7. CASE AnswerRead(k)
  <2>1. /\ c.status = "waiting" /\ c.op # "login"
        /\ Answer(k, "failed", 0) \/ Answer(k, "ok", Present)
        /\ UNCHANGED << stored, issued, accepted, cluster, tab, withdrawals, faults, plan, session >>
    BY <1>7 DEF AnswerRead, Admitted, Waiting
  <2>2. CASE Answer(k, "failed", 0)
    BY <2>1, <2>2, <1>2, RepliedStep
  <2>3. CASE Answer(k, "ok", Present)
    BY <2>1, <2>3, <1>2, <1>4, RepliedStep
  <2> QED
    BY <2>1, <2>2, <2>3
<1>8. CASE AnswerWrite(k)
  <2> DEFINE changed == IF c.op = "create" THEN Contents \cup {c.arg} ELSE Contents \ {c.arg}
  <2>1. /\ c.status = "waiting" /\ c.op \in {"create", "delete"}
        /\ \/ cluster' = Append(cluster, changed) /\ Answer(k, "ok", 0)
           \/ UNCHANGED cluster /\ Answer(k, "failed", 0)
        /\ UNCHANGED << stored, issued, accepted, tab, withdrawals, faults, plan, session >>
    BY <1>8 DEF AnswerWrite, Admitted, Waiting
  <2>2. CASE cluster' = Append(cluster, changed) /\ Answer(k, "ok", 0)
    <3>1. Contents \subseteq Names
      BY <1>1, <1>2, OfTyped DEF Contents
    <3>2. changed \in SUBSET Names
      BY <2>1, <3>1, <1>2 DEF Calls
    <3> HIDE DEF changed
    <3>3. /\ cluster' \in Seq(SUBSET Names) /\ cluster' # << >>
          /\ Len(cluster') = Len(cluster) + 1
      BY <2>2, <3>2, <1>2, AppendProperties
    <3>4. /\ issued' \in Nat /\ issued <= issued' /\ accepted' \in SUBSET (1..issued')
          /\ Len(cluster) <= Len(cluster') /\ faults' \in Nat
      BY <2>1, <3>3, <1>2
    <3>5. session # "ended" => accepted' = 1..issued'
      BY <2>1, <1>3
    <3>6. /\ calls[k].status # "free" /\ calls[k].op \notin Reads /\ calls[k].op # "login"
          /\ UNCHANGED << stored, tab, withdrawals, plan, session >>
      BY <2>1, <1>4
    <3> HIDE DEF c
    <3> QED
      BY <2>2, <3>3, <3>4, <3>5, <3>6, AnsweredStep
  <2>3. CASE UNCHANGED cluster /\ Answer(k, "failed", 0)
    BY <2>1, <2>3, <1>2, <1>4, RepliedStep
  <2> QED
    BY <2>1, <2>2, <2>3
<1>9. CASE Fail(k)
  <2>1. /\ c.status \in {"waiting", "ok", "unauthorized"} /\ faults' = faults + 1
        /\ Answer(k, "failed", 0)
        /\ UNCHANGED << stored, issued, accepted, cluster, tab, withdrawals, plan, session >>
    BY <1>9 DEF Fail
  <2> QED
    BY <2>1, <1>2, RepliedStep
<1> QED
  BY <1>5, <1>6, <1>7, <1>8, <1>9 DEF Serve

(* The handlers that set the state of their page.                            *)
LEMMA HandledStep ==
  ASSUME DashboardInv, NEW k \in Slots, Unauthorized(k) \/ Failed(k) \/ Loaded(k)
  PROVE  DashboardInv'
<1> DEFINE c == calls[k]
<1>1. TypeOK /\ ShownGood /\ CallsGood /\ SessionGood
  BY DEF DashboardInv
<1>2. /\ calls \in [Slots -> Calls] /\ c.tab \in Tabs /\ tab \in [Tabs -> Documents]
      /\ tab[c.tab] \in Documents /\ issued \in Nat
  BY <1>1, CallFields DEF TypeOK
<1>3. ASSUME NEW ok \in BOOLEAN
      PROVE  HandledBy(k, ok) = [HandledBy(k, ok) EXCEPT !.leaving = tab[c.tab].leaving]
               /\ tab[c.tab].leaving \in BOOLEAN
  BY <1>2 DEF HandledBy, Documents
<1>4. PICK ok \in BOOLEAN, leaving \in BOOLEAN :
        /\ tab' = [tab EXCEPT ![c.tab] = [HandledBy(k, ok) EXCEPT !.leaving = leaving]]
        /\ ok => c.status = "ok" /\ c.op \in Reads
  <2>1. CASE Unauthorized(k)
    BY <2>1 DEF Unauthorized
  <2>2. CASE Failed(k)
    BY <2>2, <1>3 DEF Failed
  <2>3. CASE Loaded(k)
    BY <2>3, <1>3 DEF Loaded, Arrived, Reads
  <2> QED
    BY <2>1, <2>2, <2>3
<1>5. /\ c.status # "free" /\ calls' = Done(k)
      /\ UNCHANGED << session, issued, accepted, cluster, withdrawals, faults, plan >>
      /\ stored' = stored \/ (stored' = 0 /\ c.status = "unauthorized")
  BY DEF Unauthorized, Failed, Loaded, Arrived, UNCHANGED_SERVER
<1>6. /\ tab' \in [Tabs -> Documents] /\ calls' \in [Slots -> Calls]
      /\ ShownGood' /\ CallsGood'
  BY <1>1, <1>4, <1>5, HandledGood
<1>7. TypeOK'
  BY <1>1, <1>5, <1>6 DEF TypeOK
<1>8. SessionGood'
  <2>1. session # "ended" => c.status # "unauthorized"
    BY <1>1 DEF SessionGood, Honest
  <2>2. \A j \in Slots : Honest(calls[j], issued) => Honest(calls'[j], issued)
    BY <1>1, <1>2, <1>5, DoneGood
  <2> QED
    BY <2>1, <2>2, <1>1, <1>5 DEF SessionGood
<1> QED
  BY <1>6, <1>7, <1>8 DEF DashboardInv

LEMMA WithdrawStep == ASSUME DashboardInv, Withdraw PROVE DashboardInv'
<1>1. TypeOK /\ ShownGood /\ CallsGood
  BY DEF DashboardInv
<1>2. /\ accepted' \in SUBSET accepted /\ withdrawals' = withdrawals + 1 /\ session' = "ended"
      /\ UNCHANGED << stored, issued, cluster, tab, calls, faults, plan >>
  BY DEF Withdraw
<1>3. ShownGood' /\ CallsGood'
  BY <1>1, <1>2, UndisturbedGood
<1>4. TypeOK' /\ SessionGood'
  BY <1>1, <1>2 DEF TypeOK, SessionGood
<1> QED
  BY <1>3, <1>4 DEF DashboardInv

LEMMA ChangeStep == ASSUME DashboardInv, Change PROVE DashboardInv'
<1>1. TypeOK /\ ShownGood /\ CallsGood /\ SessionGood
  BY DEF DashboardInv
<1>2. PICK names \in SUBSET Names : cluster' = Append(cluster, names)
  BY DEF Change
<1>3. UNCHANGED << stored, issued, accepted, tab, calls, withdrawals, faults, plan, session >>
  BY DEF Change
<1>4. /\ cluster' \in Seq(SUBSET Names) /\ cluster' # << >>
      /\ Present \in Nat /\ Present' = Present + 1
  <2>1. cluster \in Seq(SUBSET Names)
    BY <1>1 DEF TypeOK
  <2> QED
    BY <2>1, <1>2, AppendProperties, LenProperties DEF Present
<1>5. ShownGood'
  BY <1>1, <1>3, <1>4, LaterRecent DEF ShownGood
<1>6. CallsGood'
  <2> SUFFICES ASSUME NEW k \in Slots PROVE Proper(calls[k], tab[calls[k].tab], Present + 1)
    BY <1>3, <1>4 DEF CallsGood
  <2>1. calls[k].tab \in Tabs /\ Proper(calls[k], tab[calls[k].tab], Present)
    BY <1>1, CallFields DEF TypeOK, CallsGood
  <2>2. tab[calls[k].tab].since \in Nat
    BY <2>1, <1>1 DEF TypeOK, Documents
  <2> QED
    BY <2>1, <2>2, <1>4, LaterProper
<1>7. TypeOK'
  BY <1>1, <1>3, <1>4 DEF TypeOK
<1>8. SessionGood'
  BY <1>1, <1>3 DEF SessionGood
<1> QED
  BY <1>5, <1>6, <1>7, <1>8 DEF DashboardInv

LEMMA NextGood == DashboardInv /\ [Next]_vars => DashboardInv'
<1> SUFFICES ASSUME DashboardInv, [Next]_vars PROVE DashboardInv'
  OBVIOUS
<1>1. ASSUME NEW t \in Tabs, User(t) PROVE DashboardInv'
  <2>1. CASE Type(t) \/ Follow(t)
    BY <2>1, TypeStep, FollowStep
  <2>2. CASE SignOut(t)
    BY <2>2, LeaveStep
  <2>3. CASE Login(t) \/ Mistype(t) \/ Create(t) \/ RunPreview(t)
    BY <2>3, FormStep
  <2>4. CASE Delete(t) \/ Select(t)
    BY <2>4, RowStep
  <2> QED
    BY <1>1, <2>1, <2>2, <2>3, <2>4 DEF User
<1>2. ASSUME NEW t \in Tabs, Unload(t) \/ Refresh(t) PROVE DashboardInv'
  BY <1>2, UnloadStep, RefreshStep
<1>3. ASSUME NEW k \in Slots, Serve(k) \/ Fail(k) PROVE DashboardInv'
  BY <1>3, ServeStep
<1>4. ASSUME NEW k \in Slots, Deliver(k) PROVE DashboardInv'
  BY <1>4, HandledStep, LoggedInStep, CreatedStep, DeletedStep DEF Deliver
<1>5. ASSUME NEW k \in Slots, Forget(k) PROVE DashboardInv'
  BY <1>5, LeaveStep
<1>6. CASE Withdraw \/ Change
  BY <1>6, WithdrawStep, ChangeStep
<1>7. CASE UNCHANGED vars
  BY <1>7 DEF vars, DashboardInv, TypeOK, ShownGood, CallsGood, SessionGood, Present
<1> QED
  BY <1>1, <1>2, <1>3, <1>4, <1>5, <1>6, <1>7 DEF Next, Progress

LEMMA InvariantHolds == Spec => []DashboardInv
<1>1. Init => DashboardInv
  BY InitGood
<1>2. DashboardInv /\ [Next]_vars => DashboardInv'
  BY NextGood
<1> QED
  BY <1>1, <1>2, PTL DEF Spec

-----------------------------------------------------------------------------
(* The theorems. *)

(* Documents, requests, tokens and the history of the namespace stay in      *)
(* their types, whatever the tabs, the names and the scenarios.              *)
THEOREM DashboardTyping == Spec => []TypeOK
<1>1. DashboardInv => TypeOK
  BY DEF DashboardInv
<1> QED
  BY <1>1, InvariantHolds, PTL

(* No page shows what was read before it was opened, of any number of tabs,  *)
(* requests in flight and states of the namespace.                           *)
THEOREM PagesShowTruth == Spec => []ShownWasTrue
<1>1. DashboardInv => ShownWasTrue
  BY DEF DashboardInv, ShownGood, Recent, Within, ShownWasTrue
<1> QED
  BY <1>1, InvariantHolds, PTL

(* The dashboard never passes a part of its data off as the whole.           *)
THEOREM DashboardIsWhole == Spec => []DashboardWhole
<1>1. ASSUME DashboardInv PROVE DashboardWhole
  <2> SUFFICES ASSUME NEW t \in Tabs, tab[t].path = "/", ~DashboardView(tab[t].page, cluster).spinner
               PROVE  LET page == tab[t].page
                          view == DashboardView(page, cluster)
                      IN IF view.banner THEN view.agents = {} /\ view.costs = {}
                         ELSE page.got["agents"] # 0 /\ page.got["costs"] # 0
    BY DEF DashboardWhole
  <2> DEFINE page == tab[t].page
  <2>1. Whole(page)
    BY <1>1 DEF DashboardInv, ShownGood, Recent
  <2>2. cluster \in Seq(SUBSET Names)
    BY <1>1 DEF DashboardInv, TypeOK
  <2>3. Of(cluster, 0) = {}
    <3>1. DOMAIN cluster = 1..Len(cluster) /\ Len(cluster) \in Nat
      BY <2>2
    <3>2. 0 \notin DOMAIN cluster
      BY <3>1
    <3> QED
      BY <3>2 DEF Of
  <2>4. ~page.loading
    BY DEF DashboardView
  <2>5. /\ DashboardView(page, cluster).banner = page.error
        /\ DashboardView(page, cluster).agents = Of(cluster, page.got["agents"])
        /\ DashboardView(page, cluster).costs = Of(cluster, page.got["costs"])
    BY <2>4 DEF DashboardView
  <2> QED
    BY <2>1, <2>3, <2>4, <2>5 DEF Whole
<1> QED
  BY <1>1, InvariantHolds, PTL

(* Outages and lost answers end no session: from the first login to an        *)
(* expiry, a withdrawal, a sign out or a mistyped password, the token stored *)
(* is good, however many tabs log in meanwhile.                              *)
THEOREM SessionsOutliveOutages == Spec => []OutagesKeepSession
<1>1. DashboardInv => OutagesKeepSession
  <2> SUFFICES ASSUME DashboardInv, session = "open" PROVE stored \in accepted
    BY DEF OutagesKeepSession
  <2>1. /\ accepted = 1..issued /\ stored \in 0..issued /\ stored # 0 /\ issued \in Nat
    BY DEF DashboardInv, SessionGood, TypeOK
  <2> QED
    BY <2>1
<1> QED
  BY <1>1, InvariantHolds, PTL

-----------------------------------------------------------------------------
(* Spinners.                                                                 *)
(*                                                                           *)
(* A request is put in a slot that is free, so no other is lost by it; a      *)
(* request of a page is forgotten only when it is handled or its page is      *)
(* left.  An answer a page waits for stops its spinner, or is the first of    *)
(* the two of Dashboard, and the others leave the spinner alone.              *)

LEMMA LeastSlot ==
  ASSUME NEW S \in SUBSET Slots, S # {}
  PROVE  \E j \in S : \A i \in S : j <= i
<1>1. S \subseteq Nat
  BY DashboardAssumption DEF Slots
<1>2. PICK j \in S : \A i \in S : << i, j >> \notin OpToRel(<, Nat)
  BY <1>1, NatLessThanWellFounded, WFMin, Zenon
<1>3. ASSUME NEW i \in S PROVE j <= i
  <2>1. ~(i < j)
    BY <1>1, <1>2, <1>3 DEF OpToRel
  <2> QED
    BY <2>1, <1>1
<1> QED
  BY <1>3

(* The free slots have as many ranks as requests fit in.                     *)
LEMMA RanksGood ==
  ASSUME NEW cs, NEW n \in {1, 2}, Room(cs, n), NEW i \in 1..n
  PROVE  \E k \in Free(cs) : Rank(cs, k) = i
<1> DEFINE F == Free(cs)
<1>1. F \in SUBSET Slots /\ F \subseteq Nat /\ IsFiniteSet(F)
  <2>1. F \subseteq Slots /\ Slots \subseteq Nat /\ IsFiniteSet(Slots)
    BY DashboardAssumption, FS_Interval DEF Free, Slots
  <2> QED
    BY <2>1, FS_Subset
<1>2. Cardinality(F) \in Nat /\ Cardinality(F) >= n
  BY <1>1, FS_CardinalityType DEF Room
<1> HIDE DEF F
<1>3. F # {}
  BY <1>2, FS_EmptySet
<1>4. PICK m \in F : \A j \in F : m <= j
  BY <1>1, <1>3, LeastSlot
<1>5. Rank(cs, m) = 1
  <2>0. \A j \in F : j <= m <=> j = m
    <3>1. m \in Nat /\ \A j \in F : j \in Nat
      BY <1>1
    <3> QED
      BY <1>4, <3>1
  <2>1. {j \in F : j <= m} = {m}
    BY <2>0
  <2> QED
    BY <2>1, FS_Singleton DEF Rank, F
<1>6. CASE i = 1
  BY <1>5, <1>6 DEF F
<1>7. CASE i = 2
  <2> DEFINE G == F \ {m}
  <2>1. n = 2
    BY <1>7
  <2>2. G \in SUBSET Slots /\ Cardinality(G) = Cardinality(F) - 1
    BY <1>1, <1>4, FS_RemoveElement
  <2>3. G # {}
    BY <1>2, <2>1, <2>2, FS_EmptySet
  <2>4. PICK k \in G : \A j \in G : k <= j
    BY <2>2, <2>3, LeastSlot
  <2>c. m \in Nat /\ k \in Nat /\ m # k /\ m <= k /\ \A j \in F : j \in Nat
    BY <1>1, <1>4, <2>4
  <2>5. {j \in F : j <= k} = {m} \cup {k}
    <3>1. \A j \in F : j <= k <=> j = m \/ j = k
      BY <2>4, <2>c
    <3> QED
      BY <2>4, <3>1
  <2>6. Cardinality({m} \cup {k}) = 2
    <3>1. IsFiniteSet({m}) /\ Cardinality({m}) = 1
      BY FS_Singleton
    <3>2. Cardinality({m} \cup {k}) = Cardinality({m}) + 1
      BY <2>c, <3>1, FS_AddElement
    <3> QED
      BY <3>1, <3>2
  <2>7. Rank(cs, k) = 2 /\ k \in F
    BY <2>4, <2>5, <2>6 DEF Rank, F
  <2> QED
    BY <1>7, <2>7 DEF F
<1> QED
  BY <1>6, <1>7

LEMMA LoadsAre ==
  /\ Loads("/") = << "agents", "costs" >> /\ Loads("/agents") = << "agents" >>
  /\ Loads("/cost") = << "costs" >> /\ Loads("/attestation") = << "attestations" >>
  /\ \A path \in {"/login", "/agents/new", "/simulation"} : Loads(path) = << >>
  BY DEF Loads

LEMMA AwaitedAre ==
  /\ Awaited("/") = {"agents", "costs"} /\ Awaited("/agents") = {"agents"}
  /\ Awaited("/cost") = {"costs"} /\ Awaited("/attestation") = {"attestations"}
  /\ Awaited("/login") = {"login"} /\ Awaited("/agents/new") = {"create"}
  /\ Awaited("/simulation") = {"preview"}
<1>1. /\ {<< "agents", "costs" >>[i] : i \in DOMAIN << "agents", "costs" >>} = {"agents", "costs"}
      /\ \A op : {<< op >>[i] : i \in DOMAIN << op >>} = {op}
  OBVIOUS
<1> QED
  BY <1>1, LoadsAre DEF Awaited

(* What a page asks for is sent.                                             *)
LEMMA SendPlaces ==
  ASSUME NEW cs, NEW t, NEW path \in Paths, NEW token, Room(cs, Len(Loads(path))),
         NEW i \in DOMAIN Loads(path)
  PROVE  \E k \in Slots :
           Send(cs, t, Loads(path), token)[k] = Fetch(t, Loads(path)[i], "none", token, "page")
<1>1. Len(Loads(path)) \in {1, 2} /\ DOMAIN Loads(path) = 1..Len(Loads(path))
  <2>1. path \in {"/", "/agents", "/cost", "/attestation", "/login", "/agents/new", "/simulation"}
    BY DEF Paths, Protected
  <2> QED
    BY <2>1, LoadsAre
<1>2. PICK k \in Free(cs) : Rank(cs, k) = i
  BY <1>1, RanksGood
<1>3. k \in Slots
  BY DEF Free
<1>4. Send(cs, t, Loads(path), token)[k] = Fetch(t, Loads(path)[Rank(cs, k)], "none", token, "page")
  BY <1>2, <1>3 DEF Send
<1> QED
  BY <1>2, <1>3, <1>4

(* Nothing that was under way is lost by it.                                 *)
LEMMA SendKeeps ==
  ASSUME NEW cs, NEW t, NEW ops, NEW token, NEW k \in Slots, cs[k].status # "free"
  PROVE  Send(cs, t, ops, token)[k] = cs[k]
  BY DEF Send, Free

LEMMA SentPlaces ==
  ASSUME NEW cs \in [Slots -> Calls], NEW n \in Nat, Room(cs, n + 1), NEW t, NEW op, NEW arg
  PROVE  \E j \in Free(cs) : Sent(t, op, arg, cs) = [cs EXCEPT ![j] = Fetch(t, op, arg, stored, "page")]
<1>1. Free(cs) \in SUBSET Slots
  BY DEF Free
<1>2. Free(cs) # {}
  <2>1. Cardinality(Free(cs)) >= n + 1
    BY DEF Room
  <2> QED
    BY <2>1, FS_EmptySet
<1>3. \E j \in Free(cs) : \A i \in Free(cs) : j <= i
  BY <1>1, <1>2, LeastSlot
<1> QED
  BY <1>3 DEF Sent

(* The requests of a page in flight, in cs; deletions are of a page that     *)
(* will refresh.                                                             *)
Own(c) == c.status # "free" /\ c.owner = "page"
InFlight(cs, t, op) == \E k \in Slots : Own(cs[k]) /\ cs[k].tab = t /\ cs[k].op = op

Caused(t) ==
  tab[t].page.loading =>
    /\ \E op \in Awaited(tab[t].path) : UnderWay(t, op)
    /\ tab[t].page.first = 0 => \A op \in Awaited(tab[t].path) : UnderWay(t, op)

DeletesHere ==
  \A k \in Slots : Own(calls[k]) /\ calls[k].op = "delete" => tab[calls[k].tab].path = "/agents"

SpinnerInv == (\A t \in Tabs : Caused(t)) /\ DeletesHere

LEMMA UnderWayIs ==
  /\ \A t, op : UnderWay(t, op) <=> InFlight(calls, t, op)
  /\ \A t, op : UnderWay(t, op)' <=> InFlight(calls', t, op)
  BY DEF UnderWay, InFlight, Own

LEMMA AwaitedNoRow ==
  ASSUME NEW path \in Paths
  PROVE  "delete" \notin Awaited(path) /\ "detail" \notin Awaited(path)
<1>1. path \in {"/", "/agents", "/cost", "/attestation", "/login", "/agents/new", "/simulation"}
  BY DEF Paths, Protected
<1> QED
  BY <1>1, AwaitedAre

(* A page that goes on waiting for what is still under way.                  *)
LEMMA StillCaused ==
  ASSUME NEW t \in Tabs, Caused(t), tab'[t].path = tab[t].path,
         tab'[t].page.first = tab[t].page.first, tab'[t].page.loading => tab[t].page.loading,
         \A op \in Awaited(tab[t].path) : UnderWay(t, op) => UnderWay(t, op)'
  PROVE  Caused(t)'
  BY DEF Caused

(* A page that has just been mounted waits for what it has just sent.        *)
LEMMA MountedCaused ==
  ASSUME TypeOK, NEW t \in Tabs, NEW path \in Paths, NEW token, NEW leaving, NEW cs,
         Show(t, path, token, cs, leaving)
  PROVE  Caused(t)'
<1> DEFINE to == Route(path, token)
<1>1. to \in Paths /\ tab \in [Tabs -> Documents]
  BY RouteTyped DEF TypeOK
<1>2. /\ Room(cs, Len(Loads(to))) /\ calls' = Send(cs, t, Loads(to), token)
      /\ tab' = [tab EXCEPT ![t] = Document(to, leaving)]
  BY DEF Show
<1> HIDE DEF to
<1>3. /\ tab'[t].path = to
      /\ tab'[t].page.loading <=> Loads(to) # << >>
  BY <1>1, <1>2 DEF Document, Mounted
<1>4. CASE Loads(to) = << >>
  BY <1>3, <1>4 DEF Caused
<1>5. CASE Loads(to) # << >>
  <2>1. to \in {"/", "/agents", "/cost", "/attestation", "/login", "/agents/new", "/simulation"}
    BY <1>1 DEF Paths, Protected
  <2>2. to \in {"/", "/agents", "/cost", "/attestation"}
    BY <1>5, <2>1, LoadsAre
  <2>3. /\ Awaited(to) = {Loads(to)[i] : i \in DOMAIN Loads(to)}
        /\ \E op : op \in Awaited(to)
    BY <2>2, AwaitedAre DEF Awaited
  <2>4. ASSUME NEW op \in Awaited(to) PROVE UnderWay(t, op)'
    <3>1. PICK i \in DOMAIN Loads(to) : op = Loads(to)[i]
      BY <2>3
    <3>2. to \in Paths /\ i \in DOMAIN Loads(to)
      BY <1>1, <3>1
    <3>3. Room(cs, Len(Loads(to)))
      BY <1>2
    <3>4. \E k \in Slots :
            Send(cs, t, Loads(to), token)[k] = Fetch(t, Loads(to)[i], "none", token, "page")
      BY <3>2, <3>3, SendPlaces
    <3>5. PICK k \in Slots : calls'[k] = Fetch(t, op, "none", token, "page")
      BY <1>2, <3>1, <3>4
    <3>6. Own(calls'[k]) /\ calls'[k].tab = t /\ calls'[k].op = op
      BY <3>5 DEF Fetch, Own
    <3> QED
      BY <3>6, UnderWayIs DEF InFlight
  <2> QED
    BY <1>3, <2>3, <2>4 DEF Caused
<1> QED
  BY <1>4, <1>5

(* Tab t shows another page; the requests of the one it leaves are its own   *)
(* no more, and those of other tabs are left alone.                          *)
LEMMA ShowCaused ==
  ASSUME TypeOK, SpinnerInv, NEW t \in Tabs, NEW path \in Paths, NEW token, NEW leaving,
         NEW cs \in [Slots -> Calls], Show(t, path, token, cs, leaving),
         \A k \in Slots : Own(cs[k]) => cs[k] = calls[k] /\ cs[k].tab # t,
         \A k \in Slots : Own(calls[k]) /\ calls[k].tab # t => cs[k] = calls[k]
  PROVE  SpinnerInv'
<1> DEFINE to == Route(path, token)
<1>1. to \in Paths /\ tab \in [Tabs -> Documents] /\ calls \in [Slots -> Calls]
  BY RouteTyped DEF TypeOK
<1>2. /\ Room(cs, Len(Loads(to))) /\ calls' = Send(cs, t, Loads(to), token)
      /\ tab' = [tab EXCEPT ![t] = Document(to, leaving)]
  BY DEF Show
<1> HIDE DEF to
<1>3. Caused(t)'
  BY MountedCaused
<1>4. \A k \in Slots : cs[k].status # "free" => calls'[k] = cs[k]
  BY <1>2, SendKeeps
<1>5. ASSUME NEW u \in Tabs, u # t PROVE Caused(u)'
  <2>1. tab'[u] = tab[u]
    BY <1>1, <1>2, <1>5
  <2>2. ASSUME NEW op, UnderWay(u, op) PROVE UnderWay(u, op)'
    <3>1. PICK k \in Slots : Own(calls[k]) /\ calls[k].tab = u /\ calls[k].op = op
      BY <2>2, UnderWayIs DEF InFlight
    <3>2. calls'[k] = calls[k]
      BY <1>4, <1>5, <3>1 DEF Own
    <3> QED
      BY <3>1, <3>2, UnderWayIs DEF InFlight
  <2> QED
    BY <2>1, <2>2, StillCaused DEF SpinnerInv
<1>6. ASSUME NEW k \in Slots, Own(calls'[k]), calls'[k].op = "delete"
      PROVE  tab'[calls'[k].tab].path = "/agents"
  <2>1. \/ calls'[k] = cs[k]
        \/ \E op \in Kinds : calls'[k] = Fetch(t, op, "none", token, "page")
    BY <1>1, <1>2, LoadsTyped DEF Send
  <2>2. \A op \in Kinds : Fetch(t, op, "none", token, "page").op # "delete"
    BY DEF Fetch, Kinds
  <2>3. calls'[k] = calls[k] /\ calls[k].tab # t
    BY <1>6, <2>1, <2>2
  <2>4. tab[calls[k].tab].path = "/agents" /\ calls[k].tab \in Tabs
    BY <1>1, <1>6, <2>3, CallFields DEF SpinnerInv, DeletesHere
  <2> QED
    BY <1>1, <1>2, <2>3, <2>4
<1> QED
  BY <1>3, <1>5, <1>6 DEF SpinnerInv, DeletesHere

LEMMA NavigateCaused ==
  ASSUME TypeOK, SpinnerInv, NEW t \in Tabs, NEW path \in Paths, NEW token,
         NEW cs \in [Slots -> Calls], Navigate(t, path, token, cs),
         \A k \in Slots : cs[k] = calls[k] \/ (cs[k] = NoCall /\ calls[k].tab = t)
  PROVE  SpinnerInv'
<1> DEFINE un == Unmounted(cs, t)
<1>1. /\ un \in [Slots -> Calls]
      /\ \A k \in Slots : Weakened(cs[k], un[k]) /\ (un[k].tab = t => un[k].owner # "page")
  BY UnmountedTyped
<1>2. Show(t, path, token, un, tab[t].leaving)
  BY DEF Navigate
<1>3. \A k \in Slots : Own(un[k]) => un[k] = calls[k] /\ un[k].tab # t
  BY <1>1, WeakenedGood, NoCallGood DEF Own
<1>4. \A k \in Slots : Own(calls[k]) /\ calls[k].tab # t => un[k] = calls[k]
  BY DEF Unmounted
<1> HIDE DEF un
<1> QED
  BY <1>1, <1>2, <1>3, <1>4, ShowCaused

LEMMA OpenCaused ==
  ASSUME TypeOK, SpinnerInv, NEW t \in Tabs, NEW path \in Paths, OpenDocument(t, path)
  PROVE  SpinnerInv'
<1> DEFINE un == Dropped(calls, t)
<1>0. calls \in [Slots -> Calls]
  BY DEF TypeOK
<1>1. /\ un \in [Slots -> Calls]
      /\ \A k \in Slots : Weakened(calls[k], un[k])
                            /\ (un[k].tab = t /\ un[k].status # "free" => un[k].owner # "page")
  BY <1>0, DroppedTyped
<1>2. Show(t, path, stored, un, FALSE)
  BY DEF OpenDocument
<1>3. \A k \in Slots : Own(un[k]) => un[k] = calls[k] /\ un[k].tab # t
  BY <1>0, <1>1, WeakenedGood DEF Own
<1>4. \A k \in Slots : Own(calls[k]) /\ calls[k].tab # t => un[k] = calls[k]
  BY DEF Dropped
<1> HIDE DEF un
<1> QED
  BY <1>1, <1>2, <1>3, <1>4, ShowCaused

(* Requests keep their tab, operation and owner, or are new, or are not of a *)
(* page; pages stay, and wait for no more than before.                       *)
LEMMA QuietCaused ==
  ASSUME TypeOK, SpinnerInv,
         \A u \in Tabs : tab'[u].path = tab[u].path /\ tab'[u].page = tab[u].page,
         \A k \in Slots : Own(calls[k]) =>
           /\ Own(calls'[k]) /\ calls'[k].tab = calls[k].tab /\ calls'[k].op = calls[k].op,
         \A k \in Slots : Own(calls'[k]) /\ calls'[k].op = "delete" =>
           Own(calls[k]) \/ (calls'[k].tab \in Tabs /\ tab[calls'[k].tab].path = "/agents")
  PROVE  SpinnerInv'
<1>1. \A u \in Tabs : \A op : UnderWay(u, op) => UnderWay(u, op)'
  <2> SUFFICES ASSUME NEW u \in Tabs, NEW op, UnderWay(u, op) PROVE UnderWay(u, op)'
    OBVIOUS
  <2>1. PICK k \in Slots : Own(calls[k]) /\ calls[k].tab = u /\ calls[k].op = op
    BY UnderWayIs DEF InFlight
  <2> QED
    BY <2>1, UnderWayIs DEF InFlight
<1>2. ASSUME NEW u \in Tabs PROVE Caused(u)'
  BY <1>1, StillCaused DEF SpinnerInv
<1>3. ASSUME NEW k \in Slots, Own(calls'[k]), calls'[k].op = "delete"
      PROVE  tab'[calls'[k].tab].path = "/agents"
  <2>1. CASE Own(calls[k])
    <3>1. calls[k].tab \in Tabs
      BY CallFields DEF TypeOK
    <3> QED
      BY <1>3, <2>1, <3>1 DEF SpinnerInv, DeletesHere
  <2> QED
    BY <1>3, <2>1
<1> QED
  BY <1>2, <1>3 DEF SpinnerInv, DeletesHere

(* A page sends a request, and waits for it or for what it waited for.       *)
LEMMA SentCaused ==
  ASSUME TypeOK, SpinnerInv, NEW t \in Tabs, NEW op \in Ops, NEW arg,
         Spare(1), calls' = Sent(t, op, arg, calls),
         op = "delete" => tab[t].path = "/agents",
         NEW page, tab' = [tab EXCEPT ![t].page = page], page.first = tab[t].page.first,
         page = tab[t].page \/ Awaited(tab[t].path) = {op}
  PROVE  SpinnerInv'
<1>0. calls \in [Slots -> Calls] /\ tab \in [Tabs -> Documents]
  BY DEF TypeOK
<1>1. PICK j \in Free(calls) : calls' = [calls EXCEPT ![j] = Fetch(t, op, arg, stored, "page")]
  BY <1>0, SentPlaces DEF Spare
<1>2. j \in Slots /\ ~Own(calls[j])
  BY DEF Free, Own
<1>3. /\ calls'[j] = Fetch(t, op, arg, stored, "page")
      /\ \A k \in Slots : k # j => calls'[k] = calls[k]
  BY <1>0, <1>1, <1>2
<1>4. Own(calls'[j]) /\ calls'[j].tab = t /\ calls'[j].op = op
  BY <1>3 DEF Fetch, Own
<1>5. \A u, o : UnderWay(u, o) => UnderWay(u, o)'
  BY <1>2, <1>3, UnderWayIs DEF InFlight
<1>6. UnderWay(t, op)'
  BY <1>2, <1>4, UnderWayIs DEF InFlight
<1>7. /\ \A u \in Tabs : tab'[u].path = tab[u].path
      /\ \A u \in Tabs : u # t => tab'[u] = tab[u]
      /\ tab'[t].page = page
  BY <1>0 DEF Documents
<1>8. ASSUME NEW u \in Tabs PROVE Caused(u)'
  <2>1. CASE u # t \/ page = tab[t].page
    <3>1. tab'[u].path = tab[u].path /\ tab'[u].page = tab[u].page
      BY <1>7, <2>1
    <3> QED
      BY <1>5, <3>1, StillCaused DEF SpinnerInv
  <2>2. CASE u = t /\ Awaited(tab[t].path) = {op}
    BY <1>6, <1>7, <2>2 DEF Caused
  <2> QED
    BY <2>1, <2>2
<1>9. ASSUME NEW k \in Slots, Own(calls'[k]), calls'[k].op = "delete"
      PROVE  tab'[calls'[k].tab].path = "/agents"
  <2>1. CASE k = j
    BY <1>4, <1>7, <1>9, <2>1
  <2>2. CASE k # j
    <3>1. calls[k].tab \in Tabs
      BY CallFields DEF TypeOK
    <3> QED
      BY <1>3, <1>7, <1>9, <2>2, <3>1 DEF SpinnerInv, DeletesHere
  <2> QED
    BY <2>1, <2>2
<1> QED
  BY <1>8, <1>9 DEF SpinnerInv, DeletesHere

LEMMA SubmitCaused ==
  ASSUME TypeOK, SpinnerInv, NEW t \in Tabs,
         NEW path, NEW op \in Ops \ {"delete"}, NEW arg,
         Submit(t, path, op, arg), Awaited(path) = {op}
  PROVE  SpinnerInv'
<1>1. tab \in [Tabs -> Documents] /\ tab[t] \in Documents /\ tab[t].page \in Pages
  BY DEF TypeOK, Documents
<1> DEFINE error == IF op = "preview" THEN tab[t].page.error ELSE FALSE
           page == [tab[t].page EXCEPT !.loading = TRUE, !.error = error]
<1>2. page.first = tab[t].page.first
  BY <1>1 DEF Pages
<1>3. tab' = [tab EXCEPT ![t].page = page]
  <2>1. tab' = [tab EXCEPT ![t].page.loading = TRUE,
                           ![t].page.error = IF op = "preview" THEN @ ELSE FALSE]
    BY DEF Submit
  <2> QED
    BY <1>1, <2>1 DEF Documents, Pages
<1>4. Spare(1) /\ calls' = Sent(t, op, arg, calls) /\ tab[t].path = path
  BY DEF Submit
<1> HIDE DEF page
<1> QED
  BY <1>2, <1>3, <1>4, SentCaused

LEMMA FormCaused ==
  ASSUME TypeOK, SpinnerInv, NEW t \in Tabs, Login(t) \/ Mistype(t) \/ Create(t) \/ RunPreview(t)
  PROVE  SpinnerInv'
<1>1. {"login", "create", "preview"} \subseteq Ops \ {"delete"}
  BY DEF Ops
<1>2. CASE Login(t)
  BY <1>1, <1>2, AwaitedAre, SubmitCaused DEF Login
<1>3. CASE Mistype(t)
  BY <1>1, <1>3, AwaitedAre, SubmitCaused DEF Mistype
<1>4. CASE Create(t)
  BY <1>1, <1>4, AwaitedAre, SubmitCaused DEF Create
<1>5. CASE RunPreview(t)
  BY <1>1, <1>5, AwaitedAre, SubmitCaused DEF RunPreview
<1> QED
  BY <1>2, <1>3, <1>4, <1>5

LEMMA RowCaused ==
  ASSUME TypeOK, SpinnerInv, NEW t \in Tabs, Delete(t) \/ Select(t) \/ Refresh(t)
  PROVE  SpinnerInv'
<1>1. tab \in [Tabs -> Documents] /\ tab[t] \in Documents /\ tab[t].page \in Pages
  BY DEF TypeOK, Documents
<1>2. {"delete", "detail", "agents"} \subseteq Ops
  BY DEF Ops, Kinds
<1>3. tab = [tab EXCEPT ![t].page = tab[t].page]
  BY <1>1 DEF Documents
<1>4. CASE Delete(t)
  <2>1. PICK n : calls' = Sent(t, "delete", n, calls)
    BY <1>4 DEF Delete
  <2>2. tab' = tab /\ Spare(1) /\ tab[t].path = "/agents"
    BY <1>4 DEF Delete
  <2>3. tab' = [tab EXCEPT ![t].page = tab[t].page]
    BY <1>3, <2>2
  <2> QED
    BY <1>2, <2>1, <2>2, <2>3, SentCaused
<1>5. CASE Select(t)
  <2>1. PICK n : calls' = Sent(t, "detail", n, calls)
    BY <1>5 DEF Select
  <2>2. tab' = tab /\ Spare(1)
    BY <1>5 DEF Select
  <2>3. tab' = [tab EXCEPT ![t].page = tab[t].page]
    BY <1>3, <2>2
  <2> QED
    BY <1>2, <2>1, <2>2, <2>3, SentCaused
<1>6. CASE Refresh(t)
  <2> DEFINE page == [tab[t].page EXCEPT !.loading = TRUE]
  <2>1. /\ calls' = Sent(t, "agents", "none", calls) /\ Spare(1)
        /\ tab[t].path = "/agents" /\ tab' = [tab EXCEPT ![t].page.loading = TRUE]
    BY <1>6 DEF Refresh
  <2>2. page.first = tab[t].page.first /\ tab' = [tab EXCEPT ![t].page = page]
    BY <1>1, <2>1 DEF Documents, Pages
  <2> HIDE DEF page
  <2> QED
    BY <1>2, <2>1, <2>2, AwaitedAre, SentCaused
<1> QED
  BY <1>4, <1>5, <1>6

LEMMA AnswerCaused ==
  ASSUME TypeOK, SpinnerInv, NEW k \in Slots, Serve(k) \/ Fail(k)
  PROVE  SpinnerInv'
<1>1. UNCHANGED tab /\ calls[k].status # "free"
  BY DEF Serve, AnswerLogin, Refuse, AnswerRead, AnswerWrite, Admitted, Waiting, Fail
<1>2. PICK status \in {"ok", "unauthorized", "failed"} : \E v : Answer(k, status, v)
  <2>1. CASE AnswerLogin(k)
    BY <2>1 DEF AnswerLogin
  <2>2. CASE Refuse(k)
    BY <2>2 DEF Refuse
  <2>3. CASE AnswerRead(k)
    BY <2>3 DEF AnswerRead
  <2>4. CASE AnswerWrite(k)
    BY <2>4 DEF AnswerWrite
  <2>5. CASE Fail(k)
    BY <2>5 DEF Fail
  <2> QED
    BY <2>1, <2>2, <2>3, <2>4, <2>5 DEF Serve
<1>3. calls \in [Slots -> Calls] /\ calls[k] \in Calls
  BY DEF TypeOK
<1>4. /\ \A j \in Slots : j # k => calls'[j] = calls[j]
      /\ calls'[k].status # "free" /\ calls'[k].owner = calls[k].owner
      /\ calls'[k].tab = calls[k].tab /\ calls'[k].op = calls[k].op
  BY <1>2, <1>3 DEF Answer, Calls
<1>5. \A j \in Slots : /\ Own(calls'[j]) <=> Own(calls[j])
                       /\ calls'[j].tab = calls[j].tab /\ calls'[j].op = calls[j].op
  BY <1>1, <1>4 DEF Own
<1>6. \A u \in Tabs : tab'[u].path = tab[u].path /\ tab'[u].page = tab[u].page
  BY <1>1
<1>7. \A j \in Slots : Own(calls[j]) =>
        /\ Own(calls'[j]) /\ calls'[j].tab = calls[j].tab /\ calls'[j].op = calls[j].op
  BY <1>5
<1>8. \A j \in Slots : Own(calls'[j]) /\ calls'[j].op = "delete" =>
        Own(calls[j]) \/ (calls'[j].tab \in Tabs /\ tab[calls'[j].tab].path = "/agents")
  BY <1>5
<1> QED
  BY <1>6, <1>7, <1>8, QuietCaused

(* The page an answer stops, or that goes on waiting for the other one.      *)
LEMMA HandleCaused ==
  ASSUME NEW path \in Paths, NEW page \in Pages, NEW op \in Ops, NEW ok \in BOOLEAN,
         NEW v \in Nat, path = "/" => op \in {"agents", "costs"}, path = "/" /\ ok => v # 0
  PROVE  LET after == Handle(path, page, op, ok, v)
         IN after.loading =>
              /\ page.loading
              /\ \/ path = "/" /\ page.first = 0 /\ after.first # 0
                 \/ path # "/" /\ op \notin Awaited(path) /\ after.first = page.first
<1> DEFINE after == Handle(path, page, op, ok, v)
<1>1. CASE path = "/"
  <2>1. after = DashboardAnswer(page, op, ok, v)
    BY <1>1 DEF Handle
  <2>2. CASE ~page.loading
    BY <2>1, <2>2 DEF DashboardAnswer
  <2>3. CASE page.loading /\ ~ok
    BY <2>1, <2>3 DEF DashboardAnswer, Pages
  <2>4. CASE page.loading /\ ok /\ page.first = 0
    <3>1. after = [page EXCEPT !.first = v]
      BY <2>1, <2>4 DEF DashboardAnswer
    <3>2. after.first = v
      BY <3>1 DEF Pages
    <3> QED
      BY <1>1, <2>4, <3>2
  <2>5. CASE page.loading /\ ok /\ page.first # 0
    <3> DEFINE got == [k \in Kinds |-> CASE k = op                           -> v
                                         [] k \in {"agents", "costs"} \ {op} -> page.first
                                         [] OTHER                            -> page.got[k]]
    <3>1. after = [page EXCEPT !.loading = FALSE, !.got = got]
      BY <2>1, <2>5 DEF DashboardAnswer
    <3> HIDE DEF got
    <3>2. ~after.loading
      BY <3>1 DEF Pages
    <3> QED
      BY <3>2
  <2> QED
    BY <2>2, <2>3, <2>4, <2>5
<1>2. CASE path # "/" /\ op = "detail"
  <2>1. after = DetailAnswer(page, ok, v)
    BY <1>2 DEF Handle
  <2>2. after.loading = page.loading /\ after.first = page.first
    BY <2>1 DEF DetailAnswer, Pages
  <2> QED
    BY <1>2, <2>2, AwaitedNoRow DEF Pages
<1>3. CASE path # "/" /\ op \in {"login", "create", "preview"}
  <2>1. after = FormAnswer(page, ok)
    BY <1>3 DEF Handle
  <2>2. ~after.loading
    BY <2>1 DEF FormAnswer, Pages
  <2> QED
    BY <2>2
<1>4. CASE path # "/" /\ op \in {"agents", "costs", "attestations"}
  <2>1. after = ListAnswer(page, op, ok, v)
    BY <1>4 DEF Handle
  <2>2. ~after.loading
    BY <2>1 DEF ListAnswer, Pages
  <2> QED
    BY <2>2
<1>5. CASE path # "/" /\ op = "delete"
  <2>1. after = page
    BY <1>5 DEF Handle
  <2> QED
    BY <1>5, <2>1, AwaitedNoRow
<1>6. op \in {"detail", "login", "create", "preview", "agents", "costs", "attestations", "delete"}
  BY DEF Ops, Kinds
<1> QED
  BY <1>1, <1>2, <1>3, <1>4, <1>5, <1>6

(* A request is handled or forgotten.                                        *)
LEMMA DoneKeeps ==
  ASSUME TypeOK, NEW k \in Slots, calls' = Done(k)
  PROVE  /\ calls'[k] = NoCall /\ \A j \in Slots : j # k => calls'[j] = calls[j]
         /\ \A j \in Slots : Own(calls'[j]) => calls'[j] = calls[j]
         /\ \A u, op : /\ UnderWay(u, op)
                       /\ Own(calls[k]) => u # calls[k].tab \/ op # calls[k].op
                       => UnderWay(u, op)'
<1>1. calls'[k] = NoCall /\ \A j \in Slots : j # k => calls'[j] = calls[j]
  BY DEF TypeOK, Done
<1>2. \A j \in Slots : Own(calls'[j]) => calls'[j] = calls[j]
  BY <1>1, NoCallGood DEF Own
<1>3. ASSUME NEW u, NEW op, UnderWay(u, op),
             Own(calls[k]) => u # calls[k].tab \/ op # calls[k].op
      PROVE  UnderWay(u, op)'
  <2>1. PICK j \in Slots : Own(calls[j]) /\ calls[j].tab = u /\ calls[j].op = op
    BY <1>3, UnderWayIs DEF InFlight
  <2>2. j # k
    BY <1>3, <2>1
  <2> QED
    BY <1>1, <2>1, <2>2, UnderWayIs DEF InFlight
<1> QED
  BY <1>1, <1>2, <1>3

LEMMA HandledCaused ==
  ASSUME DashboardInv, SpinnerInv, NEW k \in Slots, Unauthorized(k) \/ Failed(k) \/ Loaded(k)
  PROVE  SpinnerInv'
<1>t. PICK w : w = calls[k].tab
  OBVIOUS
<1> DEFINE c == calls[k]
           old == tab[w]
<1>1. TypeOK /\ calls' = Done(k) /\ c.status # "free"
  BY DEF DashboardInv, Unauthorized, Failed, Loaded, Arrived
<1>2. /\ c \in Calls /\ w \in Tabs /\ c.op \in Ops /\ c.value \in Nat
      /\ tab \in [Tabs -> Documents] /\ old \in Documents
      /\ old.path \in Paths /\ old.page \in Pages
  BY <1>1, <1>t, CallFields DEF TypeOK, Documents
<1>3. PICK ok \in BOOLEAN :
        /\ \/ tab' = [tab EXCEPT ![c.tab] = HandledBy(k, ok)]
           \/ tab' = [tab EXCEPT ![c.tab] = [HandledBy(k, ok) EXCEPT !.leaving = TRUE]]
        /\ ok => c.status = "ok" /\ c.op \in Reads
  <2>1. CASE Unauthorized(k)
    BY <2>1 DEF Unauthorized
  <2>2. CASE Failed(k)
    BY <2>2 DEF Failed
  <2>3. CASE Loaded(k)
    BY <2>3 DEF Loaded, Arrived, Reads
  <2> QED
    BY <2>1, <2>2, <2>3
<1> DEFINE after == IF c.owner = "page" THEN Handle(old.path, old.page, c.op, ok, c.value)
                                        ELSE old.page
<1>4. /\ \A u \in Tabs : u # w => tab'[u] = tab[u]
      /\ \A u \in Tabs : tab'[u].path = tab[u].path
      /\ tab'[w].page = after
  BY <1>2, <1>3, <1>t DEF HandledBy, Documents
<1>p. tab'[w].path = old.path
  BY <1>2, <1>4
<1>s. c.owner = "page" => after = Handle(old.path, old.page, c.op, ok, c.value)
  OBVIOUS
<1>o. c.owner # "page" => after = old.page
  OBVIOUS
<1>r. ok => c.status = "ok" /\ c.op \in Reads
  BY <1>3
<1>g. Proper(c, old, Present) /\ Recent(old, Present) /\ Present \in Nat
  BY <1>1, <1>2, <1>t, PresentTyped DEF DashboardInv, ShownGood, CallsGood
<1>w. Own(c) <=> c.owner = "page"
  BY <1>1 DEF Own
<1>k. \A u, op : /\ UnderWay(u, op)
                 /\ Own(calls[k]) => u # calls[k].tab \/ op # calls[k].op
                 => UnderWay(u, op)'
  BY <1>1, DoneKeeps
<1>m. \A u, op : UnderWay(u, op) /\ (c.owner = "page" => u # w \/ op # c.op)
                 => UnderWay(u, op)'
  BY <1>k, <1>t, <1>w
<1>d. \A j \in Slots : Own(calls'[j]) => calls'[j] = calls[j]
  BY <1>1, DoneKeeps
<1>c. Caused(w)
  BY <1>2 DEF SpinnerInv
<1>i. /\ old.page.loading =>
           /\ \E op \in Awaited(old.path) : UnderWay(w, op)
           /\ old.page.first = 0 => \A op \in Awaited(old.path) : UnderWay(w, op)
      /\ Caused(w)' <=>
           (after.loading =>
              /\ \E op \in Awaited(old.path) : UnderWay(w, op)'
              /\ after.first = 0 => \A op \in Awaited(old.path) : UnderWay(w, op)')
  BY <1>c, <1>4, <1>p DEF Caused
<1> HIDE DEF after
<1>5. ASSUME NEW u \in Tabs, u # w PROVE Caused(u)'
  <2>1. \A op \in Awaited(tab[u].path) : UnderWay(u, op) => UnderWay(u, op)'
    BY <1>m, <1>5
  <2>2. Caused(u) /\ tab'[u] = tab[u]
    BY <1>4, <1>5 DEF SpinnerInv
  <2> QED
    BY <2>1, <2>2, StillCaused
<1>6. Caused(w)'
  <2>1. CASE c.owner # "page"
    BY <1>i, <1>m, <1>o, <2>1
  <2>2. CASE ~after.loading
    BY <1>i, <2>2
  <2>3. CASE c.owner = "page" /\ after.loading
    <3>2. old.path = "/" => c.op \in {"agents", "costs"}
      BY <1>1, <1>g, <2>3 DEF Proper
    <3>3. old.path = "/" /\ ok => c.value # 0
      <4>1. ok => c.value \in old.since..Present
        BY <1>g, <1>r, <2>3 DEF Proper
      <4>2. old.since \in 1..Present
        BY <1>g DEF Recent
      <4> QED
        BY <4>1, <4>2, <1>g
    <3>4. /\ old.page.loading
          /\ \/ old.path = "/" /\ old.page.first = 0 /\ after.first # 0
             \/ old.path # "/" /\ c.op \notin Awaited(old.path) /\ after.first = old.page.first
      <4>1. after.loading /\ after = Handle(old.path, old.page, c.op, ok, c.value)
        BY <1>s, <2>3
      <4>2. old.path \in Paths /\ old.page \in Pages /\ c.op \in Ops /\ c.value \in Nat
        BY <1>2
      <4>3. ok \in BOOLEAN
        BY <1>3
      <4> HIDE DEF old, c
      <4> QED
        BY <4>1, <4>2, <4>3, <3>2, <3>3, HandleCaused
    <3>6. CASE old.path = "/" /\ old.page.first = 0 /\ after.first # 0
      <4>1. Awaited(old.path) = {"agents", "costs"}
        BY <3>6, AwaitedAre
      <4>2. UnderWay(w, "agents") /\ UnderWay(w, "costs")
        BY <1>i, <3>4, <3>6, <4>1
      <4>3. \E op \in Awaited(old.path) : UnderWay(w, op)'
        BY <1>m, <4>1, <4>2, <3>2, <3>6
      <4> QED
        BY <1>i, <3>6, <4>3
    <3>7. CASE old.path # "/" /\ c.op \notin Awaited(old.path) /\ after.first = old.page.first
      <4>1. \A op \in Awaited(old.path) : UnderWay(w, op) => UnderWay(w, op)'
        BY <1>m, <3>7
      <4> QED
        BY <1>i, <3>4, <3>7, <4>1
    <3> QED
      BY <3>4, <3>6, <3>7
  <2> QED
    BY <2>1, <2>2, <2>3
<1>7. ASSUME NEW j \in Slots, Own(calls'[j]), calls'[j].op = "delete"
      PROVE  tab'[calls'[j].tab].path = "/agents"
  <2>1. calls'[j] = calls[j]
    BY <1>7, <1>d
  <2>2. calls[j].tab \in Tabs
    BY <1>1, <1>7, CallFields DEF TypeOK
  <2>3. tab[calls[j].tab].path = "/agents"
    BY <1>7, <2>1 DEF SpinnerInv, DeletesHere
  <2> QED
    BY <1>4, <2>1, <2>2, <2>3
<1>8. \A u \in Tabs : Caused(u)'
  BY <1>5, <1>6
<1>9. DeletesHere'
  BY <1>7 DEF DeletesHere
<1> QED
  BY <1>8, <1>9 DEF SpinnerInv

(* What a login or a creation was sent from is left.                         *)
LEMMA ArrivedCaused ==
  ASSUME TypeOK, SpinnerInv, NEW k \in Slots, NEW path \in Paths, NEW token,
         NEW t \in Tabs, t = calls[k].tab, Navigate(t, path, token, Done(k))
  PROVE  SpinnerInv'
<1>1. calls \in [Slots -> Calls]
  BY DEF TypeOK
<1>2. Done(k) \in [Slots -> Calls]
  BY <1>1, NoCallTyped DEF Done
<1>3. \A j \in Slots : Done(k)[j] = calls[j] \/ (Done(k)[j] = NoCall /\ calls[j].tab = t)
  BY <1>1 DEF Done
<1> QED
  BY <1>2, <1>3, NavigateCaused

(* The rest of what is done with a request that no page waits for.           *)
LEMMA DiscardCaused ==
  ASSUME TypeOK, SpinnerInv, NEW k \in Slots, calls' = Done(k), tab' = tab,
         Own(calls[k]) => calls[k].op \notin Awaited(tab[calls[k].tab].path)
  PROVE  SpinnerInv'
<1>1. /\ \A j \in Slots : Own(calls'[j]) => calls'[j] = calls[j]
      /\ \A u, op : /\ UnderWay(u, op)
                    /\ Own(calls[k]) => u # calls[k].tab \/ op # calls[k].op
                    => UnderWay(u, op)'
  BY DoneKeeps
<1>2. ASSUME NEW u \in Tabs PROVE Caused(u)'
  <2>1. \A op \in Awaited(tab[u].path) : UnderWay(u, op) => UnderWay(u, op)'
    BY <1>1
  <2>2. Caused(u)
    BY DEF SpinnerInv
  <2>3. tab'[u] = tab[u]
    OBVIOUS
  <2> QED
    BY <2>1, <2>2, <2>3, StillCaused
<1>3. DeletesHere'
  BY <1>1 DEF SpinnerInv, DeletesHere
<1> QED
  BY <1>2, <1>3 DEF SpinnerInv

LEMMA LoggedInCaused ==
  ASSUME TypeOK, SpinnerInv, NEW k \in Slots, LoggedIn(k)
  PROVE  SpinnerInv'
<1>1. PICK t : t = calls[k].tab
  OBVIOUS
<1>2. t \in Tabs /\ "/" \in Paths
  BY <1>1, CallFields DEF TypeOK, Paths, Protected
<1>3. PICK token : Navigate(t, "/", token, Done(k))
  BY <1>1 DEF LoggedIn
<1> QED
  BY <1>1, <1>2, <1>3, ArrivedCaused

LEMMA CreatedCaused ==
  ASSUME TypeOK, SpinnerInv, NEW k \in Slots, Created(k)
  PROVE  SpinnerInv'
<1>1. PICK t : t = calls[k].tab
  OBVIOUS
<1>2. t \in Tabs /\ "/agents" \in Paths
  BY <1>1, CallFields DEF TypeOK, Paths, Protected
<1>3. CASE tab[t].path = "/agents"
  <2>1. tab' = tab /\ calls' = Done(k) /\ calls[k].op = "create"
    BY <1>1, <1>3 DEF Created, Arrived
  <2>2. calls[k].op \notin Awaited(tab[calls[k].tab].path)
    BY <1>1, <1>3, <2>1, AwaitedAre
  <2> QED
    BY <2>1, <2>2, DiscardCaused
<1>4. CASE tab[t].path # "/agents"
  <2>1. PICK token : Navigate(t, "/agents", token, Done(k))
    BY <1>1, <1>4 DEF Created
  <2> QED
    BY <1>1, <1>2, <2>1, ArrivedCaused
<1> QED
  BY <1>3, <1>4

(* A deletion gives its place to the refresh that follows it.                *)
LEMMA DeletedCaused ==
  ASSUME TypeOK, SpinnerInv, NEW k \in Slots, Deleted(k)
  PROVE  SpinnerInv'
<1>1. PICK t : t = calls[k].tab
  OBVIOUS
<1>2. calls \in [Slots -> Calls] /\ tab \in [Tabs -> Documents] /\ t \in Tabs
  BY <1>1, CallFields DEF TypeOK
<1>3. /\ calls[k].status # "free" /\ calls[k].op = "delete"
      /\ calls' = [calls EXCEPT ![k] = Fetch(t, "agents", "none", stored, calls[k].owner)]
      /\ tab' = [tab EXCEPT ![t].page.loading = @ \/ (calls[k].owner = "page")]
  BY <1>1 DEF Deleted, Arrived
<1>4. /\ calls'[k] = Fetch(t, "agents", "none", stored, calls[k].owner)
      /\ \A j \in Slots : j # k => calls'[j] = calls[j]
  BY <1>2, <1>3
<1>5. /\ calls'[k].tab = t /\ calls'[k].op = "agents"
      /\ Own(calls'[k]) <=> Own(calls[k])
  BY <1>3, <1>4 DEF Fetch, Own
<1>6. \A u, op : UnderWay(u, op) /\ op # "delete" => UnderWay(u, op)'
  <2> SUFFICES ASSUME NEW u, NEW op, UnderWay(u, op), op # "delete" PROVE UnderWay(u, op)'
    OBVIOUS
  <2>1. PICK j \in Slots : Own(calls[j]) /\ calls[j].tab = u /\ calls[j].op = op
    BY UnderWayIs DEF InFlight
  <2>2. calls'[j] = calls[j]
    BY <1>3, <1>4, <2>1
  <2> QED
    BY <2>1, <2>2, UnderWayIs DEF InFlight
<1>7. /\ \A u \in Tabs : tab'[u].path = tab[u].path
      /\ \A u \in Tabs : tab'[u].page.first = tab[u].page.first
      /\ \A u \in Tabs : u # t => tab'[u] = tab[u]
  BY <1>2, <1>3 DEF Documents, Pages
<1>8. ASSUME NEW u \in Tabs PROVE Caused(u)'
  <2>1. \A op \in Awaited(tab[u].path) : UnderWay(u, op) => UnderWay(u, op)'
    <3>1. tab[u].path \in Paths
      BY <1>2 DEF Documents
    <3> QED
      BY <1>6, <3>1, AwaitedNoRow
  <2>2. Caused(u)
    BY DEF SpinnerInv
  <2>3. CASE u # t \/ ~Own(calls[k])
    <3>1. tab'[u].page.loading => tab[u].page.loading
      BY <1>2, <1>3, <1>7, <2>3 DEF Own, Documents, Pages
    <3> QED
      BY <1>7, <2>1, <2>2, <3>1, StillCaused
  <2>4. CASE u = t /\ Own(calls[k])
    <3>1. tab[u].path = "/agents"
      BY <1>1, <1>3, <2>4 DEF SpinnerInv, DeletesHere
    <3>2. UnderWay(u, "agents")'
      BY <1>5, <2>4, UnderWayIs DEF InFlight
    <3>3. Awaited(tab'[u].path) = {"agents"}
      BY <1>7, <3>1, AwaitedAre
    <3>4. (\E op \in Awaited(tab[u].path) : UnderWay(u, op))'
      BY <3>2, <3>3
    <3>5. (\A op \in Awaited(tab[u].path) : UnderWay(u, op))'
      BY <3>2, <3>3
    <3> QED
      BY <3>4, <3>5 DEF Caused
  <2> QED
    BY <2>3, <2>4
<1>9. ASSUME NEW j \in Slots, Own(calls'[j]), calls'[j].op = "delete"
      PROVE  tab'[calls'[j].tab].path = "/agents"
  <2>1. calls'[j] = calls[j]
    BY <1>4, <1>5, <1>9
  <2>2. calls[j].tab \in Tabs /\ tab[calls[j].tab].path = "/agents"
    BY <1>2, <1>9, <2>1, CallFields DEF SpinnerInv, DeletesHere
  <2>3. tab'[calls[j].tab].path = tab[calls[j].tab].path
    BY <1>7, <2>2
  <2> QED
    BY <2>1, <2>2, <2>3
<1>10. DeletesHere'
  BY <1>9 DEF DeletesHere
<1> QED
  BY <1>8, <1>10 DEF SpinnerInv

LEMMA ForgetCaused ==
  ASSUME TypeOK, SpinnerInv, NEW k \in Slots, Forget(k)
  PROVE  SpinnerInv'
<1>1. calls' = Done(k) /\ tab' = tab /\ ~Own(calls[k])
  BY DEF Forget, Own
<1> QED
  BY <1>1, DiscardCaused

(* Steps in which no page and no request takes part.                         *)
LEMMA StillSpinners ==
  ASSUME TypeOK, SpinnerInv, UNCHANGED calls,
         \A u \in Tabs : tab'[u].path = tab[u].path /\ tab'[u].page = tab[u].page
  PROVE  SpinnerInv'
<1>1. \A j \in Slots : Own(calls[j]) =>
        /\ Own(calls'[j]) /\ calls'[j].tab = calls[j].tab /\ calls'[j].op = calls[j].op
  OBVIOUS
<1>2. \A j \in Slots : Own(calls'[j]) /\ calls'[j].op = "delete" =>
        Own(calls[j]) \/ (calls'[j].tab \in Tabs /\ tab[calls'[j].tab].path = "/agents")
  OBVIOUS
<1> QED
  BY <1>1, <1>2, QuietCaused

LEMMA LeaveCaused ==
  ASSUME TypeOK, SpinnerInv, NEW t \in Tabs, Type(t) \/ Unload(t) \/ Follow(t) \/ SignOut(t)
  PROVE  SpinnerInv'
<1>1. CASE Type(t)
  <2>1. PICK path \in plan.paths[t] : OpenDocument(t, path)
    BY <1>1 DEF Type
  <2>2. path \in Paths
    BY <2>1, PlannedPaths
  <2> QED
    BY <2>1, <2>2, OpenCaused
<1>2. CASE Unload(t)
  <2>1. OpenDocument(t, "/login") /\ "/login" \in Paths
    BY <1>2 DEF Unload, Paths
  <2> QED
    BY <2>1, OpenCaused
<1>3. CASE Follow(t)
  <2>1. PICK path \in plan.paths[t] : Navigate(t, path, stored, calls)
    BY <1>3 DEF Follow
  <2>2. path \in Paths /\ calls \in [Slots -> Calls]
    BY <2>1, PlannedPaths DEF TypeOK
  <2> QED
    BY <2>1, <2>2, NavigateCaused
<1>4. CASE SignOut(t)
  <2>1. UNCHANGED calls /\ tab' = [tab EXCEPT ![t].leaving = TRUE]
    BY <1>4 DEF SignOut
  <2>2. \A u \in Tabs : tab'[u].path = tab[u].path /\ tab'[u].page = tab[u].page
    BY <2>1 DEF TypeOK, Documents
  <2> QED
    BY <2>1, <2>2, StillSpinners
<1> QED
  BY <1>1, <1>2, <1>3, <1>4

LEMMA InitSpinner == Init => SpinnerInv
<1> SUFFICES ASSUME Init PROVE SpinnerInv
  OBVIOUS
<1>1. ~Mounted("/login").loading
  BY LoadsAre DEF Mounted
<1>2. \A t \in Tabs : ~tab[t].page.loading
  BY <1>1 DEF Init
<1>3. \A k \in Slots : ~Own(calls[k])
  BY NoCallGood DEF Init, Own
<1> QED
  BY <1>2, <1>3 DEF SpinnerInv, Caused, DeletesHere

LEMMA SpinnerStep == DashboardInv /\ SpinnerInv /\ [Next]_vars => SpinnerInv'
<1> SUFFICES ASSUME DashboardInv, SpinnerInv, [Next]_vars PROVE SpinnerInv'
  OBVIOUS
<1>1. TypeOK
  BY DEF DashboardInv
<1>2. ASSUME NEW t \in Tabs, User(t) \/ Unload(t) \/ Refresh(t) PROVE SpinnerInv'
  BY <1>1, <1>2, LeaveCaused, FormCaused, RowCaused DEF User
<1>3. ASSUME NEW k \in Slots, Progress(k) \/ Fail(k) PROVE SpinnerInv'
  BY <1>1, <1>3, AnswerCaused, HandledCaused, LoggedInCaused, CreatedCaused, DeletedCaused,
     ForgetCaused DEF Progress, Deliver
<1>4. CASE Withdraw \/ Change \/ UNCHANGED vars
  <2>1. UNCHANGED << calls, tab >>
    BY <1>4 DEF Withdraw, Change, vars
  <2> QED
    BY <1>1, <2>1, StillSpinners
<1> QED
  BY <1>2, <1>3, <1>4 DEF Next

(* While a spinner turns, or the button of a form is disabled, a request the *)
(* page waits for is under way and its own, whatever failed, was left,        *)
(* refreshed or deleted meanwhile (the pages of src/web-dashboard/frontend,   *)
(* and handleDelete and refresh of LiveAgents).                              *)
THEOREM SpinnersAwaitAnswers == Spec => []SpinnersHaveCause
<1>1. Init /\ [][Next]_vars /\ []DashboardInv => []SpinnerInv
  <2>1. DashboardInv /\ SpinnerInv /\ [Next]_vars => SpinnerInv'
    BY SpinnerStep
  <2>2. Init => SpinnerInv
    BY InitSpinner
  <2> QED
    BY <2>1, <2>2, PTL
<1>2. SpinnerInv => SpinnersHaveCause
  BY DEF SpinnerInv, Caused, SpinnersHaveCause
<1> QED
  BY <1>1, <1>2, InvariantHolds, PTL DEF Spec

=============================================================================
