---------------------------- MODULE CockpitPages ----------------------------
(***************************************************************************)
(* One browser tab on the pages of ui/app: the inventory, the cockpit and  *)
(* the page of a case, over the API it polls and posts to.                 *)
(*                                                                         *)
(* A request is a value: what it asked for, and how far it has come.  The  *)
(* API reads a snapshot in two steps (candidates, decision and log first,  *)
(* claims last), answers in any order, and goes on changing the case in    *)
(* between.  A button of the cockpit starts a chain: post, read the case,  *)
(* read the checklist.                                                     *)
(*                                                                         *)
(* A definition marked "Fault" is not part of the specification: it is     *)
(* what the definition after it must not become; the runs tell them apart. *)
(***************************************************************************)
EXTENDS CockpitViews

CONSTANTS
  Case,         \* case ids
  FirstCase,    \* the case the cockpit starts on, CASE-001
  Incumbent,    \* Case -> the supplier that supplies the part today
  Passing,      \* Case -> the suppliers policy clears
  Sources,      \* the data sources to start from: "live", "fixtures"
  Recorded,     \* length of the recorded log replayed from the fixtures
  MaxSeq,       \* bound: Case -> changes of that case
  MaxReads,     \* bound: no poll is sent while that many reads are under way
  Budget        \* bounds: pages visited, cases picked, buttons pressed, requests
                \* that fail, changes made by somebody else

ASSUME PagesAssumption ==
  /\ FirstCase \in Case
  /\ Nobody \notin Case
  /\ Incumbent \in [Case -> Supplier]
  /\ Passing \in [Case -> SUBSET Supplier]
  /\ Sources \subseteq {"live", "fixtures"}
  /\ MaxSeq \in [Case -> Nat] /\ Recorded \in Nat /\ MaxReads \in Nat
  /\ Budget \in [{"visit", "select", "press", "fail", "other"} -> Nat]

VARIABLES
  source,    \* DATA_SOURCE of the build
  server,    \* Case -> [screened, claims, decision, seq]: the case directory
  opened,    \* the cases that exist
  page,      \* the page the tab is on and its state
  reads,     \* reads under way
  acts,      \* chains of the cockpit's buttons under way
  budget,    \* what is left of Budget
  across     \* history: a chain was begun while another one was under way

vars == <<source, server, opened, page, reads, acts, budget, across>>

-----------------------------------------------------------------------------
(* The API, as far as these pages see it.                                  *)

Spend(what) == budget[what] > 0 /\ budget' = [budget EXCEPT ![what] = @ - 1]

NoClaims == [s \in Supplier |-> [r \in Round |-> 0]]
NewCase == [screened |-> FALSE, claims |-> NoClaims, decision |-> Nothing, seq |-> 0]

\* The candidates of a case, refused ones included.
Candidates(c) ==
  [s \in IF server[c].screened THEN Supplier ELSE {} |-> IF s \in Passing[c] THEN {} ELSE Rule]

\* What a decision takes for the answer of a supplier: its highest round on file.
Newest(filed) ==
  IF \A r \in Round : filed[r] = 0 THEN 0
  ELSE filed[CHOOSE r \in Round : filed[r] # 0 /\ \A q \in Round : filed[q] # 0 => q <= r]

\* The plans of a case buy from suppliers that policy cleared only.
Priced(c) ==
  LET plans == {p \in Plan : p.buys \subseteq Passing[c]}
      order == CHOOSE f \in [1..Cardinality(plans) -> plans] : \A p \in plans : \E i \in DOMAIN f : f[i] = p
  IN  [priced      |-> [s \in Supplier |-> Newest(server[c].claims[s])],
       strategies  |-> order,
       recommended |-> IF plans = {} THEN Nothing ELSE Ranked(order)[1]]

\* Every change of a case is an event of its log.
Logged(c, fields) == server' = [server EXCEPT ![c] = [fields EXCEPT !.seq = @ + 1]]

FileClaim(c, s, r) ==
  /\ server[c].seq < MaxSeq[c]
  /\ Logged(c, [server[c] EXCEPT !.claims[s][r] = server[c].seq + 1])

Screen(c) == server[c].seq < MaxSeq[c] /\ Logged(c, [server[c] EXCEPT !.screened = TRUE])
Decide(c) == server[c].seq < MaxSeq[c] /\ Logged(c, [server[c] EXCEPT !.decision = Priced(c)])

\* The agent of the case, or another tab, works on it as well.
OthersWork ==
  /\ source = "live" /\ Spend("other")
  /\ \E c \in opened : Screen(c) \/ Decide(c) \/ \E s \in Supplier, r \in Round : FileClaim(c, s, r)
  /\ UNCHANGED <<source, opened, page, reads, acts, across>>

-----------------------------------------------------------------------------
(* Reads.                                                                  *)

\* The snapshot of a case before its claims are read.
Half(c) ==
  [case_id |-> c, incumbent |-> Incumbent[c], candidates |-> Candidates(c), claims |-> NoClaims,
   decision |-> server[c].decision, last_event_seq |-> server[c].seq]

Whole(c) == [Half(c) EXCEPT !.claims = server[c].claims]

\* A read from when the API begins to answer it.
Read(kind, c, first) == [kind |-> kind, case |-> c, first |-> first, stage |-> "half", value |-> Half(c)]

\* Fault: the cockpit's reads keep the case it was mounted with.
ReadsOfTheMount(on, c) ==
  CASE on = "cockpit" -> {Read("case", FirstCase, TRUE)}
    [] on = "case" -> {Read("both", c, TRUE)}
    [] OTHER -> {}

\* The reads a page sends when it mounts or its case changes.
FirstReads(on, c) ==
  CASE on = "cockpit" -> {Read("case", c, TRUE)}
    [] on = "case" -> {Read("both", c, TRUE)}
    [] OTHER -> {}

\* Fault: the claims are those of when the decision was read, the decision is not.
RestReadLate(read) ==
  [read EXCEPT !.stage = "served", !.value.decision = server[read.case].decision]

\* The API reads the claims of the snapshot.
Rest(read) == [read EXCEPT !.stage = "served", !.value.claims = server[read.case].claims]

ServeRead ==
  /\ \E read \in reads : read.stage = "half" /\ reads' = (reads \ {read}) \cup {Rest(read)}
  /\ UNCHANGED <<source, server, opened, page, acts, budget, across>>

-----------------------------------------------------------------------------
(* Pages.                                                                  *)

\* A page of `c` as it is first painted: at once from the fixtures, else empty.
Blank(on, c) ==
  [on |-> on, case |-> c,
   snapshot |-> IF on = "cockpit" /\ source = "fixtures" THEN Whole(c) ELSE Nothing,
   replayed |-> 0, running |-> FALSE, busy |-> Nobody, error |-> FALSE, rows |-> opened]

\* The tab goes to another page: what the old one still waits for is ignored.
Go(on, c) ==
  /\ page' = Blank(on, c)
  /\ reads' = IF source = "live" \/ on = "case" THEN FirstReads(on, c) ELSE {}
  /\ acts' = {}

Visit ==
  /\ \/ Go("inventory", Nobody)
     \/ Go("cockpit", FirstCase)
     \/ \E c \in page.rows : page.on = "inventory" /\ Go("case", c)
  /\ page'.on # page.on /\ Spend("visit")
  /\ UNCHANGED <<source, server, opened, across>>

\* Inventory: one button per part without a case, all dead while one is opening.
Trigger ==
  /\ page.on = "inventory" /\ source = "live" /\ page.busy = Nobody
  /\ \E c \in Case \ page.rows : page' = [page EXCEPT !.busy = c, !.error = FALSE]
  /\ UNCHANGED <<source, server, opened, reads, acts, budget, across>>

\* The case is opened and its page pushed, or the answer is an error.
Triggered ==
  /\ page.on = "inventory" /\ page.busy # Nobody
  /\ \/ opened' = opened \cup {page.busy} /\ Go("case", page.busy) /\ UNCHANGED budget
     \/ /\ Spend("fail")
        /\ page' = [page EXCEPT !.error = TRUE, !.busy = Nobody]
        /\ UNCHANGED <<opened, reads, acts>>
  /\ UNCHANGED <<source, server, across>>

\* Cockpit: another case is picked on the strip.  The old snapshot stays on the
\* screen and reads of the old case stay under way.
SelectCase ==
  /\ page.on = "cockpit" /\ page.snapshot # Nothing /\ Spend("select")
  /\ \E c \in page.rows \ {page.case} :
       /\ page' = IF source = "fixtures" THEN Blank("cockpit", c)
                  ELSE [page EXCEPT !.case = c, !.running = FALSE]
       /\ reads' = IF source = "live" THEN reads \cup FirstReads("cockpit", c) ELSE reads
  /\ UNCHANGED <<source, server, opened, acts, across>>

\* The interval fires: the page asks for the case again.  It does not wait for the last answer.
Poll ==
  /\ page.on = "case" \/ (page.on = "cockpit" /\ source = "live")
  /\ Cardinality(reads) < MaxReads
  /\ reads' = reads \cup {[read EXCEPT !.first = FALSE] : read \in FirstReads(page.on, page.case)}
  /\ UNCHANGED <<source, server, opened, page, acts, budget, across>>

\* An answer arrives and replaces what is shown, whatever case it is of and
\* however old it is.
Show(read) ==
  CASE read.kind = "case" -> [page EXCEPT !.snapshot = read.value]
    [] OTHER -> [page EXCEPT !.snapshot = read.value, !.error = FALSE]

Arrive(kind) ==
  /\ \E read \in reads :
       read.kind = kind /\ read.stage = "served" /\ reads' = reads \ {read} /\ page' = Show(read)
  /\ UNCHANGED <<source, server, opened, acts, budget, across>>

\* A read fails: a first read of the cockpit blanks what it was for, a poll of
\* it is forgotten, the case page says so and keeps what it shows.
Lost(read) ==
  CASE read.kind = "case" /\ read.first -> [page EXCEPT !.snapshot = Nothing]
    [] read.kind = "both" -> [page EXCEPT !.error = TRUE]
    [] OTHER -> page

Fail ==
  /\ Spend("fail")
  /\ \E read \in reads : reads' = reads \ {read} /\ page' = Lost(read)
  /\ UNCHANGED <<source, server, opened, acts, across>>

-----------------------------------------------------------------------------
(* The recorded log, with no backend (the live feed is EventFeed's).       *)

\* All of the recorded log has been shown.
Complete == page.replayed = Recorded

\* Fixtures: "launch" plays the recorded log, once per visit of a case.
LaunchReplay ==
  /\ page.on = "cockpit" /\ source = "fixtures"
  /\ ~(page.running /\ ~Complete)
  /\ page' = [page EXCEPT !.running = TRUE]
  /\ UNCHANGED <<source, server, opened, reads, acts, budget, across>>

ReplayEvent ==
  /\ page.on = "cockpit" /\ source = "fixtures" /\ page.running /\ ~Complete
  /\ page' = [page EXCEPT !.replayed = @ + 1]
  /\ UNCHANGED <<source, server, opened, reads, acts, budget, across>>

-----------------------------------------------------------------------------
(* The buttons of the cockpit.                                             *)

\* The supplier held back for the call: the incumbent of the snapshot shown,
\* once suppliers have been screened.
HeldFor == IF source = "live" /\ DOMAIN page.snapshot.candidates # {} THEN page.snapshot.incumbent ELSE Nobody

\* The cockpit's sections.
CockpitScreen ==
  [candidates |-> CandidateTable(page.snapshot.candidates),
   calls      |-> ClaimCards(page.snapshot.claims, HeldFor),
   cost       |-> StrategyTable(page.snapshot.decision, page.snapshot.claims),
   decision   |-> DecisionPanel(page.snapshot.decision)]

\* The same case on its own page: one row per candidate, its answer on the row.
CaseScreen ==
  [candidates |-> CandidateTable(page.snapshot.candidates),
   calls      |-> [s \in DOMAIN page.snapshot.candidates |-> Latest(page.snapshot.claims[s])],
   cost       |-> StrategyTable(page.snapshot.decision, page.snapshot.claims)]

Held == CockpitScreen.calls.held

\* Fault: no button is dead while its chain is under way.
ButtonsNeverDead == {"run", "collect"} \cup ({Held} \ {Nobody})

\* The buttons that can be pressed.
Buttons == ({"run", "collect"} \cup ({Held} \ {Nobody})) \ {page.busy}

Chain(key, c, about) ==
  [id |-> budget.press, key |-> key, case |-> c, about |-> about, stage |-> "posted", value |-> Nothing]

\* The chain is begun for the selected case, with the incumbent of the shown one.
Press ==
  /\ page.on = "cockpit" /\ source = "live" /\ page.snapshot # Nothing
  /\ Spend("press")
  /\ \E key \in Buttons :
       /\ acts' = acts \cup {Chain(key, page.case, IF key = "run" THEN page.snapshot.incumbent ELSE key)}
       /\ page' = [page EXCEPT !.busy = key, !.error = FALSE, !.running = @ \/ key = "run"]
       /\ across' = (across \/ \E a \in acts : a.key # key \/ a.case # page.case)
  /\ UNCHANGED <<source, server, opened, reads>>

Moved(a, stage) == acts' = (acts \ {a}) \cup {[a EXCEPT !.stage = stage, !.value = Nothing]}

\* POST /flow/run screens, asks everybody but the one held back, and decides.
\* POST /flow/collect files what calls have brought, if anything, and decides.
\* POST /flow/call for a live call is refused (see CaseFlow).
ServeAct ==
  /\ \E a \in acts :
       LET c == a.case
           unasked == {s \in Passing[c] \ {a.about} : server[c].claims[s][1] = 0}
       IN  \/ a.stage = "posted" /\ a.key = "run" /\ Screen(c) /\ Moved(a, "asking") /\ UNCHANGED page
           \/ a.stage = "asking" /\ (\E s \in unasked : FileClaim(c, s, 1)) /\ UNCHANGED <<acts, page>>
           \/ a.stage = "asking" /\ unasked = {} /\ Decide(c) /\ Moved(a, "served") /\ UNCHANGED page
           \/ a.stage = "posted" /\ a.key = "collect" /\ Moved(a, "served") /\ UNCHANGED <<server, page>>
           \/ /\ a.stage = "posted" /\ a.key = "collect" /\ Moved(a, "pricing") /\ UNCHANGED page
              /\ \E s \in Passing[c] : server[c].claims[s][1] = 0 /\ FileClaim(c, s, 1)
           \/ a.stage = "pricing" /\ Decide(c) /\ Moved(a, "served") /\ UNCHANGED page
           \/ /\ a.stage = "posted" /\ a.key \in Supplier /\ acts' = acts \ {a}
              /\ page' = [page EXCEPT !.error = TRUE, !.busy = Nobody] /\ UNCHANGED server
  /\ UNCHANGED <<source, opened, reads, budget, across>>

\* The chain reads the case it was begun for, whatever the page shows by now.
ReadBack ==
  /\ \E a \in acts :
       \/ /\ a.stage = "served" /\ UNCHANGED page
          /\ acts' = (acts \ {a}) \cup {[a EXCEPT !.stage = "half", !.value = Half(a.case)]}
       \/ /\ a.stage = "half" /\ Moved(a, "shown")
          /\ page' = [page EXCEPT !.snapshot = [a.value EXCEPT !.claims = server[a.case].claims]]
  /\ UNCHANGED <<source, server, opened, reads, budget, across>>

\* The chain reads the checklist and is done, or a request of it fails.  Either
\* way no button is busy any more.
Finish ==
  /\ \E a \in acts :
       /\ acts' = acts \ {a}
       /\ \/ /\ a.stage = "shown" /\ UNCHANGED budget
             /\ page' = [page EXCEPT !.busy = Nobody]
          \/ Spend("fail") /\ page' = [page EXCEPT !.error = TRUE, !.busy = Nobody]
  /\ UNCHANGED <<source, server, opened, reads, across>>

-----------------------------------------------------------------------------
Init ==
  /\ source \in Sources
  /\ server = [c \in Case |-> [NewCase EXCEPT !.screened = source = "fixtures"]]
  /\ opened = IF source = "fixtures" THEN Case ELSE {FirstCase}
  /\ page = Blank("inventory", Nobody)
  /\ reads = {}
  /\ acts = {}
  /\ budget = Budget
  /\ across = FALSE

Kinds == {"case", "both"}

Next ==
  \/ OthersWork \/ Visit \/ Trigger \/ Triggered \/ SelectCase \/ Poll \/ Fail
  \/ ServeRead \/ \E kind \in Kinds : Arrive(kind)
  \/ LaunchReplay \/ ReplayEvent \/ Press \/ ServeAct \/ ReadBack \/ Finish

Spec == Init /\ [][Next]_vars

\* Timers go on firing, the API goes on answering, answers go on arriving.
Fairness ==
  /\ WF_vars(Poll) /\ WF_vars(ServeRead)
  /\ \A kind \in Kinds : WF_vars(Arrive(kind))

FairSpec == Spec /\ Fairness

-----------------------------------------------------------------------------
\* Whatever order answers come in, plans are never on the screen without the
\* answers they were priced from: of each supplier priced on an answer, that one
\* or a later one is shown too ("the case is joined server-side", cockpit/page.tsx).
Joined(snapshot) ==
  snapshot.decision # Nothing =>
    \A s \in Supplier : snapshot.decision.priced[s] # 0 =>
      \E r \in Round : snapshot.claims[s][r] >= snapshot.decision.priced[s]

PlansShowTheirClaims == page.snapshot # Nothing => Joined(page.snapshot)

\* The answer on the screen of a supplier is the one the backend would price: the
\* highest round, even when an older round was filed again after it ("a second
\* call supersedes the first", claim-cards.tsx).
CardsShowTheRoundPriced ==
  page.snapshot # Nothing =>
    LET claims == page.snapshot.claims
        shown == IF page.on = "cockpit" THEN CockpitScreen.calls.cards ELSE CaseScreen.calls
    IN  \A s \in DOMAIN shown : shown[s] # 0 => claims[s][shown[s]] = Newest(claims[s])

\* One `busy` serves every button, so a button may come back to life while its
\* own chain is under way; but only after another button, or a button for
\* another case, was pressed meanwhile (act, cockpit/page.tsx).
TwiceOnlyAcross ==
  \A a, b \in acts : a.key = b.key /\ a.case = b.case => a = b \/ across

\* What is on the screen is what the API holds of the selected case.
UpToDate(c) == page.snapshot = Whole(c)

\* A tab that stays on a case ends up showing that case as it is, and not the
\* one shown before nor an older answer, although answers overtake each other and
\* some fail.
ScreenSettles ==
  \A c \in Case :
    <>[](page.case = c /\ (page.on = "case" \/ page.on = "cockpit")) => <>[]UpToDate(c)

=============================================================================
