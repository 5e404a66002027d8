----------------------------- MODULE LiveCockpit ----------------------------
(***************************************************************************)
(* The chat cockpit of apps/web: tabs that open a case, attach to it, poll *)
(* it on an interval, and dial one supplier as soon as the checklist says  *)
(* that outreach has begun (hooks/use-devin-case.ts, lib/live/api.ts).     *)
(*                                                                         *)
(* A request is a value in `sent`.  The three reads of an attach or a poll *)
(* are answered at one moment, no property tells their order apart; the    *)
(* page gets the answer at a later one, whatever it shows by then.         *)
(* The effect of a render is an action that is enabled while the rendered  *)
(* state asks for it.                                                      *)
(***************************************************************************)
EXTENDS LiveChecklist

CONSTANTS
  Tab,         \* browser tabs
  FirstTab,    \* the one that is open from the start
  MaxCase,     \* bound: cases opened
  Named,       \* the candidates the agent of a case will name
  Records,     \* the supplier records of the snapshot
  HoldFor,     \* NEXT_PUBLIC_HOLD_FOR, Nobody when unset
  MaxLog,      \* bound: events of all cases when the agent works; dials may go two over
  MaxTicks,    \* bound: polls a tab has under way
  Scenarios    \* how often the effects of a mount run (twice in a development
               \* build), and the bounds of a behaviour: sessions started by
               \* hand, reloads, tabs opened on a case, requests that get lost

ASSUME LiveCockpitAssumption ==
  /\ FirstTab \in Tab
  /\ Named \in Candidates
  /\ HoldFor \in Supplier \cup {Nobody}
  /\ Unknown \notin Int
  /\ Records \in [Supplier -> [preferred : BOOLEAN, incumbent : BOOLEAN, approved : BOOLEAN, ref : Int,
                                price : Int \cup {Unknown}, lead : Int \cup {Unknown}]]
  /\ {MaxCase, MaxLog, MaxTicks} \subseteq Nat
  /\ \A s \in Scenarios :
       /\ DOMAIN s = {"runs", "session", "reload", "open", "lose"}
       /\ Range(s) \subseteq Nat

VARIABLES
  cases,     \* the cases of the API, in the order they were opened
  tab,       \* what each tab's page holds
  sent,      \* the requests each tab has under way
  dialled,   \* dialedCases of each tab's lib/live/api module
  budget,    \* the scenario, and what is left of its bounds
  launches,  \* history: how often a session was asked for
  dials,     \* history: the dials of a case that this life of a tab caused
  lostDials  \* history: the dials of a case whose answer got lost, by tab

vars == <<cases, tab, sent, dialled, budget, launches, dials, lostDials>>

-----------------------------------------------------------------------------
(* The API.                                                                *)

Cases == 1..MaxCase
Opened == DOMAIN cases
Events == FoldSet(LAMBDA c, n : n + Len(cases[c].log), 0, Opened)
NoCase == 0

\* The candidates of a case before the agent has named any.
NoCandidates == [Named EXCEPT !.order = <<>>, !.passed = {}]

\* The status the API derives for a section (plan/checklist.py).
ApiSectionStatus(steps) ==
  LET rows == DOMAIN steps
  IN  IF rows = {} THEN "pending"
      ELSE IF \E r \in rows : steps[r] = "active" THEN "active"
      ELSE IF \E r \in rows : steps[r] = "failed" THEN "failed"
      ELSE IF \A r \in rows : steps[r] \in {"done", "skipped"} THEN "done"
      ELSE IF \E r \in rows : steps[r] = "done" THEN "active"
      ELSE "pending"

ApiSection(steps) == [status |-> ApiSectionStatus(steps), steps |-> steps]

\* A case as POST /cases leaves it: seeded, its session started or stubbed.
SeededCase(session) ==
  [candidates |-> NoCandidates, briefed |-> "pending", called |-> <<>>, log |-> <<session>>]

\* What GET /cases/{case_id} and GET /cases/{case_id}/plan answer.
ApiPlan(c) ==
  [screening |-> ApiSection(<<>>),
   outreach  |-> ApiSection([r \in DOMAIN cases[c].called \cup {Brief} |->
                               IF r = Brief THEN cases[c].briefed ELSE cases[c].called[r]])]

View(c) == [case |-> c, candidates |-> cases[c].candidates, plan |-> ApiPlan(c)]

EventsOf(c, since) == [i \in 1..(Len(cases[c].log) - since) |-> since + i]

\* The agent names its candidates, finishes the brief, or closes a call.
AgentWorks ==
  /\ Events < MaxLog
  /\ \E c \in Opened :
       /\ \E work \in
            {[cases[c] EXCEPT !.candidates = Named]} \cup
            {[cases[c] EXCEPT !.briefed = "done"]} \cup
            {[cases[c] EXCEPT !.called[s] = "done"] : s \in DOMAIN cases[c].called} :
            /\ work # cases[c]
            /\ cases' = [cases EXCEPT ![c] = [work EXCEPT !.log = Append(@, "other")]]
  /\ UNCHANGED <<tab, sent, dialled, budget, launches, dials, lostDials>>

-----------------------------------------------------------------------------
(* The state of a page.                                                    *)

Empty == [status |-> "idle", case |-> NoCase, events |-> <<>>, view |-> Nobody]
Blank(url) == [url |-> url, open |-> TRUE, state |-> Empty]

Spend(what) == budget[what] > 0 /\ budget' = [budget EXCEPT ![what] = @ - 1]

\* The runs of the effects of a mount.
Runs == 1..budget.runs

Attach(c, opened, run) ==
  [kind |-> "attach", case |-> c, opened |-> opened, run |-> run, since |-> 0,
   events |-> Nobody, view |-> Nobody]

Open(waiters) == [kind |-> "open", case |-> NoCase, waiters |-> waiters]

\* The last session of a list of events.
SessionIn(c, events) ==
  LET at == {i \in DOMAIN events : cases[c].log[events[i].seq] \in {"session", "stub"}}
  IN  IF at = {} THEN Nobody ELSE cases[c].log[events[CHOOSE i \in at : \A j \in at : j <= i].seq]

StatusFromSession(session) == IF session = "stub" THEN "stubbed" ELSE "live"

Tagged(c, seqs) == [i \in DOMAIN seqs |-> [case |-> c, seq |-> seqs[i]]]

\* A new state: polls of another case or status are cancelled.
Becomes(t, url, state, requests) ==
  /\ tab' = [tab EXCEPT ![t].url = url, ![t].state = state]
  /\ sent' = [sent EXCEPT ![t] =
       LET kept == IF state.case = tab[t].state.case /\ state.status = tab[t].state.status
                   THEN requests ELSE {r \in requests : r.kind # "tick"}
       IN  IF url \in {NoCase, tab[t].url} THEN kept ELSE kept \cup {Attach(url, FALSE, 1)}]

-----------------------------------------------------------------------------
(* Opening a case.                                                         *)

Opening(t) == {r \in sent[t] : r.kind = "open"}

\* Fault: a launch posts a case of its own, whether or not one is being opened.
OpenCaseAlways(t, waiters) == {Open({w}) : w \in waiters}

\* A launch while a case is being opened waits for the same answer.
OpenCase(t, waiters) ==
  IF Opening(t) = {} THEN {Open(waiters)}
  ELSE {[r EXCEPT !.waiters = @ \cup waiters] : r \in Opening(t)}

Launch(t, waiters) ==
  /\ launches' = launches + 1
  /\ Becomes(t, tab[t].url, [Empty EXCEPT !.status = "launching"],
             (sent[t] \ Opening(t)) \cup OpenCase(t, waiters))

\* The case in the header, and its button.
Header(state) == [case |-> state.case, dead |-> state.status = "launching"]

\* A page without a case launches by itself.
AutoLaunch(t) ==
  /\ tab[t].open /\ tab[t].url = NoCase /\ tab[t].state.status = "idle"
  /\ Launch(t, Runs)
  /\ UNCHANGED <<cases, dialled, budget, dials, lostDials>>

\* The button "New session", dead while launching.
StartNewSession(t) ==
  /\ tab[t].open /\ ~Header(tab[t].state).dead
  /\ tab[t].url = NoCase => tab[t].state.status # "idle"
  /\ Spend("session")
  /\ Launch(t, {3})
  /\ UNCHANGED <<cases, dialled, dials, lostDials>>

\* POST /cases makes a case of its own for every request.
ServeOpen(t) ==
  /\ \E r \in Opening(t), session \in {"session", "stub"} :
       /\ r.case = NoCase /\ Len(cases) < MaxCase
       /\ cases' = Append(cases, SeededCase(session))
       /\ sent' = [sent EXCEPT ![t] = (@ \ {r}) \cup {[r EXCEPT !.case = Len(cases) + 1]}]
  /\ UNCHANGED <<tab, dialled, budget, launches, dials, lostDials>>

\* Every launch that waited attaches to the case that was opened.
Launched(t) ==
  /\ \E r \in Opening(t) :
       /\ r.case # NoCase
       /\ sent' = [sent EXCEPT ![t] = (@ \ {r}) \cup {Attach(r.case, TRUE, w) : w \in r.waiters}]
  /\ UNCHANGED <<cases, tab, dialled, budget, launches, dials, lostDials>>

-----------------------------------------------------------------------------
(* Reading a case.                                                         *)

LastSeen(events) == IF events = <<>> THEN 0 ELSE Last(events).seq

\* Fault: the cursor is the number of events on the page.
SeenByCount(events) == Len(events)

\* The cursor of a poll: the number of the last event on the page.
Since(events) == LastSeen(events)

\* The interval fires, whether or not the last poll was answered.
Tick(t) ==
  LET state == tab[t].state
  IN  /\ state.case # NoCase
      /\ Cardinality({r \in sent[t] : r.kind = "tick"}) < MaxTicks
      /\ sent' = [sent EXCEPT ![t] = @ \cup
           {[kind |-> "tick", case |-> state.case, since |-> Since(state.events),
             events |-> Nobody, view |-> Nobody]}]
      /\ UNCHANGED <<cases, tab, dialled, budget, launches, dials, lostDials>>

IsRead(r) == r.kind \in {"attach", "tick"}
Answered(r) == r.view # Nobody

\* GET of the case, of its events after the cursor and of its plan.
ServeRead(t) ==
  /\ \E r \in sent[t] :
       /\ IsRead(r)
       /\ ~Answered(r)
       /\ sent' = [sent EXCEPT ![t] = (@ \ {r}) \cup
                    {[r EXCEPT !.events = EventsOf(r.case, r.since), !.view = View(r.case)]}]
  /\ UNCHANGED <<cases, tab, dialled, budget, launches, dials, lostDials>>

\* Fault: what an attach brings is laid over the state instead of replacing it.
AttachedOver(t, r) ==
  [status |-> StatusFromSession(SessionIn(r.case, Tagged(r.case, r.events))), case |-> r.case,
   events |-> tab[t].state.events \o Tagged(r.case, r.events), view |-> r.view]

\* An attach replaces the whole state, whatever the page shows by now.
Attached(t, r) ==
  [status |-> StatusFromSession(SessionIn(r.case, Tagged(r.case, r.events))), case |-> r.case,
   events |-> Tagged(r.case, r.events), view |-> r.view]

\* When a launch has attached, the url is replaced by that of its case.
ShowAttach(t) ==
  /\ \E r \in sent[t] :
       /\ r.kind = "attach" /\ Answered(r)
       /\ Becomes(t, IF r.opened THEN r.case ELSE tab[t].url, Attached(t, r), sent[t] \ {r})
  /\ UNCHANGED <<cases, dialled, budget, launches, dials, lostDials>>

\* A poll of the case on the page extends the log and replaces the rest.
Extended(t, r) ==
  LET events == tab[t].state.events \o Tagged(r.case, r.events)
      session == SessionIn(r.case, events)
  IN  [tab[t].state EXCEPT !.events = events, !.view = r.view,
         !.status = IF session = Nobody THEN @ ELSE StatusFromSession(session)]

ShowTick(t) ==
  /\ \E r \in sent[t] :
       /\ r.kind = "tick" /\ Answered(r)
       /\ Becomes(t, tab[t].url, Extended(t, r), sent[t] \ {r})
  /\ UNCHANGED <<cases, dialled, budget, launches, dials, lostDials>>

-----------------------------------------------------------------------------
(* Dialling.                                                               *)

Shown(t) == ResolveChecklist(tab[t].state.view.plan, tab[t].state.view.candidates)

AlreadyLiveDialed(t) ==
  \E i \in DOMAIN tab[t].state.events :
    LET e == tab[t].state.events[i] IN cases[e.case].log[e.seq] = "live"

DialsUnderWay(t, c) == {r \in sent[t] : r.kind = "dial" /\ r.case = c}

\* Fault: the page does not remember that it is dialling.
MayDialAgain(t, c) == c \notin dialled[t]

\* One dial per case and life of the page.
MayDial(t, c) == c \notin dialled[t] /\ DialsUnderWay(t, c) = {}

\* Whom the page wants to dial now: the effect of every render.
WantsToDial(t) ==
  IF \/ tab[t].state.case = NoCase
     \/ ~OutreachIsLive(Shown(t))
     \/ AlreadyLiveDialed(t)
  THEN {}
  ELSE PickLiveCallSupplier(Shown(t), tab[t].state.view.candidates, HoldFor)

PlaceLiveCall(t) ==
  /\ \E s \in WantsToDial(t) :
       /\ MayDial(t, tab[t].state.case)
       /\ sent' = [sent EXCEPT ![t] = @ \cup
            {[kind |-> "dial", case |-> tab[t].state.case, supplier |-> s,
              run |-> dials[t][tab[t].state.case], answer |-> "none"]}]
  /\ UNCHANGED <<cases, tab, dialled, budget, launches, dials, lostDials>>

\* The line of supplier `s`, made when it is missing.
Marked(called, s, outcome) ==
  [q \in DOMAIN called \cup {s} |-> IF q = s THEN outcome ELSE called[q]]

\* POST /flow/call: refused, or the line is ticked, announced and dialled, and
\* the dial may fail.
ServeDial(t) ==
  /\ \E r \in sent[t] :
       /\ r.kind = "dial" /\ r.answer = "none"
       /\ sent' = [sent EXCEPT ![t] = (@ \ {r}) \cup {[r EXCEPT !.answer = "some"]}]
       /\ \/ UNCHANGED <<cases, dials>>
          \/ \E outcome \in {"active", "failed"} :
               /\ Events <= MaxLog + 1
               /\ dials' = [dials EXCEPT ![t][r.case] = @ + 1]
               /\ cases' = [cases EXCEPT ![r.case].log = Append(@, "live"),
                                         ![r.case].called = Marked(@, r.supplier, outcome)]
  /\ UNCHANGED <<tab, dialled, budget, launches, lostDials>>

\* Any answer is remembered; an error is shown besides.
Dialed(t) ==
  /\ \E r \in sent[t] :
       /\ r.kind = "dial" /\ r.answer = "some"
       /\ sent' = [sent EXCEPT ![t] = @ \ {r}]
       /\ dialled' = [dialled EXCEPT ![t] = @ \cup {r.case}]
  /\ UNCHANGED <<cases, tab, budget, launches, dials, lostDials>>

-----------------------------------------------------------------------------
(* Failures, reloads, other tabs.                                          *)

Error == [Empty EXCEPT !.status = "error"]

\* The state after request `r` got lost: a launch fails, and so does the load of
\* the case the url names; a poll and a dial are forgotten.
AfterLoss(t, r) ==
  IF r.kind = "open" \/ (r.kind = "attach" /\ (r.opened \/ r.case = tab[t].url))
  THEN Error ELSE tab[t].state

\* A request or its answer gets lost.
Lose(t) ==
  /\ Spend("lose")
  /\ \E r \in sent[t] :
       /\ Becomes(t, tab[t].url, AfterLoss(t, r), sent[t] \ {r})
       /\ lostDials' = IF r.kind # "dial" THEN lostDials ELSE [lostDials EXCEPT ![t][r.case] = @ + 1]
  /\ UNCHANGED <<cases, dialled, launches, dials>>

\* The page is loaded: nothing of an earlier life is left.
Load(t, url) ==
  /\ tab' = [tab EXCEPT ![t] = Blank(url)]
  /\ sent' = [sent EXCEPT ![t] = IF url = NoCase THEN {} ELSE {Attach(url, FALSE, run) : run \in Runs}]
  /\ dialled' = [dialled EXCEPT ![t] = {}]
  /\ dials' = [dials EXCEPT ![t] = [c \in Cases |-> 0]]
  /\ lostDials' = [lostDials EXCEPT ![t] = [c \in Cases |-> 0]]
  /\ UNCHANGED <<cases, launches>>

Reload(t) == tab[t].open /\ Spend("reload") /\ Load(t, tab[t].url)
OpenTab(t) == ~tab[t].open /\ Spend("open") /\ \E c \in Opened : Load(t, c)

-----------------------------------------------------------------------------
(* What a tab shows.                                                       *)

\* The line over the checklist.
SessionBanner(status) ==
  CASE status \in {"idle", "launching"} -> "none"
    [] status = "error" -> "no session"
    [] status = "stubbed" -> "stubbed"
    [] OTHER -> "live"

\* The header, the banner, the checklist and the candidate panel, with the dialog
\* on one candidate.
ChatScreen(t, selectedRef) ==
  LET state == tab[t].state
  IN  [header |-> Header(state),
       banner |-> SessionBanner(state.status),
       checklist |-> IF state.view = Nobody THEN Nobody ELSE PlanChecklist(Shown(t)),
       panel  |-> IF state.view = Nobody THEN Nobody
                  ELSE LiveCandidatePanel(Records, state.view.candidates, selectedRef)]

-----------------------------------------------------------------------------
\* One tab is open, on no case.
Init ==
  /\ cases = <<>>
  /\ tab = [t \in Tab |-> [Blank(NoCase) EXCEPT !.open = t = FirstTab]]
  /\ sent = [t \in Tab |-> {}]
  /\ dialled = [t \in Tab |-> {}]
  /\ budget \in Scenarios
  /\ launches = 0
  /\ dials = [t \in Tab |-> [c \in Cases |-> 0]]
  /\ lostDials = [t \in Tab |-> [c \in Cases |-> 0]]

Reads(t) == ServeOpen(t) \/ Launched(t) \/ ServeRead(t) \/ ShowAttach(t) \/ ShowTick(t)
Dials(t) == PlaceLiveCall(t) \/ ServeDial(t) \/ Dialed(t)

Next ==
  \/ AgentWorks
  \/ \E t \in Tab :
       \/ AutoLaunch(t) \/ StartNewSession(t) \/ Tick(t) \/ Reads(t) \/ Dials(t)
       \/ Lose(t) \/ Reload(t) \/ OpenTab(t)

Spec == Init /\ [][Next]_vars

\* The interval goes on firing, a request that is not lost is answered, and its
\* answer is shown.
Fairness ==
  \A t \in Tab :
    /\ WF_vars(Tick(t)) /\ WF_vars(ServeOpen(t)) /\ WF_vars(Launched(t))
    /\ WF_vars(ServeRead(t)) /\ WF_vars(ShowAttach(t)) /\ WF_vars(ShowTick(t))

FairSpec == Spec /\ Fairness

-----------------------------------------------------------------------------
(* Properties.                                                             *)

\* However often an effect of the mount runs, one session that is asked for opens
\* one case (lib/live/api.ts:21).
OneCasePerLaunch == Len(cases) <= launches

\* What a tab shows at once is of one case: its view, its events, and whether its
\* session was stubbed, even when answers of another case arrive late; and the
\* panel never lists a refused candidate above one that passed.
OneCaseShown ==
  \A t \in Tab, s \in Supplier :
    LET state  == tab[t].state
        screen == ChatScreen(t, s)
        case   == screen.header.case
    IN  case # NoCase =>
          /\ state.view.case = case
          /\ \A i \in DOMAIN state.events : state.events[i].case = case
          /\ (screen.banner = "stubbed") = (cases[case].log[1] = "stub")
          /\ screen.checklist.done <= screen.checklist.total
          /\ \A i, j \in DOMAIN screen.panel.rows :
               screen.panel.rows[j].passed /\ ~screen.panel.rows[i].passed => j < i
          /\ s \notin NamedIn(state.view.candidates) => screen.panel.dialog = {}

\* One life of a tab dials a case once, and once more only for a dial whose answer
\* got lost (lib/live/api.ts:79).
DialsAccounted == \A t \in Tab, c \in Cases : dials[t][c] <= 1 + lostDials[t][c]

\* Nobody the screening refused is dialled, however old the view is that the dial
\* was chosen from.
NobodyRefusedIsDialled ==
  \A c \in Opened : DOMAIN cases[c].called \subseteq Named.passed \cup {HoldFor}

\* A tab that stays on a case ends up showing the case as it is, to its last event,
\* whatever polls and attaches overtook each other before.
ScreenFollows ==
  \A t \in Tab :
    <>[](tab[t].state.case # NoCase =>
           /\ LastSeen(tab[t].state.events) = Len(cases[tab[t].state.case].log)
           /\ tab[t].state.view = View(tab[t].state.case))

=============================================================================
