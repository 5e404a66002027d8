------------------------------ MODULE Rehearsal -----------------------------
(***************************************************************************)
(* The two hooks that narrate CASE-001 (apps/web/hooks): one is driven by  *)
(* timers and plays the calls itself, the other polls the checklist of the *)
(* API and tells a row once the checklist has reached it.  A page uses one *)
(* of them, the `driver`.                                                  *)
(*                                                                         *)
(* A timer is how many ticks it has left: it may fire at 0 or later, and   *)
(* an effect arms it again when what it was armed for has changed.  The    *)
(* checklist moves by the ticks of /flow/run, each of them one step here;  *)
(* the interleavings inside one are those of CaseFlow.                     *)
(***************************************************************************)
EXTENDS RehearsalViews

CONSTANTS
  Scenarios,   \* the hook of the page, NEXT_PUBLIC_HOLD_FOR, Nothing when unset,
               \* and the bounds of a behaviour: polls under way, ticks a
               \* call of the API is watched for, stops, replays
  AgentPlans,  \* what createCallingAgentPlan may draw: call -> [launch, dialing, duration]
  Wait,        \* ticks a row waits before its text (waitMs)
  Chunks,      \* ticks of streaming a text takes
  ClockTicks,  \* ticks between two updates of the clock
  Dialing,     \* ticks a call of the API shows as dialing (DIALING_MS)
  Reveal       \* ticks its transcript takes to appear (TRANSCRIPT_REVEAL_MS)

ASSUME RehearsalAssumption ==
  /\ Scenarios \subseteq [hook : {"timers", "server"}, hold : Called \cup {Nothing}, polls : Nat,
                     watch : Nat, stops : Nat, replays : Nat]
  /\ \A p \in AgentPlans, c \in Called :
       /\ p[c].launch \in Nat /\ p[c].dialing \in Nat /\ p[c].duration \in Nat
       /\ p[c].dialing < p[c].duration
  /\ {Wait, Chunks, ClockTicks, Dialing, Reveal} \subseteq Nat \ {0}

VARIABLES
  scenario,   \* which hook the page uses, and the bounds
  playback,   \* status, phase, row that is told, text of it
  agentPlan,  \* how long each call takes (timers)
  since,      \* ticks since each call was asked for, NotAsked before
  seen,       \* the part of it that the clock of the page has seen
  due,        \* ticks left of the timer of the row and of the clock's interval
  checklist,  \* step -> status, the plan of the API
  runs,       \* the /flow/run requests under way: what each has left to do
  held,       \* the plan the page holds, Nothing before the first answer
  polls,      \* the answers of the polls under way
  left,       \* the stops and replays left
  decision,   \* what the decision bar is given: [selected, recorded]
  happened,   \* history: the rows reached since the narration began (timers), or
              \* ever (server)
  called      \* history: the candidates whose call has been over

timerVars == <<agentPlan, since, seen, due>>
serverVars == <<checklist, runs, polls>>
vars == <<scenario, playback, agentPlan, since, seen, due, checklist, runs, held,
          polls, left, decision, happened, called>>

-----------------------------------------------------------------------------
driver == scenario.hook
HoldFor == scenario.hold
Rows == Len(SCRIPT)
NotAsked == -1
Start == [status |-> "streaming", phase |-> "waiting", row |-> 1, text |-> 0]
Streaming == playback.status = "streaming"
OnRow == playback.row <= Rows
Current == SCRIPT[playback.row]

-----------------------------------------------------------------------------
(* The calls of the timed rehearsal.                                       *)

End(c) == agentPlan[c].launch + agentPlan[c].duration
Asked == {c \in Called : since[c] # NotAsked}
Over(at) == {c \in Called : at[c] # NotAsked /\ at[c] >= End(c)}

\* Ticks until the last call that was asked for is over.
LatestCallingAgentEnd == Max({0} \cup {End(c) - since[c] : c \in Asked})

TimedPhase(c) ==
  LET elapsed == seen[c] - agentPlan[c].launch
  IN  IF seen[c] = NotAsked \/ elapsed < 0 THEN "queued"
      ELSE IF elapsed >= agentPlan[c].duration THEN "complete"
      ELSE IF elapsed < agentPlan[c].dialing THEN "dialing" ELSE "calling"

ResolveCallingAgentRuns ==
  [c \in Called |->
     LET elapsed == seen[c] - agentPlan[c].launch
     IN  [phase |-> TimedPhase(c),
          turns |-> TurnsVisible(TimedPhase(c), elapsed - agentPlan[c].dialing,
                                 agentPlan[c].duration - agentPlan[c].dialing)]]

-----------------------------------------------------------------------------
(* The calls of the live rehearsal.                                        *)

Steps == {SCRIPT[i].step : i \in 1..Rows}
StepFinished(plan, s) == plan[s] \in {"done", "failed", "skipped"}
StepStarted(plan, s) == plan[s] \notin {"none", "pending"}

\* Fault: a call row, too, waits for a result.
ResultReached(row, plan) == plan # Nothing /\ StepFinished(plan, row.step)

\* A call row narrates that the call starts, every other row a result.
ScriptStepReached(row, plan) ==
  /\ plan # Nothing
  /\ IF row.kind = "outreach" THEN StepStarted(plan, row.step) ELSE StepFinished(plan, row.step)

LivePhase(c) ==
  IF held = Nothing \/ ~StepStarted(held, c) THEN "queued"
  ELSE IF StepFinished(held, c) THEN "complete"
  ELSE IF seen[c] < Dialing THEN "dialing" ELSE "calling"

ResolveLiveAgentRuns ==
  [c \in Called |-> [phase |-> LivePhase(c),
                     turns |-> TurnsVisible(LivePhase(c), seen[c] - Dialing, Reveal)]]

AgentRuns == IF driver = "timers" THEN ResolveCallingAgentRuns ELSE ResolveLiveAgentRuns

-----------------------------------------------------------------------------
(* The rows.                                                               *)

\* Fault: the results are told after the wait of the row, calls or not.
WaitAsWritten(row) == IF row.id = "claims" THEN 0 ELSE Wait

\* The results wait for the last call to be over, if all were asked for.
WaitMs(row) ==
  IF row.id # "claims" THEN Wait
  ELSE IF Asked = Called THEN LatestCallingAgentEnd ELSE 0

\* The row whose text is told, or that waits.
Narrating(p) == driver = "timers" /\ p.status = "streaming" /\ p.row <= Rows

\* The timer of the row is armed again for what it is armed for now.
Armed(p, wait) == [due EXCEPT !.row = IF ~Narrating(p) THEN 0 ELSE IF p.phase = "waiting" THEN wait ELSE 1]

\* A call is asked for as soon as its row is the current one, before its wait is over.
ToAsk ==
  IF driver = "timers" /\ Streaming /\ OnRow /\ Current.kind = "outreach" /\ Current.call \notin Asked
  THEN {Current.call} ELSE {}

AskCall ==
  \E c \in ToAsk :
    /\ since' = [since EXCEPT ![c] = 0]
    /\ seen' = [since EXCEPT ![c] = 0]
    /\ due' = [row |-> Wait, clock |-> ClockTicks]
    /\ happened' = happened \cup {playback.row}
    /\ UNCHANGED <<scenario, playback, agentPlan, serverVars, held, left, decision, called>>

\* The rows that are told however the calls go.
Unconditional == {i \in 1..Rows : SCRIPT[i].kind # "outreach" /\ SCRIPT[i].id # "claims"}
ClaimsRow == {i \in 1..Rows : SCRIPT[i].id = "claims"}

\* Time passes; what is due may be late.
Elapse ==
  /\ driver = "timers" /\ Streaming /\ ToAsk = {}
  /\ since' = [c \in Called |-> IF since[c] = NotAsked THEN NotAsked ELSE Min({End(c), since[c] + 1})]
  /\ due' = [t \in DOMAIN due |-> Max({0, due[t] - 1})]
  /\ called' = called \cup Over(since')
  /\ happened' = IF Over(since') = Called THEN happened \cup ClaimsRow ELSE happened
  /\ <<since', due'>> # <<since, due>>
  /\ UNCHANGED <<scenario, playback, agentPlan, seen, serverVars, held, left, decision>>

\* The clock of the page, until the calls that were asked for are over.
UpdateClock ==
  /\ driver = "timers" /\ Streaming
  /\ Asked # {} /\ ~(Asked \subseteq Over(seen)) /\ due.clock = 0
  /\ seen' = since
  /\ due' = [due EXCEPT !.clock = ClockTicks]
  /\ UNCHANGED <<scenario, playback, agentPlan, since, serverVars, held, left, decision, happened, called>>

\* The next state of the narration, once the timer of the row fires.
Advanced ==
  IF playback.phase = "waiting" THEN [playback EXCEPT !.phase = "text"]
  ELSE IF playback.text < Chunks THEN [playback EXCEPT !.text = @ + 1]
  ELSE IF playback.row = Rows THEN [status |-> "complete", phase |-> "waiting", row |-> Rows + 1, text |-> 0]
  ELSE [Start EXCEPT !.row = playback.row + 1]

Advance ==
  /\ driver = "timers" /\ Streaming /\ ToAsk = {}
  /\ due.row = 0
  /\ playback' = Advanced
  /\ due' = Armed(playback', IF playback'.row <= Rows THEN WaitMs(SCRIPT[playback'.row]) ELSE 0)
  /\ UNCHANGED <<scenario, agentPlan, since, seen, serverVars, held, left, decision, happened, called>>

-----------------------------------------------------------------------------
(* The rows told from the checklist.                                       *)

FirstPlan == [s \in Steps |-> IF s \in Called THEN "none" ELSE "pending"]

Tick(s, status) == [step |-> s, status |-> status]

\* What /flow/run does to the checklist after it has reset it: the tools, the
\* policy, every call begun, those that are not held answered, and the results.
\* That a row other than a call is active shows nowhere, and is left out.
RunTicks(hold) ==
  [i \in DOMAIN Tools |-> Tick(Tools[i], "done")]
  \o <<Tick("policy", "done")>>
  \o [i \in DOMAIN CallOrder |-> Tick(CallOrder[i], "active")]
  \o [i \in DOMAIN RemoveFirst(CallOrder, hold) |-> Tick(RemoveFirst(CallOrder, hold)[i], "done")]
  \o <<Tick("claims", "done"), Tick("landed", "done"), Tick("package", "done")>>

ReachedIn(plan) == {i \in 1..Rows : ScriptStepReached(SCRIPT[i], plan)}

Record(plan) ==
  /\ checklist' = plan
  /\ happened' = happened \cup ReachedIn(plan)
  /\ called' = called \cup {c \in Called : StepFinished(plan, c)}

Asking == [left |-> "asked", ticks |-> <<>>]

\* A run resets the checklist, then ticks it off.  A call that is over names no
\* group: if another run has dropped its line in between, this one fails.
Reset(r) == runs[r].left = "asked" /\ Record(FirstPlan) /\ runs' = [runs EXCEPT ![r] = [left |-> "reset", ticks |-> RunTicks(HoldFor)]]

TickOff(r) ==
  /\ runs[r].left = "reset" /\ runs[r].ticks # <<>>
  /\ LET t == Head(runs[r].ticks)
     IN  IF checklist[t.step] = "none" /\ t.status = "done"
         THEN /\ runs' = [runs EXCEPT ![r].ticks = <<>>]
              /\ UNCHANGED <<checklist, happened, called>>
         ELSE /\ Record([checklist EXCEPT ![t.step] = t.status])
              /\ runs' = [runs EXCEPT ![r].ticks = Tail(@)]

Run ==
  /\ driver = "server"
  /\ \E r \in DOMAIN runs : Reset(r) \/ TickOff(r)
  /\ UNCHANGED <<scenario, playback, timerVars, held, polls, left, decision>>

\* The interval polls whether or not the last poll has been answered, until stopped.
\* A poll counts from the moment it is served, with what it was answered.
Poll ==
  /\ driver = "server" /\ playback.status # "stopped"
  /\ checklist \notin polls /\ Cardinality(polls) < scenario.polls
  /\ polls' = polls \cup {checklist}
  /\ UNCHANGED <<scenario, playback, timerVars, checklist, runs, held, left, decision, happened, called>>

\* Fault: the effect that polled is not cleaned up.
StillListening == TRUE

\* The effect that polled is cleaned up by a stop.
Listening == playback.status # "stopped"

\* The answers come in any order.
PollAnswered ==
  \E answer \in polls :
    /\ held' = IF Listening THEN answer ELSE held
    /\ seen' = [c \in Called |-> IF held' # Nothing /\ StepStarted(held', c) THEN seen[c] ELSE 0]
    /\ polls' = polls \ {answer}
    /\ UNCHANGED <<scenario, playback, agentPlan, since, due, checklist, runs, left, decision, happened, called>>

\* An answer may be lost; nothing is made of that.
PollLost ==
  /\ \E answer \in polls : polls' = polls \ {answer}
  /\ UNCHANGED <<scenario, playback, timerVars, checklist, runs, held, left, decision, happened, called>>

\* The page's `now`, as far as the calls that are shown under way depend on it.
Now ==
  /\ driver = "server" /\ playback.status # "stopped"
  /\ seen' = [c \in Called |-> IF LivePhase(c) \in {"dialing", "calling"} THEN Min({scenario.watch, seen[c] + 1}) ELSE seen[c]]
  /\ seen' # seen
  /\ UNCHANGED <<scenario, playback, agentPlan, since, due, serverVars, held, left, decision, happened, called>>

\* Fault: what is told is what is scripted, once there is a plan.
FinishedOncePlanned == OnRow /\ held # Nothing

\* Whether the current row may be told.
Finished == OnRow /\ ScriptStepReached(Current, held)

Told ==
  IF playback.text < Chunks THEN [playback EXCEPT !.text = @ + 1]
  ELSE [playback EXCEPT !.row = @ + 1, !.text = 0, !.status = IF playback.row = Rows THEN "complete" ELSE @]

TellRow ==
  /\ driver = "server" /\ Streaming /\ Finished
  /\ playback' = Told
  /\ UNCHANGED <<scenario, timerVars, serverVars, held, left, decision, happened, called>>

-----------------------------------------------------------------------------
(* The user.                                                               *)

Spend(what) == left[what] > 0 /\ left' = [left EXCEPT ![what] = @ - 1]

Stop ==
  /\ Streaming
  /\ Spend("stops")
  /\ playback' = [playback EXCEPT !.status = "stopped"]
  /\ due' = [row |-> 0, clock |-> 0]
  /\ UNCHANGED <<scenario, agentPlan, since, seen, serverVars, held, decision, happened, called>>

ReplayTimed ==
  /\ driver = "timers"
  /\ agentPlan' \in AgentPlans
  /\ since' = [c \in Called |-> NotAsked]
  /\ due' = [row |-> Wait, clock |-> 0]
  /\ happened' = Unconditional
  /\ UNCHANGED <<held, runs>>

\* The page forgets the plan and asks for a run; the polls under way stay, unless
\* the stop has cancelled them, and nothing looks at how the run went.
ReplayLive ==
  /\ driver = "server"
  /\ held' = Nothing
  /\ runs' = Append(runs, Asking)
  /\ UNCHANGED <<agentPlan, since, due, happened>>

Replay ==
  /\ Spend("replays")
  /\ playback' = Start
  /\ seen' = [c \in Called |-> IF driver = "timers" THEN NotAsked ELSE 0]
  /\ polls' = IF playback.status = "stopped" THEN {} ELSE polls
  /\ ReplayTimed \/ ReplayLive
  /\ called' = IF driver = "timers" THEN {} ELSE called
  /\ UNCHANGED <<scenario, checklist, decision>>

\* The decision bar, which stands there once all rows are told.
Select ==
  /\ playback.status = "complete"
  /\ \E c \in DecisionBar(decision).choices : decision' = [decision EXCEPT !.selected = c]
  /\ UNCHANGED <<scenario, playback, timerVars, serverVars, held, left, happened, called>>

RecordDecision ==
  /\ playback.status = "complete" /\ DecisionBar(decision).record
  /\ decision' = [decision EXCEPT !.recorded = TRUE]
  /\ UNCHANGED <<scenario, playback, timerVars, serverVars, held, left, happened, called>>

-----------------------------------------------------------------------------
\* A page that has just been mounted, and on the API a run that was asked for.
Init ==
  /\ scenario \in Scenarios
  /\ playback = Start
  /\ agentPlan \in AgentPlans
  /\ since = [c \in Called |-> NotAsked]
  /\ seen = [c \in Called |-> IF driver = "timers" THEN NotAsked ELSE 0]
  /\ due = [row |-> IF driver = "timers" THEN Wait ELSE 0, clock |-> 0]
  /\ checklist = FirstPlan
  /\ runs = IF driver = "server" THEN <<Asking>> ELSE <<>>
  /\ held = Nothing
  /\ polls = {}
  /\ left = [stops |-> scenario.stops, replays |-> scenario.replays]
  /\ decision = [selected |-> Nothing, recorded |-> FALSE]
  /\ happened = IF driver = "timers" THEN Unconditional ELSE {}
  /\ called = {}

Timers == AskCall \/ Elapse \/ UpdateClock \/ Advance
Server == Run \/ Poll \/ PollAnswered \/ PollLost \/ Now \/ TellRow
User == Stop \/ Replay \/ Select \/ RecordDecision

Next == Timers \/ Server \/ User

Spec == Init /\ [][Next]_vars

\* Timers fire, a run that has begun goes on, the interval polls, and not every
\* answer is lost.
Fairness ==
  /\ WF_vars(AskCall) /\ WF_vars(Elapse) /\ WF_vars(UpdateClock) /\ WF_vars(Advance)
  /\ WF_vars(Run) /\ WF_vars(Poll) /\ SF_vars(PollAnswered)
  /\ WF_vars(TellRow)

FairSpec == Spec /\ Fairness

-----------------------------------------------------------------------------
(* What the page shows.                                                    *)

RevealedSteps ==
  IF ~OnRow THEN Rows
  ELSE IF driver = "timers" THEN playback.row - 1 + (IF playback.phase = "text" THEN 1 ELSE 0)
  ELSE playback.row - 1 + (IF Finished THEN 1 ELSE 0)

\* The phase of the row that is told, Nothing where none is shown.
CurrentPhase ==
  LET waiting == IF driver = "timers" THEN playback.phase = "waiting" ELSE ~Finished
  IN  IF playback.status = "complete" THEN Nothing
      ELSE IF playback.status = "stopped" THEN (IF driver = "timers" /\ waiting THEN Nothing ELSE "stopped")
      ELSE IF waiting THEN "pending"
      ELSE IF playback.text = Chunks THEN "complete" ELSE "streaming"

\* Every pane that some window shows of a call.
AllPanes == UNION (DesktopPanes \cup MobilePanes)

\* The panel, the conversation, the row that is told, the dialog on each call.
Screen(panes) ==
  LET calls == AgentRuns
  IN  [panel    |-> CandidatePanel(RevealedSteps, calls, decision),
       activity |-> AgentCallActivity(calls),
       summary  |-> CompletedRunSummary(playback.row - 1),
       turn     |-> IF CurrentPhase = Nothing THEN Nothing ELSE AssistantTurn(Current, CurrentPhase, playback.text),
       dialogs  |-> [c \in Called |-> CallDetailDialog(c, calls, panes)],
       bar      |-> DecisionBar(decision)]

-----------------------------------------------------------------------------
(* Properties.                                                             *)

\* Nowhere on the screen is a claim on file before the call it was made in is over:
\* not in the panel, the conversation or the history of the call, with the clock of
\* the page behind the time, polls overtaking one another and runs asked for again
\* ("claims" waits for the calls, use-deterministic-rehearsal.ts:113).  The one that
\* a live run holds back has a claim once the row of the claims is told.
ClaimsAfterCalls ==
  LET screen == Screen(AllPanes)
  IN  \A c \in Called \ (called \cup (IF driver = "server" THEN {HoldFor} ELSE {})) :
        /\ screen.panel # <<>> =>
             /\ screen.panel[c].detail.table.price = "not provided"
             /\ screen.panel[c].status \in {"sourced", "chosen"}
        /\ c \in DOMAIN screen.activity => screen.activity[c] # "claim filed"
        /\ \A item \in Range(screen.dialogs[c].history) : item.item # "claim"

\* Who fails the policy is rejected from that row on, and is never shown called,
\* ready or to choose; and of one call the panel, the conversation and the dialog
\* say the same ("rejected. No Outreach Task or Claim.", rejected-candidate.tsx:16).
ScreenAgrees ==
  LET screen == Screen(AllPanes)
      told(id) == \E i \in 1..RevealedSteps : SCRIPT[i].id = id
      state == CandidateState(RevealedSteps, AgentRuns, decision.recorded)
  IN  screen.panel # <<>> =>
        /\ \A c \in Refused :
             /\ screen.panel[c].status = (IF told("policy") THEN "rejected" ELSE "sourced")
             /\ ~screen.panel[c].card /\ c \notin screen.bar.choices
             /\ told("policy") =>
                  <<ComplianceStatus(c, state), OutreachStatus(c, state), ClaimStatus(c, state),
                    StockStatus(c, state), LandedCostStatus(c, state)>> =
                  <<"failed", "blocked", "none", "unavailable", "none">>
        /\ \A c \in Called :
             LET row == screen.panel[c]
                 dialog == screen.dialogs[c]
             IN  /\ row.card => /\ dialog.stage.live /\ c \in DOMAIN screen.activity
                                /\ screen.activity[c] = dialog.transcript.note
                 /\ row.status = "ready" => Len(dialog.history) = 4 /\ dialog.transcript.turns = Turns
                 /\ LandedCostStatus(c, state) = row.detail.landed
                 /\ row.detail.evidence.openCall = (c \in DOMAIN screen.activity)
        /\ (screen.turn # Nothing /\ screen.turn.extras) => told(Current.id)

\* A stop freezes all of the screen until a replay: no timer, poll or clock that was
\* under way changes it.
StoppedStands ==
  [][playback.status = "stopped" /\ playback'.status = "stopped" => Screen(AllPanes)' = Screen(AllPanes)]_vars

\* Both hooks implement Narration.
N == INSTANCE Narration WITH told <- playback.row - 1, halted <- playback.status = "stopped",
                                 happened <- happened
ImplementsNarration == N!Spec

\* A narration that is not stopped is told to its end: the calls are over one day,
\* the run ends, and no poll that came late keeps it from the last rows.
NarrationEnds == Streaming ~> playback.status # "streaming"

=============================================================================
