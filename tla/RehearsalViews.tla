--------------------------- MODULE RehearsalViews ---------------------------
(***************************************************************************)
(* The rehearsal of apps/web: the data of CASE-001 (lib/case-001) and what *)
(* the components of components/cockpit show of it, given how many rows of *)
(* the script are told and how far each call has come.  Wording, money and *)
(* dates, layout and avatars are left out.                                 *)
(***************************************************************************)
EXTENDS Integers, Sequences, FiniteSets, SequencesExt, FiniteSetsExt

CONSTANTS
  CallOrder,    \* the candidates that are called, in the order of CALLS
  Refused,      \* the candidates that fail the policy
  Tools,        \* the ids of the tool rows of the script; the last lists the suppliers
  MadeToOrder,  \* the candidates whose stock is still to be made
  Turns,        \* turns of a transcript
  Nothing       \* null, undefined, no value

Called == ToSet(CallOrder)
Candidate == Called \cup Refused

ASSUME RehearsalViewsAssumption ==
  /\ CallOrder \in Seq(Called) /\ CallOrder # <<>> /\ IsInjective(CallOrder)
  /\ Called \cap Refused = {}
  /\ Tools \in Seq(STRING) /\ Tools # <<>> /\ Last(Tools) = "suppliers"
  /\ "claims" \notin Called \cup ToSet(Tools)   \* the results have a step of their own
  /\ MadeToOrder \subseteq Called
  /\ Turns \in Nat \ {0}
  /\ Nothing \notin Candidate

-----------------------------------------------------------------------------
(* The data of the case.                                                   *)

Row(id, kind, step, call, isTool) ==
  [id |-> id, kind |-> kind, step |-> step, call |-> call, tool |-> isTool]

ToolRows == [i \in DOMAIN Tools |-> Row(Tools[i], "tool", Tools[i], Nothing, TRUE)]
OutreachRows == [i \in DOMAIN CallOrder |-> Row("outreach", "outreach", CallOrder[i], CallOrder[i], TRUE)]
ResultRows ==
  <<Row("claims", "claims", "claims", Nothing, FALSE), Row("deltas", "deltas", "landed", Nothing, FALSE),
    Row("strategy", "strategy", "landed", Nothing, FALSE), Row("tests", "tests", "package", Nothing, FALSE)>>

\* The rows that are told, each with the step of the checklist it mirrors: one
\* row for every call, and two that mirror the same step.
SCRIPT == ToolRows \o <<Row("policy", "policy", "policy", Nothing, TRUE)>> \o OutreachRows \o ResultRows

CLAIMS ==
  [c \in Called |->
     [priceQuoted |-> "yes", certificationCurrent |-> "yes", partNumberConfirmed |-> "yes",
      stockStatus |-> IF c \in MadeToOrder THEN "to_be_made" ELSE "free_in_stock",
      confident |-> TRUE, round |-> 1]]

ClaimOf(c) == IF c \in Called THEN CLAIMS[c] ELSE Nothing

CANDIDATES ==
  [c \in Candidate |->
     [compliance |-> IF c \in Refused THEN "failed" ELSE "passed",
      researchChannel |-> IF c \in Called THEN "voice" ELSE "none",
      claim |-> ClaimOf(c)]]

CALLS == [c \in Called |-> [status |-> "completed", turns |-> Turns]]
OUTREACH_TASKS == [c \in Called |-> [status |-> "completed", round |-> 1]]
LANDED_LINES == [c \in Called |-> [usable |-> TRUE]]

Usable(c) == c \in DOMAIN LANDED_LINES => LANDED_LINES[c].usable

-----------------------------------------------------------------------------
(* The candidate panel.  `runs` says of each call how far it is:           *)
(* [phase, turns], the turns of its transcript that are visible.           *)

Phases == {"queued", "dialing", "calling", "complete"}
Runs == [Called -> [phase : Phases, turns : 0..Turns]]

TurnsVisible(phase, spoken, speaking) ==
  CASE phase \in {"queued", "dialing"} -> 0
    [] phase = "complete" -> Turns
    [] OTHER -> Max({1, Min({Turns, (spoken * Turns + speaking - 1) \div speaking})})

CandidateState(visible, runs, recorded) ==
  LET ids == {SCRIPT[i].id : i \in 1..visible}
  IN  [candidatesVisible |-> "suppliers" \in ids, policyComplete |-> "policy" \in ids,
       outreachStarted |-> \E c \in Called : runs[c].phase # "queued",
       claimsComplete |-> "claims" \in ids, costsComplete |-> "deltas" \in ids,
       decisionRecorded |-> recorded]

HasRequiredClaimData(c) ==
  LET claim == CANDIDATES[c].claim
  IN  /\ claim # Nothing
      /\ claim.priceQuoted = "yes"
      /\ "unknown" \notin {claim.certificationCurrent, claim.partNumberConfirmed}
      /\ claim.stockStatus # "unclear"
      /\ claim.confident

Failed(c, state) == state.policyComplete /\ CANDIDATES[c].compliance = "failed"

CandidateLifecycleStatus(c, state, callStatus, researchComplete, chosen) ==
  IF Failed(c, state) THEN "rejected"
  ELSE IF researchComplete /\ ~Usable(c) THEN "rejected"
  ELSE IF chosen THEN "chosen"
  ELSE IF ~researchComplete THEN "sourced"
  ELSE IF callStatus = "no_answer" THEN "no answer"
  ELSE IF ~HasRequiredClaimData(c) THEN "incomplete"
  ELSE "ready"

\* The texts of a candidate outside the panel.
ComplianceStatus(c, state) == IF state.policyComplete THEN CANDIDATES[c].compliance ELSE "pending"
OutreachStatus(c, state) ==
  IF Failed(c, state) THEN "blocked"
  ELSE IF ~state.outreachStarted THEN "pending"
  ELSE IF state.claimsComplete THEN "completed" ELSE "calling"
ClaimStatus(c, state) ==
  IF Failed(c, state) THEN "none"
  ELSE IF state.claimsComplete THEN "filed"
  ELSE IF state.outreachStarted THEN "waiting" ELSE "pending"
StockStatus(c, state) ==
  IF Failed(c, state) THEN "unavailable"
  ELSE IF ~state.claimsComplete THEN "pending"
  ELSE IF ClaimOf(c) = Nothing THEN "unclear" ELSE ClaimOf(c).stockStatus
LandedCostStatus(c, state) ==
  IF Failed(c, state) THEN "none"
  ELSE IF ~state.costsComplete THEN "pending"
  ELSE IF c \in DOMAIN LANDED_LINES THEN "total" ELSE "not available"

\* The record of a supplier is always shown, what it claims when it has claimed.
ComparisonTable(c, hasClaim) ==
  LET said(field) == IF hasClaim THEN field ELSE "not provided"
  IN  [price |-> said("claimUnit"), certification |-> said("current"),
       stock |-> said(IF ClaimOf(c) = Nothing THEN "not provided" ELSE ClaimOf(c).stockStatus)]

ClaimEvidence(callOpen, hasClaim) ==
  [evidence |-> IF hasClaim THEN "quoted" ELSE "pending", openCall |-> callOpen]

LandedCost(c, costsComplete) ==
  IF ~costsComplete THEN "pending"
  ELSE IF c \in DOMAIN LANDED_LINES THEN "total"
  ELSE "not available"

CandidateComparison(c, state, callOpen) ==
  LET hasClaim == state.claimsComplete /\ ClaimOf(c) # Nothing
  IN  [table |-> ComparisonTable(c, hasClaim), evidence |-> ClaimEvidence(callOpen, hasClaim),
       landed |-> LandedCost(c, state.costsComplete)]

\* The card of the calling agent opens the call while there is one.
CallingAgentCard(run) == run.phase \in {"dialing", "calling"}

CandidateRow(c, state, runs, chosen) ==
  LET over == c \in Called /\ runs[c].phase = "complete"
      call == c \in Called /\ runs[c].phase # "queued"
  IN  [status |-> CandidateLifecycleStatus(c, state, IF call THEN CALLS[c].status ELSE Nothing, over,
                                           state.decisionRecorded /\ chosen),
       card   |-> c \in Called /\ CallingAgentCard(runs[c]),
       detail |-> IF Failed(c, state) THEN Nothing
                  ELSE CandidateComparison(c, [state EXCEPT !.claimsComplete = over \/ @], call)]

CandidatePanel(visible, runs, decision) ==
  LET state == CandidateState(visible, runs, decision.recorded)
  IN  IF ~state.candidatesVisible THEN <<>>
      ELSE [c \in Candidate |-> CandidateRow(c, state, runs, decision.selected = c)]

-----------------------------------------------------------------------------
(* The conversation and the calls.                                         *)

\* The calls that are listed in it, a finished one with its claim.
AgentCallActivity(runs) ==
  [c \in {d \in Called : runs[d].phase # "queued"} |->
     IF runs[c].phase = "complete" THEN "claim filed" ELSE runs[c].phase]

StepExtras(row) == row.kind \in {"policy", "strategy", "deltas"}

\* One row while it is told; nothing at all of one that waits and calls no tool.
AssistantTurn(row, phase, text) ==
  IF phase = "pending" /\ ~row.tool THEN Nothing
  ELSE [text |-> IF phase = "pending" THEN 0 ELSE text,
        result |-> row.tool /\ phase # "pending",
        extras |-> phase = "complete" /\ StepExtras(row)]

\* The rows that have been told, folded up behind a line that counts them.
CompletedRunSummary(completed) ==
  [messages |-> completed, toolCalls |-> Cardinality({i \in 1..completed : SCRIPT[i].tool})]

\* Fault: the call is shown as the script has it.
SelectedCallAsFiled(c, runs) == [status |-> CALLS[c].status, turns |-> runs[c].turns]

\* The call of the dialog: a call that is not complete has the status of its run.
SelectedCall(c, runs) ==
  [status |-> CASE runs[c].phase = "complete" -> CALLS[c].status
                [] runs[c].phase = "calling" -> "calling"
                [] OTHER -> "dialing",
   turns |-> runs[c].turns]

CallStage(call) ==
  [live |-> call.status \in {"dialing", "calling"}, voice |-> call.status = "calling"]

CallOver(call) == call.status \in {"completed", "no_answer", "stopped_for_human"}

CallHistory(c, call) ==
  <<[item |-> "prepared", round |-> OUTREACH_TASKS[c].round]>>
  \o (IF call.status # "dialing" THEN <<[item |-> "started", round |-> OUTREACH_TASKS[c].round]>> ELSE <<>>)
  \o (IF CallOver(call) THEN <<[item |-> "completed", round |-> CLAIMS[c].round], [item |-> "claim", round |-> CLAIMS[c].round]>>
      ELSE <<>>)

CallTranscript(call) ==
  [turns |-> call.turns, note |-> IF call.status \in {"dialing", "calling"} THEN call.status ELSE Nothing]

\* A narrow window shows one of the three panes, a wide one those that are open.
CallDetailDialog(c, runs, panes) ==
  LET call == SelectedCall(c, runs)
  IN  [stage      |-> IF "call" \in panes THEN CallStage(call) ELSE Nothing,
       history    |-> IF "history" \in panes THEN CallHistory(c, call) ELSE <<>>,
       transcript |-> IF "transcript" \in panes THEN CallTranscript(call) ELSE Nothing]

DesktopPanes == {{"call"} \cup open : open \in SUBSET {"history", "transcript"}}
MobilePanes == {{"call"}, {"history"}, {"transcript"}}

-----------------------------------------------------------------------------
(* The decision.                                                           *)

Selectable == {c \in Candidate : CANDIDATES[c].compliance = "passed" /\ Usable(c)}

DecisionBar(decision) ==
  [choices |-> IF decision.recorded THEN {} ELSE Selectable,
   record  |-> decision.selected # Nothing /\ ~decision.recorded]

=============================================================================
