---------------------------- MODULE LiveChecklist ---------------------------
(***************************************************************************)
(* The pure part of the chat cockpit (apps/web/lib/live and the views of   *)
(* apps/web/components/cockpit): the checklist of the API with the         *)
(* suppliers that the agent named laid over it, whom to dial, and the      *)
(* ranking of the candidate panel.                                         *)
(*                                                                         *)
(* The steps of a section are told apart by their supplier; `Brief` is the *)
(* one step of outreach that has none.  Labels, details and times are left *)
(* out, and with them the order of the steps.                              *)
(***************************************************************************)
EXTENDS Integers, Sequences, FiniteSets, SequencesExt

CONSTANTS
  Supplier,   \* supplier_ref
  Brief,      \* the step outreach:brief
  Rule,       \* the policy rules a candidate can fail
  Nobody,     \* no supplier
  Unknown     \* a price or a lead time that is not on file

ASSUME LiveChecklistAssumption == {Brief, Nobody} \cap Supplier = {}

-----------------------------------------------------------------------------
StepStatus == {"pending", "active", "done", "failed", "skipped"}
Steps == UNION {[rows -> StepStatus] : rows \in SUBSET (Supplier \cup {Brief})}

\* A section carries the status the API derived from its steps.
Section == [status : StepStatus, steps : Steps]
Groups == {"screening", "outreach"}
Plan == [Groups -> Section]

\* The candidates of a case in the order the agent named them.
Candidates == [order : Seq(Supplier), passed : SUBSET Supplier, failed : [Supplier -> SUBSET Rule]]
NamedIn(candidates) == ToSet(candidates.order)

Finished(status) == status \in {"done", "failed", "skipped"}

\* What the screen makes of the steps of a section.
SectionStatus(steps) ==
  LET over == \A r \in DOMAIN steps : Finished(steps[r])
  IN  IF \E r \in DOMAIN steps : steps[r] = "active" THEN "active"
      ELSE IF over /\ \E r \in DOMAIN steps : steps[r] = "failed" THEN "failed"
      ELSE IF over /\ DOMAIN steps # {} THEN "done"
      ELSE "pending"

OutreachStarted(section) ==
  \/ section.status = "active"
  \/ \E r \in DOMAIN section.steps :
       section.steps[r] = "active" \/ (r = Brief /\ Finished(section.steps[r]))

\* The status of a line the API has none for: screened already, not called yet.
ScreeningRow(candidates) == [s \in NamedIn(candidates) |-> IF s \in candidates.passed THEN "done" ELSE "failed"]
CallingRow(candidates) == [s \in NamedIn(candidates) \cap candidates.passed |-> "pending"]

\* The lines of the API, those of `rows` it lacks, and when `forceActive` every
\* supplier that still waits shown as being called.
MergeSupplierRows(section, rows, forceActive) ==
  LET merged == [r \in DOMAIN section.steps \cup DOMAIN rows |->
                   IF r \in DOMAIN section.steps THEN section.steps[r] ELSE rows[r]]
      steps == [r \in DOMAIN merged |->
                  IF forceActive /\ r # Brief /\ merged[r] = "pending" THEN "active" ELSE merged[r]]
  IN  [status |-> SectionStatus(steps), steps |-> steps]

ResolveChecklist(plan, candidates) ==
  [screening |-> MergeSupplierRows(plan.screening, ScreeningRow(candidates), FALSE),
   outreach  |-> MergeSupplierRows(plan.outreach, CallingRow(candidates), OutreachStarted(plan.outreach))]

\* The lines that are shown as being dialled.
Dialling(plan) == {s \in DOMAIN plan.outreach.steps \cap Supplier : plan.outreach.steps[s] = "active"}

Lines(plan) == {line \in Groups \X (Supplier \cup {Brief}) : line[2] \in DOMAIN plan[line[1]].steps}

\* The checklist on the screen: its bar, its sections, and the line that says how
\* many suppliers are shown as being called at once.
PlanChecklist(plan) ==
  [done     |-> Cardinality({l \in Lines(plan) : Finished(plan[l[1]].steps[l[2]])}),
   total    |-> Cardinality(Lines(plan)),
   sections |-> [g \in Groups |-> plan[g].status],
   parallel |-> IF Cardinality(Dialling(plan)) > 1 THEN Cardinality(Dialling(plan)) ELSE 0]

OutreachIsLive(plan) == OutreachStarted(plan.outreach)

\* Fault: the first candidate is dialled, refused or not.
PickFirstNamed(plan, candidates, holdFor) ==
  IF candidates.order = <<>> THEN {} ELSE {candidates.order[1]}

\* Whom to dial: the one held back by the build, else the first candidate that
\* passed, else somebody who is shown as being called.
PickLiveCallSupplier(plan, candidates, holdFor) ==
  LET first == SelectInSeq(candidates.order, LAMBDA s : s \in candidates.passed)
  IN  IF holdFor # Nobody THEN {holdFor}
      ELSE IF first # 0 THEN {candidates.order[first]}
      ELSE Dialling(plan)

-----------------------------------------------------------------------------
(* The candidate panel.                                                    *)

\* A known number before a larger one, any known one before a missing one.
Compare(x, y) ==
  IF x = y THEN 0 ELSE IF x = Unknown \/ (y # Unknown /\ y < x) THEN 1 ELSE -1

Flag(holds) == IF holds THEN 0 ELSE 1

\* Policy, then preferred, then incumbent, then cheaper, then faster, then by reference.
RankKeys(records, passed, s) ==
  <<Flag(s \in passed), Flag(records[s].preferred), Flag(records[s].incumbent),
    records[s].price, records[s].lead, records[s].ref>>

Ahead(records, passed, s, t) ==
  LET k == RankKeys(records, passed, s)
      l == RankKeys(records, passed, t)
  IN  \E i \in 1..6 : Compare(k[i], l[i]) = -1 /\ \A j \in 1..(i - 1) : Compare(k[j], l[j]) = 0

\* The candidate at `i` is listed before the one at `j`: those that the keys do not
\* tell apart keep their order.
Before(records, candidates, i, j) ==
  LET s == candidates.order[i]
      t == candidates.order[j]
  IN  \/ Ahead(records, candidates.passed, s, t)
      \/ i < j /\ ~Ahead(records, candidates.passed, t, s)

\* Each candidate comes after as many as are listed before it.
RankCandidates(records, candidates) ==
  LET at == DOMAIN candidates.order
      Place(i) == 1 + Cardinality({j \in at : Before(records, candidates, j, i)})
  IN  [k \in at |-> candidates.order[CHOOSE i \in at : Place(i) = k]]

PanelRow(records, candidates, s) ==
  [passed |-> s \in candidates.passed, price |-> records[s].price, lead |-> records[s].lead]

\* A refused candidate says which rules it failed.
FailedRules(candidates, s) == IF s \in candidates.passed THEN {} ELSE candidates.failed[s]

\* The dialog on a candidate.
DetailDialog(records, candidates, s) ==
  [flags |-> {f \in {"incumbent", "preferred", "approved"} : records[s][f]},
   price |-> records[s].price,
   lead  |-> records[s].lead,
   rules |-> FailedRules(candidates, s)]

\* The panel, and the dialog on the candidate that was picked, while it is one.
LiveCandidatePanel(records, candidates, selectedRef) ==
  LET ranked == RankCandidates(records, candidates)
  IN  [rows   |-> [i \in DOMAIN ranked |-> PanelRow(records, candidates, ranked[i])],
       dialog |-> {DetailDialog(records, candidates, s) : s \in {selectedRef} \cap ToSet(ranked)}]

=============================================================================
