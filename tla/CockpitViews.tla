---------------------------- MODULE CockpitViews ----------------------------
(***************************************************************************)
(* What the screens of ui/ show of a case: the operators are the           *)
(* components of ui/components/cockpit and the helpers of ui/lib, from     *)
(* what the API sent (ui/lib/contracts.ts) to what is on the screen.       *)
(* Wording, money and dates, layout and colours that mean the same thing   *)
(* are left out; an answer is told from another by when it arrived.        *)
(***************************************************************************)
EXTENDS Integers, Sequences, FiniteSets

CONSTANTS
  Supplier,   \* supplier_ref
  Round,      \* rounds a claim is filed under; file names sort like the rounds up to 9
  Rule,       \* the policy rules
  Plan,       \* the priced plans: [id, buys, onTime, cost]
  Nobody,     \* no supplier
  Nothing     \* null

ASSUME ViewsAssumption ==
  /\ Round \subseteq 1..9 /\ 1 \in Round
  /\ \A p \in Plan : p.buys \subseteq Supplier /\ p.onTime \in BOOLEAN /\ p.cost \in Nat
  /\ Nobody \notin Supplier

-----------------------------------------------------------------------------
(* What the API sends.                                                     *)

Stages == <<"detected", "researching", "calling", "costing", "decided">>
StepStatus == {"pending", "active", "done", "failed", "skipped"}

\* supplier_ref -> round -> when the answer in that file arrived, 0 for no file.
Claims == [Supplier -> [Round -> Nat]]

\* The answers the plans were priced from, the plans, best first, and its choice.
Decision == [priced : [Supplier -> Nat], strategies : Seq(Plan), recommended : Plan \cup {Nothing}]

\* supplier_ref -> the rules it failed, for those that have been screened.
Screening == UNION {[seen -> SUBSET Rule] : seen \in SUBSET Supplier}

Snapshot(Case) ==
  [case_id : Case, incumbent : Supplier \cup {Nobody}, candidates : Screening,
   claims : Claims, decision : Decision \cup {Nothing}, last_event_seq : Nat]

-----------------------------------------------------------------------------
(* The stage of the case.                                                  *)

StageIndex(stage) == CHOOSE i \in DOMAIN Stages : Stages[i] = stage

\* The stages the rail lights: the one reached and those before it.
StageRail(stage) == {Stages[i] : i \in 1..StageIndex(stage)}

\* What is missing is never less than nothing.
Shortfall(required, onHand) == IF onHand >= required THEN 0 ELSE required - onHand

\* The clock of the line stop: red once it is past, amber in the last 14 days.
Countdown(days) ==
  CASE days < 0 -> "error" [] days \in 0..14 -> "warning" [] OTHER -> "ink"

\* The strip offers the parts that have a case, marks the selected one, and
\* lists at most four of the others.
ShortageStrip(alerts, opened, selected, shown) ==
  /\ shown.offered = alerts \cap opened
  /\ shown.active = {selected} \cap shown.offered
  /\ shown.watched \subseteq alerts \ opened
  /\ Cardinality(shown.watched) =
       LET rest == Cardinality(alerts \ opened) IN IF rest < 4 THEN rest ELSE 4

-----------------------------------------------------------------------------
(* The answers.                                                            *)

\* Fault: the later arrival wins, whatever its round.
SupersedesByArrival(filed, new, held) == held = 0 \/ filed[new] >= filed[held]

\* A claim takes the place of the one held for its supplier: it is of a later
\* round, or it arrived no earlier.
Supersedes(filed, new, held) == held = 0 \/ new > held \/ filed[new] >= filed[held]

\* The round on the card of a supplier, 0 for none: the files are read in the
\* order of their names, each claim against the one held so far.
Latest(filed) ==
  LET held[r \in 0..9] ==
        IF r = 0 THEN 0
        ELSE IF r \in Round /\ filed[r] # 0 /\ Supersedes(filed, r, held[r - 1])
             THEN r ELSE held[r - 1]
  IN  held[9]

Answered(claims) == {s \in Supplier : Latest(claims[s]) # 0}

\* One card per supplier that answered, and a card to call the one held back,
\* as long as it has not.
ClaimCards(claims, heldFor) ==
  [cards |-> [s \in Answered(claims) |-> Latest(claims[s])],
   held  |-> IF heldFor \in Answered(claims) THEN Nobody ELSE heldFor]

\* The stock a claim reports and the loudness of its badge.
StockBadge(status) ==
  CASE status = "free_in_stock" -> "success"
    [] status = "in_stock_allocated" -> "warning"
    [] status = "unavailable" -> "error"
    [] OTHER -> "quiet"

-----------------------------------------------------------------------------
(* The suppliers.                                                          *)

\* Every candidate stays on the page; the ones policy refused carry the rules.
CandidateTable(candidates) ==
  [s \in DOMAIN candidates |->
     IF candidates[s] = {} THEN [status |-> "Cleared", why |-> {}]
     ELSE [status |-> "Rejected", why |-> candidates[s]]]

Cleared(candidates) == {s \in DOMAIN candidates : candidates[s] = {}}

\* Our files: who supplies us today, whose certificate has lapsed, who was audited.
SupplierTable(records, incumbent, today) ==
  [s \in DOMAIN records |->
     [incumbent |-> s = incumbent,
      certificate |-> IF records[s].expires = Nothing THEN "no expiry on record"
                      ELSE IF records[s].expires < today THEN "lapsed" ELSE "valid to",
      audited |-> records[s].audit = "audited"]]

\* A number that arrives without stars is masked here: all of it when it has at
\* most four digits, otherwise all but the first two and the last four.  What is
\* shown of n digits; with five the star count is negative and `repeat` throws.
MaskedDigitsShown(n) == CASE n <= 4 -> 0 [] n = 5 -> -1 [] OTHER -> 6

-----------------------------------------------------------------------------
(* The plans.                                                              *)

\* On time first, then cheapest.
Better(a, b) == IF a.onTime # b.onTime THEN a.onTime ELSE a.cost < b.cost

\* The sort is stable.
Ranked(plans) ==
  LET Ahead(i) == {j \in DOMAIN plans :
                     \/ Better(plans[j], plans[i])
                     \/ j < i /\ ~Better(plans[i], plans[j])}
  IN  [k \in DOMAIN plans |->
         plans[CHOOSE i \in DOMAIN plans : Cardinality(Ahead(i)) = k - 1]]

\* A line whose supplier has no claim on the page is marked "contract terms,
\* not quoted"; the recommended plan is marked "best value".
StrategyTable(decision, claims) ==
  LET plans == IF decision = Nothing THEN <<>> ELSE Ranked(decision.strategies)
  IN  [k \in DOMAIN plans |->
         [plan     |-> plans[k],
          best     |-> plans[k] = decision.recommended,
          quoted   |-> plans[k].buys \cap Answered(claims),
          contract |-> plans[k].buys \ Answered(claims)]]

\* The recommendation and its runners-up, or the sentence that there is none.
DecisionPanel(decision) ==
  IF decision = Nothing THEN "Nothing decided yet"
  ELSE IF decision.recommended = Nothing THEN "No compliant plan"
  ELSE "Recommended, not ordered"

-----------------------------------------------------------------------------
(* The checklist.                                                          *)

\* Math.round(done / total * 100), 0 for an empty checklist.
Percent(done, total) == IF total = 0 THEN 0 ELSE (200 * done + total) \div (2 * total)

\* The dot of a section: skipped looks like pending.
SectionTone(status) ==
  CASE status = "done" -> "success" [] status = "active" -> "warning"
    [] status = "failed" -> "error" [] OTHER -> "quiet"

=============================================================================
