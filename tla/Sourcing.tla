------------------------------ MODULE Sourcing ------------------------------
(***************************************************************************)
(* One case from the suppliers' answers to a recommendation: answers are   *)
(* filed as claims, by the collection of calls (api/routers/flow.py) or by *)
(* the agent (api/routers/tools.py), and decide/run.py screens the         *)
(* suppliers, draws up the plans and recommends one.  Days pass between.   *)
(***************************************************************************)
EXTENDS Plans

CONSTANTS
  Supplier,
  Records,     \* what each supplier's file may say
  CallResult,  \* what a call may bring back
  Posting,     \* what the agent may post
  MaxRound,    \* bound on the rounds of calls
  MaxAnswers,  \* bound on the claims on file
  MaxDay,      \* bound on the days that pass
  Nothing      \* no decision, no recommendation

VARIABLES
  file,      \* the supplier records of the part
  claims,    \* the claim on file for each supplier and round
  today,     \* the day
  decision   \* what decide/run.py wrote last

vars == <<file, claims, today, decision>>

Round == 1..MaxRound

Init ==
  /\ file \in {f \in [Supplier -> UNION {Records[s] : s \in Supplier}] :
                 \A s \in Supplier : f[s] \in Records[s]}
  /\ claims = [s \in Supplier |-> [r \in Round |-> NoClaim]]
  /\ today = 0
  /\ decision = Nothing

-----------------------------------------------------------------------------
\* The claim that counts: a later round supersedes an earlier one.
LatestClaims ==
  [s \in Supplier |->
     LET filed == {r \in Round : claims[s][r] # NoClaim}
     IN  IF filed = {} THEN NoClaim ELSE claims[s][Max(filed)]]

OnFile == {x \in Supplier \X Round : claims[x[1]][x[2]] # NoClaim}

File(s, r, claim) ==
  /\ Cardinality(OnFile \cup {<<s, r>>}) <= MaxAnswers
  /\ claims' = [claims EXCEPT ![s][r] = claim]
  /\ UNCHANGED <<file, today, decision>>

\* A call is collected: its result is read and filed as round 1.
CallCollected(s) ==
  \E raw \in CallResult :
    File(s, 1, ClaimFromQuote(Quote(raw), Required, Lapsed(file[s], today)))

\* POST /claims: the agent files a result under the round it names.
ClaimPosted(s) ==
  \E r \in Round, raw \in Posting : File(s, r, ClaimFromResult(raw))

NextDay ==
  /\ today < MaxDay
  /\ today' = today + 1
  /\ UNCHANGED <<file, claims, decision>>

\* What the recommendation is worth: the downtime of the cheapest plan that
\* lets the line stop.
Avoided(plans, recommended) ==
  LET stops == {p \in plans : ~p.meets}
  IN  IF recommended = Nothing \/ stops = {} THEN 0
      ELSE Downtime((CHOOSE p \in stops : \A q \in stops : p.total <= q.total).lines)

\* The feasible plans no other feasible plan is ranked before.
Best(plans) ==
  LET feasible == {p \in plans : p.meets}
  IN  {p \in feasible : \A q \in feasible : ~RankedBefore(q, p)}

Decide ==
  LET plans == Build(file, LatestClaims, today)
  IN  \E recommended \in IF Best(plans) = {} THEN {Nothing} ELSE Best(plans) :
        /\ decision' = [ candidates  |-> [s \in Supplier |->
                                            FailedRules(file[s], LatestClaims[s], today)],
                         plans       |-> plans,
                         recommended |-> recommended,
                         avoided     |-> Avoided(plans, recommended) ]
        /\ UNCHANGED <<file, claims, today>>

Next ==
  \/ \E s \in Supplier : CallCollected(s) \/ ClaimPosted(s)
  \/ NextDay
  \/ Decide

Spec == Init /\ [][Next]_vars

-----------------------------------------------------------------------------
\* The plans of a decision as it is written, before file, claims or day change:
\* decide/run.py is the only step that writes one.
NewPlans == IF decision' # decision THEN decision'.plans ELSE {}

QtyOf(lines) == FoldSeq(LAMBDA l, sum : sum + l.qty, 0, lines)

\* Every plan orders exactly what is required, from suppliers that are cleared,
\* each once and for no more than it offered or its file allows
\* ("planned more than the supplier actually offered", test_strategy.py).
PlansWithinOffers ==
  [][\A p \in NewPlans :
    /\ QtyOf(p.lines) = Required
    /\ \A i \in DOMAIN p.lines :
         LET l == p.lines[i]
         IN  /\ l.qty \in 1..Deliverable(file[l.supplier], LatestClaims[l.supplier])
             /\ decision'.candidates[l.supplier] = {}
             /\ \A j \in DOMAIN p.lines : p.lines[j].supplier = l.supplier => i = j]_vars

\* What has landed by a day, and the stock left at its end, by definition.
LandedBy(lines, d) ==
  QtyOf(SelectSeq(lines, LAMBDA l : l.eta <= d))

\* A plan is called feasible exactly if on no day up to the one after its last
\* arrival more has been used than was there (cost/strategy.py, simulate).
FeasibleNeverDry ==
  [][\A p \in NewPlans :
    p.meets <=> \A d \in today..(Max({l.eta : l \in Range(p.lines)}) + 1) :
                  OpeningStock(today) + LandedBy(p.lines, d) >= (d - today + 1) * Daily]_vars

\* The order-level rule and the simulation agree on one order by the usual
\* mode: what keeps the line running passes the rule, and what passes it keeps
\* the line running while the stock lasts to the stop (policy/rules.py,
\* cost/strategy.py).
LeadTimeRuleAgrees ==
  [][\A p \in NewPlans :
    LET l == p.lines[1]
        passes == CheckLeadTime(file[l.supplier], LatestClaims[l.supplier], today)
    IN  p.kind = "single" /\ l.mode = DefaultMode(file[l.supplier]) /\ today <= LineStop =>
          /\ (p.meets => passes)
          /\ (passes /\ OnHand >= (LineStop - today) * Daily => p.meets)]_vars

\* A bridge that is in time and was not cut down to what its supplier can give
\* carries the line to the bulk arrival ("just enough to carry the line from its
\* stop date to the bulk arrival", cost/strategy.py).
BridgeCarries ==
  [][\A p \in NewPlans :
    LET bridge == p.lines[1]
        bulk   == p.lines[2]
        claim  == LatestClaims[bridge.supplier]
    IN  /\ p.kind = "bridge"
        /\ today <= LineStop /\ bridge.eta <= LineStop
        /\ Deliverable(file[bridge.supplier], claim) >= bridge.qty + Lot
        /\ OnHand >= (LineStop - today) * Daily
        => \A d \in today..(bulk.eta - 1) :
               OpeningStock(today) + LandedBy(p.lines, d) >= (d - today + 1) * Daily]_vars

\* "A claim can only ever make this stricter" (policy/rules.py): no answer, and
\* no later one, clears a supplier our own records do not clear.
ClaimOnlyStricter ==
  [][decision' # decision =>
       \A s \in Supplier :
         FailedRules(file[s], NoClaim, today) \subseteq decision'.candidates[s]]_vars

\* "What they said on the phone is newer than what our file says": the price a
\* supplier named without tiers is the price its lines are charged at
\* (test_cost_model.py:132-133).
ClaimedPriceCounts ==
  [][\A p \in NewPlans :
    \A l \in Range(p.lines) :
      LET claim == LatestClaims[l.supplier]
      IN  claim # NoClaim /\ claim.price # Unknown /\ claim.breaks = {} => l.unit = claim.price]_vars

=============================================================================
