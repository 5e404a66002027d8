------------------------------- MODULE Plans --------------------------------
(***************************************************************************)
(* Which suppliers may be used (policy/rules.py), what an order line costs *)
(* at the gate (cost/cost_model.py) and which plans are drawn up and which *)
(* of them keep the line running (cost/strategy.py).  Days are numbered    *)
(* from the first day the case can be decided; money is whole cents,       *)
(* rounded down where the code rounds half up; rates are per cent.         *)
(***************************************************************************)
EXTENDS Answers, Sequences, FiniteSetsExt, SequencesExt

CONSTANTS
  LineStop, NeededBy, Required, OnHand, StopCost,  \* the incident
  Daily, Weight, Critical,                         \* stock and part
  Blocked, Transit, Freight, Duty, Wacc,           \* company profile
  PerPallet, Warehousing,
  Road,                                            \* countries we truck to
  Lot, NoClaim

-----------------------------------------------------------------------------
(* policy/rules.py *)

Lapsed(rec, today) == rec.expires # Unknown /\ rec.expires < today

\* Fault: a certificate confirmed on the call outweighs our own records.
FailedRulesTrusting(rec, claim, today) ==
  {rule \in {"blocked_origin", "certification", "not_audited"} :
     CASE rule = "blocked_origin" -> rec.country \in Blocked
       [] rule = "certification"  -> IF claim # NoClaim /\ claim.certified # Unknown
                                     THEN claim.certified = "no"
                                     ELSE ~rec.certified \/ Lapsed(rec, today)
       [] rule = "not_audited"    -> Critical /\ ~rec.audited}

FailedRules(rec, claim, today) ==
  {rule \in {"blocked_origin", "certification", "not_audited"} :
     CASE rule = "blocked_origin" -> rec.country \in Blocked
       [] rule = "certification"  -> \/ ~rec.certified
                                     \/ Lapsed(rec, today)
                                     \/ claim # NoClaim /\ claim.certified = "no"
       [] rule = "not_audited"    -> Critical /\ ~rec.audited}

LeadDays(rec, claim) ==
  IF claim # NoClaim /\ claim.lead # Unknown THEN claim.lead ELSE rec.lead

Deliverable(rec, claim) ==
  Max({0, IF claim = NoClaim THEN rec.fill - rec.allocated
          ELSE IF claim.available THEN claim.offered ELSE 0})

\* Fault: goods that land on the day of the stop are taken to be late.
CheckLeadTimeStrict(rec, claim, today) ==
  /\ LeadDays(rec, claim) # Unknown
  /\ LeadDays(rec, claim) < LineStop - today

CheckLeadTime(rec, claim, today) ==
  /\ LeadDays(rec, claim) # Unknown
  /\ LeadDays(rec, claim) <= LineStop - today

-----------------------------------------------------------------------------
(* cost/cost_model.py *)

DefaultMode(rec) == IF rec.country \in Road THEN "road" ELSE "sea"
Modes(rec) == {DefaultMode(rec), "air"}

\* Air buys back the difference in transit, down to a single day.
Eta(rec, claim, mode, today) ==
  LET days  == LeadDays(rec, claim)
      saved == Max({0, Transit[DefaultMode(rec)] - Transit[mode]})
  IN  today + IF mode = DefaultMode(rec) THEN days ELSE Max({1, days - saved})

Breaks(rec, claim) ==
  IF claim # NoClaim /\ claim.breaks # {} THEN claim.breaks ELSE rec.breaks

\* The tier the quantity reaches; below them all the price named, or nothing.
UnitPrice(rec, claim, qty) ==
  LET reached == {tier \in Breaks(rec, claim) : tier.min <= qty}
  IN  IF reached # {}
      THEN (CHOOSE tier \in reached : \A t \in reached : t.min <= tier.min).price
      ELSE IF claim # NoClaim /\ claim.price # Unknown THEN claim.price
      ELSE OrElse(rec.contract, 0)

LandedCost(rec, claim, qty, mode, eta) ==
  LET goods   == UnitPrice(rec, claim, qty) * qty
      freight == Weight * qty * Freight[mode]
      duty    == ((goods + freight) * Duty[rec.country]) \div 100
      holding == 2 * Max({0, NeededBy - eta}) + (qty \div Daily)   \* in half days
      pallets == (qty + PerPallet - 1) \div PerPallet
      capital == ((goods + freight + duty) * Wacc * holding) \div (100 * 2 * 365)
      floor   == (pallets * Warehousing * holding) \div (2 * 30)
  IN  goods + freight + duty + capital + floor

-----------------------------------------------------------------------------
(* cost/strategy.py *)

OpeningStock(today) == Min({OnHand, Max({0, LineStop - today}) * Daily})

\* Fault: only the stock after the last arrival is looked at.
EndsAboveZero(arrivals, today) ==
  LET days == Max({a.eta - today : a \in Range(arrivals)}) + 2
  IN  OpeningStock(today) + FoldSeq(LAMBDA a, sum : sum + a.qty, 0, arrivals) >= days * Daily

\* Run the line day by day: arrivals go in, consumption comes out.
KeepsRunning(arrivals, today) ==
  LET day(a)    == Max({0, a.eta - today})
      horizon   == Max({a.eta - today : a \in Range(arrivals)}) + 1
      landed(d) == FoldSeq(LAMBDA a, sum : sum + IF day(a) = d THEN a.qty ELSE 0,
                           0, arrivals)
      stock[d \in 0..horizon] ==
        (IF d = 0 THEN OpeningStock(today) ELSE stock[d - 1]) + landed(d) - Daily
  IN  \A d \in 0..horizon : stock[d] >= 0

Downtime(lines) ==
  Max({0, Min({l.eta : l \in Range(lines)}) - LineStop}) * 24 * StopCost

Risk(file, claims, lines) ==
  LET penalty(l) ==
        LET rec == file[l.supplier]
            claim == claims[l.supplier]
        IN  (IF claim = NoClaim THEN 15 ELSE ((100 - claim.confidence) * 35) \div 100)
            + (IF l.qty > Max({rec.fill, 1}) THEN 20 ELSE 0)
            + (IF rec.audited THEN 0 ELSE 15)
      sum == FoldSeq(LAMBDA l, s : s + penalty(l), 0, lines)
  IN  Min({100, (sum \div Len(lines)) + 5 * (Len(lines) - 1)})

\* Price an allocation; it is no plan (an empty set) when nobody has quoted
\* one of its suppliers a price.
Price(file, claims, today, kind, allocation) ==
  LET line(a) ==
        LET rec == file[a.supplier]
            claim == claims[a.supplier]
            eta == Eta(rec, claim, a.mode, today)
        IN  [ supplier |-> a.supplier, qty |-> a.qty, mode |-> a.mode, eta |-> eta,
              unit |-> UnitPrice(rec, claim, a.qty),
              cost |-> LandedCost(rec, claim, a.qty, a.mode, eta) ]
      lines == [i \in DOMAIN allocation |-> line(allocation[i])]
  IN  IF \E i \in DOMAIN lines : lines[i].unit = 0 THEN {}
      ELSE {[ kind  |-> kind,
              lines |-> lines,
              meets |-> KeepsRunning(lines, today),
              total |-> FoldSeq(LAMBDA l, s : s + l.cost, 0, lines),
              risk  |-> Risk(file, claims, lines) ]}

Order(s, qty, mode) == [supplier |-> s, qty |-> qty, mode |-> mode]

\* The suppliers that can be planned around: cleared, and with a lead time.
Options(file, claims, today) ==
  {s \in DOMAIN file : /\ FailedRules(file[s], claims[s], today) = {}
                       /\ LeadDays(file[s], claims[s]) # Unknown}

SingleSource(file, claims, today) ==
  UNION {UNION {Price(file, claims, today, "single", <<Order(s, Required, m)>>) :
                  m \in Modes(file[s])} :
           s \in {o \in Options(file, claims, today) :
                    Deliverable(file[o], claims[o]) >= Required}}

\* Fault: the bridge is not capped at what its supplier can deliver.
BridgeQtyUncapped(rec, claim, bulkEta) ==
  IF bulkEta <= LineStop THEN 0 ELSE (((bulkEta - LineStop) * Daily + Lot - 1) \div Lot) * Lot

\* Fault: the gap is cut down to full lots.
BridgeQtyShort(rec, claim, bulkEta) ==
  LET needed == (((bulkEta - LineStop) * Daily) \div Lot) * Lot
      capped == (Deliverable(rec, claim) \div Lot) * Lot
  IN  IF bulkEta <= LineStop THEN 0 ELSE Min({needed, capped})

\* Enough to carry the line from its stop to the bulk arrival, in full lots,
\* and never more than the bridge supplier can deliver.
BridgeQty(rec, claim, bulkEta) ==
  LET needed == (((bulkEta - LineStop) * Daily + Lot - 1) \div Lot) * Lot
      capped == (Deliverable(rec, claim) \div Lot) * Lot
  IN  IF bulkEta <= LineStop THEN 0 ELSE Min({needed, capped})

BridgeSplits(file, claims, today) ==
  LET options == Options(file, claims, today)
      mode(s) == DefaultMode(file[s])
      split(bridge, bulk, m) ==
        LET q == BridgeQty(file[bridge], claims[bridge],
                           Eta(file[bulk], claims[bulk], mode(bulk), today))
        IN  IF q \in 1..(Required - 1) /\ Deliverable(file[bulk], claims[bulk]) >= Required - q
            THEN Price(file, claims, today, "bridge",
                       <<Order(bridge, q, m), Order(bulk, Required - q, mode(bulk))>>)
            ELSE {}
  IN  UNION {split(p[1], p[2], p[3]) :
               p \in {x \in options \X options \X {"road", "sea", "air"} :
                        x[1] # x[2] /\ x[3] \in Modes(file[x[1]])}}

\* The cheapest price anyone has named, for ordering only.
UnitHint(rec, claim) ==
  IF Breaks(rec, claim) # {} THEN Min({tier.price : tier \in Breaks(rec, claim)})
  ELSE IF claim # NoClaim /\ claim.price # Unknown THEN claim.price
  ELSE OrElse(rec.contract, 99900)

\* All that the fast suppliers will give, earliest first, and the remainder
\* from the cheapest of the others.
ObviousSplit(file, claims, today) ==
  LET options == Options(file, claims, today)
      eta(s)  == Eta(file[s], claims[s], DefaultMode(file[s]), today)
      fast    == {s \in options : eta(s) <= LineStop}
      slow    == options \ fast
      give(s) == Deliverable(file[s], claims[s])
      take(orders, s) ==
        LET left == Required - FoldSeq(LAMBDA o, sum : sum + o.qty, 0, orders)
            qty  == (Min({give(s), left}) \div Lot) * Lot
        IN  IF qty <= 0 THEN orders ELSE Append(orders, Order(s, qty, DefaultMode(file[s])))
      first   == FoldLeft(take, <<>>, SetToSortSeq(fast, LAMBDA s, t : eta(s) < eta(t)))
      left    == Required - FoldSeq(LAMBDA o, sum : sum + o.qty, 0, first)
      hint(s) == UnitHint(file[s], claims[s])
      bulk    == CHOOSE s \in slow : \A t \in slow : hint(s) <= hint(t)
  IN  IF slow = {} \/ first = <<>> \/ left <= 0 \/ give(bulk) < left THEN {}
      ELSE Price(file, claims, today, "obvious",
                 Append(first, Order(bulk, left, DefaultMode(file[bulk]))))

Build(file, claims, today) ==
  SingleSource(file, claims, today) \cup BridgeSplits(file, claims, today)
    \cup ObviousSplit(file, claims, today)

\* Feasible first, then cheapest with the downtime conceded, then least risky.
RankedBefore(p, q) ==
  LET allIn(x) == x.total + Downtime(x.lines)
  IN  \/ p.meets /\ ~q.meets
      \/ p.meets = q.meets /\ allIn(p) < allIn(q)
      \/ p.meets = q.meets /\ allIn(p) = allIn(q) /\ p.risk < q.risk

=============================================================================
