-------------------------- MODULE RehearsalProofs ---------------------------
(***************************************************************************)
(* What holds of both narrations of CASE-001, for any script of tools and  *)
(* calls, any lengths of calls and waits, and any order of polls.          *)
(***************************************************************************)
EXTENDS Rehearsal, SequenceTheorems, FiniteSetTheorems, WellFoundedInduction, TLAPS

-----------------------------------------------------------------------------
(* Extreme numbers.                                                        *)

\* A set of natural numbers has a least element.
LEMMA LeastNatural ==
  ASSUME NEW T \in SUBSET Nat, T # {}
  PROVE  \E x \in T : \A y \in T : x <= y
<1> DEFINE R == OpToRel(<, Nat)
<1>1. IsWellFoundedOn(R, Nat)
  BY NatLessThanWellFounded
<1>2. PICK x \in T : \A y \in T : ~(<<y, x>> \in R)
  <2> HIDE DEF R
  <2>1. QED BY <1>1, WFMin
<1>3. \A y \in T : ~(y < x)
  BY <1>2 DEF OpToRel
<1>4. QED BY <1>3

\* A bounded one has a greatest: the least distance from the bound.
LEMMA GreatestBounded ==
  ASSUME NEW T \in SUBSET Nat, T # {}, NEW b \in Nat, \A x \in T : x <= b
  PROVE  \E x \in T : \A y \in T : y <= x
<1> DEFINE U == {b - x : x \in T}
<1>1. U \in SUBSET Nat /\ U # {}
  <2>1. \A x \in T : b - x \in Nat
    OBVIOUS
  <2>2. QED BY <2>1
<1>2. PICK u \in U : \A v \in U : u <= v
  <2> HIDE DEF U
  <2>1. QED BY <1>1, LeastNatural
<1>3. PICK x \in T : u = b - x
  BY <1>2
<1>4. ASSUME NEW y \in T PROVE y <= x
  BY <1>2, <1>3, <1>4
<1>5. QED BY <1>4

-----------------------------------------------------------------------------
(* The script.                                                             *)

\* The row of the first call, and the row that sums the claims up.
FirstCallAt == Len(Tools) + 2
ClaimsAt == Len(Tools) + Len(CallOrder) + 2

LEMMA Lengths ==
  /\ Len(Tools) \in Nat \ {0} /\ DOMAIN Tools = 1..Len(Tools)
  /\ Len(CallOrder) \in Nat \ {0} /\ DOMAIN CallOrder = 1..Len(CallOrder)
<1>1. Tools \in Seq(STRING) /\ Tools # <<>> /\ CallOrder \in Seq(Called) /\ CallOrder # <<>>
  BY RehearsalViewsAssumption
<1>2. QED BY <1>1

\* A row, but for whether it calls a tool.
IsRow(r, id, kind, step, call) == r.id = id /\ r.kind = kind /\ r.step = step /\ r.call = call

LEMMA RowIs ==
  ASSUME NEW id, NEW kind, NEW step, NEW call, NEW tool \in BOOLEAN
  PROVE  IsRow(Row(id, kind, step, call, tool), id, kind, step, call)
BY DEF Row, IsRow

\* What stands where in a sequence that is two sequences joined.
Joins(r, p, q, S) ==
  /\ r \in Seq(S) /\ Len(r) = Len(p) + Len(q)
  /\ \A i \in 1..Len(p) : r[i] = p[i]
  /\ \A i \in 1..Len(q) : r[Len(p) + i] = q[i]

LEMMA Joined ==
  ASSUME NEW S, NEW p \in Seq(S), NEW q \in Seq(S), NEW r, r = p \o q
  PROVE  Joins(r, p, q, S)
BY DEF Joins

\* A sequence of ticks or rows has none for a step if none of those it joins has.
NoneFor(p, x) == \A i \in 1..Len(p) : p[i].step # x

LEMMA NoneJoined ==
  ASSUME NEW S, NEW p \in Seq(S), NEW q \in Seq(S), NEW r, Joins(r, p, q, S), NEW x,
         NoneFor(p, x), NoneFor(q, x)
  PROVE  r \in Seq(S) /\ NoneFor(r, x)
<1>1. r \in Seq(S) /\ Len(r) = Len(p) + Len(q) /\ Len(p) \in Nat /\ Len(q) \in Nat
  BY DEF Joins
<1>2. ASSUME NEW i \in 1..Len(r) PROVE r[i].step # x
  <2>1. CASE i \in 1..Len(p)
    BY <2>1 DEF Joins, NoneFor
  <2>2. CASE i \notin 1..Len(p)
    <3>1. i - Len(p) \in 1..Len(q) /\ Len(p) + (i - Len(p)) = i
      BY <1>1, <2>2
    <3>2. r[i] = q[i - Len(p)]
      BY <3>1 DEF Joins
    <3>3. QED BY <3>1, <3>2 DEF NoneFor
  <2>3. QED BY <2>1, <2>2
<1>3. QED BY <1>1, <1>2 DEF NoneFor

\* A function on 1..n is a sequence.
LEMMA FunctionOfLength ==
  ASSUME NEW S, NEW n \in Nat, NEW f \in [1..n -> S]
  PROVE  f \in Seq(S) /\ Len(f) = n
OBVIOUS

\* The script, row by row.
LEMMA ScriptRows ==
  /\ Rows = ClaimsAt + 3
  /\ \A i \in 1..Len(Tools) : IsRow(SCRIPT[i], Tools[i], "tool", Tools[i], Nothing)
  /\ IsRow(SCRIPT[Len(Tools) + 1], "policy", "policy", "policy", Nothing)
  /\ \A k \in 1..Len(CallOrder) :
       IsRow(SCRIPT[Len(Tools) + 1 + k], "outreach", "outreach", CallOrder[k], CallOrder[k])
  /\ IsRow(SCRIPT[ClaimsAt], "claims", "claims", "claims", Nothing)
  /\ IsRow(SCRIPT[ClaimsAt + 1], "deltas", "deltas", "landed", Nothing)
  /\ IsRow(SCRIPT[ClaimsAt + 2], "strategy", "strategy", "landed", Nothing)
  /\ IsRow(SCRIPT[ClaimsAt + 3], "tests", "tests", "package", Nothing)
<1> DEFINE t == Len(Tools)
           m == Len(CallOrder)
           policy == <<Row("policy", "policy", "policy", Nothing, TRUE)>>
           toPolicy == ToolRows \o policy
           toCalls == toPolicy \o OutreachRows
           R == {ToolRows[i] : i \in 1..t} \cup {policy[1]} \cup {OutreachRows[i] : i \in 1..m}
                  \cup {ResultRows[i] : i \in 1..4}
<1>1. t \in Nat \ {0} /\ m \in Nat \ {0}
  BY Lengths
<1>2. TRUE \in BOOLEAN /\ FALSE \in BOOLEAN
  OBVIOUS
<1>3. /\ ToolRows \in [1..t -> R]
      /\ \A i \in 1..t : IsRow(ToolRows[i], Tools[i], "tool", Tools[i], Nothing)
  <2>1. DOMAIN ToolRows = 1..t /\ ToolRows = [i \in DOMAIN ToolRows |-> ToolRows[i]]
    BY Lengths, Zenon DEF ToolRows
  <2>2. \A i \in 1..t : ToolRows[i] = Row(Tools[i], "tool", Tools[i], Nothing, TRUE)
    BY Lengths, Zenon DEF ToolRows
  <2>3. \A i \in 1..t : IsRow(ToolRows[i], Tools[i], "tool", Tools[i], Nothing)
    BY <1>2, <2>2, RowIs, Zenon
  <2>4. QED BY <2>1, <2>3
<1>4. /\ OutreachRows \in [1..m -> R]
      /\ \A i \in 1..m : IsRow(OutreachRows[i], "outreach", "outreach", CallOrder[i], CallOrder[i])
  <2>1. DOMAIN OutreachRows = 1..m /\ OutreachRows = [i \in DOMAIN OutreachRows |-> OutreachRows[i]]
    BY Lengths, Zenon DEF OutreachRows
  <2>2. \A i \in 1..m : OutreachRows[i] = Row("outreach", "outreach", CallOrder[i], CallOrder[i], TRUE)
    BY Lengths, Zenon DEF OutreachRows
  <2>3. \A i \in 1..m : IsRow(OutreachRows[i], "outreach", "outreach", CallOrder[i], CallOrder[i])
    BY <1>2, <2>2, RowIs, Zenon
  <2>4. QED BY <2>1, <2>3
<1>5. /\ policy \in [1..1 -> R]
      /\ IsRow(policy[1], "policy", "policy", "policy", Nothing)
  <2> DEFINE r == Row("policy", "policy", "policy", Nothing, TRUE)
  <2>1. IsRow(r, "policy", "policy", "policy", Nothing)
    BY <1>2, RowIs, Zenon
  <2> HIDE DEF r
  <2>2. policy = <<r>>
    BY Zenon DEF r
  <2>3. policy[1] = r /\ policy \in [1..1 -> {r}]
    <3>1. <<r>>[1] = r /\ <<r>> \in [1..1 -> {r}]
      OBVIOUS
    <3>2. QED BY <2>2, <3>1, Zenon
  <2>4. policy[1] \in R
    OBVIOUS
  <2>5. QED BY <2>1, <2>3, <2>4
<1>6. /\ ResultRows \in [1..4 -> R]
      /\ IsRow(ResultRows[1], "claims", "claims", "claims", Nothing)
      /\ IsRow(ResultRows[2], "deltas", "deltas", "landed", Nothing)
      /\ IsRow(ResultRows[3], "strategy", "strategy", "landed", Nothing)
      /\ IsRow(ResultRows[4], "tests", "tests", "package", Nothing)
  <2> DEFINE r1 == Row("claims", "claims", "claims", Nothing, FALSE)
             r2 == Row("deltas", "deltas", "landed", Nothing, FALSE)
             r3 == Row("strategy", "strategy", "landed", Nothing, FALSE)
             r4 == Row("tests", "tests", "package", Nothing, FALSE)
  <2>1. /\ IsRow(r1, "claims", "claims", "claims", Nothing) /\ IsRow(r2, "deltas", "deltas", "landed", Nothing)
        /\ IsRow(r3, "strategy", "strategy", "landed", Nothing) /\ IsRow(r4, "tests", "tests", "package", Nothing)
    BY <1>2, RowIs, Zenon
  <2> HIDE DEF r1, r2, r3, r4
  <2>2. ResultRows = <<r1, r2, r3, r4>>
    BY Zenon DEF ResultRows, r1, r2, r3, r4
  <2>3. ResultRows[1] = r1 /\ ResultRows[2] = r2 /\ ResultRows[3] = r3 /\ ResultRows[4] = r4
    BY <2>2
  <2>4. ResultRows \in [1..4 -> {ResultRows[i] : i \in 1..4}]
    BY <2>2
  <2>5. QED BY <2>1, <2>3, <2>4
<1> HIDE DEF t, m, policy, R
<1>7. /\ ToolRows \in Seq(R) /\ Len(ToolRows) = t /\ OutreachRows \in Seq(R) /\ Len(OutreachRows) = m
      /\ policy \in Seq(R) /\ Len(policy) = 1 /\ ResultRows \in Seq(R) /\ Len(ResultRows) = 4
  <2>1. 1 \in Nat /\ 4 \in Nat
    OBVIOUS
  <2>2. ToolRows \in Seq(R) /\ Len(ToolRows) = t
    BY <1>1, <1>3, FunctionOfLength
  <2>3. OutreachRows \in Seq(R) /\ Len(OutreachRows) = m
    BY <1>1, <1>4, FunctionOfLength
  <2>4. policy \in Seq(R) /\ Len(policy) = 1
    BY <1>5, <2>1, FunctionOfLength
  <2>5. ResultRows \in Seq(R) /\ Len(ResultRows) = 4
    BY <1>6, <2>1, FunctionOfLength
  <2>6. QED BY <2>2, <2>3, <2>4, <2>5
<1>8. /\ toPolicy \in Seq(R) /\ Len(toPolicy) = t + 1
      /\ \A i \in 1..t : toPolicy[i] = ToolRows[i]
      /\ toPolicy[t + 1] = policy[1]
  <2>1. toPolicy = ToolRows \o policy
    OBVIOUS
  <2> HIDE DEF toPolicy
  <2>2. Joins(toPolicy, ToolRows, policy, R)
    BY <1>7, <2>1, Joined
  <2>3. QED BY <1>1, <1>7, <2>2 DEF Joins
<1> HIDE DEF toPolicy
<1>9. /\ toCalls \in Seq(R) /\ Len(toCalls) = t + 1 + m
      /\ \A i \in 1..(t + 1) : toCalls[i] = toPolicy[i]
      /\ \A k \in 1..m : toCalls[t + 1 + k] = OutreachRows[k]
  <2>1. toCalls = toPolicy \o OutreachRows
    OBVIOUS
  <2> HIDE DEF toCalls
  <2>2. Joins(toCalls, toPolicy, OutreachRows, R)
    BY <1>7, <1>8, <2>1, Joined
  <2>3. QED BY <1>1, <1>7, <1>8, <2>2 DEF Joins
<1> HIDE DEF toCalls
<1>10. SCRIPT = toCalls \o ResultRows
  BY Zenon DEF SCRIPT, toCalls, toPolicy, policy
<1>11. /\ Len(SCRIPT) = t + 1 + m + 4
       /\ \A i \in 1..(t + 1 + m) : SCRIPT[i] = toCalls[i]
       /\ \A k \in 1..4 : SCRIPT[t + 1 + m + k] = ResultRows[k]
  <2>1. Joins(SCRIPT, toCalls, ResultRows, R)
    BY <1>7, <1>9, <1>10, Joined
  <2>2. QED BY <1>1, <1>7, <1>9, <2>1 DEF Joins
<1>12. ClaimsAt = t + m + 2 /\ Rows = ClaimsAt + 3
  <2>1. ClaimsAt = t + m + 2 /\ Rows = Len(SCRIPT)
    BY DEF ClaimsAt, Rows, t, m
  <2>2. QED BY <1>1, <1>11, <2>1
<1>13. /\ SCRIPT[ClaimsAt] = ResultRows[1] /\ SCRIPT[ClaimsAt + 1] = ResultRows[2]
       /\ SCRIPT[ClaimsAt + 2] = ResultRows[3] /\ SCRIPT[ClaimsAt + 3] = ResultRows[4]
  <2>1. ClaimsAt = t + 1 + m + 1 /\ ClaimsAt + 1 = t + 1 + m + 2
        /\ ClaimsAt + 2 = t + 1 + m + 3 /\ ClaimsAt + 3 = t + 1 + m + 4
    BY <1>1, <1>12
  <2>2. QED BY <1>11, <2>1
<1>14. \A i \in 1..t : SCRIPT[i] = ToolRows[i]
  <2>1. \A i \in 1..t : i \in 1..(t + 1) /\ i \in 1..(t + 1 + m)
    BY <1>1
  <2>2. QED BY <1>8, <1>9, <1>11, <2>1
<1>15. SCRIPT[t + 1] = policy[1]
  <2>1. t + 1 \in 1..(t + 1) /\ t + 1 \in 1..(t + 1 + m)
    BY <1>1
  <2>2. QED BY <1>8, <1>9, <1>11, <2>1
<1>16. \A k \in 1..m : SCRIPT[t + 1 + k] = OutreachRows[k]
  <2>1. \A k \in 1..m : t + 1 + k \in 1..(t + 1 + m)
    BY <1>1
  <2>2. QED BY <1>9, <1>11, <2>1
<1>17. QED BY <1>3, <1>4, <1>5, <1>6, <1>12, <1>13, <1>14, <1>15, <1>16 DEF t, m

\* One row for each call and one for the claims, after all of them.
LEMMA RowsOfCalls ==
  /\ FirstCallAt \in Nat /\ ClaimsAt \in Nat /\ FirstCallAt > 1 /\ FirstCallAt < ClaimsAt
  /\ \A i \in 1..Rows :
       /\ SCRIPT[i].kind = "outreach" <=> i \in FirstCallAt..(ClaimsAt - 1)
       /\ SCRIPT[i].kind = "outreach" => SCRIPT[i].call \in Called /\ SCRIPT[i].step = SCRIPT[i].call
       /\ SCRIPT[i].id = "claims" <=> i = ClaimsAt
  /\ SCRIPT[ClaimsAt].step = "claims"
  /\ \A c \in Called : \E i \in FirstCallAt..(ClaimsAt - 1) : SCRIPT[i].call = c
  /\ \A i, j \in FirstCallAt..(ClaimsAt - 1) : SCRIPT[i].call = SCRIPT[j].call => i = j
<1> DEFINE t == Len(Tools)
           m == Len(CallOrder)
<1>1. t \in Nat \ {0} /\ m \in Nat \ {0} /\ FirstCallAt = t + 2 /\ ClaimsAt = t + m + 2
  BY Lengths DEF FirstCallAt, ClaimsAt
<1>2. Rows = t + m + 5
  BY <1>1, ScriptRows
<1> HIDE DEF t, m
<1>3. \A i \in 1..t : SCRIPT[i].kind = "tool" /\ SCRIPT[i].id = Tools[i] /\ Tools[i] # "claims"
  <2>1. \A i \in 1..t : Tools[i] # "claims"
    BY Lengths, RehearsalViewsAssumption DEF ToSet, t
  <2>2. QED BY <2>1, ScriptRows DEF IsRow, t
<1>4. SCRIPT[t + 1].kind = "policy" /\ SCRIPT[t + 1].id = "policy"
  BY ScriptRows DEF IsRow, t
<1>5. \A k \in 1..m : /\ SCRIPT[t + 1 + k].kind = "outreach" /\ SCRIPT[t + 1 + k].id = "outreach"
                      /\ SCRIPT[t + 1 + k].call = CallOrder[k] /\ SCRIPT[t + 1 + k].step = CallOrder[k]
  BY ScriptRows DEF IsRow, t, m
<1>6. /\ SCRIPT[ClaimsAt].kind = "claims" /\ SCRIPT[ClaimsAt].id = "claims" /\ SCRIPT[ClaimsAt].step = "claims"
      /\ SCRIPT[ClaimsAt + 1].kind = "deltas" /\ SCRIPT[ClaimsAt + 1].id = "deltas"
      /\ SCRIPT[ClaimsAt + 2].kind = "strategy" /\ SCRIPT[ClaimsAt + 2].id = "strategy"
      /\ SCRIPT[ClaimsAt + 3].kind = "tests" /\ SCRIPT[ClaimsAt + 3].id = "tests"
  BY ScriptRows DEF IsRow
<1>7. \A k \in 1..m : CallOrder[k] \in Called
  BY Lengths DEF Called, ToSet, m
<1>8. \A i \in FirstCallAt..(ClaimsAt - 1) : i - t - 1 \in 1..m /\ i = t + 1 + (i - t - 1)
  BY <1>1
<1>9. \A i \in FirstCallAt..(ClaimsAt - 1) :
        /\ SCRIPT[i].kind = "outreach" /\ SCRIPT[i].id = "outreach"
        /\ SCRIPT[i].call = CallOrder[i - t - 1] /\ SCRIPT[i].step = SCRIPT[i].call
        /\ SCRIPT[i].call \in Called
  BY <1>5, <1>7, <1>8
<1>10. ASSUME NEW i \in 1..Rows
       PROVE  /\ SCRIPT[i].kind = "outreach" <=> i \in FirstCallAt..(ClaimsAt - 1)
              /\ SCRIPT[i].kind = "outreach" => SCRIPT[i].call \in Called /\ SCRIPT[i].step = SCRIPT[i].call
              /\ SCRIPT[i].id = "claims" <=> i = ClaimsAt
  <2>1. CASE i \in 1..t
    BY <1>1, <1>3, <2>1
  <2>2. CASE i = t + 1
    BY <1>1, <1>4, <2>2
  <2>3. CASE i \in FirstCallAt..(ClaimsAt - 1)
    BY <1>1, <1>9, <2>3
  <2>4. CASE i = ClaimsAt
    BY <1>1, <1>6, <2>4
  <2>5. CASE i = ClaimsAt + 1
    BY <1>1, <1>6, <2>5
  <2>6. CASE i = ClaimsAt + 2
    BY <1>1, <1>6, <2>6
  <2>7. CASE i = ClaimsAt + 3
    BY <1>1, <1>6, <2>7
  <2>8. QED BY <1>1, <1>2, <2>1, <2>2, <2>3, <2>4, <2>5, <2>6, <2>7
<1>11. ASSUME NEW c \in Called PROVE \E i \in FirstCallAt..(ClaimsAt - 1) : SCRIPT[i].call = c
  <2>1. PICK k \in 1..m : CallOrder[k] = c
    BY Lengths DEF Called, ToSet, m
  <2>2. t + 1 + k \in FirstCallAt..(ClaimsAt - 1)
    BY <1>1
  <2>3. QED BY <1>5, <2>1, <2>2
<1>12. ASSUME NEW i \in FirstCallAt..(ClaimsAt - 1), NEW j \in FirstCallAt..(ClaimsAt - 1),
              SCRIPT[i].call = SCRIPT[j].call
       PROVE  i = j
  <2>1. CallOrder[i - t - 1] = CallOrder[j - t - 1]
    BY <1>9, <1>12
  <2>2. i - t - 1 = j - t - 1
    <3>1. IsInjective(CallOrder) /\ DOMAIN CallOrder = 1..m
      BY Lengths, RehearsalViewsAssumption DEF m
    <3>2. i - t - 1 \in 1..m /\ j - t - 1 \in 1..m
      BY <1>8
    <3>3. QED BY <2>1, <3>1, <3>2 DEF IsInjective
  <2>3. QED BY <1>1, <2>2
<1>13. QED BY <1>1, <1>6, <1>10, <1>11, <1>12

\* The steps that the rows mirror.
LEMMA StepsNamed == Called \subseteq Steps /\ "claims" \in Steps /\ "claims" \notin Called
<1>1. \A c \in Called : \E i \in 1..Rows : SCRIPT[i].step = c
  <2> TAKE c \in Called
  <2>1. PICK i \in FirstCallAt..(ClaimsAt - 1) : SCRIPT[i].call = c
    BY RowsOfCalls
  <2>2. i \in 1..Rows
    BY RowsOfCalls, ScriptRows
  <2>3. QED BY <2>1, <2>2, RowsOfCalls
<1>2. ClaimsAt \in 1..Rows
  BY RowsOfCalls, ScriptRows
<1>3. Called \subseteq Steps
  BY <1>1 DEF Steps
<1>4. "claims" \in Steps
  BY <1>2, RowsOfCalls DEF Steps
<1>5. QED BY <1>3, <1>4, RehearsalViewsAssumption

-----------------------------------------------------------------------------
(* The invariant: the shape of the state, what the timers keep, and what   *)
(* the polled narration keeps.                                             *)

Plan == [Steps -> {"none", "pending", "active", "done"}]
TickOfRun == [step : Steps, status : {"active", "done"}]
RunState == [left : {"asked", "reset"}, ticks : Seq(TickOfRun)]

TypeOK ==
  /\ scenario \in Scenarios
  /\ playback \in [status : {"streaming", "stopped", "complete"}, phase : {"waiting", "text"},
                   row : 1..(Rows + 1), text : Nat]
  /\ playback.status # "complete" => playback.row <= Rows
  /\ agentPlan \in AgentPlans
  /\ since \in [Called -> Nat \cup {NotAsked}] /\ seen \in [Called -> Nat \cup {NotAsked}]
  /\ due \in [row : Nat, clock : Nat]
  /\ checklist \in Plan /\ held \in Plan \cup {Nothing} /\ polls \subseteq Plan
  /\ runs \in Seq(RunState)
  /\ decision \in [selected : Selectable \cup {Nothing}, recorded : BOOLEAN]
  /\ happened \subseteq 1..Rows /\ called \subseteq Called

\* The row of the claims waits for the longest call; once it is told, all are over.
ClaimsWait ==
  /\ Streaming /\ playback.row = ClaimsAt /\ playback.phase = "waiting" =>
       \A c \in Called : End(c) - since[c] <= due.row
  /\ playback.row > ClaimsAt \/ (playback.row = ClaimsAt /\ playback.phase = "text") => Over(since) = Called

\* By timers: the clock of the page is never ahead, calls are asked for in the order
\* of the rows, and what has happened is on record.
TimedInv ==
  /\ polls = {} /\ runs = <<>>
  /\ \A c \in Called : seen[c] <= since[c] /\ since[c] <= End(c)
  /\ \A i \in 1..(playback.row - 1) : SCRIPT[i].kind = "outreach" => SCRIPT[i].call \in Asked
  /\ \A i \in 1..Rows : SCRIPT[i].kind = "outreach" /\ SCRIPT[i].call \in Asked => i \in happened
  /\ Unconditional \subseteq happened
  /\ Over(since) = Called => ClaimsRow \subseteq happened
  /\ Over(since) \subseteq called
  /\ ClaimsWait

\* What a plan of the API says has happened, and its results say that all calls
\* are over but the one that is held back.
PlanOK(plan) ==
  /\ ReachedIn(plan) \subseteq happened
  /\ {c \in Called : StepFinished(plan, c)} \subseteq called
  /\ StepFinished(plan, "claims") => Called \ {HoldFor} \subseteq called

\* A run that has yet to tick the results off ticks every call off before.
RunOK(ticks) ==
  \A c \in Called \ (called \cup {HoldFor}), i \in 1..Len(ticks) :
    ticks[i].step = "claims" => \E j \in 1..(i - 1) : ticks[j] = Tick(c, "done")

\* From the checklist: every plan there is, wherever it is, and every run is so.
ServedInv ==
  /\ \A plan \in {checklist} \cup polls \cup ({held} \ {Nothing}) : PlanOK(plan)
  /\ \A r \in 1..Len(runs) : RunOK(runs[r].ticks)
  /\ playback.row > ClaimsAt => Called \ {HoldFor} \subseteq called
  /\ \A c \in Called : seen[c] # 0 => held # Nothing /\ StepStarted(held, c)

RehearsalInv ==
  /\ TypeOK
  /\ driver = "timers" => TimedInv
  /\ driver = "server" => ServedInv

-----------------------------------------------------------------------------
(* The operators.                                                          *)

LEMMA MaxOfTwo ==
  ASSUME NEW m \in Int, NEW n \in Int
  PROVE  Max({m, n}) \in {m, n} /\ Max({m, n}) >= m /\ Max({m, n}) >= n
<1>1. \E x \in {m, n} : \A y \in {m, n} : x >= y
  <2>1. CASE m >= n
    BY <2>1
  <2>2. CASE n >= m
    BY <2>2
  <2>3. QED BY <2>1, <2>2
<1>2. Max({m, n}) \in {m, n} /\ \A y \in {m, n} : Max({m, n}) >= y
  BY <1>1, Zenon DEF Max
<1>3. QED BY <1>2

LEMMA MinOfTwo ==
  ASSUME NEW m \in Int, NEW n \in Int
  PROVE  Min({m, n}) \in {m, n} /\ Min({m, n}) <= m /\ Min({m, n}) <= n
<1>1. \E x \in {m, n} : \A y \in {m, n} : x <= y
  <2>1. CASE m <= n
    BY <2>1
  <2>2. CASE n <= m
    BY <2>2
  <2>3. QED BY <2>1, <2>2
<1>2. Min({m, n}) \in {m, n} /\ \A y \in {m, n} : Min({m, n}) <= y
  BY <1>1, Zenon DEF Min
<1>3. QED BY <1>2

\* What a scenario and a plan of calls hold.
LEMMA ScenarioFields ==
  ASSUME TypeOK
  PROVE  /\ driver \in {"timers", "server"} /\ HoldFor \in Called \cup {Nothing}
         /\ scenario.polls \in Nat /\ scenario.watch \in Nat
BY RehearsalAssumption DEF TypeOK, driver, HoldFor

LEMMA CallTimes ==
  ASSUME TypeOK, NEW c \in Called
  PROVE  /\ agentPlan[c].launch \in Nat /\ agentPlan[c].dialing \in Nat /\ agentPlan[c].duration \in Nat
         /\ agentPlan[c].dialing < agentPlan[c].duration /\ End(c) \in Nat /\ End(c) > 0
<1>1. /\ agentPlan[c].launch \in Nat /\ agentPlan[c].dialing \in Nat /\ agentPlan[c].duration \in Nat
      /\ agentPlan[c].dialing < agentPlan[c].duration
  BY RehearsalAssumption DEF TypeOK
<1>2. QED BY <1>1 DEF End

LEMMA Bounds == Wait \in Nat \ {0} /\ Chunks \in Nat \ {0} /\ ClockTicks \in Nat \ {0}
                /\ Dialing \in Nat \ {0} /\ Reveal \in Nat \ {0}
BY RehearsalAssumption

\* The times over the first calls have a bound, so the times over all of them have:
\* else there is a least number of calls with none.
LEMMA TimesBounded ==
  ASSUME NEW f \in [Called -> Int]
  PROVE  \E b \in Nat : \A c \in Called : f[c] <= b
<1> DEFINE m == Len(CallOrder)
           BoundedTo(n) == \E b \in Nat : \A i \in 1..n : f[CallOrder[i]] <= b
           Worst == {n \in 0..m : ~BoundedTo(n)}
<1>1. m \in Nat /\ \A i \in 1..m : CallOrder[i] \in Called
  BY Lengths DEF Called, ToSet
<1> HIDE DEF m
<1>2. BoundedTo(0)
  BY DEF BoundedTo
<1>3. ASSUME NEW n \in 1..m, BoundedTo(n - 1) PROVE BoundedTo(n)
  <2>1. PICK b \in Nat : \A i \in 1..(n - 1) : f[CallOrder[i]] <= b
    BY <1>3
  <2>2. f[CallOrder[n]] \in Int
    BY <1>1
  <2>3. PICK d \in Nat : b <= d /\ f[CallOrder[n]] <= d
    <3>1. CASE f[CallOrder[n]] <= b
      BY <3>1
    <3>2. CASE f[CallOrder[n]] > b
      BY <2>2, <3>2
    <3>3. QED BY <2>2, <3>1, <3>2
  <2>4. ASSUME NEW i \in 1..n PROVE f[CallOrder[i]] <= d
    <3>1. CASE i = n
      BY <2>3, <3>1
    <3>2. CASE i # n
      <4>1. i \in 1..(n - 1) /\ i \in 1..m
        BY <1>1, <3>2
      <4>2. f[CallOrder[i]] <= b /\ f[CallOrder[i]] \in Int
        BY <1>1, <2>1, <4>1
      <4>3. QED BY <2>3, <4>2
    <3>3. QED BY <3>1, <3>2
  <2>5. QED BY <2>4
<1> HIDE DEF BoundedTo
<1>4. Worst = {}
  <2> SUFFICES ASSUME Worst # {} PROVE FALSE
    OBVIOUS
  <2>1. Worst \in SUBSET Nat
    BY <1>1
  <2>2. PICK n \in Worst : \A k \in Worst : n <= k
    <3> HIDE DEF Worst
    <3>1. QED BY <2>1, LeastNatural
  <2>3. n \in 0..m /\ ~BoundedTo(n)
    OBVIOUS
  <2>4. n # 0
    BY <1>2, <2>3
  <2>5. n - 1 \in 0..m /\ n - 1 < n /\ n \in 1..m
    BY <1>1, <2>3, <2>4
  <2>6. BoundedTo(n - 1)
    BY <2>2, <2>5
  <2>7. QED BY <1>3, <2>3, <2>5, <2>6
<1>5. BoundedTo(m)
  BY <1>1, <1>4
<1>6. PICK b \in Nat : \A i \in 1..m : f[CallOrder[i]] <= b
  BY <1>5 DEF BoundedTo
<1>7. \A c \in Called : \E i \in 1..m : CallOrder[i] = c
  BY Lengths DEF Called, ToSet, m
<1>8. QED BY <1>6, <1>7

\* The wait for the last call is no shorter than that for any call.
LEMMA LongestCall ==
  ASSUME TypeOK
  PROVE  /\ LatestCallingAgentEnd \in Nat
         /\ \A c \in Asked : End(c) - since[c] <= LatestCallingAgentEnd
<1> DEFINE f == [c \in Called |-> End(c) - since[c]]
           times == {0} \cup {End(c) - since[c] : c \in Asked}
           naturals == {x \in times : x >= 0}
<1>1. \A c \in Called : End(c) - since[c] \in Int
  <2> TAKE c \in Called
  <2>1. End(c) \in Nat
    BY CallTimes
  <2>2. since[c] \in Int
    BY DEF TypeOK, NotAsked
  <2>3. QED BY <2>1, <2>2
<1>2. f \in [Called -> Int]
  BY <1>1
<1>3. PICK b \in Nat : \A c \in Called : f[c] <= b
  <2> HIDE DEF f
  <2>1. QED BY <1>2, TimesBounded
<1>4. \A x \in times : x \in Int /\ x <= b
  BY <1>1, <1>3 DEF Asked
<1> HIDE DEF times, f
<1>5. naturals \in SUBSET Nat /\ 0 \in naturals /\ \A x \in naturals : x <= b
  <2>1. 0 \in times
    BY DEF times
  <2>2. QED BY <1>4, <2>1
<1>6. PICK x \in naturals : \A y \in naturals : y <= x
  <2> HIDE DEF naturals
  <2>1. naturals # {}
    BY <1>5
  <2>2. QED BY <1>5, <2>1, GreatestBounded
<1>7. x \in times /\ x \in Nat /\ \A y \in times : x >= y
  BY <1>4, <1>5, <1>6
<1>8. \E z \in times : \A y \in times : z >= y
  BY <1>7
<1>9. LatestCallingAgentEnd = Max(times)
  BY Zenon DEF LatestCallingAgentEnd, times
<1>10. Max(times) \in times /\ \A y \in times : Max(times) >= y
  BY <1>8, Zenon DEF Max
<1>11. 0 \in times /\ \A c \in Asked : End(c) - since[c] \in times
  BY DEF times
<1>12. QED BY <1>4, <1>9, <1>10, <1>11

\* What a row waits is a number of ticks.
LEMMA WaitIsTicks == ASSUME TypeOK, NEW row PROVE WaitMs(row) \in Nat
BY Bounds, LongestCall DEF WaitMs

\* What /flow/run ticks off are steps of the plan, and every call that is not held
\* back is ticked off before the claims are.
LEMMA RunTicksOK ==
  ASSUME NEW hold
  PROVE  /\ RunTicks(hold) \in Seq(TickOfRun)
         /\ \A c \in Called \ {hold}, i \in 1..Len(RunTicks(hold)) :
              RunTicks(hold)[i].step = "claims" => \E j \in 1..(i - 1) : RunTicks(hold)[j] = Tick(c, "done")
<1> DEFINE m == Len(CallOrder)
           kept == RemoveFirst(CallOrder, hold)
           tools == [i \in DOMAIN Tools |-> Tick(Tools[i], "done")]
           policy == <<Tick("policy", "done")>>
           begun == [i \in DOMAIN CallOrder |-> Tick(CallOrder[i], "active")]
           over == [i \in DOMAIN kept |-> Tick(kept[i], "done")]
           results == <<Tick("claims", "done"), Tick("landed", "done"), Tick("package", "done")>>
           a == tools \o policy
           b == a \o begun
           d == b \o over
<1>1. m \in Nat \ {0} /\ DOMAIN CallOrder = 1..m /\ \A i \in 1..m : CallOrder[i] \in Called
  BY Lengths DEF Called, ToSet
<1>2. kept \in Seq(Called) /\ \A c \in Called \ {hold} : \E i \in 1..Len(kept) : kept[i] = c
  <2>1. CASE \E i \in 1..m : CallOrder[i] = hold
    <3> DEFINE I == {i \in 1..m : CallOrder[i] = hold}
               k == Min(I)
    <3>1. I \in SUBSET Nat /\ I # {}
      BY <2>1, <1>1
    <3>2. \E x \in I : \A y \in I : x <= y
      <4> HIDE DEF I
      <4>1. QED BY <3>1, LeastNatural
    <3>3. k \in I
      <4> HIDE DEF I
      <4>1. QED BY <3>2, Zenon DEF Min
    <3>4. kept = SubSeq(CallOrder, 1, k - 1) \o SubSeq(CallOrder, k + 1, m)
      <4>1. kept = RemoveAt(CallOrder, SelectInSeq(CallOrder, LAMBDA v : v = hold))
        BY <2>1, Zenon DEF RemoveFirst
      <4>2. SelectInSeq(CallOrder, LAMBDA v : v = hold) = k
        BY <3>1, Zenon DEF SelectInSeq
      <4>3. QED BY <4>1, <4>2, Zenon DEF RemoveAt
    <3> DEFINE p == SubSeq(CallOrder, 1, k - 1)
               q == SubSeq(CallOrder, k + 1, m)
    <3>5. k \in 1..m /\ CallOrder[k] = hold
      BY <3>3
    <3> HIDE DEF I, k, m
    <3>6. p \in Seq(Called) /\ Len(p) = k - 1 /\ \A i \in 1..(k - 1) : p[i] = CallOrder[i]
      BY <1>1, <3>5, RehearsalViewsAssumption DEF m
    <3>7. q \in Seq(Called) /\ Len(q) = m - k /\ \A i \in 1..(m - k) : q[i] = CallOrder[k + i]
      <4>1. CallOrder \in Seq(Called) /\ k + 1 \in Int /\ m \in Int
        BY <1>1, <3>5, RehearsalViewsAssumption
      <4>2. Len(q) = m - k
        BY <1>1, <3>5, <4>1
      <4>3. \A i \in 1..(m - k) : q[i] = CallOrder[k + i] /\ q[i] \in Called
        BY <1>1, <3>5, <4>1
      <4>4. q \in Seq(Called)
        BY <1>1, <3>5, <4>1
      <4> HIDE DEF q
      <4>5. QED BY <4>2, <4>3, <4>4
    <3>8. Joins(kept, p, q, Called)
      <4> HIDE DEF kept, p, q
      <4>1. kept = p \o q
        BY <3>4 DEF p, q
      <4>2. QED BY <3>6, <3>7, <4>1, Joined
    <3>9. ASSUME NEW c \in Called \ {hold} PROVE \E i \in 1..Len(kept) : kept[i] = c
      <4> HIDE DEF kept, p, q
      <4>1. PICK i \in 1..m : CallOrder[i] = c
        BY <1>1 DEF Called, ToSet
      <4>2. i # k
        BY <3>5, <3>9, <4>1
      <4>3. Len(kept) = m - 1 /\ (\A x \in 1..(k - 1) : kept[x] = p[x])
            /\ (\A x \in 1..(m - k) : kept[k - 1 + x] = q[x])
        BY <1>1, <3>5, <3>6, <3>7, <3>8 DEF Joins
      <4>4. CASE i < k
        <5>1. i \in 1..(k - 1) /\ i \in 1..(m - 1)
          BY <1>1, <3>5, <4>4
        <5>2. QED BY <3>6, <4>1, <4>3, <5>1
      <4>5. CASE i > k
        <5>1. i - k \in 1..(m - k) /\ k - 1 + (i - k) = i - 1 /\ k + (i - k) = i /\ i - 1 \in 1..(m - 1)
          BY <1>1, <3>5, <4>5
        <5>2. kept[i - 1] = c
          BY <3>7, <4>1, <4>3, <5>1
        <5>3. QED BY <4>3, <5>1, <5>2
      <4>6. QED BY <3>5, <4>2, <4>4, <4>5
    <3>10. kept \in Seq(Called)
      <4> HIDE DEF kept
      <4>1. QED BY <3>8 DEF Joins
    <3>11. QED BY <3>9, <3>10
  <2>2. CASE ~ \E i \in 1..m : CallOrder[i] = hold
    <3>1. kept = CallOrder
      BY <2>2, Zenon DEF RemoveFirst
    <3>2. QED BY <1>1, <3>1, RehearsalViewsAssumption DEF Called, ToSet
  <2>3. QED BY <2>1, <2>2
<1> HIDE DEF kept
<1>3. /\ \A i \in 1..Len(Tools) : Tools[i] \in Steps
      /\ {"policy", "claims", "landed", "package"} \subseteq Steps /\ Called \subseteq Steps
  <2>1. \A i \in 1..Len(Tools) : i \in 1..Rows /\ SCRIPT[i].step = Tools[i]
    BY Lengths, ScriptRows DEF IsRow, ClaimsAt
  <2>2. /\ Len(Tools) + 1 \in 1..Rows /\ ClaimsAt \in 1..Rows /\ ClaimsAt + 1 \in 1..Rows /\ ClaimsAt + 3 \in 1..Rows
    BY Lengths, ScriptRows DEF ClaimsAt
  <2>3. /\ SCRIPT[Len(Tools) + 1].step = "policy" /\ SCRIPT[ClaimsAt].step = "claims"
        /\ SCRIPT[ClaimsAt + 1].step = "landed" /\ SCRIPT[ClaimsAt + 3].step = "package"
    BY ScriptRows DEF IsRow
  <2>4. \A i \in 1..Len(Tools) : Tools[i] \in Steps
    BY <2>1 DEF Steps
  <2>5. {"policy", "claims", "landed", "package"} \subseteq Steps
    BY <2>2, <2>3 DEF Steps
  <2>6. QED BY <2>4, <2>5, StepsNamed
<1>4. \A s \in Steps : Tick(s, "done") \in TickOfRun /\ Tick(s, "active") \in TickOfRun
  BY DEF Tick, TickOfRun
<1>5. tools \in Seq(TickOfRun) /\ Len(tools) = Len(Tools) /\ NoneFor(tools, "claims")
  <2>1. tools \in [1..Len(Tools) -> TickOfRun]
    BY <1>3, <1>4, Lengths
  <2>2. \A i \in 1..Len(Tools) : tools[i].step = Tools[i] /\ Tools[i] # "claims"
    BY Lengths, RehearsalViewsAssumption DEF Tick, ToSet
  <2> HIDE DEF tools
  <2>3. tools \in Seq(TickOfRun) /\ Len(tools) = Len(Tools)
    BY <2>1, Lengths, FunctionOfLength
  <2>4. QED BY <2>2, <2>3 DEF NoneFor
<1>6. policy \in Seq(TickOfRun) /\ Len(policy) = 1 /\ NoneFor(policy, "claims")
  <2> DEFINE t == Tick("policy", "done")
  <2>1. t \in TickOfRun /\ t.step = "policy"
    BY <1>3, <1>4 DEF Tick
  <2> HIDE DEF t
  <2>2. policy = <<t>>
    BY Zenon DEF t
  <2>3. <<t>> \in Seq(TickOfRun) /\ Len(<<t>>) = 1 /\ <<t>>[1] = t
    BY <2>1
  <2> HIDE DEF policy
  <2>4. \A i \in 1..Len(policy) : policy[i] = t
    BY <2>2, <2>3
  <2>5. QED BY <2>1, <2>2, <2>3, <2>4 DEF NoneFor
<1>7. begun \in Seq(TickOfRun) /\ Len(begun) = m /\ NoneFor(begun, "claims")
  <2>1. begun \in [1..m -> TickOfRun]
    BY <1>1, <1>3, <1>4
  <2>2. \A i \in 1..m : begun[i].step = CallOrder[i] /\ CallOrder[i] # "claims"
    BY <1>1, StepsNamed DEF Tick
  <2> HIDE DEF begun, m
  <2>3. begun \in Seq(TickOfRun) /\ Len(begun) = m
    BY <1>1, <2>1, FunctionOfLength
  <2>4. QED BY <2>2, <2>3 DEF NoneFor
<1>8. over \in Seq(TickOfRun) /\ Len(over) = Len(kept) /\ \A i \in 1..Len(over) : over[i] = Tick(kept[i], "done")
  <2>1. Len(kept) \in Nat /\ DOMAIN kept = 1..Len(kept) /\ \A i \in 1..Len(kept) : kept[i] \in Called
    BY <1>2
  <2>2. over \in [1..Len(kept) -> TickOfRun]
    BY <1>3, <1>4, <2>1
  <2>3. \A i \in 1..Len(kept) : over[i] = Tick(kept[i], "done")
    BY <2>1
  <2> HIDE DEF over
  <2>4. over \in Seq(TickOfRun) /\ Len(over) = Len(kept)
    BY <2>1, <2>2, FunctionOfLength
  <2>5. QED BY <2>3, <2>4
<1>9. results \in Seq(TickOfRun) /\ Len(results) = 3
  BY <1>3, <1>4
<1>10. RunTicks(hold) = d \o results
  BY Zenon DEF RunTicks, kept
<1> HIDE DEF tools, policy, begun, over, results
<1>11. Joins(a, tools, policy, TickOfRun)
  BY <1>5, <1>6, Joined
<1> HIDE DEF a
<1>12. a \in Seq(TickOfRun) /\ NoneFor(a, "claims")
  BY <1>5, <1>6, <1>11, NoneJoined
<1>13. Joins(b, a, begun, TickOfRun)
  BY <1>7, <1>12, Joined
<1> HIDE DEF b
<1>14. b \in Seq(TickOfRun) /\ NoneFor(b, "claims")
  BY <1>7, <1>12, <1>13, NoneJoined
<1>15. Joins(d, b, over, TickOfRun)
  BY <1>8, <1>14, Joined
<1> HIDE DEF d
<1>16. NoneFor(over, "claims")
  <2>1. \A i \in 1..Len(kept) : kept[i] \in Called /\ kept[i] # "claims"
    BY <1>2, StepsNamed
  <2>2. \A s : Tick(s, "done").step = s
    BY DEF Tick
  <2>3. QED BY <1>8, <2>1, <2>2 DEF NoneFor
<1>17. d \in Seq(TickOfRun) /\ NoneFor(d, "claims")
  BY <1>8, <1>14, <1>15, <1>16, NoneJoined
<1>18. Joins(RunTicks(hold), d, results, TickOfRun)
  BY <1>9, <1>10, <1>17, Joined
<1>19. \A c \in Called \ {hold} : \E j \in 1..Len(d) : d[j] = Tick(c, "done")
  <2> TAKE c \in Called \ {hold}
  <2>1. PICK i \in 1..Len(kept) : kept[i] = c
    BY <1>2
  <2>2. i \in 1..Len(over) /\ over[i] = Tick(c, "done")
    BY <1>8, <2>1
  <2>3. Len(b) \in Nat /\ Len(over) \in Nat
    BY <1>8, <1>14
  <2>4. Len(b) + i \in 1..Len(d) /\ d[Len(b) + i] = over[i]
    BY <1>15, <2>2, <2>3 DEF Joins
  <2>5. QED BY <2>2, <2>4
<1>20. ASSUME NEW c \in Called \ {hold}, NEW i \in 1..Len(RunTicks(hold)), RunTicks(hold)[i].step = "claims"
       PROVE  \E j \in 1..(i - 1) : RunTicks(hold)[j] = Tick(c, "done")
  <2>1. Len(d) \in Nat /\ \A x \in 1..Len(d) : RunTicks(hold)[x] = d[x]
    BY <1>17, <1>18 DEF Joins
  <2>2. i > Len(d)
    BY <1>17, <1>20, <2>1 DEF NoneFor
  <2>3. PICK j \in 1..Len(d) : d[j] = Tick(c, "done")
    BY <1>19
  <2>4. j \in 1..(i - 1) /\ RunTicks(hold)[j] = Tick(c, "done")
    BY <2>1, <2>2, <2>3
  <2>5. QED BY <2>4
<1>21. QED BY <1>18, <1>20 DEF Joins

-----------------------------------------------------------------------------
(* The shape of the state.                                                 *)

\* The row that is told to the end is followed by the next, or by the end.
LEMMA AdvancedIs ==
  ASSUME TypeOK, Streaming
  PROVE  /\ Advanced \in [status : {"streaming", "stopped", "complete"}, phase : {"waiting", "text"},
                          row : 1..(Rows + 1), text : Nat]
         /\ Advanced.status # "complete" => Advanced.row <= Rows
         /\ Advanced.status # "stopped"
         /\ \/ Advanced.row = playback.row /\ Advanced.phase = "text"
            \/ Advanced.row = playback.row + 1 /\ Advanced.phase = "waiting" /\ playback.phase = "text"
<1> DEFINE Playbacks == [status : {"streaming", "stopped", "complete"}, phase : {"waiting", "text"},
                         row : 1..(Rows + 1), text : Nat]
<1>1. playback \in Playbacks /\ playback.status = "streaming" /\ playback.row <= Rows /\ Rows \in Nat
  <2>1. Rows \in Nat
    BY ScriptRows, RowsOfCalls
  <2>2. QED BY <2>1 DEF TypeOK, Streaming
<1>2. CASE playback.phase = "waiting"
  <2>1. Advanced = [playback EXCEPT !.phase = "text"]
    BY <1>2 DEF Advanced
  <2>2. QED BY <1>1, <2>1
<1>3. CASE playback.phase = "text" /\ playback.text < Chunks
  <2>1. Advanced = [playback EXCEPT !.text = @ + 1]
    BY <1>3 DEF Advanced
  <2>2. QED BY <1>1, <1>3, <2>1
<1>4. CASE playback.phase = "text" /\ ~(playback.text < Chunks) /\ playback.row = Rows
  <2>1. Advanced = [status |-> "complete", phase |-> "waiting", row |-> Rows + 1, text |-> 0]
    BY <1>4 DEF Advanced
  <2>2. QED BY <1>1, <1>4, <2>1
<1>5. CASE playback.phase = "text" /\ ~(playback.text < Chunks) /\ playback.row # Rows
  <2>1. Advanced = [Start EXCEPT !.row = playback.row + 1]
    BY <1>5 DEF Advanced
  <2>2. QED BY <1>1, <1>5, <2>1 DEF Start
<1>6. QED BY <1>1, <1>2, <1>3, <1>4, <1>5

LEMMA ToldIs ==
  ASSUME TypeOK, Streaming, OnRow
  PROVE  /\ Told \in [status : {"streaming", "stopped", "complete"}, phase : {"waiting", "text"},
                      row : 1..(Rows + 1), text : Nat]
         /\ Told.status # "complete" => Told.row <= Rows
         /\ Told.status # "stopped"
         /\ Told.row \in {playback.row, playback.row + 1} /\ Told.phase = playback.phase
<1>1. /\ playback \in [status : {"streaming", "stopped", "complete"}, phase : {"waiting", "text"},
                      row : 1..(Rows + 1), text : Nat]
      /\ playback.row \in 1..Rows /\ playback.status = "streaming" /\ Rows \in Nat
  <2>1. Rows \in Nat
    BY ScriptRows, RowsOfCalls
  <2>2. QED BY <2>1 DEF TypeOK, OnRow, Streaming
<1>2. CASE playback.text < Chunks
  <2>1. Told = [playback EXCEPT !.text = @ + 1]
    BY <1>2 DEF Told
  <2>2. QED BY <1>1, <2>1
<1>3. CASE ~(playback.text < Chunks)
  <2>1. Told = [playback EXCEPT !.row = @ + 1, !.text = 0,
                                !.status = IF playback.row = Rows THEN "complete" ELSE @]
    BY <1>3 DEF Told
  <2>2. /\ Told.row = playback.row + 1 /\ Told.text = 0 /\ Told.phase = playback.phase
        /\ Told.status = IF playback.row = Rows THEN "complete" ELSE "streaming"
    BY <1>1, <2>1
  <2>3. Told = [status |-> Told.status, phase |-> Told.phase, row |-> Told.row, text |-> Told.text]
    BY <1>1, <2>1
  <2>4. /\ Told.status \in {"streaming", "stopped", "complete"} /\ Told.phase \in {"waiting", "text"}
        /\ Told.row \in 1..(Rows + 1) /\ Told.text \in Nat
    BY <1>1, <2>2
  <2>5. QED BY <1>1, <2>2, <2>3, <2>4
<1>4. QED BY <1>2, <1>3

\* A call that is asked for is one of the calls, and its row is the current one.
LEMMA ToAskIs ==
  ASSUME TypeOK, NEW c \in ToAsk
  PROVE  /\ driver = "timers" /\ Streaming /\ playback.row \in FirstCallAt..(ClaimsAt - 1)
         /\ playback.row \in 1..Rows /\ SCRIPT[playback.row].call = c /\ c \in Called /\ c \notin Asked
<1>1. /\ driver = "timers" /\ Streaming /\ OnRow /\ Current.kind = "outreach"
      /\ Current.call \notin Asked /\ c = Current.call
  BY DEF ToAsk
<1>2. playback.row \in 1..Rows
  <2>1. playback.row \in 1..(Rows + 1) /\ playback.row <= Rows /\ Rows \in Nat
    BY <1>1, ScriptRows, RowsOfCalls DEF TypeOK, OnRow
  <2>2. QED BY <2>1
<1>3. QED BY <1>1, <1>2, RowsOfCalls DEF Current

LEMMA TypeInit == Init => TypeOK
<1> SUFFICES ASSUME Init PROVE TypeOK
  OBVIOUS
<1>1. Rows \in Nat /\ Rows >= 1
  BY ScriptRows, RowsOfCalls
<1>2. playback \in [status : {"streaming", "stopped", "complete"}, phase : {"waiting", "text"},
                   row : 1..(Rows + 1), text : Nat] /\ playback.row <= Rows
  BY <1>1 DEF Init, Start
<1>3. due \in [row : Nat, clock : Nat]
  BY Bounds DEF Init
<1>4. checklist \in Plan
  BY StepsNamed DEF Init, FirstPlan, Plan
<1>5. runs \in Seq(RunState)
  <2>1. Asking \in RunState
    BY DEF Asking, RunState
  <2>2. <<Asking>> \in Seq(RunState) /\ <<>> \in Seq(RunState)
    BY <2>1
  <2>3. QED BY <2>2, Zenon DEF Init
<1>6. decision \in [selected : Selectable \cup {Nothing}, recorded : BOOLEAN]
  BY DEF Init
<1>7. happened \subseteq 1..Rows
  BY DEF Init, Unconditional
<1>8. since \in [Called -> Nat \cup {NotAsked}] /\ seen \in [Called -> Nat \cup {NotAsked}]
  BY DEF Init
<1>9. QED BY <1>2, <1>3, <1>4, <1>5, <1>6, <1>7, <1>8 DEF Init, TypeOK

LEMMA TypeNext == TypeOK /\ [Next]_vars => TypeOK'
<1> SUFFICES ASSUME TypeOK, [Next]_vars PROVE TypeOK'
  OBVIOUS
<1> DEFINE Playbacks == [status : {"streaming", "stopped", "complete"}, phase : {"waiting", "text"},
                         row : 1..(Rows + 1), text : Nat]
<1>0. Rows \in Nat /\ Rows >= 1
  BY ScriptRows, RowsOfCalls
<1>1. CASE AskCall
  <2>1. PICK c \in ToAsk :
          /\ since' = [since EXCEPT ![c] = 0] /\ seen' = [since EXCEPT ![c] = 0]
          /\ due' = [row |-> Wait, clock |-> ClockTicks] /\ happened' = happened \cup {playback.row}
          /\ UNCHANGED <<scenario, playback, agentPlan, serverVars, held, left, decision, called>>
    BY <1>1 DEF AskCall
  <2>2. c \in Called /\ playback.row \in 1..Rows
    BY ToAskIs
  <2>3. due' \in [row : Nat, clock : Nat]
    BY <2>1, Bounds
  <2>4. since' \in [Called -> Nat \cup {NotAsked}] /\ seen' \in [Called -> Nat \cup {NotAsked}]
    BY <2>1, <2>2 DEF TypeOK
  <2>5. QED BY <2>1, <2>2, <2>3, <2>4 DEF TypeOK, serverVars
<1>2. CASE Elapse
  <2>1. since' \in [Called -> Nat \cup {NotAsked}]
    <3>1. ASSUME NEW c \in Called
          PROVE  (IF since[c] = NotAsked THEN NotAsked ELSE Min({End(c), since[c] + 1})) \in Nat \cup {NotAsked}
      <4>1. CASE since[c] = NotAsked
        BY <4>1
      <4>2. CASE since[c] # NotAsked
        <5>1. since[c] \in Nat /\ End(c) \in Nat
          BY <4>2, CallTimes DEF TypeOK
        <5>2. End(c) \in Int /\ since[c] + 1 \in Int
          BY <5>1
        <5>3. Min({End(c), since[c] + 1}) \in {End(c), since[c] + 1}
          BY <5>2, MinOfTwo, Zenon
        <5>4. QED BY <4>2, <5>1, <5>3
      <4>3. QED BY <4>1, <4>2
    <3>2. since' = [c \in Called |-> IF since[c] = NotAsked THEN NotAsked ELSE Min({End(c), since[c] + 1})]
      BY <1>2 DEF Elapse
    <3>3. QED BY <3>1, <3>2
  <2>2. due' \in [row : Nat, clock : Nat]
    <3>1. due' = [t \in {"row", "clock"} |-> Max({0, due[t] - 1})]
      BY <1>2 DEF Elapse, TypeOK
    <3>2. \A t \in {"row", "clock"} : due[t] \in Nat
      BY DEF TypeOK
    <3>3. \A t \in {"row", "clock"} : Max({0, due[t] - 1}) \in Nat
      <4> TAKE t \in {"row", "clock"}
      <4>1. due[t] - 1 \in Int
        BY <3>2
      <4>2. 0 \in Int
        OBVIOUS
      <4>3. Max({0, due[t] - 1}) \in {0, due[t] - 1} /\ Max({0, due[t] - 1}) >= 0
        BY <4>1, <4>2, MaxOfTwo, Zenon
      <4>4. QED BY <4>1, <4>3
    <3>4. QED BY <3>1, <3>3
  <2>3. called' \subseteq Called
    BY <1>2 DEF Elapse, TypeOK, Over
  <2>4. happened' \subseteq 1..Rows
    BY <1>2 DEF Elapse, TypeOK, ClaimsRow
  <2>5. UNCHANGED <<scenario, playback, agentPlan, seen, serverVars, held, decision>>
    BY <1>2 DEF Elapse
  <2>6. QED BY <2>1, <2>2, <2>3, <2>4, <2>5 DEF TypeOK, serverVars
<1>3. CASE UpdateClock
  <2>1. due' \in [row : Nat, clock : Nat]
    BY <1>3, Bounds DEF UpdateClock, TypeOK
  <2>2. QED BY <1>3, <2>1 DEF UpdateClock, TypeOK, serverVars
<1>4. CASE Advance
  <2>1. playback' \in Playbacks /\ (playback'.status # "complete" => playback'.row <= Rows)
    BY <1>4, AdvancedIs DEF Advance
  <2>2. due' \in [row : Nat, clock : Nat]
    <3> DEFINE wait == IF playback'.row <= Rows THEN WaitMs(SCRIPT[playback'.row]) ELSE 0
    <3>1. wait \in Nat
      BY WaitIsTicks
    <3>2. due' = Armed(playback', wait)
      BY <1>4 DEF Advance
    <3> HIDE DEF wait
    <3>3. due \in [row : Nat, clock : Nat]
      BY DEF TypeOK
    <3>4. QED BY <3>1, <3>2, <3>3 DEF Armed
  <2>3. UNCHANGED <<scenario, agentPlan, since, seen, serverVars, held, decision, happened, called>>
    BY <1>4 DEF Advance
  <2>4. QED BY <2>1, <2>2, <2>3 DEF TypeOK, serverVars
<1>5. CASE Run
  <2>1. /\ runs' \in Seq(RunState) /\ checklist' \in Plan
        /\ happened' \subseteq 1..Rows /\ called' \subseteq Called
    <3>1. PICK r \in DOMAIN runs : Reset(r) \/ TickOff(r)
      BY <1>5 DEF Run
    <3>2. r \in 1..Len(runs) /\ runs[r] \in RunState
      BY <3>1 DEF TypeOK
    <3>3. ASSUME NEW plan, Record(plan) PROVE happened' \subseteq 1..Rows /\ called' \subseteq Called
      BY <3>3 DEF Record, ReachedIn, TypeOK
    <3>4. CASE Reset(r)
      <4>1. RunTicks(HoldFor) \in Seq(TickOfRun)
        BY RunTicksOK
      <4>2. [left |-> "reset", ticks |-> RunTicks(HoldFor)] \in RunState
        BY <4>1 DEF RunState
      <4>3. runs' \in Seq(RunState)
        BY <3>2, <3>4, <4>2 DEF Reset, TypeOK
      <4>4. FirstPlan \in Plan
        BY DEF FirstPlan, Plan
      <4>5. QED BY <3>3, <3>4, <4>3, <4>4 DEF Reset, Record
    <3>5. CASE TickOff(r)
      <4>1. runs[r].ticks \in Seq(TickOfRun) /\ runs[r].ticks # <<>>
        BY <3>2, <3>5 DEF TickOff, RunState
      <4>2. Head(runs[r].ticks) \in TickOfRun /\ Tail(runs[r].ticks) \in Seq(TickOfRun) /\ <<>> \in Seq(TickOfRun)
        BY <4>1
      <4> DEFINE t == Head(runs[r].ticks)
      <4>3. \/ runs' = [runs EXCEPT ![r].ticks = <<>>] /\ UNCHANGED <<checklist, happened, called>>
            \/ /\ Record([checklist EXCEPT ![t.step] = t.status])
               /\ runs' = [runs EXCEPT ![r].ticks = Tail(@)]
        BY <3>5 DEF TickOff
      <4> HIDE DEF t
      <4>4. ASSUME NEW ticks \in Seq(TickOfRun), runs' = [runs EXCEPT ![r].ticks = ticks]
            PROVE  runs' \in Seq(RunState)
        <5>1. [runs[r] EXCEPT !.ticks = ticks] \in RunState
          BY <3>2 DEF RunState
        <5>2. runs' = [runs EXCEPT ![r] = [runs[r] EXCEPT !.ticks = ticks]]
          BY <4>4
        <5>3. QED BY <3>2, <5>1, <5>2 DEF TypeOK
      <4>5. t \in TickOfRun
        BY <4>2 DEF t
      <4>6. [checklist EXCEPT ![t.step] = t.status] \in Plan
        BY <4>5 DEF TypeOK, Plan, TickOfRun
      <4>7. CASE runs' = [runs EXCEPT ![r].ticks = <<>>] /\ UNCHANGED <<checklist, happened, called>>
        BY <4>2, <4>4, <4>7 DEF TypeOK
      <4>8. CASE /\ Record([checklist EXCEPT ![t.step] = t.status])
                 /\ runs' = [runs EXCEPT ![r].ticks = Tail(@)]
        <5>1. runs' = [runs EXCEPT ![r].ticks = Tail(runs[r].ticks)]
          BY <4>8
        <5>2. QED BY <3>3, <4>2, <4>4, <4>6, <4>8, <5>1 DEF Record
      <4>9. QED BY <4>3, <4>7, <4>8
    <3>6. QED BY <3>1, <3>4, <3>5
  <2>2. UNCHANGED <<scenario, playback, timerVars, held, polls, decision>>
    BY <1>5 DEF Run
  <2>3. QED BY <2>1, <2>2 DEF TypeOK, timerVars
<1>6. CASE Poll
  BY <1>6 DEF Poll, TypeOK, timerVars
<1>7. CASE PollAnswered
  <2>1. PICK answer \in polls :
          /\ held' = IF Listening THEN answer ELSE held
          /\ seen' = [c \in Called |-> IF held' # Nothing /\ StepStarted(held', c) THEN seen[c] ELSE 0]
          /\ polls' = polls \ {answer}
          /\ UNCHANGED <<scenario, playback, agentPlan, since, due, checklist, runs, left, decision, happened, called>>
    BY <1>7 DEF PollAnswered
  <2>2. held' \in Plan \cup {Nothing} /\ polls' \subseteq Plan
    BY <2>1 DEF TypeOK
  <2>3. seen' \in [Called -> Nat \cup {NotAsked}]
    BY <2>1 DEF TypeOK
  <2>4. QED BY <2>1, <2>2, <2>3 DEF TypeOK
<1>8. CASE PollLost
  BY <1>8 DEF PollLost, TypeOK, timerVars
<1>9. CASE Now
  <2>1. seen' \in [Called -> Nat \cup {NotAsked}]
    <3>1. ASSUME NEW c \in Called
          PROVE  Min({scenario.watch, seen[c] + 1}) \in Nat /\ seen[c] \in Nat \cup {NotAsked}
      <4>1. scenario.watch \in Nat /\ seen[c] \in Nat \cup {NotAsked} /\ seen[c] + 1 \in Nat
        BY ScenarioFields DEF TypeOK, NotAsked
      <4>2. scenario.watch \in Int /\ seen[c] + 1 \in Int
        BY <4>1
      <4>3. Min({scenario.watch, seen[c] + 1}) \in {scenario.watch, seen[c] + 1}
        BY <4>2, MinOfTwo, Zenon
      <4>4. QED BY <4>1, <4>3
    <3>2. seen' = [c \in Called |-> IF LivePhase(c) \in {"dialing", "calling"} THEN Min({scenario.watch, seen[c] + 1}) ELSE seen[c]]
      BY <1>9 DEF Now
    <3>3. QED BY <3>1, <3>2
  <2>2. UNCHANGED <<scenario, playback, agentPlan, since, due, serverVars, held, decision, happened, called>>
    BY <1>9 DEF Now
  <2>3. QED BY <2>1, <2>2 DEF TypeOK, serverVars
<1>10. CASE TellRow
  <2>1. playback' \in Playbacks /\ (playback'.status # "complete" => playback'.row <= Rows)
    BY <1>10, ToldIs DEF TellRow, Finished
  <2>2. QED BY <1>10, <2>1 DEF TellRow, TypeOK, timerVars, serverVars
<1>11. CASE Stop
  <2>1. playback' \in Playbacks /\ playback'.row <= Rows
    BY <1>0, <1>11 DEF Stop, TypeOK, Streaming
  <2>2. due' \in [row : Nat, clock : Nat]
    BY <1>11 DEF Stop
  <2>3. UNCHANGED <<scenario, agentPlan, since, seen, serverVars, held, decision, happened, called>>
    BY <1>11 DEF Stop
  <2>4. QED BY <2>1, <2>2, <2>3 DEF TypeOK, serverVars
<1>12. CASE Replay
  <2>1. playback' \in Playbacks /\ playback'.row <= Rows
    BY <1>0, <1>12 DEF Replay, Start
  <2>2. seen' \in [Called -> Nat \cup {NotAsked}]
    BY <1>12 DEF Replay
  <2>3. called' \subseteq Called /\ UNCHANGED <<scenario, checklist, decision>> /\ polls' \subseteq Plan
    BY <1>12 DEF Replay, TypeOK
  <2>4. CASE ReplayTimed
    <3>1. due' \in [row : Nat, clock : Nat]
      BY <2>4, Bounds DEF ReplayTimed
    <3>2. since' \in [Called -> Nat \cup {NotAsked}]
      BY <2>4 DEF ReplayTimed
    <3>3. happened' \subseteq 1..Rows
      BY <2>4 DEF ReplayTimed, Unconditional
    <3>4. QED BY <2>1, <2>2, <2>3, <2>4, <3>1, <3>2, <3>3 DEF TypeOK, ReplayTimed
  <2>5. CASE ReplayLive
    <3>1. Asking \in RunState
      BY DEF Asking, RunState
    <3>2. runs' \in Seq(RunState)
      BY <2>5, <3>1 DEF ReplayLive, TypeOK
    <3>3. QED BY <2>1, <2>2, <2>3, <2>5, <3>2 DEF TypeOK, ReplayLive
  <2>6. QED BY <1>12, <2>4, <2>5 DEF Replay
<1>13. CASE Select
  <2>1. PICK c \in DecisionBar(decision).choices : decision' = [decision EXCEPT !.selected = c]
    BY <1>13 DEF Select
  <2>2. c \in Selectable
    BY DEF DecisionBar
  <2>3. decision' \in [selected : Selectable \cup {Nothing}, recorded : BOOLEAN]
    BY <2>1, <2>2 DEF TypeOK
  <2>4. QED BY <1>13, <2>3 DEF Select, TypeOK, timerVars, serverVars
<1>14. CASE RecordDecision
  <2>1. decision' \in [selected : Selectable \cup {Nothing}, recorded : BOOLEAN]
    BY <1>14 DEF RecordDecision, TypeOK
  <2>2. QED BY <1>14, <2>1 DEF RecordDecision, TypeOK, timerVars, serverVars
<1>15. CASE UNCHANGED vars
  BY <1>15 DEF vars, TypeOK
<1>16. QED
  BY <1>1, <1>2, <1>3, <1>4, <1>5, <1>6, <1>7, <1>8, <1>9, <1>10, <1>11, <1>12, <1>13, <1>14, <1>15
     DEF Next, Timers, Server, User

-----------------------------------------------------------------------------
(* The narration by timers.                                                *)

LEMMA SomeoneIsCalled == Called # {}
<1>1. 1 \in 1..Len(CallOrder) /\ CallOrder[1] \in Called
  BY Lengths DEF Called, ToSet
<1>2. QED BY <1>1

\* Whoever narrates past the calls has asked for all of them.
LEMMA AllAsked ==
  ASSUME NEW row \in Nat, row >= ClaimsAt,
         \A i \in 1..(row - 1) : SCRIPT[i].kind = "outreach" => SCRIPT[i].call \in Asked
  PROVE  Asked = Called
<1>1. ASSUME NEW c \in Called PROVE c \in Asked
  <2>1. PICK i \in FirstCallAt..(ClaimsAt - 1) : SCRIPT[i].call = c
    BY RowsOfCalls
  <2>2. i \in 1..Rows /\ i \in 1..(row - 1)
    BY RowsOfCalls, ScriptRows
  <2>3. QED BY <2>1, <2>2, RowsOfCalls
<1>2. QED BY <1>1 DEF Asked

\* A narration that begins: nothing is asked for, and nothing has happened but what
\* happens however the calls go.
TimedStart ==
  /\ polls = {} /\ runs = <<>> /\ playback = Start
  /\ since = [c \in Called |-> NotAsked] /\ seen = [c \in Called |-> NotAsked] /\ happened = Unconditional

LEMMA TimedBegins == TypeOK /\ TimedStart => TimedInv
<1> SUFFICES ASSUME TypeOK, TimedStart PROVE TimedInv
  OBVIOUS
<1> USE DEF TimedStart
<1>1. Asked = {} /\ Over(since) = {}
  BY DEF Asked, Over
<1>2. playback.row = 1 /\ playback.row < ClaimsAt
  BY RowsOfCalls DEF Start
<1>3. ClaimsWait
  BY <1>2, RowsOfCalls DEF ClaimsWait
<1>4. \A c \in Called : seen[c] <= since[c] /\ since[c] <= End(c)
  BY CallTimes DEF NotAsked
<1>5. \A i \in 1..(playback.row - 1) : FALSE
  BY <1>2
<1>6. QED BY <1>1, <1>3, <1>4, <1>5, SomeoneIsCalled DEF TimedInv

LEMMA AskKeepsTimed ==
  ASSUME TypeOK, TypeOK', TimedInv, AskCall
  PROVE  TimedInv'
<1>1. PICK c \in ToAsk :
        /\ since' = [since EXCEPT ![c] = 0] /\ seen' = [since EXCEPT ![c] = 0]
        /\ happened' = happened \cup {playback.row}
        /\ UNCHANGED <<scenario, playback, agentPlan, serverVars, held, left, decision, called>>
  BY DEF AskCall
<1>2. /\ playback.row \in FirstCallAt..(ClaimsAt - 1) /\ SCRIPT[playback.row].call = c
      /\ playback.row \in 1..Rows /\ c \in Called /\ c \notin Asked
  BY ToAskIs
<1>3. Asked' = Asked \cup {c}
  <2>1. \A d \in Called : since'[d] = IF d = c THEN 0 ELSE since[d]
    BY <1>1, <1>2 DEF TypeOK
  <2>2. QED BY <1>2, <2>1 DEF Asked, NotAsked
<1>4. Over(since)' = Over(since) /\ c \notin Over(since)'
  <2>1. End(c) \in Nat /\ End(c) > 0 /\ \A d \in Called : End(d)' = End(d)
    BY <1>1, <1>2, CallTimes DEF End
  <2>2. \A d \in Called : since'[d] = IF d = c THEN 0 ELSE since[d]
    BY <1>1, <1>2 DEF TypeOK
  <2>3. since[c] = NotAsked
    BY <1>2 DEF Asked
  <2>4. \A d \in Called : d \in Over(since)' <=> d \in Over(since)
    BY <2>1, <2>2, <2>3 DEF Over
  <2>5. Over(since)' \subseteq Called /\ Over(since) \subseteq Called
    BY DEF Over
  <2>6. QED BY <1>2, <2>1, <2>3, <2>4, <2>5 DEF Over
<1>5. ASSUME NEW d \in Called PROVE seen'[d] <= since'[d] /\ since'[d] <= End(d)'
  <2>1. since'[d] \in Int /\ seen'[d] = since'[d] /\ since'[d] = IF d = c THEN 0 ELSE since[d]
    BY <1>1, <1>2 DEF TypeOK, NotAsked
  <2>2. End(d) \in Nat /\ End(d)' = End(d) /\ since[d] <= End(d)
    BY <1>1, CallTimes DEF End, TimedInv
  <2>3. QED BY <2>1, <2>2
<1>6. \A i \in 1..(playback'.row - 1) : SCRIPT[i].kind = "outreach" => SCRIPT[i].call \in Asked'
  BY <1>1, <1>3 DEF TimedInv
<1>7. ASSUME NEW i \in 1..Rows, SCRIPT[i].kind = "outreach", SCRIPT[i].call \in Asked'
      PROVE  i \in happened'
  <2>1. CASE SCRIPT[i].call \in Asked
    BY <1>1, <1>7, <2>1 DEF TimedInv
  <2>2. CASE SCRIPT[i].call = c
    BY <1>1, <1>2, <1>7, <2>2, RowsOfCalls
  <2>3. QED BY <1>3, <1>7, <2>1, <2>2
<1>8. ClaimsWait'
  BY <1>1, <1>2, RowsOfCalls DEF ClaimsWait
<1>9. UNCHANGED <<polls, runs, called>> /\ Unconditional \subseteq happened'
  BY <1>1 DEF serverVars, TimedInv
<1>10. QED BY <1>1, <1>2, <1>4, <1>5, <1>6, <1>7, <1>8, <1>9 DEF TimedInv

LEMMA ElapseKeepsTimed ==
  ASSUME TypeOK, TypeOK', TimedInv, Elapse
  PROVE  TimedInv'
<1>1. /\ since' = [c \in Called |-> IF since[c] = NotAsked THEN NotAsked ELSE Min({End(c), since[c] + 1})]
      /\ due' = [t \in DOMAIN due |-> Max({0, due[t] - 1})]
      /\ called' = called \cup Over(since')
      /\ happened' = IF Over(since') = Called THEN happened \cup ClaimsRow ELSE happened
      /\ UNCHANGED <<scenario, playback, agentPlan, seen, serverVars, held, left, decision>>
  BY DEF Elapse
<1>2. \A c \in Called : End(c)' = End(c) /\ End(c) \in Nat
  BY <1>1, CallTimes DEF End
<1>3. ASSUME NEW c \in Called
      PROVE  /\ since[c] = NotAsked => since'[c] = NotAsked
             /\ since[c] # NotAsked =>
                  /\ since'[c] \in Nat /\ since[c] \in Nat /\ since'[c] \in {End(c), since[c] + 1}
                  /\ since'[c] <= End(c) /\ since'[c] <= since[c] + 1
  <2>1. CASE since[c] = NotAsked
    BY <1>1, <2>1
  <2>2. CASE since[c] # NotAsked
    <3>1. since[c] \in Nat /\ since[c] + 1 \in Int /\ End(c) \in Int
      BY <1>2, <2>2 DEF TypeOK
    <3>2. since'[c] = Min({End(c), since[c] + 1})
      BY <1>1, <2>2
    <3>3. Min({End(c), since[c] + 1}) \in {End(c), since[c] + 1} /\ Min({End(c), since[c] + 1}) <= End(c)
          /\ Min({End(c), since[c] + 1}) <= since[c] + 1
      BY <3>1, MinOfTwo, Zenon
    <3>4. QED BY <1>2, <2>2, <3>1, <3>2, <3>3
  <2>3. QED BY <2>1, <2>2
<1>4. Asked' = Asked
  BY <1>3 DEF Asked, NotAsked
<1>5. Over(since)' = Over(since')
  BY <1>2 DEF Over
<1>6. ASSUME NEW c \in Called
      PROVE  since[c] <= since'[c] /\ seen'[c] <= since'[c] /\ since'[c] <= End(c)'
  <2>1. seen[c] <= since[c] /\ since[c] <= End(c) /\ seen'[c] = seen[c] /\ seen[c] \in Int /\ since[c] \in Int
    BY <1>1 DEF TimedInv, TypeOK, NotAsked
  <2>2. QED BY <1>2, <1>3, <2>1 DEF NotAsked
<1>7. Over(since) \subseteq Over(since)'
  BY <1>2, <1>3, <1>6 DEF Over, NotAsked
<1>8. Over(since)' \subseteq Called /\ Over(since) \subseteq Called
  BY DEF Over
<1>9. \A i \in 1..(playback'.row - 1) : SCRIPT[i].kind = "outreach" => SCRIPT[i].call \in Asked'
  BY <1>1, <1>4 DEF TimedInv
<1>10. \A i \in 1..Rows : SCRIPT[i].kind = "outreach" /\ SCRIPT[i].call \in Asked' => i \in happened'
  BY <1>1, <1>4 DEF TimedInv
<1>11. /\ UNCHANGED <<polls, runs>> /\ Unconditional \subseteq happened' /\ Over(since)' \subseteq called'
       /\ (Over(since)' = Called => ClaimsRow \subseteq happened')
  BY <1>1, <1>5 DEF serverVars, TimedInv
<1>12. ASSUME Streaming', playback'.row = ClaimsAt, playback'.phase = "waiting", NEW c \in Called
       PROVE  End(c)' - since'[c] <= due'.row
  <2>1. Streaming /\ playback.row = ClaimsAt /\ playback.phase = "waiting" /\ ClaimsAt \in Nat
    BY <1>1, <1>12, RowsOfCalls DEF Streaming
  <2>2. since[c] # NotAsked
    BY <2>1, AllAsked DEF TimedInv, Asked
  <2>3. End(c) - since[c] <= due.row /\ due.row \in Nat
    BY <2>1 DEF TimedInv, ClaimsWait, TypeOK
  <2>4. due'.row >= 0 /\ due'.row >= due.row - 1
    <3>1. due'.row = Max({0, due.row - 1})
      BY <1>1 DEF TypeOK
    <3>2. 0 \in Int /\ due.row - 1 \in Int
      BY <2>3
    <3>3. Max({0, due.row - 1}) >= 0 /\ Max({0, due.row - 1}) >= due.row - 1
      BY <3>2, MaxOfTwo, Zenon
    <3>4. QED BY <3>1, <3>3
  <2>5. since'[c] \in {End(c), since[c] + 1} /\ since[c] \in Nat /\ due'.row \in Nat
    BY <1>3, <2>2 DEF TypeOK
  <2>6. QED BY <1>2, <2>3, <2>4, <2>5
<1>13. ClaimsWait'
  <2>1. playback'.row > ClaimsAt \/ (playback'.row = ClaimsAt /\ playback'.phase = "text") => Over(since)' = Called
    BY <1>1, <1>7, <1>8 DEF TimedInv, ClaimsWait
  <2>2. QED BY <1>12, <2>1 DEF ClaimsWait
<1>14. QED BY <1>6, <1>9, <1>10, <1>11, <1>13 DEF TimedInv

\* A row is told once its timer has fired: that of the claims when every call is over.
LEMMA AdvanceKeepsTimed ==
  ASSUME TypeOK, TypeOK', TimedInv, Advance
  PROVE  TimedInv'
<1>1. /\ Streaming /\ ToAsk = {} /\ due.row = 0 /\ driver = "timers" /\ playback' = Advanced
      /\ due' = Armed(playback', IF playback'.row <= Rows THEN WaitMs(SCRIPT[playback'.row]) ELSE 0)
      /\ UNCHANGED <<scenario, agentPlan, since, seen, serverVars, held, left, decision, happened, called>>
  BY DEF Advance
<1>2. /\ playback.row \in 1..Rows /\ Rows \in Nat /\ ClaimsAt \in Nat
      /\ \/ playback'.row = playback.row /\ playback'.phase = "text"
         \/ playback'.row = playback.row + 1 /\ playback'.phase = "waiting" /\ playback.phase = "text"
  BY <1>1, AdvancedIs, RowsOfCalls, ScriptRows DEF TypeOK, Streaming
<1>3. Asked' = Asked /\ Over(since)' = Over(since) /\ \A c \in Called : End(c)' = End(c)
  BY <1>1 DEF Asked, Over, End
<1>4. SCRIPT[playback.row].kind = "outreach" => SCRIPT[playback.row].call \in Asked
  <2>1. OnRow
    BY <1>2 DEF OnRow
  <2>2. ~(Current.kind = "outreach" /\ Current.call \notin Asked)
    BY <1>1, <2>1 DEF ToAsk
  <2>3. QED BY <2>2 DEF Current
<1>5. \A i \in 1..(playback'.row - 1) : SCRIPT[i].kind = "outreach" => SCRIPT[i].call \in Asked
  <2>1. \A i \in 1..(playback'.row - 1) : i \in 1..(playback.row - 1) \/ i = playback.row
    BY <1>2
  <2>2. QED BY <1>4, <2>1 DEF TimedInv
<1>6. ASSUME Streaming', playback'.row = ClaimsAt, playback'.phase = "waiting", NEW c \in Called
      PROVE  End(c)' - since'[c] <= due'.row
  <2>1. Asked = Called
    BY <1>2, <1>5, <1>6, AllAsked
  <2>2. ClaimsAt \in 1..Rows /\ SCRIPT[ClaimsAt].id = "claims"
    BY <1>2, RowsOfCalls, ScriptRows
  <2>3. WaitMs(SCRIPT[ClaimsAt]) = LatestCallingAgentEnd
    BY <2>1, <2>2 DEF WaitMs
  <2>4. due' = Armed(playback', LatestCallingAgentEnd)
    BY <1>1, <1>6, <2>2, <2>3
  <2>5. Narrating(playback')
    BY <1>1, <1>6, <2>2 DEF Narrating, Streaming
  <2>6. due'.row = LatestCallingAgentEnd
    BY <1>6, <2>4, <2>5 DEF Armed, TypeOK
  <2>7. End(c) - since[c] <= LatestCallingAgentEnd
    BY <2>1, LongestCall
  <2>8. QED BY <1>1, <1>3, <2>6, <2>7
<1>7. ASSUME playback'.row > ClaimsAt \/ (playback'.row = ClaimsAt /\ playback'.phase = "text")
      PROVE  Over(since) = Called
  <2>1. CASE playback.row > ClaimsAt \/ (playback.row = ClaimsAt /\ playback.phase = "text")
    BY <2>1 DEF TimedInv, ClaimsWait
  <2>2. CASE playback.row = ClaimsAt /\ playback.phase # "text"
    <3>1. playback.phase = "waiting"
      BY <2>2 DEF TypeOK
    <3>2. Asked = Called
      BY <1>2, <2>2, AllAsked DEF TimedInv
    <3>3. ASSUME NEW c \in Called PROVE c \in Over(since)
      <4>1. End(c) - since[c] <= 0
        BY <1>1, <2>2, <3>1 DEF TimedInv, ClaimsWait
      <4>2. End(c) \in Nat /\ since[c] \in Nat /\ since[c] # NotAsked
        BY <3>2, CallTimes DEF TypeOK, Asked
      <4>3. QED BY <4>1, <4>2 DEF Over
    <3>4. QED BY <3>3 DEF Over
  <2>3. playback.row > ClaimsAt \/ playback.row = ClaimsAt
    BY <1>2, <1>7
  <2>4. QED BY <2>1, <2>2, <2>3
<1>8. ClaimsWait'
  BY <1>3, <1>6, <1>7 DEF ClaimsWait
<1>9. QED BY <1>1, <1>3, <1>5, <1>8 DEF TimedInv, serverVars

LEMMA TimedNext ==
  ASSUME TypeOK, TypeOK', driver = "timers", TimedInv, [Next]_vars
  PROVE  TimedInv'
<1>1. CASE AskCall
  BY <1>1, AskKeepsTimed
<1>2. CASE Elapse
  BY <1>2, ElapseKeepsTimed
<1>3. CASE UpdateClock
  <2>1. /\ seen' = since /\ due'.row = due.row
        /\ UNCHANGED <<scenario, playback, agentPlan, since, serverVars, held, left, decision, happened, called>>
    BY <1>3 DEF UpdateClock, TypeOK
  <2>2. Asked' = Asked /\ Over(since)' = Over(since) /\ (\A c \in Called : End(c)' = End(c)) /\ Streaming' = Streaming
    BY <2>1 DEF Asked, Over, End, Streaming
  <2>3. \A c \in Called : since[c] \in Int
    BY DEF TypeOK, NotAsked
  <2>4. QED BY <2>1, <2>2, <2>3 DEF TimedInv, ClaimsWait, serverVars
<1>4. CASE Advance
  BY <1>4, AdvanceKeepsTimed
<1>5. CASE Stop
  <2>1. /\ playback' = [playback EXCEPT !.status = "stopped"]
        /\ UNCHANGED <<scenario, agentPlan, since, seen, serverVars, held, decision, happened, called>>
    BY <1>5 DEF Stop
  <2>2. playback'.row = playback.row /\ playback'.phase = playback.phase /\ ~Streaming'
    BY <2>1 DEF TypeOK, Streaming
  <2>3. Asked' = Asked /\ Over(since)' = Over(since) /\ (\A c \in Called : End(c)' = End(c))
    BY <2>1 DEF Asked, Over, End
  <2>4. QED BY <2>1, <2>2, <2>3 DEF TimedInv, ClaimsWait, serverVars
<1>6. CASE Replay
  <2>1. /\ playback' = Start /\ seen' = [c \in Called |-> NotAsked] /\ polls' = {}
        /\ since' = [c \in Called |-> NotAsked] /\ happened' = Unconditional /\ runs' = <<>>
    BY <1>6 DEF Replay, ReplayTimed, ReplayLive, TimedInv
  <2>2. TimedStart'
    BY <2>1 DEF TimedStart
  <2>3. QED BY <2>2, TimedBegins, PTL
<1>7. CASE Select \/ RecordDecision
  <2>1. UNCHANGED <<scenario, playback, agentPlan, since, seen, due, runs, polls, happened, called>>
    BY <1>7 DEF Select, RecordDecision, timerVars, serverVars
  <2>2. QED BY <2>1 DEF TimedInv, ClaimsWait, Asked, Over, End, Streaming
<1>8. CASE Server
  BY <1>8 DEF Server, Run, Poll, PollAnswered, PollLost, Now, TellRow, TimedInv
<1>9. CASE UNCHANGED vars
  BY <1>9 DEF vars, TimedInv, ClaimsWait, Asked, Over, End, Streaming
<1>10. QED BY <1>1, <1>2, <1>3, <1>4, <1>5, <1>6, <1>7, <1>8, <1>9 DEF Next, Timers, User

-----------------------------------------------------------------------------
(* The narration from the checklist.                                       *)

\* What a plan says has happened still has, and a run still owes no more.
LEMMA PlanKept ==
  ASSUME NEW plan, PlanOK(plan), happened \subseteq happened', called \subseteq called', scenario' = scenario
  PROVE  PlanOK(plan)'
<1>1. HoldFor' = HoldFor
  BY DEF HoldFor
<1>2. QED BY <1>1 DEF PlanOK, ReachedIn

LEMMA RunKept ==
  ASSUME NEW ticks, RunOK(ticks), called \subseteq called', scenario' = scenario
  PROVE  RunOK(ticks)'
<1>1. HoldFor' = HoldFor
  BY DEF HoldFor
<1>2. QED BY <1>1 DEF RunOK

\* A plan that is recorded is known, if its results wait for the calls.
LEMMA RecordKeeps ==
  ASSUME NEW plan, Record(plan), scenario' = scenario,
         StepFinished(plan, "claims") => Called \ {HoldFor} \subseteq called
  PROVE  PlanOK(checklist)' /\ happened \subseteq happened' /\ called \subseteq called' /\ checklist' = plan
<1>1. HoldFor' = HoldFor
  BY DEF HoldFor
<1>2. checklist' = plan /\ happened' = happened \cup ReachedIn(plan)
      /\ called' = called \cup {c \in Called : StepFinished(plan, c)}
  BY DEF Record
<1>3. ReachedIn(checklist)' = ReachedIn(plan) /\ \A s : StepFinished(checklist, s)' = StepFinished(plan, s)
  BY <1>2 DEF ReachedIn, StepFinished, ScriptStepReached, StepStarted
<1>4. PlanOK(checklist)'
  BY <1>1, <1>2, <1>3 DEF PlanOK
<1>5. QED BY <1>2, <1>4

\* What a step leaves alone of the plans and of the runs stays as it was.
LEMMA ServedKept ==
  ASSUME ServedInv, UNCHANGED <<scenario, happened, called>>,
         checklist' \in {checklist} \cup polls, polls' \subseteq {checklist} \cup polls,
         held' \in {checklist, held, Nothing} \cup polls
  PROVE  /\ HoldFor' = HoldFor
         /\ \A plan \in {checklist'} \cup polls' \cup ({held'} \ {Nothing}) : PlanOK(plan)'
         /\ runs' = runs => \A r \in 1..Len(runs') : RunOK(runs[r].ticks)'
<1>1. HoldFor' = HoldFor
  BY DEF HoldFor
<1>2. ASSUME NEW plan \in {checklist'} \cup polls' \cup ({held'} \ {Nothing}) PROVE PlanOK(plan)'
  <2>1. plan \in {checklist} \cup polls \cup ({held} \ {Nothing})
    BY <1>2
  <2>2. PlanOK(plan)
    BY <2>1 DEF ServedInv
  <2>3. QED BY <2>2, PlanKept
<1>3. ASSUME runs' = runs, NEW r \in 1..Len(runs') PROVE RunOK(runs[r].ticks)'
  <2>1. RunOK(runs[r].ticks)
    BY <1>3 DEF ServedInv
  <2>2. QED BY <1>1, <1>3, <2>1 DEF RunOK
<1>4. QED BY <1>1, <1>2, <1>3

LEMMA RunKeepsServed ==
  ASSUME TypeOK, TypeOK', ServedInv, Run
  PROVE  ServedInv'
<1>1. UNCHANGED <<scenario, playback, seen, held, polls>>
  BY DEF Run, timerVars
<1>2. PICK r \in DOMAIN runs : Reset(r) \/ TickOff(r)
  BY DEF Run
<1>3. r \in 1..Len(runs) /\ runs[r] \in RunState /\ runs \in Seq(RunState)
  BY <1>2 DEF TypeOK
<1> DEFINE ticks == runs[r].ticks
<1>4. ticks \in Seq(TickOfRun) /\ RunOK(ticks)
  BY <1>3 DEF RunState, ServedInv
<1>5. ASSUME PlanOK(checklist)', happened \subseteq happened', called \subseteq called', RunOK(runs[r].ticks)',
             Len(runs') = Len(runs), \A i \in 1..Len(runs) : i # r => runs'[i] = runs[i]
      PROVE  ServedInv'
  <2>1. HoldFor' = HoldFor
    BY <1>1 DEF HoldFor
  <2>2. ASSUME NEW p \in {checklist'} \cup polls' \cup ({held'} \ {Nothing}) PROVE PlanOK(p)'
    <3>1. CASE p = checklist'
      BY <1>5, <3>1
    <3>2. CASE p # checklist'
      <4>1. p \in polls \cup ({held} \ {Nothing})
        BY <1>1, <2>2, <3>2
      <4>2. PlanOK(p)
        BY <4>1 DEF ServedInv
      <4>3. QED BY <1>1, <1>5, <4>2, PlanKept
    <3>3. QED BY <3>1, <3>2
  <2>3. ASSUME NEW i \in 1..Len(runs') PROVE RunOK(runs[i].ticks)'
    <3>1. CASE i = r
      BY <1>5, <3>1
    <3>2. CASE i # r
      <4>1. i \in 1..Len(runs) /\ runs'[i].ticks = runs[i].ticks
        BY <1>5, <2>3, <3>2
      <4>2. RunOK(runs[i].ticks)
        BY <4>1 DEF ServedInv
      <4>3. QED BY <1>5, <2>1, <4>1, <4>2 DEF RunOK
    <3>3. QED BY <3>1, <3>2
  <2>4. QED BY <1>1, <1>5, <2>1, <2>2, <2>3 DEF ServedInv
<1>6. CASE Reset(r)
  <2>1. ~StepFinished(FirstPlan, "claims")
    BY StepsNamed DEF StepFinished, FirstPlan
  <2>2. /\ Record(FirstPlan)
        /\ runs' = [runs EXCEPT ![r] = [left |-> "reset", ticks |-> RunTicks(HoldFor)]]
    BY <1>6 DEF Reset
  <2>3. PlanOK(checklist)' /\ happened \subseteq happened' /\ called \subseteq called'
    BY <1>1, <2>1, <2>2, RecordKeeps
  <2>4. /\ runs'[r].ticks = RunTicks(HoldFor) /\ Len(runs') = Len(runs)
        /\ \A i \in 1..Len(runs) : i # r => runs'[i] = runs[i]
    BY <1>3, <2>2
  <2>5. RunOK(RunTicks(HoldFor))
    BY RunTicksOK DEF RunOK
  <2>6. HoldFor' = HoldFor
    BY <1>1 DEF HoldFor
  <2>7. RunOK(runs[r].ticks)'
    BY <2>3, <2>4, <2>5, <2>6 DEF RunOK
  <2>8. QED BY <1>5, <2>3, <2>4, <2>7
<1>7. CASE TickOff(r)
  <2> DEFINE t == Head(ticks)
             plan == [checklist EXCEPT ![t.step] = t.status]
             rest == Tail(ticks)
  <2>1. /\ ticks # <<>>
        /\ \/ runs' = [runs EXCEPT ![r].ticks = <<>>] /\ UNCHANGED <<checklist, happened, called>>
           \/ Record(plan) /\ runs' = [runs EXCEPT ![r].ticks = rest]
    BY <1>7 DEF TickOff
  <2>2. t \in TickOfRun /\ t = ticks[1] /\ 1 \in 1..Len(ticks)
    BY <1>4, <2>1
  <2>3. HoldFor' = HoldFor
    BY <1>1 DEF HoldFor
  <2>4. CASE runs' = [runs EXCEPT ![r].ticks = <<>>] /\ UNCHANGED <<checklist, happened, called>>
    <3>1. PlanOK(checklist)
      BY DEF ServedInv
    <3>2. PlanOK(checklist)'
      BY <2>3, <2>4, <3>1 DEF PlanOK, ReachedIn
    <3>3. /\ runs'[r].ticks = <<>> /\ Len(runs') = Len(runs)
          /\ \A i \in 1..Len(runs) : i # r => runs'[i] = runs[i]
      BY <1>3, <2>4 DEF RunState
    <3>4. RunOK(runs[r].ticks)'
      BY <3>3 DEF RunOK
    <3>5. QED BY <1>5, <2>4, <3>2, <3>3, <3>4
  <2>5. CASE Record(plan) /\ runs' = [runs EXCEPT ![r].ticks = rest]
    <3>1. checklist \in Plan /\ \A s \in Steps : plan[s] = IF s = t.step THEN t.status ELSE checklist[s]
      BY DEF TypeOK, Plan
    <3>2. StepFinished(plan, "claims") => Called \ {HoldFor} \subseteq called
      <4>1. CASE t.step = "claims"
        BY <1>4, <2>2, <4>1 DEF RunOK
      <4>2. CASE t.step # "claims"
        <5>1. plan["claims"] = checklist["claims"]
          BY <3>1, <4>2, StepsNamed
        <5>2. QED BY <5>1 DEF StepFinished, ServedInv, PlanOK
      <4>3. QED BY <4>1, <4>2
    <3>3. PlanOK(checklist)' /\ happened \subseteq happened' /\ called \subseteq called' /\ checklist' = plan
      <4> HIDE DEF plan
      <4>1. Record(plan) /\ scenario' = scenario
        BY <1>1, <2>5
      <4>2. QED BY <3>2, <4>1, RecordKeeps
    <3>4. rest \in Seq(TickOfRun) /\ Len(rest) = Len(ticks) - 1 /\ \A i \in 1..Len(rest) : rest[i] = ticks[i + 1]
      BY <1>4, <2>1
    <3>5. /\ runs'[r].ticks = rest /\ Len(runs') = Len(runs)
          /\ \A i \in 1..Len(runs) : i # r => runs'[i] = runs[i]
      BY <1>3, <2>5 DEF RunState
    <3>6. RunOK(runs[r].ticks)'
      <4>1. ASSUME NEW c \in Called \ (called' \cup {HoldFor}), NEW i \in 1..Len(rest), rest[i].step = "claims"
            PROVE  \E j \in 1..(i - 1) : rest[j] = Tick(c, "done")
        <5>1. i + 1 \in 1..Len(ticks) /\ ticks[i + 1].step = "claims" /\ c \in Called \ (called \cup {HoldFor})
          BY <1>4, <3>3, <3>4, <4>1
        <5>2. PICK j \in 1..i : ticks[j] = Tick(c, "done")
          BY <1>4, <5>1 DEF RunOK
        <5>3. j # 1
          <6> SUFFICES ASSUME t = Tick(c, "done") PROVE FALSE
            BY <2>2, <5>2
          <6>1. plan[c] = "done"
            BY <3>1, StepsNamed DEF Tick
          <6>2. c \in {d \in Called : StepFinished(plan, d)}
            BY <6>1 DEF StepFinished
          <6>3. QED BY <2>5, <4>1, <6>2 DEF Record
        <5>4. j - 1 \in 1..(i - 1) /\ rest[j - 1] = ticks[j]
          BY <1>4, <3>4, <5>1, <5>2, <5>3, <4>1
        <5>5. QED BY <5>2, <5>4
      <4> HIDE DEF plan, rest
      <4>2. QED BY <2>3, <3>5, <4>1 DEF RunOK
    <3> HIDE DEF plan, rest
    <3>7. QED BY <1>5, <3>3, <3>5, <3>6
  <2>6. QED BY <2>1, <2>4, <2>5
<1>8. QED BY <1>2, <1>6, <1>7

LEMMA ServedNext ==
  ASSUME TypeOK, TypeOK', driver = "server", ServedInv, [Next]_vars
  PROVE  ServedInv'
<1>1. CASE Run
  BY <1>1, RunKeepsServed
<1>2. CASE Poll
  <2>1. polls' = polls \cup {checklist} /\ UNCHANGED <<scenario, playback, seen, checklist, runs, held, happened, called>>
    BY <1>2 DEF Poll, timerVars
  <2>2. /\ HoldFor' = HoldFor /\ \A plan \in {checklist'} \cup polls' \cup ({held'} \ {Nothing}) : PlanOK(plan)'
        /\ \A r \in 1..Len(runs') : RunOK(runs[r].ticks)'
    BY <2>1, ServedKept
  <2>3. QED BY <2>1, <2>2 DEF ServedInv
<1>3. CASE PollAnswered
  <2>1. PICK answer \in polls :
          /\ held' = IF Listening THEN answer ELSE held
          /\ seen' = [c \in Called |-> IF held' # Nothing /\ StepStarted(held', c) THEN seen[c] ELSE 0]
          /\ polls' = polls \ {answer}
          /\ UNCHANGED <<scenario, playback, checklist, runs, happened, called>>
    BY <1>3 DEF PollAnswered
  <2>2. /\ HoldFor' = HoldFor /\ \A plan \in {checklist'} \cup polls' \cup ({held'} \ {Nothing}) : PlanOK(plan)'
        /\ \A r \in 1..Len(runs') : RunOK(runs[r].ticks)'
    BY <2>1, ServedKept
  <2>3. \A c \in Called : seen'[c] # 0 => held' # Nothing /\ StepStarted(held', c)
    BY <2>1
  <2>4. QED BY <2>1, <2>2, <2>3 DEF ServedInv
<1>4. CASE PollLost
  <2>1. polls' \subseteq polls /\ UNCHANGED <<scenario, playback, seen, checklist, runs, held, happened, called>>
    BY <1>4 DEF PollLost, timerVars
  <2>2. /\ HoldFor' = HoldFor /\ \A plan \in {checklist'} \cup polls' \cup ({held'} \ {Nothing}) : PlanOK(plan)'
        /\ \A r \in 1..Len(runs') : RunOK(runs[r].ticks)'
    BY <2>1, ServedKept
  <2>3. QED BY <2>1, <2>2 DEF ServedInv
<1>5. CASE Now
  <2>1. /\ seen' = [c \in Called |-> IF LivePhase(c) \in {"dialing", "calling"} THEN Min({scenario.watch, seen[c] + 1}) ELSE seen[c]]
        /\ UNCHANGED <<scenario, playback, checklist, runs, held, polls, happened, called>>
    BY <1>5 DEF Now, serverVars
  <2>2. /\ HoldFor' = HoldFor /\ \A plan \in {checklist'} \cup polls' \cup ({held'} \ {Nothing}) : PlanOK(plan)'
        /\ \A r \in 1..Len(runs') : RunOK(runs[r].ticks)'
    BY <2>1, ServedKept
  <2>3. \A c \in Called : LivePhase(c) \in {"dialing", "calling"} => held # Nothing /\ StepStarted(held, c)
    BY DEF LivePhase
  <2>4. \A c \in Called : seen'[c] # 0 => held' # Nothing /\ StepStarted(held', c)
    BY <2>1, <2>3 DEF ServedInv
  <2>5. QED BY <2>1, <2>2, <2>4 DEF ServedInv
<1>6. CASE TellRow
  <2>1. /\ Streaming /\ Finished /\ playback' = Told
        /\ UNCHANGED <<scenario, seen, checklist, runs, polls, held, happened, called>>
    BY <1>6 DEF TellRow, timerVars, serverVars
  <2>2. /\ HoldFor' = HoldFor /\ \A plan \in {checklist'} \cup polls' \cup ({held'} \ {Nothing}) : PlanOK(plan)'
        /\ \A r \in 1..Len(runs') : RunOK(runs[r].ticks)'
    BY <2>1, ServedKept
  <2>3. playback'.row \in {playback.row, playback.row + 1} /\ playback.row \in 1..Rows /\ Rows \in Nat /\ ClaimsAt \in Nat
    BY <2>1, ToldIs, ScriptRows, RowsOfCalls DEF Finished, OnRow, TypeOK
  <2>4. playback.row = ClaimsAt => Called \ {HoldFor} \subseteq called
    <3> SUFFICES ASSUME playback.row = ClaimsAt PROVE Called \ {HoldFor} \subseteq called
      OBVIOUS
    <3>1. Current.kind # "outreach" /\ Current.step = "claims"
      BY <2>3, RowsOfCalls DEF Current
    <3>2. held # Nothing /\ StepFinished(held, "claims")
      BY <2>1, <3>1 DEF Finished, ScriptStepReached
    <3>3. QED BY <3>2 DEF ServedInv, PlanOK
  <2>5. playback'.row > ClaimsAt => Called \ {HoldFor} \subseteq called
    BY <2>3, <2>4 DEF ServedInv
  <2>6. QED BY <2>1, <2>2, <2>5 DEF ServedInv
<1>7. CASE Stop
  <2>1. playback'.row = playback.row /\ UNCHANGED <<scenario, seen, checklist, runs, polls, held, happened, called>>
    BY <1>7 DEF Stop, serverVars, TypeOK
  <2>2. /\ HoldFor' = HoldFor /\ \A plan \in {checklist'} \cup polls' \cup ({held'} \ {Nothing}) : PlanOK(plan)'
        /\ \A r \in 1..Len(runs') : RunOK(runs[r].ticks)'
    BY <2>1, ServedKept
  <2>3. QED BY <2>1, <2>2 DEF ServedInv
<1>8. CASE Replay
  <2>1. /\ playback' = Start /\ seen' = [c \in Called |-> 0] /\ polls' \subseteq polls /\ held' = Nothing
        /\ runs' = Append(runs, Asking) /\ UNCHANGED <<scenario, checklist, happened, called>>
    BY <1>8 DEF Replay, ReplayTimed, ReplayLive
  <2>2. /\ HoldFor' = HoldFor /\ \A plan \in {checklist'} \cup polls' \cup ({held'} \ {Nothing}) : PlanOK(plan)'
    BY <2>1, ServedKept
  <2>4. ASSUME NEW i \in 1..Len(runs') PROVE RunOK(runs[i].ticks)'
    <3>1. runs \in Seq(RunState)
      BY DEF TypeOK
    <3>2. CASE i \in 1..Len(runs)
      <4>1. runs'[i].ticks = runs[i].ticks
        BY <2>1, <3>1, <3>2
      <4>2. RunOK(runs[i].ticks)
        BY <3>2 DEF ServedInv
      <4>3. QED BY <2>1, <2>2, <4>1, <4>2 DEF RunOK
    <3>3. CASE i \notin 1..Len(runs)
      <4>1. runs'[i] = Asking
        BY <2>1, <2>4, <3>1, <3>3
      <4>2. runs'[i].ticks = <<>>
        BY <4>1 DEF Asking
      <4>3. QED BY <4>2 DEF RunOK
    <3>4. QED BY <3>2, <3>3
  <2>5. ~(playback'.row > ClaimsAt)
    BY <2>1, RowsOfCalls DEF Start
  <2>6. QED BY <2>1, <2>2, <2>4, <2>5 DEF ServedInv
<1>9. CASE Select \/ RecordDecision
  <2>1. UNCHANGED <<scenario, playback, seen, checklist, runs, polls, held, happened, called>>
    BY <1>9 DEF Select, RecordDecision, timerVars, serverVars
  <2>2. /\ HoldFor' = HoldFor /\ \A plan \in {checklist'} \cup polls' \cup ({held'} \ {Nothing}) : PlanOK(plan)'
        /\ \A r \in 1..Len(runs') : RunOK(runs[r].ticks)'
    BY <2>1, ServedKept
  <2>3. QED BY <2>1, <2>2 DEF ServedInv
<1>10. CASE Timers
  BY <1>10 DEF Timers, AskCall, ToAsk, Elapse, UpdateClock, Advance
<1>11. CASE UNCHANGED vars
  <2>1. UNCHANGED <<scenario, playback, seen, checklist, runs, polls, held, happened, called>>
    BY <1>11 DEF vars
  <2>2. /\ HoldFor' = HoldFor /\ \A plan \in {checklist'} \cup polls' \cup ({held'} \ {Nothing}) : PlanOK(plan)'
        /\ \A r \in 1..Len(runs') : RunOK(runs[r].ticks)'
    BY <2>1, ServedKept
  <2>3. QED BY <2>1, <2>2 DEF ServedInv
<1>12. QED
  BY <1>1, <1>2, <1>3, <1>4, <1>5, <1>6, <1>7, <1>8, <1>9, <1>10, <1>11 DEF Next, Server, User

LEMMA ServedInit ==
  ASSUME Init, driver = "server"
  PROVE  ServedInv
<1>1. \A s \in Steps : FirstPlan[s] \in {"none", "pending"}
  BY DEF FirstPlan
<1>2. \A s \in Steps : ~StepStarted(FirstPlan, s) /\ ~StepFinished(FirstPlan, s)
  BY <1>1 DEF StepStarted, StepFinished
<1>3. \A i \in 1..Rows : SCRIPT[i].step \in Steps
  BY DEF Steps
<1>4. ReachedIn(FirstPlan) = {}
  BY <1>2, <1>3 DEF ReachedIn, ScriptStepReached
<1>5. PlanOK(FirstPlan)
  BY <1>2, <1>4, StepsNamed DEF PlanOK
<1>6. checklist = FirstPlan /\ polls = {} /\ held = Nothing /\ runs = <<Asking>> /\ playback.row = 1
      /\ \A c \in Called : seen[c] = 0
  BY DEF Init, Start
<1>7. \A r \in 1..Len(runs) : runs[r].ticks = <<>>
  BY <1>6 DEF Asking
<1>8. \A r \in 1..Len(runs) : RunOK(runs[r].ticks)
  BY <1>7 DEF RunOK
<1>9. ~(playback.row > ClaimsAt)
  BY <1>6, RowsOfCalls
<1>10. QED BY <1>5, <1>6, <1>8, <1>9 DEF ServedInv

LEMMA InvInit == Init => RehearsalInv
<1> SUFFICES ASSUME Init PROVE RehearsalInv
  OBVIOUS
<1>1. TypeOK
  BY TypeInit
<1>2. driver = "timers" => TimedInv
  BY <1>1, TimedBegins DEF Init, TimedStart
<1>3. QED BY <1>1, <1>2, ServedInit DEF RehearsalInv

LEMMA InvNext == RehearsalInv /\ [Next]_vars => RehearsalInv'
<1> SUFFICES ASSUME RehearsalInv, [Next]_vars PROVE RehearsalInv'
  OBVIOUS
<1>1. TypeOK /\ TypeOK'
  BY TypeNext DEF RehearsalInv
<1>2. driver' = driver
  <2>1. scenario' = scenario
    BY DEF Next, Timers, Server, User, AskCall, Elapse, UpdateClock, Advance, Run, Poll, PollAnswered, PollLost, Now,
           TellRow, Stop, Replay, Select, RecordDecision, vars
  <2>2. QED BY <2>1 DEF driver
<1>3. driver = "timers" => TimedInv'
  BY <1>1, TimedNext DEF RehearsalInv
<1>4. driver = "server" => ServedInv'
  BY <1>1, ServedNext DEF RehearsalInv
<1>5. QED BY <1>1, <1>2, <1>3, <1>4 DEF RehearsalInv

LEMMA Invariant == Spec => []RehearsalInv
<1>1. QED BY InvInit, InvNext, PTL DEF Spec

\* The narration keeps its types (use-deterministic-rehearsal.ts, use-live-rehearsal.ts):
\* the row that is told is one of the script until the last is told, every run of
\* the checklist has only steps of it left to do, and what is selected may be.
THEOREM RehearsalTypeCorrect == Spec => []TypeOK
<1>1. RehearsalInv => TypeOK
  BY DEF RehearsalInv
<1>2. QED BY <1>1, Invariant, PTL

-----------------------------------------------------------------------------
(* Both narrations keep the promise of Narration.                          *)

LEMMA MovedOn ==
  ASSUME TypeOK, Streaming, NEW p, p \in {Advanced, Told}, p = Told => OnRow
  PROVE  /\ p.row \in {playback.row, playback.row + 1} /\ p.status # "stopped" /\ playback.status # "stopped"
         /\ playback.row \in Nat /\ playback.row <= Rows /\ playback.row >= 1 /\ Rows \in Nat
<1>1. playback.row \in 1..Rows /\ Rows \in Nat
  BY ScriptRows, RowsOfCalls DEF TypeOK, Streaming
<1>2. p.row \in {playback.row, playback.row + 1} /\ p.status # "stopped"
  BY AdvancedIs, ToldIs
<1>3. QED BY <1>1, <1>2 DEF Streaming

\* A timer tells a row to its end once what it reports has happened.
LEMMA TimerTells ==
  ASSUME TypeOK, TimedInv, Advance, playback'.row = playback.row + 1
  PROVE  playback.row \in happened
<1>1. Streaming /\ ToAsk = {} /\ driver = "timers" /\ playback' = Advanced
  BY DEF Advance
<1>2. playback.row \in 1..Rows /\ playback.phase = "text"
  BY <1>1, AdvancedIs, ScriptRows, RowsOfCalls DEF TypeOK, Streaming
<1>3. CASE SCRIPT[playback.row].kind = "outreach"
  <2>1. SCRIPT[playback.row].call \in Asked
    BY <1>1, <1>2, <1>3 DEF ToAsk, OnRow, Current
  <2>2. QED BY <1>2, <1>3, <2>1 DEF TimedInv
<1>4. CASE SCRIPT[playback.row].id = "claims"
  <2>1. Over(since) = Called
    BY <1>2, <1>4, RowsOfCalls DEF TimedInv, ClaimsWait
  <2>2. QED BY <1>2, <1>4, <2>1 DEF TimedInv, ClaimsRow
<1>5. CASE SCRIPT[playback.row].kind # "outreach" /\ SCRIPT[playback.row].id # "claims"
  BY <1>2, <1>5 DEF TimedInv, Unconditional
<1>6. QED BY <1>3, <1>4, <1>5

LEMMA NarrationStarts == Init => N!Init
<1> SUFFICES ASSUME Init PROVE N!Init
  OBVIOUS
<1>1. playback = Start
  BY DEF Init
<1>2. playback.row - 1 = 0 /\ (playback.status = "stopped") = FALSE
  BY <1>1 DEF Start
<1>3. happened \subseteq 1..Rows
  BY TypeInit DEF TypeOK
<1>4. QED BY <1>2, <1>3 DEF N!Init

LEMMA NarrationGoesOn == RehearsalInv /\ [Next]_vars => [N!Next]_N!vars
<1> SUFFICES ASSUME RehearsalInv, [Next]_vars PROVE [N!Next]_N!vars
  OBVIOUS
<1>1. TypeOK /\ TypeOK'
  BY TypeNext DEF RehearsalInv
<1>2. happened' \subseteq 1..Rows
  BY <1>1 DEF TypeOK
<1>3. CASE UNCHANGED playback /\ happened \subseteq happened'
  BY <1>2, <1>3 DEF N!Next, N!Happen
<1>4. CASE AskCall \/ Elapse \/ UpdateClock
  BY <1>3, <1>4 DEF AskCall, Elapse, UpdateClock
<1>5. CASE Run
  <2>1. UNCHANGED playback /\ happened \subseteq happened'
    BY <1>5 DEF Run, Reset, TickOff, Record
  <2>2. QED BY <1>3, <2>1
<1>6. CASE Poll \/ PollAnswered \/ PollLost \/ Now \/ Select \/ RecordDecision \/ UNCHANGED vars
  <2>1. UNCHANGED playback /\ happened \subseteq happened'
    BY <1>6 DEF Poll, PollAnswered, PollLost, Now, Select, RecordDecision, vars
  <2>2. QED BY <1>3, <2>1
<1>7. ASSUME Streaming, NEW p, p \in {Advanced, Told}, p = Told => OnRow, playback' = p, UNCHANGED happened,
             playback'.row = playback.row + 1 => playback.row \in happened
      PROVE  N!Next \/ UNCHANGED N!vars
  <2>1. /\ playback'.row \in {playback.row, playback.row + 1}
        /\ playback'.status # "stopped" /\ playback.status # "stopped" /\ playback.row \in Nat
    BY <1>1, <1>7, MovedOn
  <2>2. CASE playback'.row = playback.row
    BY <1>7, <2>1, <2>2 DEF N!vars
  <2>3. CASE playback'.row = playback.row + 1
    <3>1. playback.row - 1 + 1 = playback.row /\ playback'.row - 1 = playback.row - 1 + 1
      BY <2>1, <2>3
    <3>2. QED BY <1>7, <2>1, <2>3, <3>1 DEF N!Next, N!Tell
  <2>4. QED BY <2>1, <2>2, <2>3
<1>8. CASE Advance
  <2>1. Streaming /\ playback' = Advanced /\ UNCHANGED happened /\ TimedInv
    BY <1>8 DEF Advance, RehearsalInv
  <2>2. playback'.row = playback.row + 1 => playback.row \in happened
    BY <1>1, <1>8, <2>1, TimerTells
  <2>3. ASSUME Advanced = Told PROVE OnRow
    BY <1>1, <2>1, ScriptRows, RowsOfCalls DEF TypeOK, Streaming, OnRow
  <2>4. QED BY <1>7, <2>1, <2>2, <2>3
<1>9. CASE TellRow
  <2>1. Streaming /\ Finished /\ playback' = Told /\ UNCHANGED happened /\ ServedInv
    BY <1>9 DEF TellRow, RehearsalInv
  <2>2. OnRow /\ held # Nothing /\ ScriptStepReached(SCRIPT[playback.row], held)
    BY <2>1 DEF Finished, ScriptStepReached, Current
  <2>3. playback.row \in ReachedIn(held)
    BY <1>1, <2>2, ScriptRows, RowsOfCalls DEF ReachedIn, TypeOK, OnRow
  <2>4. playback.row \in happened
    BY <2>1, <2>2, <2>3 DEF ServedInv, PlanOK
  <2>5. QED BY <1>7, <2>1, <2>2, <2>4
<1>10. CASE Stop
  <2>1. playback.status # "stopped" /\ playback'.status = "stopped" /\ playback'.row = playback.row /\ UNCHANGED happened
    BY <1>1, <1>10 DEF Stop, Streaming, TypeOK
  <2>2. QED BY <2>1 DEF N!Next, N!Stop
<1>11. CASE Replay
  <2>1. playback' = Start
    BY <1>11 DEF Replay
  <2>2. playback'.row - 1 = 0 /\ playback'.status # "stopped"
    BY <2>1 DEF Start
  <2>3. QED BY <1>2, <2>2 DEF N!Next, N!Again
<1>12. QED
  BY <1>4, <1>5, <1>6, <1>8, <1>9, <1>10, <1>11 DEF Next, Timers, Server, User

\* Both hooks keep the promise of Narration: a row is told after the rows before it
\* and never before what it reports has happened, and nothing is told once the
\* narration is stopped (use-deterministic-rehearsal.ts:113, use-live-rehearsal.ts).
THEOREM ImplementsNarrationHolds == Spec => ImplementsNarration
<1>1. QED BY NarrationStarts, NarrationGoesOn, Invariant, PTL DEF Spec, ImplementsNarration, N!Spec

-----------------------------------------------------------------------------
(* A stop stands.                                                          *)

\* The screen depends on what of the state it shows.
LEMMA ScreenDependsOn ==
  ASSUME UNCHANGED <<scenario, playback, agentPlan, seen, held, decision>>
  PROVE  Screen(AllPanes)' = Screen(AllPanes)
<1>1. driver' = driver /\ OnRow' = OnRow /\ Current' = Current
  BY DEF driver, OnRow, Current
<1>2. Finished' = Finished
  BY <1>1 DEF Finished, ScriptStepReached, StepStarted, StepFinished
<1>3. RevealedSteps' = RevealedSteps /\ CurrentPhase' = CurrentPhase
  BY <1>1, <1>2 DEF RevealedSteps, CurrentPhase
<1>4. ResolveCallingAgentRuns' = ResolveCallingAgentRuns
  BY DEF ResolveCallingAgentRuns, TimedPhase
<1>5. ResolveLiveAgentRuns' = ResolveLiveAgentRuns
  BY DEF ResolveLiveAgentRuns, LivePhase, StepStarted, StepFinished
<1>6. AgentRuns' = AgentRuns
  BY <1>1, <1>4, <1>5 DEF AgentRuns
<1>7. QED BY <1>1, <1>3, <1>6 DEF Screen

LEMMA StoppedStandsStep ==
  ASSUME RehearsalInv, [Next]_vars, playback.status = "stopped", playback'.status = "stopped"
  PROVE  UNCHANGED <<scenario, playback, agentPlan, seen, held, decision>>
<1>1. ~Streaming /\ ~Listening
  BY DEF Streaming, Listening
<1>2. CASE PollAnswered
  <2>1. PICK answer \in polls :
          /\ held' = IF Listening THEN answer ELSE held
          /\ seen' = [c \in Called |-> IF held' # Nothing /\ StepStarted(held', c) THEN seen[c] ELSE 0]
          /\ UNCHANGED <<scenario, playback, agentPlan, decision>>
    BY <1>2 DEF PollAnswered
  <2>2. ServedInv
    BY <2>1, ScenarioFields DEF RehearsalInv, TimedInv
  <2>3. held' = held
    BY <1>1, <2>1
  <2>4. \A c \in Called : seen'[c] = seen[c]
    BY <2>1, <2>2, <2>3 DEF ServedInv
  <2>5. seen' = seen
    BY <2>1, <2>4 DEF RehearsalInv, TypeOK
  <2>6. QED BY <2>1, <2>3, <2>5
<1>3. CASE Run \/ Poll \/ PollLost \/ UNCHANGED vars
  BY <1>3 DEF Run, Poll, PollLost, timerVars, vars
<1>4. ~AskCall /\ ~Elapse /\ ~UpdateClock /\ ~Advance /\ ~Now /\ ~TellRow /\ ~Stop
  BY <1>1 DEF AskCall, ToAsk, Elapse, UpdateClock, Advance, Now, TellRow, Stop
<1>5. ~Replay /\ ~Select /\ ~RecordDecision
  BY DEF Replay, Start, Select, RecordDecision
<1>6. QED BY <1>2, <1>3, <1>4, <1>5 DEF Next, Timers, Server, User

\* A stop freezes all of the screen until a replay: a timer that was armed, a poll
\* that was under way and a run that goes on change none of it, and an answer that
\* comes late takes nothing from the calls whose time was counted.
THEOREM StoppedStandsHolds == Spec => StoppedStands
<1>1. RehearsalInv /\ [Next]_vars =>
        [playback.status = "stopped" /\ playback'.status = "stopped" => Screen(AllPanes)' = Screen(AllPanes)]_vars
  BY StoppedStandsStep, ScreenDependsOn
<1>2. QED BY <1>1, Invariant, PTL DEF Spec, StoppedStands

-----------------------------------------------------------------------------
(* What the screen shows of the calls.                                     *)

LEMMA AllPanesShown == "call" \in AllPanes /\ "history" \in AllPanes /\ "transcript" \in AllPanes
<1>1. {"call"} \in MobilePanes /\ {"history"} \in MobilePanes /\ {"transcript"} \in MobilePanes
  BY DEF MobilePanes
<1>2. QED BY <1>1 DEF AllPanes

LEMMA CalledIs ==
  ASSUME NEW c \in Called
  PROVE  c \in Candidate /\ CANDIDATES[c].compliance = "passed" /\ Usable(c) /\ CALLS[c].status = "completed"
<1>1. c \in Candidate /\ c \notin Refused
  BY RehearsalViewsAssumption DEF Candidate
<1>2. QED BY <1>1 DEF CANDIDATES, Usable, LANDED_LINES, CALLS

LEMMA RefusedIs ==
  ASSUME NEW c \in Refused
  PROVE  /\ c \in Candidate /\ c \notin Called /\ CANDIDATES[c].compliance = "failed"
         /\ c \notin Selectable /\ c # Nothing
<1>1. c \in Candidate /\ c \notin Called /\ c # Nothing
  BY RehearsalViewsAssumption DEF Candidate
<1>2. CANDIDATES[c].compliance = "failed"
  BY <1>1 DEF CANDIDATES
<1>3. QED BY <1>1, <1>2 DEF Selectable

\* How far the panel shows a call to be.
LEMMA PhaseIs ==
  ASSUME TypeOK, NEW c \in Called
  PROVE  /\ AgentRuns[c].phase = IF driver = "timers" THEN TimedPhase(c) ELSE LivePhase(c)
         /\ AgentRuns[c].phase \in Phases
         /\ AgentRuns[c].phase = "complete" => AgentRuns[c].turns = Turns
<1>1. TimedPhase(c) \in Phases /\ LivePhase(c) \in Phases
  BY DEF TimedPhase, LivePhase, Phases
<1>2. \A spoken, speaking : TurnsVisible("complete", spoken, speaking) = Turns
  BY DEF TurnsVisible
<1>3. CASE driver = "timers"
  <2>1. AgentRuns[c] = [phase |-> TimedPhase(c),
                        turns |-> TurnsVisible(TimedPhase(c), (seen[c] - agentPlan[c].launch) - agentPlan[c].dialing,
                                               agentPlan[c].duration - agentPlan[c].dialing)]
    BY <1>3 DEF AgentRuns, ResolveCallingAgentRuns
  <2>2. QED BY <1>1, <1>2, <1>3, <2>1
<1>4. CASE driver # "timers"
  <2>1. AgentRuns[c] = [phase |-> LivePhase(c), turns |-> TurnsVisible(LivePhase(c), seen[c] - Dialing, Reveal)]
    BY <1>4 DEF AgentRuns, ResolveLiveAgentRuns
  <2>2. QED BY <1>1, <1>2, <1>4, <2>1
<1>5. QED BY <1>3, <1>4

\* The rows that are told or begun.
LEMMA RevealedIs ==
  ASSUME TypeOK
  PROVE  /\ RevealedSteps \in 0..Rows
         /\ RevealedSteps > playback.row - 1 /\ driver = "timers" => playback.phase = "text" \/ ~OnRow
         /\ RevealedSteps > playback.row - 1 /\ driver # "timers" => Finished \/ ~OnRow
         /\ RevealedSteps <= playback.row
<1>1. playback.row \in 1..(Rows + 1) /\ Rows \in Nat
  BY ScriptRows, RowsOfCalls DEF TypeOK
<1>2. QED BY <1>1 DEF RevealedSteps, OnRow

\* Where the row of the claims is shown, the calls are over but the one held back.
LEMMA ClaimsTold ==
  ASSUME RehearsalInv, "claims" \in {SCRIPT[i].id : i \in 1..RevealedSteps}
  PROVE  Called \ (IF driver = "server" THEN {HoldFor} ELSE {}) \subseteq called
<1>1. TypeOK /\ driver \in {"timers", "server"}
  BY ScenarioFields DEF RehearsalInv
<1>2. PICK i \in 1..RevealedSteps : SCRIPT[i].id = "claims"
  OBVIOUS
<1>3. ClaimsAt <= RevealedSteps /\ ClaimsAt \in Nat /\ RevealedSteps \in 0..Rows /\ Rows \in Nat
  BY <1>1, <1>2, RevealedIs, RowsOfCalls, ScriptRows
<1>4. playback.row \in 1..(Rows + 1) /\ ClaimsAt < Rows
  BY <1>1, <1>3, ScriptRows DEF TypeOK
<1>5. playback.row > ClaimsAt \/ (playback.row = ClaimsAt /\ OnRow /\ RevealedSteps > playback.row - 1)
  BY <1>1, <1>3, <1>4, RevealedIs DEF OnRow
<1>6. CASE driver = "timers"
  <2>1. TimedInv
    BY <1>6 DEF RehearsalInv
  <2>2. Over(since) = Called
    BY <1>1, <1>5, <1>6, <2>1, RevealedIs DEF TimedInv, ClaimsWait
  <2>3. QED BY <1>6, <2>1, <2>2 DEF TimedInv
<1>7. CASE driver = "server"
  <2>1. ServedInv
    BY <1>7 DEF RehearsalInv
  <2>2. CASE playback.row > ClaimsAt
    BY <1>7, <2>1, <2>2 DEF ServedInv
  <2>3. CASE playback.row = ClaimsAt /\ OnRow /\ RevealedSteps > playback.row - 1
    <3>1. Finished
      BY <1>1, <1>7, <2>3, RevealedIs
    <3>2. Current.kind # "outreach" /\ Current.step = "claims"
      BY <1>3, <1>4, <2>3, RowsOfCalls DEF Current
    <3>3. held # Nothing /\ StepFinished(held, "claims")
      BY <3>1, <3>2 DEF Finished, ScriptStepReached
    <3>4. QED BY <1>7, <2>1, <3>3 DEF ServedInv, PlanOK
  <2>4. QED BY <1>5, <2>2, <2>3
<1>8. QED BY <1>1, <1>6, <1>7

\* A call that is shown complete is over.
LEMMA CompleteIsOver ==
  ASSUME RehearsalInv, NEW c \in Called, AgentRuns[c].phase = "complete"
  PROVE  c \in called
<1>1. TypeOK /\ driver \in {"timers", "server"}
  BY ScenarioFields DEF RehearsalInv
<1>2. CASE driver = "timers"
  <2>1. TimedInv /\ TimedPhase(c) = "complete"
    BY <1>1, <1>2, PhaseIs DEF RehearsalInv
  <2>2. seen[c] # NotAsked /\ seen[c] - agentPlan[c].launch >= agentPlan[c].duration
    BY <2>1 DEF TimedPhase
  <2>3. seen[c] \in Nat /\ since[c] \in Int /\ seen[c] <= since[c]
    BY <1>1, <2>1, <2>2 DEF TypeOK, TimedInv, NotAsked
  <2>4. since[c] # NotAsked /\ since[c] >= End(c)
    BY <1>1, <2>2, <2>3, CallTimes DEF End, NotAsked
  <2>5. QED BY <2>1, <2>4 DEF Over, TimedInv
<1>3. CASE driver = "server"
  <2>1. ServedInv /\ LivePhase(c) = "complete"
    BY <1>1, <1>3, PhaseIs DEF RehearsalInv
  <2>2. held # Nothing /\ StepFinished(held, c)
    BY <2>1 DEF LivePhase
  <2>3. QED BY <2>1, <2>2 DEF ServedInv, PlanOK
<1>4. QED BY <1>1, <1>2, <1>3

LEMMA PanelIs ==
  ASSUME NEW c \in Candidate, Screen(AllPanes).panel # <<>>
  PROVE  Screen(AllPanes).panel[c] =
           CandidateRow(c, CandidateState(RevealedSteps, AgentRuns, decision.recorded), AgentRuns, decision.selected = c)
<1>1. Screen(AllPanes).panel = CandidatePanel(RevealedSteps, AgentRuns, decision)
  BY DEF Screen
<1>2. CandidatePanel(RevealedSteps, AgentRuns, decision) =
        [d \in Candidate |-> CandidateRow(d, CandidateState(RevealedSteps, AgentRuns, decision.recorded), AgentRuns,
                                          decision.selected = d)]
  BY <1>1 DEF CandidatePanel
<1>3. QED BY <1>1, <1>2

LEMMA ActivityIs ==
  ASSUME NEW c \in Called
  PROVE  /\ c \in DOMAIN Screen(AllPanes).activity <=> AgentRuns[c].phase # "queued"
         /\ AgentRuns[c].phase # "queued" =>
              Screen(AllPanes).activity[c] = IF AgentRuns[c].phase = "complete" THEN "claim filed" ELSE AgentRuns[c].phase
<1>1. Screen(AllPanes).activity = AgentCallActivity(AgentRuns)
  BY DEF Screen
<1>2. QED BY <1>1 DEF AgentCallActivity

LEMMA DialogIs ==
  ASSUME NEW c \in Called
  PROVE  LET call == SelectedCall(c, AgentRuns)
         IN  Screen(AllPanes).dialogs[c] =
               [stage |-> CallStage(call), history |-> CallHistory(c, call), transcript |-> CallTranscript(call)]
<1>1. Screen(AllPanes).dialogs[c] = CallDetailDialog(c, AgentRuns, AllPanes)
  BY DEF Screen
<1>2. QED BY <1>1, AllPanesShown DEF CallDetailDialog

\* Lists of an item, perhaps one more, perhaps two more.
LEMMA ShortLists ==
  ASSUME NEW p, NEW q, NEW a, NEW b
  PROVE  /\ Range(<<p>> \o <<>> \o <<>>) \subseteq {p, q} /\ Range(<<p>> \o <<q>> \o <<>>) \subseteq {p, q}
         /\ Len(<<p>> \o <<q>> \o <<a, b>>) = 4
<1> DEFINE S == {p, q}
           T == {p, q, a, b}
<1>1. <<p>> \in Seq(S) /\ <<q>> \in Seq(S) /\ <<>> \in Seq(S)
  <2>1. p \in S /\ q \in S
    OBVIOUS
  <2> HIDE DEF S
  <2>2. QED BY <2>1
<1>2. <<p>> \in Seq(T) /\ <<q>> \in Seq(T) /\ <<a, b>> \in Seq(T)
  <2>1. p \in T /\ q \in T /\ a \in T /\ b \in T
    OBVIOUS
  <2> HIDE DEF T
  <2>2. QED BY <2>1
<1>3. \A s \in Seq(S) : Range(s) \subseteq S
  <2> HIDE DEF S
  <2>1. QED BY DEF Range
<1>4. <<p>> \o <<>> \o <<>> \in Seq(S) /\ <<p>> \o <<q>> \o <<>> \in Seq(S)
  <2> HIDE DEF S
  <2>1. QED BY <1>1
<1>5. Len(<<p>> \o <<q>> \o <<a, b>>) = 4
  <2> HIDE DEF T
  <2>1. Len(<<p>> \o <<q>>) = 2 /\ <<p>> \o <<q>> \in Seq(T)
    BY <1>2
  <2>2. QED BY <1>2, <2>1
<1>6. QED BY <1>3, <1>4, <1>5

\* The items of the history of a call.
LEMMA HistoryIs ==
  ASSUME NEW c \in Called, NEW call
  PROVE  /\ CallOver(call) /\ call.status # "dialing" => Len(CallHistory(c, call)) = 4
         /\ ~CallOver(call) => \A item \in Range(CallHistory(c, call)) : item.item # "claim"
<1> DEFINE Item(i) == [item |-> i, round |-> OUTREACH_TASKS[c].round]
           Said(i) == [item |-> i, round |-> CLAIMS[c].round]
<1>1. CallHistory(c, call) =
        <<Item("prepared")>> \o (IF call.status # "dialing" THEN <<Item("started")>> ELSE <<>>)
                            \o (IF CallOver(call) THEN <<Said("completed"), Said("claim")>> ELSE <<>>)
  BY DEF CallHistory
<1>2. Item("prepared").item = "prepared" /\ Item("started").item = "started"
  OBVIOUS
<1> HIDE DEF Item, Said
<1>3. ASSUME CallOver(call), call.status # "dialing" PROVE Len(CallHistory(c, call)) = 4
  <2>1. CallHistory(c, call) = <<Item("prepared")>> \o <<Item("started")>> \o <<Said("completed"), Said("claim")>>
    BY <1>1, <1>3
  <2>2. QED BY <2>1, ShortLists
<1>4. ASSUME ~CallOver(call), NEW item \in Range(CallHistory(c, call)) PROVE item.item # "claim"
  <2>1. \/ CallHistory(c, call) = <<Item("prepared")>> \o <<Item("started")>> \o <<>>
        \/ CallHistory(c, call) = <<Item("prepared")>> \o <<>> \o <<>>
    BY <1>1, <1>4
  <2>2. Range(CallHistory(c, call)) \subseteq {Item("prepared"), Item("started")}
    BY <2>1, ShortLists
  <2>3. item \in {Item("prepared"), Item("started")}
    BY <1>4, <2>2
  <2>4. QED BY <1>2, <2>3
<1>5. QED BY <1>3, <1>4

\* Nowhere on the screen is a claim on file before the call it was made in is over
\* (use-deterministic-rehearsal.ts:113): the clock of the page is behind the time and
\* its row of the claims waits for the last call; a plan that a poll brings, however
\* late, has results only if the calls but the one held back are over.
THEOREM ClaimsAfterCallsHolds == Spec => []ClaimsAfterCalls
<1>1. ASSUME RehearsalInv PROVE ClaimsAfterCalls
  <2> DEFINE screen == Screen(AllPanes)
             st == CandidateState(RevealedSteps, AgentRuns, decision.recorded)
  <2>1. ASSUME NEW c \in Called \ (called \cup (IF driver = "server" THEN {HoldFor} ELSE {}))
        PROVE  /\ screen.panel # <<>> =>
                    /\ screen.panel[c].detail.table.price = "not provided"
                    /\ screen.panel[c].status \in {"sourced", "chosen"}
               /\ c \in DOMAIN screen.activity => screen.activity[c] # "claim filed"
               /\ \A item \in Range(screen.dialogs[c].history) : item.item # "claim"
    <3>1. TypeOK /\ c \in Called /\ c \notin called
      BY <1>1, <2>1 DEF RehearsalInv
    <3>2. AgentRuns[c].phase # "complete" /\ AgentRuns[c].phase \in Phases
      BY <1>1, <3>1, CompleteIsOver, PhaseIs
    <3>3. "claims" \notin {SCRIPT[i].id : i \in 1..RevealedSteps}
      BY <1>1, <2>1, ClaimsTold
    <3>4. ~st.claimsComplete
      BY <3>3 DEF CandidateState
    <3>5. ~Failed(c, st)
      BY <3>1, CalledIs DEF Failed
    <3>6. ASSUME screen.panel # <<>>
          PROVE  screen.panel[c].detail.table.price = "not provided" /\ screen.panel[c].status \in {"sourced", "chosen"}
      <4>1. screen.panel[c] = CandidateRow(c, st, AgentRuns, decision.selected = c)
        BY <3>1, <3>6, CalledIs, PanelIs
      <4> HIDE DEF screen, st
      <4>2. CandidateRow(c, st, AgentRuns, decision.selected = c).status \in {"sourced", "chosen"}
        BY <3>1, <3>2, <3>5 DEF CandidateRow, CandidateLifecycleStatus
      <4>3. CandidateRow(c, st, AgentRuns, decision.selected = c).detail.table.price = "not provided"
        <5> DEFINE over == c \in Called /\ AgentRuns[c].phase = "complete"
                   later == [st EXCEPT !.claimsComplete = over \/ @]
                   open == c \in Called /\ AgentRuns[c].phase # "queued"
        <5>1. ~later.claimsComplete
          BY <3>2, <3>4 DEF st, CandidateState
        <5>2. CandidateRow(c, st, AgentRuns, decision.selected = c).detail = CandidateComparison(c, later, open)
          BY <3>5 DEF CandidateRow
        <5> HIDE DEF later, open
        <5>3. CandidateComparison(c, later, open).table.price = "not provided"
          BY <5>1 DEF CandidateComparison, ComparisonTable
        <5>4. QED BY <5>2, <5>3
      <4>4. QED BY <4>1, <4>2, <4>3
    <3>7. c \in DOMAIN screen.activity => screen.activity[c] # "claim filed"
      BY <3>1, <3>2, ActivityIs DEF Phases
    <3>8. \A item \in Range(screen.dialogs[c].history) : item.item # "claim"
      <4> DEFINE call == SelectedCall(c, AgentRuns)
      <4>1. call.status \in {"calling", "dialing"}
        BY <3>2 DEF SelectedCall
      <4>2. ~CallOver(call)
        BY <4>1 DEF CallOver
      <4>3. screen.dialogs[c] = [stage |-> CallStage(call), history |-> CallHistory(c, call),
                                 transcript |-> CallTranscript(call)]
        BY <3>1, DialogIs
      <4> HIDE DEF call, screen
      <4>4. screen.dialogs[c].history = CallHistory(c, call)
        BY <4>3
      <4>5. QED BY <3>1, <4>2, <4>4, HistoryIs
    <3>9. QED BY <3>6, <3>7, <3>8
  <2>2. QED BY <2>1 DEF ClaimsAfterCalls
<1>2. QED BY <1>1, Invariant, PTL

\* What the screen shows of a candidate that fails the policy.
LEMMA RefusedShown ==
  ASSUME TypeOK, NEW c \in Refused, Screen(AllPanes).panel # <<>>
  PROVE  LET screen == Screen(AllPanes)
             told(id) == \E i \in 1..RevealedSteps : SCRIPT[i].id = id
             state == CandidateState(RevealedSteps, AgentRuns, decision.recorded)
         IN  /\ screen.panel[c].status = (IF told("policy") THEN "rejected" ELSE "sourced")
             /\ ~screen.panel[c].card /\ c \notin screen.bar.choices
             /\ told("policy") =>
                  <<ComplianceStatus(c, state), OutreachStatus(c, state), ClaimStatus(c, state),
                    StockStatus(c, state), LandedCostStatus(c, state)>> =
                  <<"failed", "blocked", "none", "unavailable", "none">>
<1> DEFINE screen == Screen(AllPanes)
           told == \E i \in 1..RevealedSteps : SCRIPT[i].id = "policy"
           state == CandidateState(RevealedSteps, AgentRuns, decision.recorded)
           row == CandidateRow(c, state, AgentRuns, decision.selected = c)
<1>1. state.policyComplete <=> told
  BY DEF CandidateState
<1>2. c \in Candidate /\ c \notin Called /\ CANDIDATES[c].compliance = "failed" /\ c \notin Selectable /\ c # Nothing
  BY RefusedIs
<1>3. decision.selected # c
  BY <1>2 DEF TypeOK
<1>4. screen.panel[c] = row
  BY <1>2, PanelIs
<1>5. Failed(c, state) <=> told
  BY <1>1, <1>2 DEF Failed
<1>6. c \notin screen.bar.choices
  BY <1>2 DEF Screen, DecisionBar
<1> HIDE DEF state, screen, told
<1>7. row.status = IF told THEN "rejected" ELSE "sourced"
  BY <1>2, <1>3, <1>5 DEF CandidateRow, CandidateLifecycleStatus
<1>8. ~row.card
  BY <1>2 DEF CandidateRow
<1>9. told => /\ ComplianceStatus(c, state) = "failed" /\ OutreachStatus(c, state) = "blocked"
              /\ ClaimStatus(c, state) = "none" /\ StockStatus(c, state) = "unavailable"
              /\ LandedCostStatus(c, state) = "none"
  BY <1>1, <1>2, <1>5 DEF ComplianceStatus, OutreachStatus, ClaimStatus, StockStatus, LandedCostStatus
<1> HIDE DEF row
<1>10. QED BY <1>4, <1>6, <1>7, <1>8, <1>9 DEF state, screen, told

\* What the screen shows of a candidate that is called, in the panel, in the
\* conversation and in the dialog.
LEMMA CalledShown ==
  ASSUME TypeOK, NEW c \in Called, Screen(AllPanes).panel # <<>>
  PROVE  LET screen == Screen(AllPanes)
             state == CandidateState(RevealedSteps, AgentRuns, decision.recorded)
             row == screen.panel[c]
             dialog == screen.dialogs[c]
         IN  /\ row.card => /\ dialog.stage.live /\ c \in DOMAIN screen.activity
                            /\ screen.activity[c] = dialog.transcript.note
             /\ row.status = "ready" => Len(dialog.history) = 4 /\ dialog.transcript.turns = Turns
             /\ LandedCostStatus(c, state) = row.detail.landed
             /\ row.detail.evidence.openCall = (c \in DOMAIN screen.activity)
<1> DEFINE screen == Screen(AllPanes)
           state == CandidateState(RevealedSteps, AgentRuns, decision.recorded)
           row == CandidateRow(c, state, AgentRuns, decision.selected = c)
           phase == AgentRuns[c].phase
           call == SelectedCall(c, AgentRuns)
           dialog == [stage |-> CallStage(call), history |-> CallHistory(c, call), transcript |-> CallTranscript(call)]
<1>1. c \in Candidate /\ CANDIDATES[c].compliance = "passed" /\ CALLS[c].status = "completed" /\ c \in DOMAIN LANDED_LINES
  BY CalledIs DEF LANDED_LINES
<1>2. screen.panel[c] = row /\ screen.dialogs[c] = dialog
  BY <1>1, PanelIs, DialogIs
<1>3. phase \in Phases /\ (phase = "complete" => AgentRuns[c].turns = Turns)
  BY PhaseIs
<1>4. /\ c \in DOMAIN screen.activity <=> phase # "queued"
      /\ phase # "queued" => screen.activity[c] = IF phase = "complete" THEN "claim filed" ELSE phase
  BY ActivityIs
<1>5. ~Failed(c, state)
  BY <1>1 DEF Failed
<1>6. call.turns = AgentRuns[c].turns /\ (phase = "complete" => call.status = "completed")
      /\ (phase \in {"dialing", "calling"} => call.status = phase)
  BY <1>1 DEF SelectedCall
<1> HIDE DEF state, screen, call
<1>7. row.card => phase \in {"dialing", "calling"}
  BY DEF CandidateRow, CallingAgentCard
<1>8. row.status = "ready" => phase = "complete"
  BY <1>5 DEF CandidateRow, CandidateLifecycleStatus
<1>9. row.detail = CandidateComparison(c, [state EXCEPT !.claimsComplete = phase = "complete" \/ @], phase # "queued")
  BY <1>5 DEF CandidateRow
<1>10. row.detail.landed = LandedCostStatus(c, state)
  <2>1. row.detail.landed = LandedCost(c, state.costsComplete)
    BY <1>9 DEF CandidateComparison, CandidateState, state
  <2>2. QED BY <1>1, <1>5, <2>1 DEF LandedCost, LandedCostStatus
<1>11. row.detail.evidence.openCall = (phase # "queued")
  BY <1>9 DEF CandidateComparison, ClaimEvidence
<1> HIDE DEF row
<1>12. phase \in {"dialing", "calling"} => dialog.stage.live /\ dialog.transcript.note = phase
  BY <1>6 DEF CallStage, CallTranscript
<1>13. phase = "complete" => Len(dialog.history) = 4 /\ dialog.transcript.turns = Turns
  BY <1>3, <1>6, HistoryIs DEF CallOver, CallTranscript
<1> HIDE DEF dialog
<1>14. row.card => dialog.stage.live /\ c \in DOMAIN screen.activity /\ screen.activity[c] = dialog.transcript.note
  BY <1>4, <1>7, <1>12
<1>15. row.detail.evidence.openCall = (c \in DOMAIN screen.activity)
  <2>1. c \in DOMAIN screen.activity <=> phase # "queued"
    BY <1>4, Zenon
  <2> HIDE DEF phase
  <2>2. QED BY <1>11, <2>1
<1>16. QED BY <1>2, <1>8, <1>10, <1>13, <1>14, <1>15 DEF screen, state

\* The extras of a row are shown once it is told.
LEMMA ExtrasShown ==
  ASSUME TypeOK, Screen(AllPanes).turn # Nothing, Screen(AllPanes).turn.extras
  PROVE  \E i \in 1..RevealedSteps : SCRIPT[i].id = Current.id
<1>1. CurrentPhase # Nothing /\ Screen(AllPanes).turn = AssistantTurn(Current, CurrentPhase, playback.text)
  BY DEF Screen
<1>2. CurrentPhase = "complete"
  <2> DEFINE told == [text |-> IF CurrentPhase = "pending" THEN 0 ELSE playback.text,
                      result |-> Current.tool /\ CurrentPhase # "pending",
                      extras |-> CurrentPhase = "complete" /\ StepExtras(Current)]
  <2>1. Screen(AllPanes).turn = told
    BY <1>1, Zenon DEF AssistantTurn
  <2>2. told.extras = (CurrentPhase = "complete" /\ StepExtras(Current))
    OBVIOUS
  <2> HIDE DEF told
  <2>3. told.extras
    BY <2>1, Zenon
  <2>4. CurrentPhase = "complete" /\ StepExtras(Current)
    BY <2>2, <2>3, Zenon
  <2>5. QED BY <2>4
<1>3. OnRow /\ (IF driver = "timers" THEN playback.phase = "text" ELSE Finished) /\ playback.row \in Nat \ {0}
  <2>1. playback.status # "complete"
    BY <1>1, <1>2 DEF CurrentPhase
  <2>2. ~(IF driver = "timers" THEN playback.phase = "waiting" ELSE ~Finished)
    BY <1>1, <1>2, <2>1 DEF CurrentPhase
  <2>3. playback.row \in 1..(Rows + 1) /\ playback.row <= Rows /\ playback.phase \in {"waiting", "text"} /\ Rows \in Nat
    BY <2>1, ScriptRows, RowsOfCalls DEF TypeOK
  <2>4. QED BY <2>2, <2>3 DEF OnRow
<1>4. RevealedSteps = playback.row
  BY <1>3 DEF RevealedSteps
<1>5. playback.row \in 1..RevealedSteps /\ SCRIPT[playback.row].id = Current.id
  BY <1>3, <1>4 DEF Current
<1>6. QED BY <1>5

\* Who fails the policy is rejected from that row on, and never shown called, ready
\* or to choose; of one call the panel, the conversation and the dialog say the same
\* (rejected-candidate.tsx:16), and no row shows its extras before it is told.
THEOREM ScreenAgreesHolds == Spec => []ScreenAgrees
<1>1. ASSUME TypeOK PROVE ScreenAgrees
  BY <1>1, RefusedShown, CalledShown, ExtrasShown DEF ScreenAgrees
<1>2. QED BY <1>1, RehearsalTypeCorrect, PTL

=============================================================================
