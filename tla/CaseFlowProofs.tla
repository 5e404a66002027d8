--------------------------- MODULE CaseFlowProofs ---------------------------
(***************************************************************************)
(* Theorems about CaseFlow, for any suppliers, threads, rounds and bounds. *)
(***************************************************************************)
EXTENDS CaseFlow, WellFoundedInduction, TLAPS

-----------------------------------------------------------------------------
(* Extreme numbers.                                                        *)

\* A bounded set of natural numbers has a greatest element: the least distance from
\* the bound is the distance of one of them.
LEMMA GreatestBounded ==
  ASSUME NEW T \in SUBSET Nat, T # {}, NEW b \in Nat, \A x \in T : x <= b
  PROVE  \E x \in T : \A y \in T : y <= x
<1> DEFINE R == OpToRel(<, Nat)
           U == {b - x : x \in T}
<1>1. U \in SUBSET Nat /\ U # {}
  <2>1. \A x \in T : b - x \in Nat
    OBVIOUS
  <2>2. QED BY <2>1
<1>2. PICK u \in U : \A v \in U : ~(<<v, u>> \in R)
  <2> HIDE DEF R, U
  <2>1. IsWellFoundedOn(R, Nat)
    BY NatLessThanWellFounded DEF R
  <2>2. QED BY <1>1, <2>1, WFMin
<1>3. PICK x \in T : u = b - x
  BY <1>2
<1>4. ASSUME NEW y \in T PROVE y <= x
  <2>1. b - y \in U /\ b - y \in Nat /\ u \in Nat
    BY <1>1, <1>2
  <2>2. ~(b - y < u)
    BY <1>2, <2>1 DEF OpToRel
  <2>3. QED BY <1>3, <2>2
<1>5. QED BY <1>4


-----------------------------------------------------------------------------
(***************************************************************************)
(* What the helpers return.                                                *)
(***************************************************************************)

\* The claims to be priced name one answer, or none, for every supplier
\* (`_latest_claims`, backend/decide/run.py).
LEMMA LatestType ==
  ASSUME NEW c \in ClaimFiles
  PROVE  Latest(c) \in Priced
<1> DEFINE Newest(s, r) == c[s][r] # 0 /\ \A q \in Round : c[s][q] # 0 => q <= r
           V(s) == IF \E r \in Round : Newest(s, r)
                   THEN c[s][CHOOSE r \in Round : Newest(s, r)]
                   ELSE 0
<1>1. ASSUME NEW s \in Supplier PROVE V(s) \in Nat
  <2>1. CASE \E r \in Round : Newest(s, r)
    <3>1. (CHOOSE r \in Round : Newest(s, r)) \in Round
      BY <2>1
    <3> HIDE DEF Newest
    <3>2. QED BY <2>1, <3>1 DEF ClaimFiles
  <2>2. CASE ~ \E r \in Round : Newest(s, r)
    <3> HIDE DEF Newest
    <3>1. QED BY <2>2
  <2>3. QED BY <2>1, <2>2
<1>2. Latest(c) = [s \in Supplier |-> V(s)]
  BY DEF Latest
<1> HIDE DEF V
<1>3. QED BY <1>1, <1>2 DEF Priced

\* A thread between handlers is in a legal state.
LEMMA IdleType == Idle \in Job
  BY DEF Idle, Job, PC

-----------------------------------------------------------------------------
(***************************************************************************)
(* Type correctness.  TypeOK alone is not inductive: a timer may only be   *)
(* started for a task, so a handler that is about to dispatch or to tick   *)
(* must hold one.                                                          *)
(***************************************************************************)

HoldsAnswer ==
  \A w \in Worker : job[w].pc \in {"tick", "done", "dispatch"} => job[w].who \in Answer

TypeInv == TypeOK /\ HoldsAnswer

LEMMA TypeInit == Init => TypeInv
  BY CaseFlowAssumption, IdleType
  DEF Init, TypeInv, TypeOK, HoldsAnswer, ClaimFiles, Counts, Task, Idle

LEMMA TypeNext == TypeInv /\ [Next]_vars => TypeInv'
<1> SUFFICES ASSUME TypeInv, [Next]_vars PROVE TypeInv'
  OBVIOUS
<1>1. ASSUME NEW w \in Worker, RunReset(w) PROVE TypeInv'
  BY <1>1, IdleType DEF RunReset, TypeInv, TypeOK, HoldsAnswer, Job, PC, Idle
<1>2. ASSUME NEW w \in Worker, RunAsk(w) PROVE TypeInv'
  BY <1>2, IdleType DEF RunAsk, TypeInv, TypeOK, HoldsAnswer, Job, PC, Idle
<1>3. ASSUME NEW w \in Worker, RunFile(w) PROVE TypeInv'
  <2>1. PICK s \in job[w].ask :
           /\ claims' = [claims EXCEPT ![s][1] = nextTask]
           /\ job' = [job EXCEPT ![w].pc = "tick",
                                 ![w].ask = @ \ {s},
                                 ![w].who = [supplier |-> s, task |-> nextTask]]
    BY <1>3 DEF RunFile
  <2>2. s \in Supplier /\ nextTask \in Task /\ nextTask + 1 \in Task
    BY DEF TypeInv, TypeOK, Job, Task
  <2>3. [supplier |-> s, task |-> nextTask] \in Answer
    BY <2>2 DEF Answer
  <2>4. claims' \in ClaimFiles
    BY <2>1, <2>2, CaseFlowAssumption DEF TypeInv, TypeOK, ClaimFiles, Task
  <2>5. job' \in [Worker -> Job]
    <3>1. job[w] \in Job /\ job[w].ask \ {s} \in SUBSET Supplier
      BY DEF TypeInv, TypeOK, Job
    <3>2. [job[w] EXCEPT !.pc = "tick", !.ask = @ \ {s},
                         !.who = [supplier |-> s, task |-> nextTask]] \in Job
      BY <2>3, <3>1 DEF Job, PC
    <3>3. QED BY <2>1, <3>2 DEF TypeInv, TypeOK
  <2>6. HoldsAnswer'
    BY <2>1, <2>3 DEF TypeInv, TypeOK, HoldsAnswer, Job
  <2>7. QED
    BY <1>3, <2>2, <2>4, <2>5, <2>6 DEF RunFile, TypeInv, TypeOK
<1>4. ASSUME NEW w \in Worker, RunTick(w) PROVE TypeInv'
  BY <1>4, IdleType, ZenonT(40) DEF RunTick, TypeInv, TypeOK, HoldsAnswer, Job, PC, Idle
<1>5. ASSUME NEW w \in Worker, RunAborts(w) PROVE TypeInv'
  BY <1>5, IdleType DEF RunAborts, TypeInv, TypeOK, HoldsAnswer, Job, PC, Idle
<1>6. ASSUME NEW w \in Worker, RunAsked(w) PROVE TypeInv'
  BY <1>6, IdleType DEF RunAsked, TypeInv, TypeOK, HoldsAnswer, Job, PC, Idle
<1>7. ASSUME NEW w \in Worker, DecideRead(w) PROVE TypeInv'
  <2>1. Latest(claims) \in Priced
    BY LatestType DEF TypeInv, TypeOK
  <2>2. job' \in [Worker -> Job]
    <3>1. [job[w] EXCEPT !.pc = "write", !.basis = Latest(claims)] \in Job
      BY <2>1 DEF TypeInv, TypeOK, Job, PC
    <3>2. QED BY <1>7, <3>1 DEF DecideRead, TypeInv, TypeOK
  <2>3. HoldsAnswer'
    BY <1>7 DEF DecideRead, TypeInv, TypeOK, HoldsAnswer, Job
  <2>4. QED
    BY <1>7, <2>2, <2>3 DEF DecideRead, TypeInv, TypeOK
<1>8. ASSUME NEW w \in Worker, DecideWrite(w) PROVE TypeInv'
  BY <1>8, IdleType DEF DecideWrite, TypeInv, TypeOK, HoldsAnswer, Job, PC, Idle
<1>9. ASSUME NEW w \in Worker, CallDispatch(w) PROVE TypeInv'
  BY <1>9, IdleType DEF CallDispatch, TypeInv, TypeOK, HoldsAnswer, Job, PC, Idle
<1>10. ASSUME NEW w \in Worker, CallRefused(w) PROVE TypeInv'
  BY <1>10, IdleType DEF CallRefused, TypeInv, TypeOK, HoldsAnswer, Job, PC, Idle
<1>11. ASSUME NEW w \in Worker, CollectQuotes(w) PROVE TypeInv'
  <2>1. job' \in [Worker -> Job]
    <3>1. job[w] \in Job /\ buffer \in Seq(Answer)
      BY DEF TypeInv, TypeOK
    <3>2. [job[w] EXCEPT !.pc = "loop", !.todo = buffer] \in Job
      BY <3>1 DEF Job, PC
    <3>3. QED BY <1>11, <3>2 DEF CollectQuotes, TypeInv, TypeOK
  <2>2. HoldsAnswer'
    BY <1>11 DEF CollectQuotes, TypeInv, TypeOK, HoldsAnswer, Job
  <2>3. QED
    BY <1>11, <2>1, <2>2 DEF CollectQuotes, TypeInv, TypeOK
<1>12. ASSUME NEW w \in Worker, CollectSkip(w) PROVE TypeInv'
  <2>1. Tail(job[w].todo) \in Seq(Answer)
    BY <1>12 DEF CollectSkip, TypeInv, TypeOK, Job
  <2>2. job' \in [Worker -> Job]
    BY <1>12, <2>1 DEF CollectSkip, TypeInv, TypeOK, Job
  <2>3. HoldsAnswer'
    BY <1>12 DEF CollectSkip, TypeInv, TypeOK, HoldsAnswer, Job
  <2>4. QED
    BY <1>12, <2>2, <2>3 DEF CollectSkip, TypeInv, TypeOK
<1>13. ASSUME NEW w \in Worker, CollectFile(w) PROVE TypeInv'
  <2> DEFINE a == Head(job[w].todo)
  <2>1. a \in Answer /\ Tail(job[w].todo) \in Seq(Answer)
    BY <1>13 DEF CollectFile, TypeInv, TypeOK, Job
  <2>2. a.supplier \in Supplier /\ a.task \in Task
    BY <2>1 DEF Answer
  <2>3. /\ claims' = [claims EXCEPT ![a.supplier][1] = a.task]
        /\ job' = [job EXCEPT ![w].pc = "done", ![w].todo = Tail(@),
                              ![w].who = a, ![w].mine = @ \cup {a.supplier}]
    BY <1>13 DEF CollectFile
  <2>4. claims' \in ClaimFiles
    BY <2>2, <2>3, CaseFlowAssumption DEF TypeInv, TypeOK, ClaimFiles, Task
  <2> HIDE DEF a
  <2>5. job' \in [Worker -> Job]
    BY <2>1, <2>3 DEF TypeInv, TypeOK, Job, PC
  <2>6. HoldsAnswer'
    BY <2>1, <2>3 DEF TypeInv, TypeOK, HoldsAnswer, Job
  <2>7. QED
    BY <1>13, <2>2, <2>4, <2>5, <2>6 DEF CollectFile, TypeInv, TypeOK, a
<1>14. ASSUME NEW w \in Worker, CollectTick(w) PROVE TypeInv'
  BY <1>14, IdleType, ZenonT(40) DEF CollectTick, TypeInv, TypeOK, HoldsAnswer, Job, PC, Idle
<1>15. ASSUME NEW w \in Worker, CollectNothing(w) PROVE TypeInv'
  BY <1>15, IdleType DEF CollectNothing, TypeInv, TypeOK, HoldsAnswer, Job, PC, Idle
<1>16. ASSUME NEW w \in Worker, CollectReprice(w) PROVE TypeInv'
  BY <1>16, IdleType, ZenonT(40) DEF CollectReprice, TypeInv, TypeOK, HoldsAnswer, Job, PC, Idle
<1>17. ASSUME NEW w \in Worker, CollectAborts(w) PROVE TypeInv'
  BY <1>17, IdleType DEF CollectAborts, TypeInv, TypeOK, HoldsAnswer, Job, PC, Idle
<1>18. ASSUME NEW w \in Worker, RunBegin(w) PROVE TypeInv'
  <2>1. PICK held \in SUBSET Supplier :
           job' = [job EXCEPT ![w].pc = "reset", ![w].ask = Supplier \ held]
    BY <1>18 DEF RunBegin
  <2>2. job' \in [Worker -> Job]
    <3>1. job[w] \in Job /\ Supplier \ held \in SUBSET Supplier
      BY DEF TypeInv, TypeOK
    <3>2. [job[w] EXCEPT !.pc = "reset", !.ask = Supplier \ held] \in Job
      BY <3>1 DEF Job, PC
    <3>3. QED BY <2>1, <3>2 DEF TypeInv, TypeOK
  <2>3. HoldsAnswer'
    BY <2>1 DEF TypeInv, TypeOK, HoldsAnswer, Job
  <2>4. {buffer[i].task : i \in DOMAIN buffer} \subseteq Task
    <3>1. \A i \in DOMAIN buffer : buffer[i] \in Answer
      BY DEF TypeInv, TypeOK
    <3>2. QED BY <3>1 DEF Answer
  <2>5. used' \in Counts
    <3>1. used' = [used EXCEPT !.runs = @ + 1]
      BY <1>18 DEF RunBegin
    <3>2. used \in Counts
      BY DEF TypeInv, TypeOK
    <3>3. QED BY <3>1, <3>2 DEF Counts
  <2>6. buffer' \in Seq(Answer) /\ runMark' \in Task
    BY <1>18, <2>4 DEF RunBegin, TypeInv, TypeOK
  <2>7. QED
    BY <1>18, <2>2, <2>3, <2>5, <2>6 DEF RunBegin, TypeInv, TypeOK
<1>19. ASSUME NEW w \in Worker, DecideBegin(w) PROVE TypeInv'
  BY <1>19, IdleType DEF DecideBegin, TypeInv, TypeOK, HoldsAnswer, Job, PC, Idle
<1>20. ASSUME NEW w \in Worker, CollectBegin(w) PROVE TypeInv'
  BY <1>20, IdleType DEF CollectBegin, TypeInv, TypeOK, HoldsAnswer, Job, PC, Idle
<1>21. ASSUME NEW w \in Worker, NEW s \in Supplier, CallBegin(w, s) PROVE TypeInv'
  <2>1. [supplier |-> s, task |-> nextTask] \in Answer /\ nextTask + 1 \in Task
    BY DEF TypeInv, TypeOK, Answer, Task
  <2>2. job' \in [Worker -> Job]
    <3>1. [job[w] EXCEPT !.pc = "dispatch", !.who = [supplier |-> s, task |-> nextTask]] \in Job
      BY <2>1 DEF TypeInv, TypeOK, Job, PC
    <3>2. QED BY <1>21, <3>1 DEF CallBegin, TypeInv, TypeOK
  <2>3. HoldsAnswer'
    BY <1>21, <2>1 DEF CallBegin, TypeInv, TypeOK, HoldsAnswer, Job
  <2>4. used' \in Counts
    <3>1. [used.calls EXCEPT ![s] = @ + 1] \in [Supplier -> Nat]
      BY DEF TypeInv, TypeOK, Counts
    <3>2. used' = [used EXCEPT !.calls = [used.calls EXCEPT ![s] = @ + 1]]
      BY <1>21 DEF CallBegin
    <3>3. QED BY <3>1, <3>2 DEF TypeInv, TypeOK, Counts
  <2>5. QED
    BY <1>21, <2>1, <2>2, <2>3, <2>4 DEF CallBegin, TypeInv, TypeOK
<1>22. ASSUME NEW w \in Worker, NEW s \in Supplier, NEW r \in Round, PostClaim(w, s, r)
       PROVE  TypeInv'
  <2>1. claims' \in ClaimFiles /\ nextTask' \in Task
    BY <1>22, CaseFlowAssumption DEF PostClaim, TypeInv, TypeOK, ClaimFiles, Task
  <2>2. used' \in Counts
    BY <1>22 DEF PostClaim, TypeInv, TypeOK, Counts
  <2>3. QED
    BY <1>22, <2>1, <2>2 DEF PostClaim, TypeInv, TypeOK, HoldsAnswer
<1>23. ASSUME NEW a \in inflight, Deliver(a) PROVE TypeInv'
  BY <1>23 DEF Deliver, TypeInv, TypeOK, HoldsAnswer
<1>24. ASSUME Restart PROVE TypeInv'
  <2>1. used' \in Counts
    BY <1>24 DEF Restart, TypeInv, TypeOK, Counts
  <2>2. job' \in [Worker -> Job] /\ HoldsAnswer'
    BY <1>24, IdleType DEF Restart, HoldsAnswer, Idle
  <2>3. QED
    <3>1. buffer' \in Seq(Answer) /\ inflight' \subseteq Answer
      BY <1>24 DEF Restart
    <3>2. QED BY <1>24, <2>1, <2>2, <3>1 DEF Restart, TypeInv, TypeOK
<1>25. ASSUME UNCHANGED vars PROVE TypeInv'
  BY <1>25 DEF vars, TypeInv, TypeOK, HoldsAnswer
<1>26. QED
  BY <1>1, <1>2, <1>3, <1>4, <1>5, <1>6, <1>7, <1>8, <1>9, <1>10, <1>11, <1>12, <1>13,
     <1>14, <1>15, <1>16, <1>17, <1>18, <1>19, <1>20, <1>21, <1>22, <1>23, <1>24, <1>25
  DEF Next, HandlerStep, RunStep, DecideStep, CallStep, CollectStep, Request

\* Whatever the threads, timers, agents and restarts do, the case file, the
\* checklist, the buffer and every handler stay well formed (backend/api/routers).
THEOREM TypeCorrect == Spec => []TypeOK
<1>1. Spec => []TypeInv
  BY TypeInit, TypeNext, PTL DEF Spec
<1>2. TypeInv => TypeOK
  BY DEF TypeInv
<1>3. QED BY <1>1, <1>2, PTL

-----------------------------------------------------------------------------
(***************************************************************************)
(* A ticked call has its answer on file.  The handler that is about to     *)
(* tick has already written the claim, and no step removes one.            *)
(***************************************************************************)

FiledBeforeTick ==
  \A w \in Worker : job[w].pc \in {"tick", "done"} => claims[job[w].who.supplier][1] # 0

TickInv == TypeInv /\ FiledBeforeTick /\ TickedMeansAnswered

\* No step takes a claim file away: a supplier that has answered stays answered
\* (CaseStore.write_claim only ever creates or replaces one).
LEMMA ClaimsStay ==
  ASSUME TypeInv, [Next]_vars
  PROVE  \A s \in Supplier : claims[s][1] # 0 => claims'[s][1] # 0
<1> SUFFICES ASSUME NEW s \in Supplier, claims[s][1] # 0 PROVE claims'[s][1] # 0
  OBVIOUS
<1>0. claims \in ClaimFiles /\ nextTask \in Task
  BY DEF TypeInv, TypeOK
<1>1. ASSUME NEW w \in Worker, RunFile(w) PROVE claims'[s][1] # 0
  <2>1. PICK t \in Supplier : claims' = [claims EXCEPT ![t][1] = nextTask]
    BY <1>1 DEF RunFile, TypeInv, TypeOK, Job
  <2>2. QED BY <1>0, <2>1, CaseFlowAssumption DEF ClaimFiles, Task
<1>2. ASSUME NEW w \in Worker, CollectFile(w) PROVE claims'[s][1] # 0
  <2> DEFINE a == Head(job[w].todo)
  <2>1. a \in Answer
    BY <1>2 DEF CollectFile, TypeInv, TypeOK, Job
  <2>2. claims' = [claims EXCEPT ![a.supplier][1] = a.task]
    BY <1>2 DEF CollectFile
  <2> HIDE DEF a
  <2>3. QED BY <1>0, <2>1, <2>2, CaseFlowAssumption DEF ClaimFiles, Answer, Task
<1>3. ASSUME NEW w \in Worker, NEW t \in Supplier, NEW r \in Round, PostClaim(w, t, r)
      PROVE  claims'[s][1] # 0
  BY <1>0, <1>3, CaseFlowAssumption DEF PostClaim, ClaimFiles, Task
<1>4. CASE UNCHANGED claims
  BY <1>4
<1>5. QED
  BY <1>1, <1>2, <1>3, <1>4
  DEF Next, HandlerStep, RunStep, DecideStep, CallStep, CollectStep, Request, vars,
      RunReset, RunAsk, RunTick, RunAborts, RunAsked, DecideRead, DecideWrite,
      CallDispatch, CallRefused, CollectQuotes, CollectSkip, CollectTick, CollectNothing,
      CollectReprice, CollectAborts, RunBegin, DecideBegin, CollectBegin, CallBegin,
      Deliver, Restart

\* Only the two steps that write a claim lead to a tick.
LEMMA TickFollowsFile ==
  ASSUME TypeInv, [Next]_vars, NEW v \in Worker, job'[v].pc \in {"tick", "done"}
  PROVE  job'[v] = job[v] \/ RunFile(v) \/ CollectFile(v)
<1>1. job \in [Worker -> Job]
  BY DEF TypeInv, TypeOK
<1>2. ASSUME NEW w \in Worker, RunStep(w) \/ DecideStep(w) \/ CallStep(w)
      PROVE  job'[v] = job[v] \/ RunFile(v)
  <2>1. CASE v # w
    BY <1>1, <1>2, <2>1
    DEF RunStep, DecideStep, CallStep, RunReset, RunAsk, RunFile, RunTick, RunAborts, RunAsked,
        DecideRead, DecideWrite, CallDispatch, CallRefused
  <2>2. CASE v = w /\ ~RunFile(v)
    BY <1>1, <1>2, <2>2
    DEF RunStep, DecideStep, CallStep, RunReset, RunAsk, RunTick, RunAborts, RunAsked,
        DecideRead, DecideWrite, CallDispatch, CallRefused, Job, Idle
  <2>3. QED BY <2>1, <2>2
<1>3. ASSUME NEW w \in Worker, CollectStep(w)
      PROVE  job'[v] = job[v] \/ CollectFile(v)
  BY <1>1, <1>3
  DEF CollectStep, CollectQuotes, CollectSkip, CollectFile, CollectTick, CollectNothing,
      CollectReprice, CollectAborts, Job, Idle
<1>4. ASSUME NEW w \in Worker, Request(w) PROVE job'[v] = job[v]
  BY <1>1, <1>4
  DEF Request, RunBegin, DecideBegin, CollectBegin, CallBegin, PostClaim, Job
<1>5. CASE Restart
  BY <1>5 DEF Restart, Idle
<1>6. CASE UNCHANGED job
  BY <1>6
<1>7. QED
  BY <1>2, <1>3, <1>4, <1>5, <1>6 DEF Next, HandlerStep, Deliver, vars

LEMMA TickInit == Init => TickInv
  BY TypeInit DEF Init, TickInv, FiledBeforeTick, TickedMeansAnswered, Idle

LEMMA TickNext == TickInv /\ [Next]_vars => TickInv'
<1> SUFFICES ASSUME TickInv, [Next]_vars PROVE TickInv'
  OBVIOUS
<1>1. TypeInv /\ TypeInv'
  BY TypeNext DEF TickInv
<1>2. \A s \in Supplier : claims[s][1] # 0 => claims'[s][1] # 0
  BY <1>1, ClaimsStay
<1>3. FiledBeforeTick'
  <2> SUFFICES ASSUME NEW v \in Worker, job'[v].pc \in {"tick", "done"}
               PROVE  claims'[job'[v].who.supplier][1] # 0
    BY DEF FiledBeforeTick
  <2>1. CASE job'[v] = job[v]
    <3>1. job[v].who.supplier \in Supplier
      BY <1>1, <2>1 DEF TypeInv, HoldsAnswer, Answer
    <3>2. QED BY <1>2, <2>1, <3>1 DEF TickInv, FiledBeforeTick
  <2>2. CASE RunFile(v)
    <3>1. PICK s \in Supplier :
             /\ claims' = [claims EXCEPT ![s][1] = nextTask]
             /\ job' = [job EXCEPT ![v].pc = "tick",
                                   ![v].ask = @ \ {s},
                                   ![v].who = [supplier |-> s, task |-> nextTask]]
      BY <1>1, <2>2 DEF RunFile, TypeInv, TypeOK, Job
    <3>2. job'[v].who.supplier = s
      BY <1>1, <3>1 DEF TypeInv, TypeOK, Job
    <3>3. claims'[s][1] = nextTask /\ nextTask # 0
      BY <1>1, <3>1, CaseFlowAssumption DEF TypeInv, TypeOK, ClaimFiles, Task
    <3>4. QED BY <3>2, <3>3
  <2>3. CASE CollectFile(v)
    <3> DEFINE a == Head(job[v].todo)
    <3>1. a \in Answer
      BY <1>1, <2>3 DEF CollectFile, TypeInv, TypeOK, Job
    <3>2. /\ claims' = [claims EXCEPT ![a.supplier][1] = a.task]
          /\ job' = [job EXCEPT ![v].pc = "done", ![v].todo = Tail(@),
                                ![v].who = a, ![v].mine = @ \cup {a.supplier}]
      BY <2>3 DEF CollectFile
    <3> HIDE DEF a
    <3>3. job'[v].who = a
      BY <1>1, <3>2 DEF TypeInv, TypeOK, Job
    <3>4. claims'[a.supplier][1] = a.task /\ a.task # 0
      BY <1>1, <3>1, <3>2, CaseFlowAssumption DEF TypeInv, TypeOK, ClaimFiles, Answer, Task
    <3>5. QED BY <3>3, <3>4
  <2>4. QED BY <1>1, <2>1, <2>2, <2>3, TickFollowsFile
<1>4. TickedMeansAnswered'
  <2> SUFFICES ASSUME NEW s \in Supplier, line'[s] = "done" PROVE claims'[s][1] # 0
    BY DEF TickedMeansAnswered
  <2>1. CASE line[s] = "done"
    BY <1>2, <2>1 DEF TickInv, TickedMeansAnswered
  <2>2. CASE \E w \in Worker : /\ job[w].pc \in {"tick", "done"}
                               /\ job[w].who.supplier = s
    BY <1>2, <2>2 DEF TickInv, FiledBeforeTick
  <2>3. ASSUME line[s] # "done"
        PROVE  \E w \in Worker : job[w].pc \in {"tick", "done"} /\ job[w].who.supplier = s
    <3>1. line \in [Supplier -> {"none", "active", "done", "failed"}]
      BY <1>1 DEF TypeInv, TypeOK
    <3>2. QED
      BY <2>3, <3>1, ZenonT(40)
      DEF Next, HandlerStep, RunStep, DecideStep, CallStep, CollectStep, Request, vars,
          RunReset, RunAsk, RunFile, RunTick, RunAborts, RunAsked, DecideRead, DecideWrite,
          CallDispatch, CallRefused, CollectQuotes, CollectSkip, CollectFile, CollectTick,
          CollectNothing, CollectReprice, CollectAborts, RunBegin, DecideBegin,
          CollectBegin, CallBegin, PostClaim, Deliver, Restart
  <2>4. QED BY <2>1, <2>2, <2>3
<1>5. QED BY <1>1, <1>3, <1>4 DEF TickInv

\* A supplier whose call is ticked has an answer in the case directory, however
\* handlers interleave and whenever the process dies: the claim is written
\* before the line is ticked (conductor.py, flow.py).
THEOREM TicksAreAnswered == Spec => []TickedMeansAnswered
<1>1. Spec => []TickInv
  BY TickInit, TickNext, PTL DEF Spec
<1>2. TickInv => TickedMeansAnswered
  BY DEF TickInv
<1>3. QED BY <1>1, <1>2, PTL

-----------------------------------------------------------------------------
(***************************************************************************)
(* A late answer is priced.  A collect that has filed something is on its  *)
(* way to a decision, and on a case whose checklist was seeded nothing     *)
(* stops it but the death of the process.                                  *)
(***************************************************************************)

\* A handler touches no other thread's handler.
LEMMA OthersKeepTheirJob ==
  ASSUME TypeInv, NEW v \in Worker, NEW w \in Worker, v # w, HandlerStep(w) \/ Request(w)
  PROVE  job'[v] = job[v]
<1>1. job \in [Worker -> Job]
  BY DEF TypeInv, TypeOK
<1>2. CASE RunStep(w) \/ DecideStep(w) \/ CallStep(w)
  BY <1>1, <1>2
  DEF RunStep, DecideStep, CallStep, RunReset, RunAsk, RunFile, RunTick, RunAborts, RunAsked,
      DecideRead, DecideWrite, CallDispatch, CallRefused
<1>3. CASE CollectStep(w) \/ Request(w)
  BY <1>1, <1>3
  DEF CollectStep, CollectQuotes, CollectSkip, CollectFile, CollectTick, CollectNothing,
      CollectReprice, CollectAborts, Request, RunBegin, DecideBegin, CollectBegin,
      CallBegin, PostClaim
<1>4. QED BY <1>2, <1>3 DEF HandlerStep

FiledIsOnItsWay ==
  \A w \in Worker : job[w].mine # {} => job[w].pc \in {"loop", "done", "decide", "write"}

RepriceInv == TypeInv /\ FiledIsOnItsWay

LEMMA RepriceInit == Init => RepriceInv
  BY TypeInit DEF Init, RepriceInv, FiledIsOnItsWay, Idle

LEMMA RepriceNext == RepriceInv /\ [Next]_vars => RepriceInv'
<1> SUFFICES ASSUME RepriceInv, [Next]_vars PROVE RepriceInv'
  OBVIOUS
<1>1. TypeInv /\ TypeInv' /\ job \in [Worker -> Job]
  BY TypeNext DEF RepriceInv, TypeInv, TypeOK
<1>2. FiledIsOnItsWay'
  <2> SUFFICES ASSUME NEW v \in Worker, job'[v].mine # {}
               PROVE  job'[v].pc \in {"loop", "done", "decide", "write"}
    BY DEF FiledIsOnItsWay
  <2>1. job[v].mine # {} => job[v].pc \in {"loop", "done", "decide", "write"}
    BY DEF RepriceInv, FiledIsOnItsWay
  <2>2. CASE job'[v] = job[v]
    BY <2>1, <2>2
  <2>3. CASE RunStep(v)
    <3>1. job[v].mine = {}
      BY <2>1, <2>3
      DEF RunStep, RunReset, RunAsk, RunFile, RunTick, RunAborts, RunAsked
    <3>2. CASE RunReset(v) \/ RunAsk(v) \/ RunTick(v) \/ RunAborts(v) \/ RunAsked(v)
      BY <1>1, <3>1, <3>2
      DEF RunReset, RunAsk, RunTick, RunAborts, RunAsked, Job, Idle
    <3>3. CASE RunFile(v)
      BY <1>1, <3>1, <3>3 DEF RunFile, Job
    <3>4. QED BY <2>3, <3>2, <3>3 DEF RunStep
  <2>4. CASE DecideStep(v) \/ CallStep(v)
    BY <1>1, <2>1, <2>4
    DEF DecideStep, CallStep, DecideRead, DecideWrite, CallDispatch, CallRefused, Job, Idle
  <2>5. CASE CollectStep(v)
    BY <1>1, <2>1, <2>5
    DEF CollectStep, CollectQuotes, CollectSkip, CollectFile, CollectTick, CollectNothing,
        CollectReprice, CollectAborts, Job, Idle
  <2>6. CASE Request(v)
    BY <1>1, <2>1, <2>6
    DEF Request, RunBegin, DecideBegin, CollectBegin, CallBegin, PostClaim, Job, Idle
  <2>7. CASE Restart
    BY <2>7 DEF Restart, Idle
  <2>8. QED
    BY <1>1, <2>2, <2>3, <2>4, <2>5, <2>6, <2>7, OthersKeepTheirJob
    DEF Next, HandlerStep, Deliver, vars
<1>3. QED BY <1>1, <1>2 DEF RepriceInv

\* On a case that has its checklist (POST /cases), a collect that filed an
\* answer ends by replacing the decision unless the process dies: no answer is
\* filed and then left out of the price (post_collect, backend/api/routers/flow.py).
THEOREM LateAnswersAreRepriced == Spec => LateAnswerReprices
<1> DEFINE Reprices == \A w \in Worker :
                       seeded /\ job[w].mine # {} /\ job'[w] = Idle => DecideWrite(w) \/ Restart
<1>1. RepriceInv /\ [Next]_vars => [Reprices]_vars
  <2> SUFFICES ASSUME RepriceInv, Next, NEW v \in Worker, seeded, job[v].mine # {}, job'[v] = Idle
               PROVE  DecideWrite(v) \/ Restart
    OBVIOUS
  <2>1. /\ job \in [Worker -> Job]
        /\ job[v].pc \in {"loop", "done", "decide", "write"}
        /\ job'[v] # job[v]
        /\ job'[v].pc = "idle"
    BY DEF RepriceInv, FiledIsOnItsWay, TypeInv, TypeOK, Idle
  <2>2. ~RunStep(v)
    BY <2>1 DEF RunStep, RunReset, RunAsk, RunFile, RunTick, RunAborts, RunAsked
  <2>3. ~DecideRead(v) /\ ~CallStep(v)
    BY <2>1 DEF CallStep, DecideRead, CallDispatch, CallRefused, Job
  <2>4. ~CollectStep(v)
    <3>1. ~CollectQuotes(v) /\ ~CollectNothing(v) /\ ~CollectAborts(v)
      BY <2>1 DEF CollectQuotes, CollectNothing, CollectAborts
    <3>2. ~CollectSkip(v) /\ ~CollectTick(v) /\ ~CollectReprice(v)
      BY <2>1 DEF CollectSkip, CollectTick, CollectReprice, Job
    <3> DEFINE a == Head(job[v].todo)
    <3>3. ~CollectFile(v)
      <4>1. CollectFile(v) =>
              job' = [job EXCEPT ![v].pc = "done", ![v].todo = Tail(@),
                                 ![v].who = a, ![v].mine = @ \cup {a.supplier}]
        BY DEF CollectFile
      <4> HIDE DEF a
      <4>2. QED BY <2>1, <4>1 DEF Job
    <3>4. QED BY <3>1, <3>2, <3>3 DEF CollectStep
  <2>5. ~Request(v)
    BY <2>1 DEF Request, RunBegin, DecideBegin, CollectBegin, CallBegin, PostClaim, Idle
  <2>6. ASSUME NEW a \in inflight, Deliver(a) PROVE FALSE
    BY <2>1, <2>6 DEF Deliver
  <2>7. QED
    BY <2>1, <2>2, <2>3, <2>4, <2>5, <2>6, OthersKeepTheirJob
    DEF Next, HandlerStep, DecideStep, RepriceInv
<1>2. Spec => []RepriceInv
  BY RepriceInit, RepriceNext, PTL DEF Spec
<1>3. QED BY <1>1, <1>2, PTL DEF Spec, LateAnswerReprices

-----------------------------------------------------------------------------
(***************************************************************************)
(* The handlers implement the promise, when requests do not overlap.       *)
(***************************************************************************)

\* A supplier with a claim on file has a latest one (`_latest_claims`).
LEMMA LatestExists ==
  ASSUME NEW c \in ClaimFiles, NEW s \in Supplier, NEW r \in Round, c[s][r] # 0
  PROVE  Latest(c)[s] \in Nat \ {0}
<1> DEFINE T == {q \in Round : c[s][q] # 0}
           Newest(q) == c[s][q] # 0 /\ \A p \in Round : c[s][p] # 0 => p <= q
<1>1. PICK last \in Round : \A q \in Round : q <= last
  BY CaseFlowAssumption
<1>2. T \in SUBSET Nat /\ r \in T /\ last \in Nat /\ \A q \in T : q <= last
  BY <1>1, CaseFlowAssumption
<1>3. \E x \in T : \A y \in T : y <= x
  <2> HIDE DEF T
  <2>1. QED BY <1>2, GreatestBounded
<1>4. \E q \in Round : Newest(q)
  BY <1>3
<1>5. Latest(c)[s] = c[s][CHOOSE q \in Round : Newest(q)]
  BY <1>4 DEF Latest
<1> HIDE DEF T
<1>6. (CHOOSE q \in Round : Newest(q)) \in Round /\ Newest(CHOOSE q \in Round : Newest(q))
  <2> HIDE DEF Newest
  <2>1. QED BY <1>4
<1>7. QED BY <1>5, <1>6 DEF ClaimFiles

\* Filing one supplier's claim changes what is known about that supplier only.
LEMMA FilingIsLearning ==
  ASSUME TypeOK, NEW s \in Supplier, NEW r \in Round, NEW t \in Task,
         claims' = [claims EXCEPT ![s][r] = t], decision' = decision
  PROVE  Ledger!Learn(s)
<1>1. claims \in ClaimFiles /\ claims' \in ClaimFiles
  BY DEF TypeOK, ClaimFiles, Task
<1>2. claims'[s][r] # 0
  BY <1>1 DEF ClaimFiles, Task
<1>3. Latest(claims')[s] \in Nat \ {0}
  BY <1>1, <1>2, LatestExists
<1>4. \A u \in Supplier \ {s} : claims'[u] = claims[u]
  BY <1>1 DEF ClaimFiles
<1>5. \A u \in Supplier \ {s} : Latest(claims')[u] = Latest(claims)[u]
  BY <1>4 DEF Latest
<1>6. Latest(claims) \in Priced /\ Latest(claims') \in Priced
  BY <1>1, LatestType
<1>7. Latest(claims') = [Latest(claims) EXCEPT ![s] = Latest(claims')[s]]
  BY <1>5, <1>6 DEF Priced
<1>8. QED BY <1>3, <1>7 DEF Ledger!Learn

BasisIsCurrent ==
  \A w \in Worker : job[w].pc = "write" => job[w].basis = Latest(claims)

LedgerInv == TypeInv /\ BasisIsCurrent

LEMMA LedgerInit == Init => LedgerInv
  BY TypeInit DEF Init, LedgerInv, BasisIsCurrent, Idle

LEMMA LedgerNext ==
  ASSUME \A v, w \in Worker : v = w
  PROVE  LedgerInv /\ [Next]_vars => LedgerInv'
<1> SUFFICES ASSUME LedgerInv, [Next]_vars PROVE LedgerInv'
  OBVIOUS
<1>1. TypeInv /\ TypeInv' /\ job \in [Worker -> Job]
  BY TypeNext DEF LedgerInv, TypeInv, TypeOK
<1>2. ASSUME NEW v \in Worker, job'[v].pc = "write"
      PROVE  job'[v].basis = Latest(claims')
  <2>1. CASE job'[v] = job[v] /\ claims' = claims
    BY <1>2, <2>1 DEF LedgerInv, BasisIsCurrent
  <2>2. CASE RunStep(v)
    <3>1. CASE RunReset(v) \/ RunAsk(v) \/ RunTick(v) \/ RunAborts(v) \/ RunAsked(v)
      BY <1>1, <1>2, <3>1
      DEF RunReset, RunAsk, RunTick, RunAborts, RunAsked, Job, Idle
    <3>2. CASE RunFile(v)
      BY <1>1, <1>2, <3>2 DEF RunFile, Job
    <3>3. QED BY <2>2, <3>1, <3>2 DEF RunStep
  <2>3. CASE DecideRead(v)
    BY <1>1, <1>2, <2>3 DEF DecideRead, Job
  <2>4. CASE DecideWrite(v) \/ CallStep(v)
    BY <1>1, <1>2, <2>4 DEF DecideWrite, CallStep, CallDispatch, CallRefused, Idle
  <2>5. CASE CollectStep(v) /\ ~CollectFile(v)
    BY <1>1, <1>2, <2>5
    DEF CollectStep, CollectQuotes, CollectSkip, CollectTick, CollectNothing,
        CollectReprice, CollectAborts, Job, Idle
  <2>6. CASE CollectFile(v)
    <3> DEFINE a == Head(job[v].todo)
    <3>1. job' = [job EXCEPT ![v].pc = "done", ![v].todo = Tail(@),
                             ![v].who = a, ![v].mine = @ \cup {a.supplier}]
      BY <2>6 DEF CollectFile
    <3> HIDE DEF a
    <3>2. QED BY <1>1, <1>2, <3>1 DEF Job
  <2>7. CASE Request(v)
    BY <1>1, <1>2, <2>7
    DEF Request, RunBegin, DecideBegin, CollectBegin, CallBegin, PostClaim, Job, Idle
  <2>8. CASE Restart
    BY <1>2, <2>8 DEF Restart, Idle
  <2>9. QED
    BY <2>1, <2>2, <2>3, <2>4, <2>5, <2>6, <2>7, <2>8
    DEF Next, HandlerStep, DecideStep, Deliver, vars
<1>3. QED BY <1>1, <1>2 DEF LedgerInv, BasisIsCurrent

\* With one request at a time, whatever the timers and restarts do, the stored
\* decision only ever becomes what is on file at that moment (decide/run.py).
THEOREM HandlersImplementLedger ==
  ASSUME \A v, w \in Worker : v = w
  PROVE  Spec => ImplementsLedger
<1>1. Init => Ledger!Init
  BY CaseFlowAssumption DEF Init, Ledger!Init, Latest
<1>2. LedgerInv /\ [Next]_vars => [Ledger!Next]_(Ledger!vars)
  <2> SUFFICES ASSUME LedgerInv, Next, ~(UNCHANGED <<claims, decision>>)
               PROVE  Ledger!Next
    BY DEF Ledger!vars, vars
  <2>0. TypeOK /\ TypeInv
    BY DEF LedgerInv, TypeInv
  <2>1. ASSUME NEW w \in Worker, RunFile(w) PROVE Ledger!Next
    <3>1. PICK s \in Supplier : claims' = [claims EXCEPT ![s][1] = nextTask]
      BY <2>0, <2>1 DEF RunFile, TypeOK, Job
    <3>2. Ledger!Learn(s)
      BY <2>0, <2>1, <3>1, FilingIsLearning, CaseFlowAssumption DEF RunFile, TypeOK
    <3>3. QED BY <3>2 DEF Ledger!Next
  <2>2. ASSUME NEW w \in Worker, CollectFile(w) PROVE Ledger!Next
    <3> DEFINE a == Head(job[w].todo)
    <3>1. a \in Answer
      BY <2>0, <2>2 DEF CollectFile, TypeOK, Job
    <3>2. claims' = [claims EXCEPT ![a.supplier][1] = a.task] /\ decision' = decision
      BY <2>2 DEF CollectFile
    <3> HIDE DEF a
    <3>3. Ledger!Learn(a.supplier) /\ a.supplier \in Supplier
      BY <2>0, <3>1, <3>2, FilingIsLearning, CaseFlowAssumption DEF Answer
    <3>4. QED BY <3>3 DEF Ledger!Next
  <2>3. ASSUME NEW w \in Worker, NEW s \in Supplier, NEW r \in Round, PostClaim(w, s, r)
        PROVE  Ledger!Next
    <3>1. Ledger!Learn(s)
      BY <2>0, <2>3, FilingIsLearning DEF PostClaim, TypeOK
    <3>2. QED BY <3>1 DEF Ledger!Next
  <2>4. ASSUME NEW w \in Worker, DecideWrite(w) PROVE Ledger!Next
    <3>1. decision' = Latest(claims) /\ claims' = claims
      BY <2>4 DEF DecideWrite, LedgerInv, BasisIsCurrent
    <3>2. QED BY <3>1 DEF Ledger!Next, Ledger!Rule
  <2>5. QED
    BY <2>1, <2>2, <2>3, <2>4
    DEF Next, HandlerStep, RunStep, DecideStep, CallStep, CollectStep, Request,
        RunReset, RunAsk, RunTick, RunAborts, RunAsked, DecideRead,
        CallDispatch, CallRefused, CollectQuotes, CollectSkip, CollectTick,
        CollectNothing, CollectReprice, CollectAborts, RunBegin, DecideBegin,
        CollectBegin, CallBegin, Deliver, Restart
<1>3. Spec => []LedgerInv
  BY LedgerInit, LedgerNext, PTL DEF Spec
<1>4. QED BY <1>1, <1>2, <1>3, PTL DEF Spec, ImplementsLedger, Ledger!Spec

=============================================================================
