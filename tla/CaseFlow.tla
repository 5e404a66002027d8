------------------------------ MODULE CaseFlow ------------------------------
(***************************************************************************)
(* One sourcing case driven over HTTP: POST /flow/run, /flow/call and      *)
(* /flow/collect, POST /tools/claims and POST /decide, with the in-memory  *)
(* quote buffer (backend/store.py), the timers that deliver answers into   *)
(* it (backend/flow/provider.py) and the case directory the decision is    *)
(* priced from (backend/casestore/case_store.py).                          *)
(*                                                                         *)
(* FastAPI runs these synchronous handlers in a thread pool, so a handler  *)
(* is a process: `job[w]` is the handler thread w is in the middle of, and *)
(* each action is the stretch of it between two accesses to shared state.  *)
(* A timer fires, and the process dies, between any two of them.           *)
(*                                                                         *)
(* An answer is named by its task id.  Ids are uuids in the code; here     *)
(* they are handed out in increasing order, so that a smaller id belongs   *)
(* to a call that was placed earlier.                                      *)
(*                                                                         *)
(* A definition marked "Fault" is not part of the specification: it is     *)
(* what the definition after it must not become; the runs tell them apart. *)
(***************************************************************************)
EXTENDS Naturals, Sequences

CONSTANTS
  Supplier,     \* the suppliers of the case that policy cleared
  Worker,       \* the threads of the API's pool
  Round,        \* the rounds a claim can be filed under; calls file round 1
  NoDecision,   \* there is no decision.json yet
  Seeded,       \* whether plan.json may exist (POST /cases) or not (a case known to the ERP)
  MaxRuns,      \* bound: POST /flow/run
  MaxCalls,     \* bound: POST /flow/call, per supplier
  MaxAgent,     \* bound: claims posted by the agent to /tools/claims
  MaxRestarts   \* bound: restarts of the API process

ASSUME CaseFlowAssumption ==
  /\ Round \subseteq Nat \ {0}
  /\ 1 \in Round
  /\ \E last \in Round : \A r \in Round : r <= last
  /\ Seeded \subseteq BOOLEAN
  /\ {MaxRuns, MaxCalls, MaxAgent, MaxRestarts} \subseteq Nat
  /\ NoDecision \notin [Supplier -> Nat]

VARIABLES
  claims,     \* claims/<supplier>-r<round>.json: the task whose answer it holds, 0 for none
  decision,   \* decision.json: the claims it was priced from
  line,       \* status of the checklist line outreach:<supplier>, "none" if absent
  seeded,     \* plan.json holds the fixed steps
  buffer,     \* STORE._quotes[case]: answers in insertion order
  inflight,   \* answers a daemon timer has yet to deliver
  job,        \* the handler each worker is in the middle of
  nextTask,   \* the next task id
  used,       \* how often each bounded request has been made
  filed,      \* history: tasks whose answer /flow/collect has written to the case file
  runMark     \* history: nextTask when the latest /flow/run began

vars == <<claims, decision, line, seeded, buffer, inflight, job, nextTask,
          used, filed, runMark>>

-----------------------------------------------------------------------------
Task == Nat \ {0}
Answer == [supplier : Supplier, task : Task]
Priced == [Supplier -> Nat]

\* Of the claims on file for a supplier, the one of the highest round.  There
\* is one file per supplier and round, so the second key of the comparison,
\* received_at, never has to break a tie.
Latest(c) ==
  [s \in Supplier |->
     LET Newest(r) == c[s][r] # 0 /\ \A q \in Round : c[s][q] # 0 => q <= r
     IN  IF \E r \in Round : Newest(r)
         THEN c[s][CHOOSE r \in Round : Newest(r)]
         ELSE 0]

\* Fault: a supplier that has a claim at all is taken for answered.
IsKnownBySupplier(c, a) == \E r \in Round : c[a.supplier][r] # 0

\* Is this the (supplier_ref, task_id) of a claim that was on file?
IsKnown(c, a) == \E r \in Round : c[a.supplier][r] = a.task

Idle == [pc    |-> "idle",
         ask   |-> {},          \* run: suppliers still to be asked
         todo  |-> <<>>,        \* collect: the quotes it has yet to look at
         known |-> <<>>,        \* collect: the claims that were on file when it began
         mine  |-> {},          \* collect: suppliers it has filed an answer of
         who   |-> <<>>,        \* the answer or the call being dealt with
         basis |-> NoDecision]  \* decide: the claims it has read

PC == {"idle", "reset", "ask", "file", "tick", "dispatch",
       "quotes", "loop", "done", "decide", "write"}

ClaimFiles == [Supplier -> [Round -> Nat]]

Job == [pc    : PC,
        ask   : SUBSET Supplier,
        todo  : Seq(Answer),
        known : ClaimFiles \cup {<<>>},
        mine  : SUBSET Supplier,
        who   : Answer \cup {<<>>},
        basis : Priced \cup {NoDecision}]

Counts == [runs : Nat, calls : [Supplier -> Nat], agent : Nat, restarts : Nat]

Init ==
  /\ claims = [s \in Supplier |-> [r \in Round |-> 0]]
  /\ decision = NoDecision
  /\ line = [s \in Supplier |-> "none"]
  /\ seeded \in Seeded
  /\ buffer = <<>>
  /\ inflight = {}
  /\ job = [w \in Worker |-> Idle]
  /\ nextTask = 1
  /\ used = [runs |-> 0, calls |-> [s \in Supplier |-> 0], agent |-> 0, restarts |-> 0]
  /\ filed = {}
  /\ runMark = 1

-----------------------------------------------------------------------------
(***************************************************************************)
(* POST /flow/run: clear the buffer, then backend/flow/conductor.py.       *)
(***************************************************************************)

\* The buffer is emptied before anything else.  `hold_for` leaves one supplier
\* out of those that are asked.
RunBegin(w) ==
  /\ job[w] = Idle
  /\ used.runs < MaxRuns
  /\ \E held \in SUBSET Supplier :
       /\ \A s, t \in held : s = t
       /\ job' = [job EXCEPT ![w].pc = "reset", ![w].ask = Supplier \ held]
  /\ buffer' = <<>>
  /\ used' = [used EXCEPT !.runs = @ + 1]
  /\ runMark' = nextTask
  /\ UNCHANGED <<claims, decision, line, seeded, inflight, nextTask, filed>>

\* plan.reset drops the dynamic lines and writes the fixed ones; intake, the
\* ERP reads and screening then tick only fixed lines.
RunReset(w) ==
  /\ job[w].pc = "reset"
  /\ line' = [s \in Supplier |-> "none"]
  /\ seeded' = TRUE
  /\ job' = [job EXCEPT ![w].pc = "ask"]
  /\ UNCHANGED <<claims, decision, buffer, inflight, nextTask, used, filed, runMark>>

\* Fault: the lines are ticked when the suppliers are asked.
RunAskTicks(w) ==
  /\ job[w].pc = "ask"
  /\ line' = [s \in Supplier |-> "done"]
  /\ job' = [job EXCEPT ![w].pc = "file"]
  /\ UNCHANGED <<claims, decision, seeded, buffer, inflight, nextTask, used, filed, runMark>>

\* Every compliant supplier, held or not, gets an active line before any of
\* them is asked.
RunAsk(w) ==
  /\ job[w].pc = "ask"
  /\ line' = [s \in Supplier |-> "active"]
  /\ job' = [job EXCEPT ![w].pc = "file"]
  /\ UNCHANGED <<claims, decision, seeded, buffer, inflight, nextTask, used, filed, runMark>>

\* The rehearsed answer of one supplier is written as its round-1 claim ...
RunFile(w) ==
  /\ job[w].pc = "file"
  /\ \E s \in job[w].ask :
       /\ claims' = [claims EXCEPT ![s][1] = nextTask]
       /\ job' = [job EXCEPT ![w].pc = "tick",
                             ![w].ask = @ \ {s},
                             ![w].who = [supplier |-> s, task |-> nextTask]]
  /\ nextTask' = nextTask + 1
  /\ UNCHANGED <<decision, line, seeded, buffer, inflight, used, filed, runMark>>

\* ... and then its line is ticked.
RunTick(w) ==
  /\ job[w].pc = "tick"
  /\ line[job[w].who.supplier] # "none"
  /\ line' = [line EXCEPT ![job[w].who.supplier] = "done"]
  /\ job' = [job EXCEPT ![w].pc = "file", ![w].who = <<>>]
  /\ UNCHANGED <<claims, decision, seeded, buffer, inflight, nextTask, used, filed, runMark>>

\* The tick names no group and no label, so on a line that another run's reset
\* has dropped it raises ValueError: the run ends with a 404.
RunAborts(w) ==
  /\ job[w].pc = "tick"
  /\ line[job[w].who.supplier] = "none"
  /\ job' = [job EXCEPT ![w] = Idle]
  /\ UNCHANGED <<claims, decision, line, seeded, buffer, inflight, nextTask, used, filed, runMark>>

RunAsked(w) ==
  /\ job[w].pc = "file"
  /\ job[w].ask = {}
  /\ job' = [job EXCEPT ![w].pc = "decide"]
  /\ UNCHANGED <<claims, decision, line, seeded, buffer, inflight, nextTask, used, filed, runMark>>

-----------------------------------------------------------------------------
(***************************************************************************)
(* backend/decide/run.py, called by /flow/run, /flow/collect and /decide.  *)
(***************************************************************************)

DecideBegin(w) ==
  /\ job[w] = Idle
  /\ job' = [job EXCEPT ![w].pc = "decide"]
  /\ UNCHANGED <<claims, decision, line, seeded, buffer, inflight, nextTask, used, filed, runMark>>

\* Fault: only first-round claims are priced.
DecideReadFirstRound(w) ==
  /\ job[w].pc = "decide"
  /\ job' = [job EXCEPT ![w].pc = "write", ![w].basis = [s \in Supplier |-> claims[s][1]]]
  /\ UNCHANGED <<claims, decision, line, seeded, buffer, inflight, nextTask, used, filed, runMark>>

\* It reads the claims once ...
DecideRead(w) ==
  /\ job[w].pc = "decide"
  /\ job' = [job EXCEPT ![w].pc = "write", ![w].basis = Latest(claims)]
  /\ UNCHANGED <<claims, decision, line, seeded, buffer, inflight, nextTask, used, filed, runMark>>

\* ... and replaces decision.json after screening, pricing and writing the
\* reports.  What the callers do next only ticks fixed lines.
DecideWrite(w) ==
  /\ job[w].pc = "write"
  /\ decision' = job[w].basis
  /\ job' = [job EXCEPT ![w] = Idle]
  /\ UNCHANGED <<claims, line, seeded, buffer, inflight, nextTask, used, filed, runMark>>

-----------------------------------------------------------------------------
(***************************************************************************)
(* POST /flow/call, and the timer that answers it.                         *)
(***************************************************************************)

\* A fresh task id; the line is created or moved to active.
CallBegin(w, s) ==
  /\ job[w] = Idle
  /\ used.calls[s] < MaxCalls
  /\ used' = [used EXCEPT !.calls[s] = @ + 1]
  /\ line' = [line EXCEPT ![s] = "active"]
  /\ job' = [job EXCEPT ![w].pc = "dispatch",
                        ![w].who = [supplier |-> s, task |-> nextTask]]
  /\ nextTask' = nextTask + 1
  /\ UNCHANGED <<claims, decision, seeded, buffer, inflight, filed, runMark>>

\* The rehearsal provider starts a daemon timer and returns.
CallDispatch(w) ==
  /\ job[w].pc = "dispatch"
  /\ inflight' = inflight \cup {job[w].who}
  /\ job' = [job EXCEPT ![w] = Idle]
  /\ UNCHANGED <<claims, decision, line, seeded, buffer, nextTask, used, filed, runMark>>

\* A live dispatch raises: the line is marked failed, if it is still there (the
\* upsert names no group and no label), and the caller gets an error.
CallRefused(w) ==
  /\ job[w].pc = "dispatch"
  /\ line' = [line EXCEPT ![job[w].who.supplier] = IF @ = "none" THEN @ ELSE "failed"]
  /\ job' = [job EXCEPT ![w] = Idle]
  /\ UNCHANGED <<claims, decision, seeded, buffer, inflight, nextTask, used, filed, runMark>>

\* The timer puts the answer in the buffer, whatever has happened meanwhile.
Deliver(a) ==
  /\ a \in inflight
  /\ buffer' = Append(buffer, a)
  /\ inflight' = inflight \ {a}
  /\ UNCHANGED <<claims, decision, line, seeded, job, nextTask, used, filed, runMark>>

-----------------------------------------------------------------------------
(***************************************************************************)
(* POST /flow/collect.                                                     *)
(***************************************************************************)

\* What is already on file is read once, before the loop ...
CollectBegin(w) ==
  /\ job[w] = Idle
  /\ job' = [job EXCEPT ![w].pc = "quotes", ![w].known = claims]
  /\ UNCHANGED <<claims, decision, line, seeded, buffer, inflight, nextTask, used, filed, runMark>>

\* ... then the buffer is copied under its lock.
CollectQuotes(w) ==
  /\ job[w].pc = "quotes"
  /\ job' = [job EXCEPT ![w].pc = "loop", ![w].todo = buffer]
  /\ UNCHANGED <<claims, decision, line, seeded, buffer, inflight, nextTask, used, filed, runMark>>

CollectSkip(w) ==
  /\ job[w].pc = "loop"
  /\ job[w].todo # <<>>
  /\ IsKnown(job[w].known, Head(job[w].todo))
  /\ job' = [job EXCEPT ![w].todo = Tail(@)]
  /\ UNCHANGED <<claims, decision, line, seeded, buffer, inflight, nextTask, used, filed, runMark>>

\* A quote that was not on file becomes the supplier's round-1 claim ...
CollectFile(w) ==
  /\ job[w].pc = "loop"
  /\ job[w].todo # <<>>
  /\ LET a == Head(job[w].todo)
     IN  /\ ~IsKnown(job[w].known, a)
         /\ claims' = [claims EXCEPT ![a.supplier][1] = a.task]
         /\ filed' = filed \cup {a.task}
         /\ job' = [job EXCEPT ![w].pc = "done", ![w].todo = Tail(@),
                               ![w].who = a, ![w].mine = @ \cup {a.supplier}]
  /\ UNCHANGED <<decision, line, seeded, buffer, inflight, nextTask, used, runMark>>

\* ... and its line is ticked, or created done: this upsert names both.
CollectTick(w) ==
  /\ job[w].pc = "done"
  /\ line' = [line EXCEPT ![job[w].who.supplier] = "done"]
  /\ job' = [job EXCEPT ![w].pc = "loop", ![w].who = <<>>]
  /\ UNCHANGED <<claims, decision, seeded, buffer, inflight, nextTask, used, filed, runMark>>

\* Fault: the last quote decides whether anything is re-priced.
CollectNothingAtEnd(w) ==
  /\ job[w].pc = "loop"
  /\ job[w].todo = <<>>
  /\ job' = [job EXCEPT ![w] = Idle]
  /\ UNCHANGED <<claims, decision, line, seeded, buffer, inflight, nextTask, used, filed, runMark>>

\* Nothing was filed: nothing to re-price.
CollectNothing(w) ==
  /\ job[w].pc = "loop"
  /\ job[w].todo = <<>>
  /\ job[w].mine = {}
  /\ job' = [job EXCEPT ![w] = Idle]
  /\ UNCHANGED <<claims, decision, line, seeded, buffer, inflight, nextTask, used, filed, runMark>>

\* Fault: the collect answers the caller without deciding again.
CollectRepriceOmitted(w) ==
  /\ job[w].pc = "loop"
  /\ job[w].todo = <<>>
  /\ job[w].mine # {}
  /\ seeded
  /\ job' = [job EXCEPT ![w] = Idle]
  /\ UNCHANGED <<claims, decision, line, seeded, buffer, inflight, nextTask, used, filed, runMark>>

\* Something was filed: tick claims:normalise, then decide again.
CollectReprice(w) ==
  /\ job[w].pc = "loop"
  /\ job[w].todo = <<>>
  /\ job[w].mine # {}
  /\ seeded
  /\ job' = [job EXCEPT ![w].pc = "decide", ![w].known = <<>>]
  /\ UNCHANGED <<claims, decision, line, seeded, buffer, inflight, nextTask, used, filed, runMark>>

\* claims:normalise is a fixed line, and the tick names no group and no label:
\* without the fixed lines it raises ValueError before anything is priced.
CollectAborts(w) ==
  /\ job[w].pc = "loop"
  /\ job[w].todo = <<>>
  /\ job[w].mine # {}
  /\ ~seeded
  /\ job' = [job EXCEPT ![w] = Idle]
  /\ UNCHANGED <<claims, decision, line, seeded, buffer, inflight, nextTask, used, filed, runMark>>

-----------------------------------------------------------------------------
\* POST /tools/claims: the agent files an answer under the round it names.  The
\* decision is left to a later POST /decide.
PostClaim(w, s, r) ==
  /\ job[w] = Idle
  /\ used.agent < MaxAgent
  /\ used' = [used EXCEPT !.agent = @ + 1]
  /\ claims' = [claims EXCEPT ![s][r] = nextTask]
  /\ nextTask' = nextTask + 1
  /\ UNCHANGED <<decision, line, seeded, buffer, inflight, job, filed, runMark>>

\* The API process restarts: the buffer, the timers and the handlers are gone,
\* the case directory is not.
Restart ==
  /\ used.restarts < MaxRestarts
  /\ used' = [used EXCEPT !.restarts = @ + 1]
  /\ buffer' = <<>>
  /\ inflight' = {}
  /\ job' = [w \in Worker |-> Idle]
  /\ UNCHANGED <<claims, decision, line, seeded, nextTask, filed, runMark>>

-----------------------------------------------------------------------------
RunStep(w) ==
  \/ RunReset(w) \/ RunAsk(w) \/ RunFile(w) \/ RunTick(w) \/ RunAborts(w) \/ RunAsked(w)

DecideStep(w) == DecideRead(w) \/ DecideWrite(w)

CallStep(w) == CallDispatch(w) \/ CallRefused(w)

CollectStep(w) ==
  \/ CollectQuotes(w) \/ CollectSkip(w) \/ CollectFile(w) \/ CollectTick(w)
  \/ CollectNothing(w) \/ CollectReprice(w) \/ CollectAborts(w)

\* A thread finishes the handler it is in.
HandlerStep(w) == RunStep(w) \/ DecideStep(w) \/ CallStep(w) \/ CollectStep(w)

\* A client makes a request and a free thread takes it.
Request(w) ==
  \/ RunBegin(w)
  \/ DecideBegin(w)
  \/ CollectBegin(w)
  \/ \E s \in Supplier : CallBegin(w, s)
  \/ \E s \in Supplier, r \in Round : PostClaim(w, s, r)

Next ==
  \/ \E w \in Worker : HandlerStep(w) \/ Request(w)
  \/ \E a \in inflight : Deliver(a)
  \/ Restart

Spec == Init /\ [][Next]_vars

\* A thread in a handler runs on; a timer that was started fires; a client that
\* polls /flow/collect until the claim appears is served, as the pool takes
\* waiting requests in order.  Nobody has to make any other request.
Fairness ==
  /\ \A w \in Worker : WF_vars(HandlerStep(w)) /\ SF_vars(CollectBegin(w))
  /\ WF_vars(\E a \in inflight : Deliver(a))

FairSpec == Spec /\ Fairness

-----------------------------------------------------------------------------
TypeOK ==
  /\ claims \in ClaimFiles
  /\ decision \in Priced \cup {NoDecision}
  /\ line \in [Supplier -> {"none", "active", "done", "failed"}]
  /\ seeded \in BOOLEAN
  /\ buffer \in Seq(Answer)
  /\ inflight \subseteq Answer
  /\ job \in [Worker -> Job]
  /\ nextTask \in Task
  /\ used \in Counts
  /\ filed \subseteq Task
  /\ runMark \in Task

\* A supplier whose call is ticked has an answer in the case directory, also
\* when the process died half way through filing it, or a run was repeated: the
\* claim is written before the line is ticked (conductor.py, flow.py).
TickedMeansAnswered ==
  \A s \in Supplier : line[s] = "done" => claims[s][1] # 0

\* A collect that filed an answer ends by replacing the decision, unless the
\* process died or the case has no checklist: the answer re-prices the case
\* rather than being dropped (flow.py).
LateAnswerReprices ==
  [][\A w \in Worker :
       seeded /\ job[w].mine # {} /\ job'[w] = Idle => DecideWrite(w) \/ Restart]_vars

\* No answer to a call placed before the latest run is collected: "last run's
\* answers must not be collected a second time as though they were fresh"
\* (backend/api/routers/flow.py).
NoStaleAnswer ==
  [][\A w \in Worker : CollectFile(w) => Head(job[w].todo).task >= runMark]_vars

\* The handlers implement the promise: what the stored decision was priced from
\* only ever becomes what is on file at that moment.
Ledger == INSTANCE ReviewLedger WITH known <- Latest(claims), verdict <- decision

ImplementsLedger == Ledger!Spec

=============================================================================
