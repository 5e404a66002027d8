----------------------------- MODULE Checklist ------------------------------
(***************************************************************************)
(* The checklist of a case (backend/plan/checklist.py) and the requests    *)
(* that move it: POST /tools/plan/step and /plan/steps, which also write   *)
(* each move to the event log, and the case flow, which ticks quietly and  *)
(* resets the list at the start of a run.                                  *)
(*                                                                         *)
(* plan.json is read, changed and replaced as a whole, without a lock, by  *)
(* handlers that run on the threads of a pool.  Labels, groups and order   *)
(* are layout and left out; a new line needs them, so an update says       *)
(* whether it names them.                                                  *)
(*                                                                         *)
(* A definition marked "Fault" is not part of the specification: it is     *)
(* what the definition after it must not become; the runs tell them apart. *)
(***************************************************************************)
EXTENDS Naturals, Sequences

CONSTANTS
  Fixed,        \* ids of the seeded steps
  Dynamic,      \* ids created while a case runs, such as outreach:<supplier>
  Worker,       \* the threads of the API's pool
  Seeded,       \* whether a case may start with the fixed lines, without them, or both
  Batch,        \* the lists of updates an agent may post
  Ticked,       \* the updates the case flow makes
  MaxRequests,  \* bound: requests made
  MaxDeaths     \* bound: deaths of the API process

Step == Fixed \cup Dynamic
Finished == {"done", "failed", "skipped"}
Status == Finished \cup {"pending", "active"}

Line == [status : Status, started : BOOLEAN, finished : BOOLEAN]
Update == [step : Step, status : Status, named : BOOLEAN]

ASSUME ChecklistAssumption ==
  /\ Fixed \cap Dynamic = {}
  /\ Seeded \subseteq BOOLEAN
  /\ Batch \subseteq Seq(Update) \ {<<>>}
  /\ Ticked \subseteq Update
  /\ MaxRequests \in Nat
  /\ MaxDeaths \in Nat

VARIABLES
  plan,        \* plan.json: the lines there are
  job,         \* the handler each worker is in the middle of
  requests,    \* how many requests have been made
  deaths,      \* how often the process has died
  said,        \* the last move of a line that the event log tells of
  mover,       \* history: who moved a line last, the agent or the case flow
  born,        \* history: the case began with the fixed lines
  overlapped   \* history: two handlers have been in progress at once

vars == <<plan, job, requests, deaths, said, mover, born, overlapped>>

-----------------------------------------------------------------------------
Fresh == [status |-> "pending", started |-> FALSE, finished |-> FALSE]

\* What reset writes: the fixed lines, all pending.
FixedLines == [s \in Fixed |-> Fresh]

\* A line moved to `status`.  Stamps are set once and never taken back.
Moved(l, status) ==
  [status   |-> status,
   started  |-> l.started \/ status # "pending",
   finished |-> l.finished \/ status \in Finished]

\* An id that is not on the list needs a group and a label.
Accepted(p, u) == u.step \in DOMAIN p \/ u.named

\* The list `p` after update `u`: the line is moved, or added and moved.
Upserted(p, u) ==
  [s \in DOMAIN p \cup {u.step} |->
     IF s = u.step THEN Moved(IF s \in DOMAIN p THEN p[s] ELSE Fresh, u.status) ELSE p[s]]

Idle == [pc |-> "idle", todo |-> <<>>, copy |-> <<>>, quiet |-> FALSE]

Init ==
  /\ born \in Seeded
  /\ plan = IF born THEN FixedLines ELSE <<>>
  /\ job = [w \in Worker |-> Idle]
  /\ requests = 0
  /\ deaths = 0
  /\ said = [s \in Step |-> "none"]
  /\ mover = [s \in Step |-> "nobody"]
  /\ overlapped = FALSE

-----------------------------------------------------------------------------
\* A request is taken by a free worker.
Begin(w, j) ==
  /\ job[w] = Idle
  /\ requests < MaxRequests
  /\ requests' = requests + 1
  /\ job' = [job EXCEPT ![w] = j]
  /\ overlapped' = (overlapped \/ \E v \in Worker : job[v] # Idle)
  /\ UNCHANGED <<plan, deaths, said, mover, born>>

\* POST /tools/plan/step and /plan/steps: one update or several.
Post(w, updates) == Begin(w, [Idle EXCEPT !.pc = "read", !.todo = updates])

\* A tick of /flow/run, /flow/call or /flow/collect.
Tick(w, u) == Begin(w, [Idle EXCEPT !.pc = "read", !.todo = <<u>>, !.quiet = TRUE])

\* /flow/run begins: the list is replaced without being read.
Reset(w) == Begin(w, [Idle EXCEPT !.pc = "reset"])

\* A case is opened, perhaps again: seed looks whether there is a list.
Seed(w) == Begin(w, [Idle EXCEPT !.pc = "seed"])

-----------------------------------------------------------------------------
\* upsert reads the list ...
Read(w) ==
  /\ job[w].pc = "read"
  /\ Accepted(plan, Head(job[w].todo))
  /\ job' = [job EXCEPT ![w].pc = "write", ![w].copy = plan]
  /\ UNCHANGED <<plan, requests, deaths, said, mover, born, overlapped>>

\* ... and gives up if the line is new and has no name: the request ends in an
\* error, what it has written before stays.
Refuse(w) ==
  /\ job[w].pc = "read"
  /\ ~Accepted(plan, Head(job[w].todo))
  /\ job' = [job EXCEPT ![w] = Idle]
  /\ UNCHANGED <<plan, requests, deaths, said, mover, born, overlapped>>

\* It replaces the list by its copy with one line moved.
Write(w) ==
  /\ job[w].pc = "write"
  /\ LET u == Head(job[w].todo)
     IN  /\ plan' = Upserted(job[w].copy, u)
         /\ mover' = [mover EXCEPT ![u.step] = IF job[w].quiet THEN "flow" ELSE "agent"]
         /\ job' = [job EXCEPT ![w] = IF job[w].quiet THEN Idle ELSE [@ EXCEPT !.pc = "narrate"]]
  /\ UNCHANGED <<requests, deaths, said, born, overlapped>>

\* Fault: the list is read once for the whole batch.
NarrateWithoutReading(w) ==
  /\ job[w].pc = "narrate"
  /\ LET rest == Tail(job[w].todo)
     IN  job' = [job EXCEPT ![w] = IF rest = <<>> THEN Idle
                                   ELSE [@ EXCEPT !.pc = "write", !.todo = rest]]
  /\ said' = [said EXCEPT ![Head(job[w].todo).step] = Head(job[w].todo).status]
  /\ UNCHANGED <<plan, requests, deaths, mover, born, overlapped>>

\* Fault: of a batch only the last move is told.
NarrateLast(w) ==
  /\ job[w].pc = "narrate"
  /\ LET rest == Tail(job[w].todo)
     IN  /\ job' = [job EXCEPT ![w] = IF rest = <<>> THEN Idle
                                      ELSE [Idle EXCEPT !.pc = "read", !.todo = rest]]
         /\ said' = IF rest = <<>>
                    THEN [said EXCEPT ![Head(job[w].todo).step] = Head(job[w].todo).status]
                    ELSE said
  /\ UNCHANGED <<plan, requests, deaths, mover, born, overlapped>>

\* The move is told to the event log, and the next update is taken up.
Narrate(w) ==
  /\ job[w].pc = "narrate"
  /\ LET rest == Tail(job[w].todo)
     IN  job' = [job EXCEPT ![w] = IF rest = <<>> THEN Idle
                                   ELSE [Idle EXCEPT !.pc = "read", !.todo = rest]]
  /\ said' = [said EXCEPT ![Head(job[w].todo).step] = Head(job[w].todo).status]
  /\ UNCHANGED <<plan, requests, deaths, mover, born, overlapped>>

\* The fixed lines, all pending; dynamic lines are dropped.
ResetWrite(w) ==
  /\ job[w].pc = "reset"
  /\ plan' = FixedLines
  /\ mover' = [s \in Step |-> "nobody"]
  /\ job' = [job EXCEPT ![w] = Idle]
  /\ UNCHANGED <<requests, deaths, said, born, overlapped>>

\* Fault: the list is replaced although it has lines.
SeedReadBlind(w) ==
  /\ job[w].pc = "seed"
  /\ job' = [job EXCEPT ![w].pc = "seeding"]
  /\ UNCHANGED <<plan, requests, deaths, said, mover, born, overlapped>>

\* seed writes nothing when there is a list already.
SeedRead(w) ==
  /\ job[w].pc = "seed"
  /\ job' = [job EXCEPT ![w] = IF plan = <<>> THEN [@ EXCEPT !.pc = "seeding"] ELSE Idle]
  /\ UNCHANGED <<plan, requests, deaths, said, mover, born, overlapped>>

\* ... and the fixed lines otherwise.
SeedWrite(w) ==
  /\ job[w].pc = "seeding"
  /\ plan' = FixedLines
  /\ mover' = [s \in Step |-> "nobody"]
  /\ job' = [job EXCEPT ![w] = Idle]
  /\ UNCHANGED <<requests, deaths, said, born, overlapped>>

\* The process dies; plan.json and the event log are on disk.
Die ==
  /\ deaths < MaxDeaths
  /\ deaths' = deaths + 1
  /\ job' = [w \in Worker |-> Idle]
  /\ UNCHANGED <<plan, requests, said, mover, born, overlapped>>

-----------------------------------------------------------------------------
Request(w) ==
  \/ \E b \in Batch : Post(w, b)
  \/ \E u \in Ticked : Tick(w, u)
  \/ Reset(w)
  \/ Seed(w)

HandlerStep(w) ==
  \/ Read(w) \/ Refuse(w) \/ Write(w) \/ Narrate(w) \/ ResetWrite(w)
  \/ SeedRead(w) \/ SeedWrite(w)

Next == (\E w \in Worker : Request(w) \/ HandlerStep(w)) \/ Die

Spec == Init /\ [][Next]_vars

-----------------------------------------------------------------------------
TypeOK ==
  /\ \E present \in SUBSET Step : plan \in [present -> Line]
  /\ job \in [Worker -> [pc    : {"idle", "read", "write", "narrate", "reset", "seed", "seeding"},
                         todo  : Seq(Update),
                         copy  : UNION {[present -> Line] : present \in SUBSET Step},
                         quiet : BOOLEAN]]
  /\ requests \in Nat
  /\ deaths \in Nat
  /\ said \in [Step -> Status \cup {"none"}]
  /\ mover \in [Step -> {"nobody", "agent", "flow"}]
  /\ born \in BOOLEAN
  /\ overlapped \in BOOLEAN

\* "A checklist move is also a line in the event log; the two never disagree"
\* (tools.py): with one handler at a time and no death, a line that the agent
\* moved last has the status the log told last.
LogAgrees ==
  ~overlapped /\ deaths = 0 /\ (\A w \in Worker : job[w] = Idle) =>
    \A s \in DOMAIN plan : mover[s] = "agent" => said[s] = plan[s].status

\* With one handler at a time a move leaves every other line as it is: what an
\* earlier request, or an earlier update of the batch, wrote is not lost.
OthersKept ==
  [][\A w \in Worker :
       Write(w) /\ ~overlapped =>
         \A s \in DOMAIN plan \ {Head(job[w].todo).step} :
           s \in DOMAIN plan' /\ plan'[s] = plan[s]]_vars

\* Opening a case again "never clobbers a plan that already has progress"
\* (checklist.py), as long as handlers do not overlap.
ProgressKept ==
  [][\A w \in Worker : SeedWrite(w) /\ ~overlapped => plan = <<>>]_vars

=============================================================================
