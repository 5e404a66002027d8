-------------------------- MODULE ChecklistProofs ---------------------------
(***************************************************************************)
(* Theorems about Checklist, for any lines, threads, batches and bounds.   *)
(*                                                                         *)
(* As long as no two handlers have been under way at once, the list a      *)
(* handler has read is the list it replaces: nobody else was there to      *)
(* change it.  That keeps the other lines, and an existing list when a     *)
(* case is opened again.  The log agrees with the list but for the one     *)
(* move that has been written and not yet told, and only a death loses     *)
(* that one.                                                               *)
(***************************************************************************)
EXTENDS Checklist, SequenceTheorems, TLAPS

-----------------------------------------------------------------------------
JobFields == {"pc", "todo", "copy", "quiet"}

\* What a handler has in hand.
JobOK(w) ==
  /\ DOMAIN job[w] = JobFields
  /\ job[w].pc \in {"read", "write", "narrate"} => job[w].todo \in Seq(Update) \ {<<>>}

\* A handler by itself: what it read is what there is, and so is what it wrote.
AloneOK ==
  /\ \A v, w \in Worker : job[v] # Idle /\ job[w] # Idle => v = w
  /\ \A w \in Worker :
       /\ job[w].pc = "write" => job[w].copy = plan
       /\ job[w].pc = "seeding" => plan = <<>>
       /\ job[w].pc = "narrate" =>
            plan[Head(job[w].todo).step].status = Head(job[w].todo).status

\* The move of line `s` is about to be told.
Untold(s) ==
  \E w \in Worker : job[w].pc = "narrate" /\ Head(job[w].todo).step = s

\* The log agrees with the list, but for a move about to be told.
ToldOK == \A s \in DOMAIN plan : mover[s] = "agent" => said[s] = plan[s].status \/ Untold(s)

ChecklistInv ==
  /\ DOMAIN job = Worker /\ DOMAIN said = Step /\ DOMAIN mover = Step
  /\ deaths \in Nat
  /\ overlapped \in BOOLEAN
  /\ \A w \in Worker : JobOK(w)
  /\ ~overlapped => AloneOK
  /\ ~overlapped /\ deaths = 0 => ToldOK

-----------------------------------------------------------------------------
LEMMA IdleShape == DOMAIN Idle = JobFields /\ Idle.pc = "idle"
BY DEF Idle, JobFields

\* The update a handler is at.
LEMMA HeadIsUpdate ==
  ASSUME NEW todo \in Seq(Update) \ {<<>>}
  PROVE  /\ Head(todo) \in Update /\ Head(todo).step \in Step
         /\ Tail(todo) \in Seq(Update)
<1>1. Head(todo) \in Update /\ Tail(todo) \in Seq(Update)
  BY HeadTailProperties
<1>2. QED BY <1>1 DEF Update

\* The list after an update: the line has the status of the update, the others
\* are as they were.
LEMMA UpsertedLines ==
  ASSUME NEW p, NEW u
  PROVE  /\ DOMAIN Upserted(p, u) = DOMAIN p \cup {u.step}
         /\ Upserted(p, u)[u.step].status = u.status
         /\ \A s \in DOMAIN p \ {u.step} : Upserted(p, u)[s] = p[s]
BY DEF Upserted, Moved

\* A handler that is alone goes on with the job `j`.
LEMMA GoesOn ==
  ASSUME ChecklistInv, NEW w \in Worker, NEW j, job[w].pc # "idle", job' = [job EXCEPT ![w] = j],
         UNCHANGED <<deaths, overlapped>>,
         DOMAIN said' = Step, DOMAIN mover' = Step,
         DOMAIN j = JobFields,
         j.pc \in {"read", "write", "narrate"} => j.todo \in Seq(Update) \ {<<>>},
         ~overlapped =>
           /\ j.pc = "write" => j.copy = plan'
           /\ j.pc = "seeding" => plan' = <<>>
           /\ j.pc = "narrate" => plan'[Head(j.todo).step].status = Head(j.todo).status,
         ~overlapped /\ deaths = 0 =>
           \A s \in DOMAIN plan' : mover'[s] = "agent" =>
             \/ said'[s] = plan'[s].status
             \/ j.pc = "narrate" /\ Head(j.todo).step = s
  PROVE  ChecklistInv'
<1>1. job[w] # Idle
  BY IdleShape
<1>2. job'[w] = j /\ DOMAIN job' = Worker /\ \A v \in Worker \ {w} : job'[v] = job[v]
  BY DEF ChecklistInv
<1>3. \A v \in Worker : JobOK(v)'
  BY <1>2 DEF ChecklistInv, JobOK
<1>4. ASSUME ~overlapped PROVE \A v \in Worker \ {w} : job[v] = Idle /\ job'[v] = Idle
  BY <1>1, <1>2, <1>4 DEF ChecklistInv, AloneOK
<1>5. ASSUME ~overlapped PROVE AloneOK'
  BY <1>2, <1>4, <1>5, IdleShape DEF AloneOK
<1>6. ASSUME ~overlapped, deaths = 0 PROVE ToldOK'
  BY <1>2, <1>6 DEF ToldOK, Untold
<1>7. QED BY <1>2, <1>3, <1>5, <1>6 DEF ChecklistInv

-----------------------------------------------------------------------------
(* The steps.                                                              *)

\* A request is taken: nobody else is under way, or the mark is set.
LEMMA BeginOK ==
  ASSUME ChecklistInv, NEW w \in Worker, NEW j, Begin(w, j), DOMAIN j = JobFields,
         j.pc \in {"read", "reset", "seed"}, j.pc = "read" => j.todo \in Seq(Update) \ {<<>>}
  PROVE  ChecklistInv'
<1>1. /\ job[w] = Idle /\ job' = [job EXCEPT ![w] = j]
      /\ overlapped' = (overlapped \/ \E v \in Worker : job[v] # Idle)
      /\ UNCHANGED <<plan, deaths, said, mover, born>>
  BY DEF Begin
<1>2. job'[w] = j /\ DOMAIN job' = Worker /\ \A v \in Worker \ {w} : job'[v] = job[v]
  BY <1>1 DEF ChecklistInv
<1>3. \A v \in Worker : JobOK(v)'
  BY <1>2 DEF ChecklistInv, JobOK
<1>4. overlapped' \in BOOLEAN /\ (~overlapped' => ~overlapped /\ \A v \in Worker : job[v] = Idle)
  BY <1>1 DEF ChecklistInv
<1>5. ASSUME ~overlapped' PROVE AloneOK'
  BY <1>2, <1>4, <1>5, IdleShape DEF AloneOK
<1>6. ASSUME ~overlapped', deaths' = 0 PROVE ToldOK'
  <2>1. \A s \in DOMAIN plan : ~Untold(s)
    BY <1>4, <1>6, IdleShape DEF Untold
  <2>2. QED BY <1>1, <1>4, <1>6, <2>1 DEF ChecklistInv, ToldOK
<1>7. QED BY <1>1, <1>2, <1>3, <1>4, <1>5, <1>6 DEF ChecklistInv

LEMMA RequestOK == ASSUME ChecklistInv, NEW w \in Worker, Request(w) PROVE ChecklistInv'
<1>1. ASSUME NEW b \in Batch, Post(w, b) PROVE ChecklistInv'
  <2>1. PICK j : j = [Idle EXCEPT !.pc = "read", !.todo = b]
    OBVIOUS
  <2>2. Begin(w, j)
    BY <1>1, <2>1 DEF Post
  <2>3. DOMAIN j = JobFields /\ j.pc = "read" /\ j.todo = b
    BY <2>1 DEF Idle, JobFields
  <2>4. QED BY <2>2, <2>3, BeginOK, ChecklistAssumption
<1>2. ASSUME NEW u \in Ticked, Tick(w, u) PROVE ChecklistInv'
  <2>1. PICK j : j = [Idle EXCEPT !.pc = "read", !.todo = <<u>>, !.quiet = TRUE]
    OBVIOUS
  <2>2. Begin(w, j)
    BY <1>2, <2>1 DEF Tick
  <2>3. DOMAIN j = JobFields /\ j.pc = "read" /\ j.todo = <<u>>
    BY <2>1 DEF Idle, JobFields
  <2>4. <<u>> \in Seq(Update) \ {<<>>}
    BY ChecklistAssumption
  <2>5. QED BY <2>2, <2>3, <2>4, BeginOK
<1>3. CASE Reset(w)
  <2>1. PICK j : j = [Idle EXCEPT !.pc = "reset"]
    OBVIOUS
  <2>2. Begin(w, j) /\ DOMAIN j = JobFields /\ j.pc = "reset"
    BY <1>3, <2>1 DEF Reset, Idle, JobFields
  <2>3. QED BY <2>2, BeginOK
<1>4. CASE Seed(w)
  <2>1. PICK j : j = [Idle EXCEPT !.pc = "seed"]
    OBVIOUS
  <2>2. Begin(w, j) /\ DOMAIN j = JobFields /\ j.pc = "seed"
    BY <1>4, <2>1 DEF Seed, Idle, JobFields
  <2>3. QED BY <2>2, BeginOK
<1>5. QED BY <1>1, <1>2, <1>3, <1>4 DEF Request

\* Nothing is untold when the only handler is not about to tell.
LEMMA AllTold ==
  ASSUME ChecklistInv, NEW w \in Worker, job[w].pc \notin {"idle", "narrate"}, ~overlapped, deaths = 0
  PROVE  \A s \in DOMAIN plan : mover[s] = "agent" => said[s] = plan[s].status
<1>1. job[w] # Idle
  BY IdleShape
<1>2. \A v \in Worker : job[v].pc # "narrate"
  BY <1>1, IdleShape DEF ChecklistInv, AloneOK
<1>3. QED BY <1>2 DEF ChecklistInv, ToldOK, Untold

LEMMA ReadOK == ASSUME ChecklistInv, NEW w \in Worker, Read(w) PROVE ChecklistInv'
<1>1. job[w].pc = "read" /\ UNCHANGED <<plan, requests, deaths, said, mover, born, overlapped>>
  BY DEF Read
<1>2. PICK j : j = [job[w] EXCEPT !.pc = "write", !.copy = plan]
  OBVIOUS
<1>3. job' = [job EXCEPT ![w] = j]
  BY <1>2 DEF Read
<1>4. /\ DOMAIN j = JobFields /\ j.pc = "write" /\ j.copy = plan /\ j.todo = job[w].todo
      /\ j.todo \in Seq(Update) \ {<<>>}
  BY <1>1, <1>2 DEF ChecklistInv, JobOK, JobFields
<1>5. DOMAIN said' = Step /\ DOMAIN mover' = Step
  BY <1>1 DEF ChecklistInv
<1>6. QED BY <1>1, <1>3, <1>4, <1>5, AllTold, GoesOn

\* The steps that end a handler with nothing left to tell.
LEMMA StopOK ==
  ASSUME ChecklistInv, NEW w \in Worker, job[w].pc \notin {"idle", "narrate"},
         job' = [job EXCEPT ![w] = Idle], UNCHANGED <<deaths, overlapped, said>>,
         \/ plan' = plan /\ mover' = mover
         \/ mover' = [s \in Step |-> "nobody"] /\ DOMAIN plan' \subseteq Step
  PROVE  ChecklistInv'
<1>1. DOMAIN said' = Step /\ DOMAIN mover' = Step
  BY DEF ChecklistInv
<1>2. ASSUME ~overlapped, deaths = 0
      PROVE  \A s \in DOMAIN plan' : mover'[s] = "agent" => said'[s] = plan'[s].status
  <2>1. CASE plan' = plan /\ mover' = mover
    BY <1>2, <2>1, AllTold
  <2>2. CASE mover' = [s \in Step |-> "nobody"] /\ DOMAIN plan' \subseteq Step
    BY <2>2
  <2>3. QED BY <2>1, <2>2
<1>3. QED BY <1>1, <1>2, IdleShape, GoesOn

\* A handler by itself replaces the list by the list with one line moved.
LEMMA WriteShape ==
  ASSUME ChecklistInv, NEW w \in Worker, Write(w), NEW u, u = Head(job[w].todo)
  PROVE  /\ u \in Update /\ u.step \in Step
         /\ ~overlapped => /\ DOMAIN plan' = DOMAIN plan \cup {u.step}
                           /\ plan'[u.step].status = u.status
                           /\ \A s \in DOMAIN plan \ {u.step} : plan'[s] = plan[s]
<1>1. job[w].pc = "write" /\ plan' = Upserted(job[w].copy, u)
  BY DEF Write
<1>2. job[w].todo \in Seq(Update) \ {<<>>} /\ (~overlapped => job[w].copy = plan)
  BY <1>1 DEF ChecklistInv, JobOK, AloneOK
<1>3. u \in Update /\ u.step \in Step
  BY <1>2, HeadIsUpdate
<1>4. /\ DOMAIN plan' = DOMAIN job[w].copy \cup {u.step}
      /\ plan'[u.step].status = u.status
      /\ \A s \in DOMAIN job[w].copy \ {u.step} : plan'[s] = job[w].copy[s]
  <2>1. PICK c : c = job[w].copy
    OBVIOUS
  <2>2. /\ DOMAIN Upserted(c, u) = DOMAIN c \cup {u.step}
        /\ Upserted(c, u)[u.step].status = u.status
        /\ \A s \in DOMAIN c \ {u.step} : Upserted(c, u)[s] = c[s]
    BY UpsertedLines, ZenonT(40)
  <2>3. QED BY <1>1, <2>1, <2>2
<1>5. ASSUME ~overlapped
      PROVE  /\ DOMAIN plan' = DOMAIN plan \cup {u.step}
             /\ plan'[u.step].status = u.status
             /\ \A s \in DOMAIN plan \ {u.step} : plan'[s] = plan[s]
  <2>1. job[w].copy = plan
    BY <1>2, <1>5
  <2>2. QED BY <1>4, <2>1
<1>6. QED BY <1>3, <1>5

LEMMA WriteOK == ASSUME ChecklistInv, NEW w \in Worker, Write(w) PROVE ChecklistInv'
<1>1. job[w].pc = "write" /\ UNCHANGED <<requests, deaths, said, born, overlapped>>
  BY DEF Write
<1>2. PICK u : u = Head(job[w].todo)
  OBVIOUS
<1>3. PICK j : j = IF job[w].quiet THEN Idle ELSE [job[w] EXCEPT !.pc = "narrate"]
  OBVIOUS
<1>4. /\ job' = [job EXCEPT ![w] = j]
      /\ mover' = [mover EXCEPT ![u.step] = IF job[w].quiet THEN "flow" ELSE "agent"]
  BY <1>2, <1>3 DEF Write
<1>5. /\ DOMAIN j = JobFields
      /\ job[w].quiet => j.pc = "idle"
      /\ ~job[w].quiet => j.pc = "narrate" /\ j.todo = job[w].todo
      /\ job[w].todo \in Seq(Update) \ {<<>>}
  BY <1>1, <1>3, IdleShape DEF ChecklistInv, JobOK, JobFields
<1>6. DOMAIN said' = Step /\ DOMAIN mover' = Step
  BY <1>1, <1>4 DEF ChecklistInv
<1>7. ASSUME ~overlapped, deaths = 0, NEW s \in DOMAIN plan', mover'[s] = "agent"
      PROVE  \/ said'[s] = plan'[s].status
             \/ j.pc = "narrate" /\ Head(j.todo).step = s
  <2>1. CASE s = u.step
    <3>1. mover'[u.step] = IF job[w].quiet THEN "flow" ELSE "agent"
      BY <1>2, <1>4, WriteShape DEF ChecklistInv
    <3>2. ~job[w].quiet
      BY <1>7, <2>1, <3>1
    <3>3. QED BY <1>2, <1>5, <1>7, <2>1, <3>2, WriteShape
  <2>2. CASE s # u.step
    <3>1. s \in DOMAIN plan /\ plan'[s] = plan[s]
      BY <1>2, <1>7, <2>2, WriteShape
    <3>2. mover[s] = "agent"
      BY <1>4, <1>7, <2>2 DEF ChecklistInv
    <3>3. said[s] = plan[s].status
      BY <1>1, <1>7, <3>1, <3>2, AllTold
    <3>4. QED BY <1>1, <3>1, <3>3
  <2>3. QED BY <2>1, <2>2
<1>8. ASSUME ~overlapped, j.pc = "narrate"
      PROVE  plan'[Head(j.todo).step].status = Head(j.todo).status
  BY <1>2, <1>5, <1>8, WriteShape
<1>9. QED BY <1>1, <1>4, <1>5, <1>6, <1>7, <1>8, GoesOn

LEMMA NarrateOK == ASSUME ChecklistInv, NEW w \in Worker, Narrate(w) PROVE ChecklistInv'
<1>1. job[w].pc = "narrate" /\ UNCHANGED <<plan, requests, deaths, mover, born, overlapped>>
  BY DEF Narrate
<1>2. PICK u : u = Head(job[w].todo)
  OBVIOUS
<1>3. PICK rest : rest = Tail(job[w].todo)
  OBVIOUS
<1>4. PICK j : j = IF rest = <<>> THEN Idle ELSE [Idle EXCEPT !.pc = "read", !.todo = rest]
  OBVIOUS
<1>5. job' = [job EXCEPT ![w] = j] /\ said' = [said EXCEPT ![u.step] = u.status]
  BY <1>2, <1>3, <1>4 DEF Narrate
<1>6. job[w].todo \in Seq(Update) \ {<<>>}
  BY <1>1 DEF ChecklistInv, JobOK
<1>7. u.step \in Step /\ rest \in Seq(Update)
  BY <1>2, <1>3, <1>6, HeadIsUpdate
<1>8. /\ DOMAIN j = JobFields /\ j.pc \in {"idle", "read"}
      /\ j.pc = "read" => j.todo \in Seq(Update) \ {<<>>}
  <2>1. CASE rest = <<>>
    BY <1>4, <2>1, IdleShape
  <2>2. CASE rest # <<>>
    BY <1>4, <1>7, <2>2 DEF Idle, JobFields
  <2>3. QED BY <2>1, <2>2
<1>9. DOMAIN said' = Step /\ DOMAIN mover' = Step
  BY <1>1, <1>5 DEF ChecklistInv
<1>10. ASSUME ~overlapped, deaths = 0, NEW s \in DOMAIN plan', mover'[s] = "agent"
       PROVE  said'[s] = plan'[s].status
  <2>1. \A v \in Worker : job[v].pc = "narrate" => v = w
    BY <1>1, <1>10, IdleShape DEF ChecklistInv, AloneOK
  <2>2. said[s] = plan[s].status \/ u.step = s
    BY <1>1, <1>2, <1>10, <2>1 DEF ChecklistInv, ToldOK, Untold
  <2>3. said'[u.step] = u.status /\ (s # u.step => said'[s] = said[s])
    BY <1>5, <1>7 DEF ChecklistInv
  <2>4. CASE s = u.step
    <3>1. plan[u.step].status = u.status
      BY <1>1, <1>2, <1>10 DEF ChecklistInv, AloneOK
    <3>2. QED BY <1>1, <2>3, <2>4, <3>1
  <2>5. CASE s # u.step
    BY <1>1, <2>2, <2>3, <2>5
  <2>6. QED BY <2>4, <2>5
<1>11. QED BY <1>1, <1>5, <1>8, <1>9, <1>10, GoesOn

-----------------------------------------------------------------------------
LEMMA ChecklistNext == ChecklistInv /\ [Next]_vars => ChecklistInv'
<1> SUFFICES ASSUME ChecklistInv, [Next]_vars PROVE ChecklistInv'
  OBVIOUS
<1>1. ASSUME NEW w \in Worker, Refuse(w) PROVE ChecklistInv'
  <2>1. /\ job[w].pc \notin {"idle", "narrate"} /\ job' = [job EXCEPT ![w] = Idle]
        /\ UNCHANGED <<deaths, overlapped, said>> /\ plan' = plan /\ mover' = mover
    BY <1>1 DEF Refuse
  <2>2. QED BY <2>1, StopOK
<1>2. ASSUME NEW w \in Worker, ResetWrite(w) \/ SeedWrite(w) PROVE ChecklistInv'
  <2>1. DOMAIN FixedLines \subseteq Step
    BY DEF FixedLines, Step
  <2>2. QED BY <1>2, <2>1, StopOK DEF ResetWrite, SeedWrite
<1>3. ASSUME NEW w \in Worker, SeedRead(w) PROVE ChecklistInv'
  <2>1. job[w].pc = "seed" /\ UNCHANGED <<plan, requests, deaths, said, mover, born, overlapped>>
    BY <1>3 DEF SeedRead
  <2>2. CASE plan = <<>>
    <3>1. PICK j : j = [job[w] EXCEPT !.pc = "seeding"]
      OBVIOUS
    <3>2. job' = [job EXCEPT ![w] = j]
      BY <1>3, <2>2, <3>1 DEF SeedRead
    <3>3. DOMAIN j = JobFields /\ j.pc = "seeding"
      BY <3>1 DEF ChecklistInv, JobOK, JobFields
    <3>4. DOMAIN said' = Step /\ DOMAIN mover' = Step
      BY <2>1 DEF ChecklistInv
    <3>5. QED BY <2>1, <2>2, <3>2, <3>3, <3>4, AllTold, GoesOn
  <2>3. CASE plan # <<>>
    <3>1. job' = [job EXCEPT ![w] = Idle]
      BY <1>3, <2>3 DEF SeedRead
    <3>2. /\ job[w].pc \notin {"idle", "narrate"}
          /\ UNCHANGED <<deaths, overlapped, said>> /\ plan' = plan /\ mover' = mover
      BY <2>1
    <3>3. QED BY <3>1, <3>2, StopOK
  <2>4. QED BY <2>2, <2>3
<1>4. ASSUME NEW w \in Worker, HandlerStep(w) PROVE ChecklistInv'
  BY <1>1, <1>2, <1>3, <1>4, ReadOK, WriteOK, NarrateOK DEF HandlerStep
<1>5. CASE Die
  <2>1. /\ deaths' = deaths + 1 /\ job' = [w \in Worker |-> Idle]
        /\ UNCHANGED <<plan, requests, said, mover, born, overlapped>>
    BY <1>5 DEF Die
  <2>2. \A w \in Worker : JobOK(w)'
    BY <2>1, IdleShape DEF JobOK
  <2>3. AloneOK'
    BY <2>1, IdleShape DEF AloneOK
  <2>4. deaths' \in Nat /\ deaths' # 0
    BY <2>1 DEF ChecklistInv
  <2>5. QED BY <2>1, <2>2, <2>3, <2>4 DEF ChecklistInv
<1>6. CASE UNCHANGED vars
  BY <1>6 DEF vars, ChecklistInv, JobOK, AloneOK, ToldOK, Untold
<1>7. QED BY <1>4, <1>5, <1>6, RequestOK DEF Next

LEMMA ChecklistInit == Init => ChecklistInv
<1> SUFFICES ASSUME Init PROVE ChecklistInv
  OBVIOUS
<1>1. \A w \in Worker : job[w] = Idle
  BY DEF Init
<1>2. \A w \in Worker : JobOK(w)
  BY <1>1, IdleShape DEF JobOK
<1>3. AloneOK
  BY <1>1, IdleShape DEF AloneOK
<1>4. ToldOK
  <2>1. DOMAIN plan \subseteq Step
    <3>1. CASE born
      BY <3>1 DEF Init, FixedLines, Step
    <3>2. CASE ~born
      <4>1. plan = <<>>
        BY <3>2 DEF Init
      <4>2. QED BY <4>1
    <3>3. QED BY <3>1, <3>2
  <2>2. \A s \in DOMAIN plan : mover[s] = "nobody"
    BY <2>1 DEF Init
  <2>3. QED BY <2>2 DEF ToldOK
<1>5. QED BY <1>2, <1>3, <1>4 DEF Init, ChecklistInv

-----------------------------------------------------------------------------
\* With one handler at a time and no death the log and the list never disagree
\* about a line the agent moved (tools.py, "the two never disagree").
THEOREM LogAgreesHolds == Spec => []LogAgrees
<1>1. ChecklistInv => LogAgrees
  BY IdleShape DEF ChecklistInv, ToldOK, Untold, LogAgrees
<1>2. QED BY <1>1, ChecklistInit, ChecklistNext, PTL DEF Spec

\* With one handler at a time no move is lost to another (upsert, checklist.py).
THEOREM OthersKeptHolds == Spec => OthersKept
<1>1. ChecklistInv /\ [Next]_vars =>
        [\A w \in Worker :
           Write(w) /\ ~overlapped =>
             \A s \in DOMAIN plan \ {Head(job[w].todo).step} :
               s \in DOMAIN plan' /\ plan'[s] = plan[s]]_vars
  BY WriteShape
<1>2. QED BY <1>1, ChecklistInit, ChecklistNext, PTL DEF Spec, OthersKept

\* With one handler at a time opening a case again leaves an existing list alone
\* (seed, checklist.py).
THEOREM ProgressKeptHolds == Spec => ProgressKept
<1>1. ChecklistInv /\ [Next]_vars =>
        [\A w \in Worker : SeedWrite(w) /\ ~overlapped => plan = <<>>]_vars
  BY DEF ChecklistInv, AloneOK, SeedWrite
<1>2. QED BY <1>1, ChecklistInit, ChecklistNext, PTL DEF Spec, ProgressKept

=============================================================================
