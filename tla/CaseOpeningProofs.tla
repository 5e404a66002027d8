------------------------- MODULE CaseOpeningProofs --------------------------
(***************************************************************************)
(* Theorems about CaseOpening, for any parts, names, actors and bounds.    *)
(*                                                                         *)
(* The directory of a case stands for everything that was ever done about  *)
(* it: who is handed a case, or sent to it, has one.  A name is chosen     *)
(* among those without a directory, and by the time somebody who was alone *)
(* hands it out it has one, so nobody else comes by it before or after.    *)
(***************************************************************************)
EXTENDS CaseOpening, SequenceTheorems, WellFoundedInduction, TLAPS

-----------------------------------------------------------------------------
(* Extreme numbers.                                                        *)

\* A set of natural numbers has a least element.
LEMMA LeastNatural ==
  ASSUME NEW T \in SUBSET Nat, T # {}
  PROVE  \E x \in T : \A y \in T : x <= y
<1> DEFINE R == OpToRel(<, Nat)
<1>1. IsWellFoundedOn(R, Nat)
  BY NatLessThanWellFounded
<1>2. PICK x \in T : \A y \in T : ~(<<y, x>> \in R)
  <2> HIDE DEF R
  <2>1. QED BY <1>1, WFMin
<1>3. \A y \in T : ~(y < x)
  BY <1>2 DEF OpToRel
<1>4. QED BY <1>3


-----------------------------------------------------------------------------
Opening == {"incident", "seed", "tell", "session", "answer"}

Job == [pc    : Opening \cup {"idle", "next", "detected", "launch"},
        alone : BOOLEAN, part : Part \cup {None},
        id    : CaseId \cup {None}, todo : SUBSET Part]

Entry == [id : CaseId, part : Part, alone : BOOLEAN]

\* The API can resolve the case.
Resolved(c) == incident[c] # None \/ \E p \in DOMAIN Known : Known[p] = c

\* What actor `a` is in the middle of, seen against the case directories.
JobOK(a) ==
  /\ job[a].pc \in Opening =>
       /\ job[a].id \in CaseId /\ job[a].part \in Part
       /\ \A i \in DOMAIN opened :
            opened[i].alone \/ job[a].alone => opened[i].id # job[a].id
  /\ job[a].pc = "incident" /\ job[a].alone => job[a].id \notin dirs
  /\ job[a].pc \in Opening \ {"incident"} => job[a].id \in dirs /\ incident[job[a].id] # None
  /\ job[a].pc \in {"session", "answer"} => job[a].id \in told
  /\ job[a].pc \in {"next", "detected", "launch"} => job[a].todo \subseteq DOMAIN Known
  /\ job[a].pc \in {"detected", "launch"} =>
       /\ job[a].id \in CaseId /\ Resolved(job[a].id)
       /\ job[a].alone => sessions[job[a].id] = 0
  /\ job[a].pc = "launch" => job[a].id \in told
  /\ job[a].pc # "idle" /\ job[a].alone => \A b \in Actor \ {a} : job[b].pc = "idle"

OpenedOK == \A i \in DOMAIN opened : opened[i].id \in dirs

OpeningInv ==
  /\ TypeOK /\ OpenedOK /\ EachItsOwn /\ SessionFindsCase
  /\ \A a \in Actor : JobOK(a)

-----------------------------------------------------------------------------
\* The name that is chosen is one of the part's, and not in use.
LEMMA CaseIdForFresh ==
  ASSUME NEW p \in Part, NEW existing, \E n \in DOMAIN Named[p] : Named[p][n] \notin existing
  PROVE  CaseIdFor(p, existing) \in CaseId /\ CaseIdFor(p, existing) \notin existing
<1>1. Named[p] \in Seq(CaseId)
  BY CaseOpeningAssumption
<1>2. PICK free : free = {n \in DOMAIN Named[p] : Named[p][n] \notin existing}
  OBVIOUS
<1>3. free \in SUBSET Nat /\ free # {}
  BY <1>1, <1>2
<1>4. PICK n \in free : \A m \in free : n <= m
  BY <1>3, LeastNatural
<1>5. n \in DOMAIN Named[p] /\ Named[p][n] \notin existing
  BY <1>2
<1>6. \A m \in 1..(n - 1) : Named[p][m] \in existing
  <2>1. SUFFICES ASSUME NEW m \in 1..(n - 1) PROVE m \notin free /\ m \in DOMAIN Named[p]
    BY <1>2
  <2>2. n \in 1..Len(Named[p]) /\ Len(Named[p]) \in Nat
    BY <1>1, <1>5
  <2>3. m \in Nat /\ m < n /\ m \in DOMAIN Named[p]
    BY <1>1, <2>2
  <2>4. QED BY <1>3, <1>4, <2>2, <2>3
<1>7. PICK k : k = CHOOSE n_1 \in DOMAIN Named[p] :
                     /\ Named[p][n_1] \notin existing
                     /\ \A m \in 1..(n_1 - 1) : Named[p][m] \in existing
  OBVIOUS
<1>8. k \in DOMAIN Named[p] /\ Named[p][k] \notin existing
  BY <1>5, <1>6, <1>7
<1>9. CaseIdFor(p, existing) = Named[p][k]
  BY <1>7 DEF CaseIdFor
<1>10. QED BY <1>1, <1>8, <1>9

LEMMA JobShape ==
  ASSUME OpeningInv, NEW a \in Actor
  PROVE  /\ job[a] \in Job /\ JobOK(a) /\ DOMAIN job = Actor
         /\ \A j : job' = [job EXCEPT ![a] = j] =>
              job'[a] = j /\ \A b \in Actor \ {a} : job'[b] = job[b]
BY DEF OpeningInv, TypeOK, Job, Opening

\* A step of actor `a` that hands out no case: the others go on as they were,
\* whatever is added to the directories.
LEMMA StepOK ==
  ASSUME OpeningInv, NEW a \in Actor, NEW j \in Job,
         job[a].pc # "idle", job' = [job EXCEPT ![a] = j],
         UNCHANGED <<openings, deaths>>, opened' = opened,
         dirs \subseteq dirs', told \subseteq told', planned' \subseteq dirs', told' \subseteq dirs',
         dirs' \subseteq CaseId,
         incident' \in [CaseId -> Part \cup {None}], sessions' \in [CaseId -> Nat],
         \A c \in CaseId : incident[c] # None => incident'[c] # None,
         \A c \in CaseId : sessions'[c] > 0 => sessions[c] > 0 \/ (c \in told' /\ Resolved(c)'),
         JobOK(a)'
  PROVE  OpeningInv'
<1>1. job'[a] = j /\ \A b \in Actor \ {a} : job'[b] = job[b]
  BY JobShape
<1>2. \A b \in Actor \ {a} : JobOK(b)'
  <2>1. SUFFICES ASSUME NEW b \in Actor, b # a PROVE JobOK(b)'
    OBVIOUS
  <2>2. JobOK(b) /\ job'[b] = job[b] /\ a \in Actor \ {b}
    BY <1>1, JobShape, <2>1
  <2>3. job[b].alone => job[b].pc = "idle"
    BY <2>2 DEF JobOK
  <2>4. QED BY <2>2, <2>3 DEF JobOK, Resolved, Opening
<1>3. \A b \in Actor : JobOK(b)'
  BY <1>2
<1>4. TypeOK'
  <2>1. job' \in [Actor -> Job]
    BY DEF OpeningInv, TypeOK, Job, Opening
  <2>2. QED BY <2>1 DEF OpeningInv, TypeOK, Job, Opening
<1>5. OpenedOK' /\ EachItsOwn'
  BY DEF OpeningInv, OpenedOK, EachItsOwn
<1>6. SessionFindsCase'
  BY DEF OpeningInv, SessionFindsCase, Resolved
<1>7. QED BY <1>3, <1>4, <1>5, <1>6 DEF OpeningInv

\* An actor begins.
LEMMA BeginOK ==
  ASSUME OpeningInv, NEW a \in Actor, NEW j \in Job, Begin(a, j),
         UNCHANGED <<dirs, incident, planned, told, sessions, opened, deaths>>,
         \/ j.pc = "next" /\ j.todo \subseteq DOMAIN Known
         \/ j.pc = "incident" /\ j.part \in Part /\ j.id \in CaseId \ dirs
  PROVE  OpeningInv'
<1>1. PICK k : k = [j EXCEPT !.alone = (Busy = {})]
  OBVIOUS
<1>2. /\ k \in Job /\ k.pc = j.pc /\ k.part = j.part /\ k.id = j.id /\ k.todo = j.todo
      /\ k.alone = (Busy = {})
  BY <1>1 DEF Job
<1>3. /\ a \notin Busy /\ openings' = openings + 1
      /\ job' = [b \in Actor |-> IF b = a THEN k
                                 ELSE IF b \in Busy THEN [job[b] EXCEPT !.alone = FALSE] ELSE job[b]]
  BY <1>1 DEF Begin
<1>4. \A b \in Actor : job[b] \in Job /\ JobOK(b)
  BY JobShape
<1>5. \A b \in Actor \ {a} :
        /\ job'[b] \in Job
        /\ job'[b].pc = job[b].pc /\ job'[b].part = job[b].part
        /\ job'[b].id = job[b].id /\ job'[b].todo = job[b].todo
        /\ job'[b].alone => job[b].pc = "idle"
  BY <1>3, <1>4 DEF Busy, Job
<1>6. \A b \in Actor \ {a} : JobOK(b)'
  <2>1. SUFFICES ASSUME NEW b \in Actor \ {a} PROVE JobOK(b)'
    OBVIOUS
  <2>2. QED BY <1>4, <1>5 DEF JobOK, Resolved, Opening
<1>7. job'[a] = k /\ (k.alone => \A b \in Actor \ {a} : job'[b].pc = "idle")
  BY <1>2, <1>3, <1>5 DEF Busy
<1>8. JobOK(a)'
  BY <1>2, <1>7 DEF JobOK, Opening, OpeningInv, OpenedOK
<1>9. TypeOK'
  <2>1. \A b \in Actor : job'[b] \in Job
    BY <1>2, <1>5, <1>7
  <2>2. job' \in [Actor -> Job]
    BY <1>3, <2>1
  <2>3. openings' \in Nat
    BY <1>3 DEF OpeningInv, TypeOK
  <2>4. QED BY <2>2, <2>3 DEF OpeningInv, TypeOK, Job, Opening
<1>10. QED BY <1>6, <1>8, <1>9 DEF OpeningInv, OpenedOK, EachItsOwn, SessionFindsCase

-----------------------------------------------------------------------------
(* The steps of POST /cases.                                               *)

\* The job `a` goes on with when only its place changes.
LEMMA MoveShape ==
  ASSUME OpeningInv, NEW a \in Actor, NEW pc \in Opening \cup {"next", "launch"}, Goto(a, pc)
  PROVE  \E j \in Job :
           /\ job' = [job EXCEPT ![a] = j] /\ job'[a] = j
           /\ j.pc = pc /\ j.alone = job[a].alone /\ j.part = job[a].part
           /\ j.id = job[a].id /\ j.todo = job[a].todo
           /\ \A b \in Actor \ {a} : job'[b] = job[b]
<1>1. PICK j : j = [job[a] EXCEPT !.pc = pc]
  OBVIOUS
<1>2. job' = [job EXCEPT ![a] = j]
  BY <1>1 DEF Goto
<1>3. job[a] \in Job
  BY JobShape
<1>4. /\ j \in Job /\ j.pc = pc /\ j.alone = job[a].alone /\ j.part = job[a].part
      /\ j.id = job[a].id /\ j.todo = job[a].todo
  BY <1>1, <1>3 DEF Job
<1>5. QED BY <1>2, <1>4, JobShape

LEMMA TypeShape ==
  ASSUME OpeningInv
  PROVE  /\ dirs \subseteq CaseId /\ incident \in [CaseId -> Part \cup {None}]
         /\ planned \subseteq dirs /\ told \subseteq dirs /\ sessions \in [CaseId -> Nat]
         /\ opened \in Seq(Entry) /\ None \notin Part
BY CaseOpeningAssumption DEF OpeningInv, TypeOK, Entry, None

LEMMA OpenOK == ASSUME OpeningInv, NEW a \in Actor, NEW p \in Part, Open(a, p) PROVE OpeningInv'
<1>1. CaseIdFor(p, dirs) \in CaseId \ dirs
  BY CaseIdForFresh DEF Open
<1>2. PICK j : j = [Idle EXCEPT !.pc = "incident", !.part = p, !.id = CaseIdFor(p, dirs)]
  OBVIOUS
<1>3. j \in Job /\ j.pc = "incident" /\ j.part = p /\ j.id = CaseIdFor(p, dirs)
  BY <1>1, <1>2 DEF Idle, Job, Opening
<1>4. Begin(a, j) /\ UNCHANGED <<dirs, incident, planned, told, sessions, opened, deaths>>
  BY <1>2 DEF Open
<1>5. QED BY <1>1, <1>3, <1>4, BeginOK

LEMMA WriteIncidentOK == ASSUME OpeningInv, NEW a \in Actor, WriteIncident(a) PROVE OpeningInv'
<1>1. /\ job[a].pc = "incident" /\ UNCHANGED <<planned, told, sessions, opened, openings, deaths>>
      /\ dirs' = dirs \cup {job[a].id} /\ incident' = [incident EXCEPT ![job[a].id] = job[a].part]
  BY DEF WriteIncident
<1>2. PICK j \in Job :
        /\ job' = [job EXCEPT ![a] = j] /\ job'[a] = j
        /\ j.pc = "seed" /\ j.alone = job[a].alone /\ j.part = job[a].part
        /\ j.id = job[a].id /\ j.todo = job[a].todo
        /\ \A b \in Actor \ {a} : job'[b] = job[b]
  BY MoveShape DEF WriteIncident, Opening
<1>3. JobOK(a) /\ job[a].id \in CaseId /\ job[a].part \in Part
  BY <1>1, JobShape DEF JobOK, Opening
<1>4. /\ incident' \in [CaseId -> Part \cup {None}] /\ incident'[job[a].id] # None
      /\ \A c \in CaseId : incident[c] # None => incident'[c] # None
      /\ dirs' \subseteq CaseId /\ dirs \subseteq dirs' /\ planned \subseteq dirs' /\ told \subseteq dirs'
  BY <1>1, <1>3, TypeShape
<1>5. JobOK(a)'
  BY <1>1, <1>2, <1>3, <1>4 DEF JobOK, Opening
<1>6. QED BY <1>1, <1>2, <1>4, <1>5, TypeShape, StepOK

LEMMA SeedPlanOK == ASSUME OpeningInv, NEW a \in Actor, SeedPlan(a) PROVE OpeningInv'
<1>1. /\ job[a].pc = "seed" /\ UNCHANGED <<dirs, incident, told, sessions, opened, openings, deaths>>
      /\ planned' = planned \cup {job[a].id}
  BY DEF SeedPlan
<1>2. PICK j \in Job :
        /\ job' = [job EXCEPT ![a] = j] /\ job'[a] = j
        /\ j.pc = "tell" /\ j.alone = job[a].alone /\ j.part = job[a].part
        /\ j.id = job[a].id /\ j.todo = job[a].todo
        /\ \A b \in Actor \ {a} : job'[b] = job[b]
  BY MoveShape DEF SeedPlan, Opening
<1>3. JobOK(a) /\ job[a].id \in dirs
  BY <1>1, JobShape DEF JobOK, Opening
<1>4. JobOK(a)'
  BY <1>1, <1>2, <1>3 DEF JobOK, Opening
<1>5. QED BY <1>1, <1>2, <1>3, <1>4, TypeShape, StepOK

LEMMA TellShortageOK == ASSUME OpeningInv, NEW a \in Actor, TellShortage(a) PROVE OpeningInv'
<1>1. /\ job[a].pc = "tell" /\ UNCHANGED <<dirs, incident, planned, sessions, opened, openings, deaths>>
      /\ told' = told \cup {job[a].id}
  BY DEF TellShortage
<1>2. PICK j \in Job :
        /\ job' = [job EXCEPT ![a] = j] /\ job'[a] = j
        /\ j.pc = "session" /\ j.alone = job[a].alone /\ j.part = job[a].part
        /\ j.id = job[a].id /\ j.todo = job[a].todo
        /\ \A b \in Actor \ {a} : job'[b] = job[b]
  BY MoveShape DEF TellShortage, Opening
<1>3. JobOK(a) /\ job[a].id \in dirs
  BY <1>1, JobShape DEF JobOK, Opening
<1>4. JobOK(a)'
  BY <1>1, <1>2, <1>3 DEF JobOK, Opening
<1>5. QED BY <1>1, <1>2, <1>3, <1>4, TypeShape, StepOK

\* A session is started on a case that has been told and has an incident.
LEMMA StartSessionOK == ASSUME OpeningInv, NEW a \in Actor, StartSession(a) PROVE OpeningInv'
<1>1. /\ job[a].pc = "session" /\ UNCHANGED <<dirs, incident, planned, told, opened, openings, deaths>>
      /\ sessions' = [sessions EXCEPT ![job[a].id] = @ + 1] \/ sessions' = sessions
  BY DEF StartSession
<1>2. PICK j \in Job :
        /\ job' = [job EXCEPT ![a] = j] /\ job'[a] = j
        /\ j.pc = "answer" /\ j.alone = job[a].alone /\ j.part = job[a].part
        /\ j.id = job[a].id /\ j.todo = job[a].todo
        /\ \A b \in Actor \ {a} : job'[b] = job[b]
  BY MoveShape DEF StartSession, Opening
<1>3. /\ JobOK(a) /\ job[a].id \in told /\ job[a].id \in CaseId /\ incident[job[a].id] # None
  BY <1>1, JobShape DEF JobOK, Opening
<1>4. /\ sessions' \in [CaseId -> Nat]
      /\ \A c \in CaseId : sessions'[c] > 0 => sessions[c] > 0 \/ c = job[a].id
  BY <1>1, <1>3, TypeShape
<1>5. JobOK(a)'
  BY <1>1, <1>2, <1>3 DEF JobOK, Opening
<1>6. Resolved(job[a].id)'
  BY <1>1, <1>2, <1>3 DEF Resolved
<1>7. QED BY <1>1, <1>2, <1>3, <1>4, <1>5, <1>6, TypeShape, StepOK DEF Resolved

\* A case is handed out under a name nobody was given who was alone, and if this
\* opening was alone, under a name nobody was given at all.
LEMMA AnswerOK == ASSUME OpeningInv, NEW a \in Actor, Answer(a) PROVE OpeningInv'
<1>1. /\ job[a].pc = "answer" /\ UNCHANGED <<dirs, incident, planned, told, sessions, openings, deaths>>
      /\ job' = [job EXCEPT ![a] = Idle]
  BY DEF Answer
<1>2. PICK e : e = [id |-> job[a].id, part |-> job[a].part, alone |-> job[a].alone]
  OBVIOUS
<1>3. JobOK(a) /\ job[a] \in Job /\ job[a].id \in CaseId /\ job[a].part \in Part /\ job[a].id \in dirs
  BY <1>1, JobShape DEF JobOK, Opening
<1>4. e \in Entry /\ e.id = job[a].id /\ e.alone = job[a].alone
  BY <1>2, <1>3 DEF Entry, Job
<1>5. opened' = Append(opened, e)
  BY <1>2 DEF Answer
<1>6. /\ opened' \in Seq(Entry) /\ DOMAIN opened' = 1..(Len(opened) + 1) /\ Len(opened) \in Nat
      /\ DOMAIN opened = 1..Len(opened)
      /\ opened'[Len(opened) + 1] = e /\ \A i \in 1..Len(opened) : opened'[i] = opened[i]
  BY <1>4, <1>5, TypeShape, AppendProperties
<1>7. OpenedOK'
  BY <1>1, <1>3, <1>4, <1>6 DEF OpeningInv, OpenedOK
<1>8. \A i \in DOMAIN opened : opened[i].alone \/ e.alone => opened[i].id # e.id
  BY <1>1, <1>3, <1>4 DEF JobOK, Opening
<1>9. EachItsOwn'
  <2>1. SUFFICES ASSUME NEW i \in DOMAIN opened', NEW k \in DOMAIN opened', i # k, opened'[i].alone
                 PROVE  opened'[i].id # opened'[k].id
    BY DEF EachItsOwn
  <2>2. CASE i \in DOMAIN opened /\ k \in DOMAIN opened
    BY <1>6, <2>1, <2>2 DEF OpeningInv, EachItsOwn
  <2>3. CASE i \in DOMAIN opened /\ k = Len(opened) + 1
    BY <1>6, <1>8, <2>1, <2>3
  <2>4. CASE i = Len(opened) + 1 /\ k \in DOMAIN opened
    BY <1>6, <1>8, <2>1, <2>4
  <2>5. QED BY <1>6, <2>1, <2>2, <2>3, <2>4
<1>10. \A b \in Actor \ {a} : JobOK(b)'
  <2>1. SUFFICES ASSUME NEW b \in Actor, b # a PROVE JobOK(b)'
    OBVIOUS
  <2>2. JobOK(b) /\ job'[b] = job[b] /\ a \in Actor \ {b}
    BY <1>1, JobShape, <2>1
  <2>3. job[b].alone => job[b].pc = "idle"
    BY <1>1, <2>2 DEF JobOK
  <2>4. e.alone => job[b].pc = "idle"
    BY <1>1, <1>3, <1>4, <2>1 DEF JobOK
  <2>5. ASSUME job[b].pc \in Opening
        PROVE  \A i \in DOMAIN opened' : opened'[i].alone => opened'[i].id # job[b].id
    BY <1>6, <2>2, <2>4, <2>5 DEF JobOK, Opening
  <2>6. QED BY <1>1, <2>2, <2>3, <2>5 DEF JobOK, Resolved, Opening
<1>11. Idle \in Job /\ Idle.pc = "idle" /\ job'[a] = Idle
  BY <1>1, JobShape DEF Idle, Job
<1>12. JobOK(a)'
  BY <1>11 DEF JobOK, Opening
<1>13. TypeOK'
  <2>1. job' \in [Actor -> Job]
    BY <1>1, <1>11 DEF OpeningInv, TypeOK, Job, Opening
  <2>2. QED BY <1>1, <1>6, <2>1 DEF OpeningInv, TypeOK, Job, Opening, Entry
<1>14. SessionFindsCase'
  BY <1>1 DEF OpeningInv, SessionFindsCase
<1>15. QED BY <1>7, <1>9, <1>10, <1>12, <1>13, <1>14 DEF OpeningInv

-----------------------------------------------------------------------------
(* The steps of a detector pass.                                           *)

LEMMA ScanOK == ASSUME OpeningInv, NEW a \in Actor, Scan(a) PROVE OpeningInv'
<1>1. PICK short \in SUBSET DOMAIN Known :
        Begin(a, [Idle EXCEPT !.pc = "next", !.todo = {p \in short : ~IsOpen(Known[p])}])
  BY DEF Scan
<1>2. PICK j : j = [Idle EXCEPT !.pc = "next", !.todo = {p \in short : ~IsOpen(Known[p])}]
  OBVIOUS
<1>3. j \in Job /\ j.pc = "next" /\ j.todo \subseteq DOMAIN Known
  <2>1. PICK todo : todo = {p \in short : ~IsOpen(Known[p])}
    OBVIOUS
  <2>2. todo \subseteq DOMAIN Known /\ todo \subseteq Part
    BY <2>1, CaseOpeningAssumption
  <2>3. j = [Idle EXCEPT !.pc = "next", !.todo = todo]
    BY <1>2, <2>1
  <2>4. QED BY <2>2, <2>3 DEF Idle, Job, Opening
<1>4. Begin(a, j) /\ UNCHANGED <<dirs, incident, planned, told, sessions, opened, deaths>>
  BY <1>1, <1>2 DEF Scan
<1>5. QED BY <1>3, <1>4, BeginOK

\* A case without a directory has no session.
LEMMA NextDetectionOK == ASSUME OpeningInv, NEW a \in Actor, NextDetection(a) PROVE OpeningInv'
<1>1. job[a].pc = "next" /\ UNCHANGED <<dirs, incident, planned, told, sessions, opened, openings, deaths>>
  BY DEF NextDetection
<1>2. PICK p \in job[a].todo :
        job' = [job EXCEPT ![a].todo = @ \ {p}, ![a].part = p, ![a].id = Known[p],
                           ![a].pc = IF IsOpen(Known[p]) THEN "next" ELSE "detected"]
  BY DEF NextDetection
<1>3. JobOK(a) /\ job[a] \in Job /\ p \in DOMAIN Known /\ p \in Part /\ Known[p] \in CaseId
  BY <1>1, JobShape, CaseOpeningAssumption DEF JobOK
<1>4. PICK pc \in {"next", "detected"} : pc = IF IsOpen(Known[p]) THEN "next" ELSE "detected"
  OBVIOUS
<1>5. PICK j : j = [job[a] EXCEPT !.todo = @ \ {p}, !.part = p, !.id = Known[p], !.pc = pc]
  OBVIOUS
<1>6. job' = [job EXCEPT ![a] = j]
  BY <1>2, <1>4, <1>5
<1>7. /\ j \in Job /\ j.pc = pc /\ j.todo = job[a].todo \ {p} /\ j.id = Known[p]
      /\ j.alone = job[a].alone
  BY <1>3, <1>5 DEF Job
<1>8. pc = "detected" => sessions[Known[p]] = 0
  <2>1. ASSUME pc = "detected" PROVE Known[p] \notin told
    BY <1>4, <2>1, TypeShape DEF IsOpen
  <2>2. QED BY <1>3, <2>1, TypeShape DEF OpeningInv, SessionFindsCase
<1>9. job'[a] = j /\ \A b \in Actor \ {a} : job'[b] = job[b]
  BY <1>6, JobShape
<1>10. Resolved(Known[p])'
  BY <1>3 DEF Resolved
<1>11. JobOK(a)'
  BY <1>1, <1>3, <1>7, <1>8, <1>9, <1>10 DEF JobOK, Opening
<1>12. QED BY <1>1, <1>6, <1>7, <1>11, TypeShape, StepOK

LEMMA TellDetectedOK == ASSUME OpeningInv, NEW a \in Actor, TellDetected(a) PROVE OpeningInv'
<1>1. /\ job[a].pc = "detected" /\ UNCHANGED <<incident, planned, sessions, opened, openings, deaths>>
      /\ dirs' = dirs \cup {job[a].id} /\ told' = told \cup {job[a].id}
  BY DEF TellDetected
<1>2. PICK j \in Job :
        /\ job' = [job EXCEPT ![a] = j] /\ job'[a] = j
        /\ j.pc = "launch" /\ j.alone = job[a].alone /\ j.part = job[a].part
        /\ j.id = job[a].id /\ j.todo = job[a].todo
        /\ \A b \in Actor \ {a} : job'[b] = job[b]
  BY MoveShape DEF TellDetected
<1>3. JobOK(a) /\ job[a].id \in CaseId
  BY <1>1, JobShape DEF JobOK
<1>4. JobOK(a)'
  BY <1>1, <1>2, <1>3 DEF JobOK, Opening, Resolved
<1>5. dirs' \subseteq CaseId
  BY <1>1, <1>3, TypeShape
<1>6. dirs \subseteq dirs' /\ told \subseteq told' /\ planned' \subseteq dirs' /\ told' \subseteq dirs'
  BY <1>1, TypeShape
<1>7. incident' \in [CaseId -> Part \cup {None}] /\ sessions' \in [CaseId -> Nat]
  BY <1>1, TypeShape
<1>8. QED BY <1>1, <1>2, <1>4, <1>5, <1>6, <1>7, StepOK

LEMMA LaunchOK == ASSUME OpeningInv, NEW a \in Actor, Launch(a) PROVE OpeningInv'
<1>1. /\ job[a].pc = "launch" /\ UNCHANGED <<dirs, incident, planned, told, opened, openings, deaths>>
      /\ sessions' = [sessions EXCEPT ![job[a].id] = @ + 1]
  BY DEF Launch
<1>2. PICK j \in Job :
        /\ job' = [job EXCEPT ![a] = j] /\ job'[a] = j
        /\ j.pc = "next" /\ j.alone = job[a].alone /\ j.part = job[a].part
        /\ j.id = job[a].id /\ j.todo = job[a].todo
        /\ \A b \in Actor \ {a} : job'[b] = job[b]
  BY MoveShape DEF Launch
<1>3. JobOK(a) /\ job[a].id \in told /\ job[a].id \in CaseId /\ Resolved(job[a].id)
  BY <1>1, JobShape DEF JobOK
<1>4. /\ sessions' \in [CaseId -> Nat]
      /\ \A c \in CaseId : sessions'[c] > 0 => sessions[c] > 0 \/ c = job[a].id
  BY <1>1, <1>3, TypeShape
<1>5. JobOK(a)'
  BY <1>1, <1>2, <1>3 DEF JobOK, Opening
<1>6. Resolved(job[a].id)'
  BY <1>1, <1>2, <1>3 DEF Resolved
<1>7. QED BY <1>1, <1>2, <1>3, <1>4, <1>5, <1>6, TypeShape, StepOK DEF Resolved

LEMMA PassOverOK == ASSUME OpeningInv, NEW a \in Actor, PassOver(a) PROVE OpeningInv'
<1>1. /\ job[a].pc = "next" /\ UNCHANGED <<dirs, incident, planned, told, sessions, opened, openings, deaths>>
      /\ job' = [job EXCEPT ![a] = Idle]
  BY DEF PassOver
<1>2. Idle \in Job /\ Idle.pc = "idle" /\ job'[a] = Idle
  BY <1>1, JobShape DEF Idle, Job
<1>3. JobOK(a)'
  BY <1>2 DEF JobOK, Opening
<1>4. QED BY <1>1, <1>2, <1>3, TypeShape, StepOK

-----------------------------------------------------------------------------
LEMMA OpeningNext == OpeningInv /\ [Next]_vars => OpeningInv'
<1> SUFFICES ASSUME OpeningInv, [Next]_vars PROVE OpeningInv'
  OBVIOUS
<1>1. ASSUME NEW a \in Actor, OpenStep(a) PROVE OpeningInv'
  BY <1>1, WriteIncidentOK, SeedPlanOK, TellShortageOK, StartSessionOK, AnswerOK DEF OpenStep
<1>2. ASSUME NEW a \in Actor, PassStep(a) PROVE OpeningInv'
  BY <1>2, NextDetectionOK, TellDetectedOK, LaunchOK, PassOverOK DEF PassStep
<1>3. CASE Die
  <2>1. /\ deaths' = deaths + 1 /\ job' = [a \in Actor |-> Idle]
        /\ UNCHANGED <<dirs, incident, planned, told, sessions, opened, openings>>
    BY <1>3 DEF Die
  <2>2. Idle \in Job /\ Idle.pc = "idle"
    BY DEF Idle, Job
  <2>3. \A a \in Actor : JobOK(a)'
    BY <2>1, <2>2 DEF JobOK, Opening
  <2>4. job' \in [Actor -> Job]
    BY <2>1, <2>2
  <2>5. TypeOK'
    BY <2>1, <2>4 DEF OpeningInv, TypeOK, Job, Opening
  <2>6. QED BY <2>1, <2>3, <2>5 DEF OpeningInv, OpenedOK, EachItsOwn, SessionFindsCase
<1>4. CASE UNCHANGED vars
  <2>1. \A a \in Actor : JobOK(a)'
    BY <1>4 DEF vars, OpeningInv, JobOK, Resolved
  <2>2. QED BY <1>4, <2>1 DEF vars, OpeningInv, TypeOK, OpenedOK, EachItsOwn, SessionFindsCase
<1>5. QED BY <1>1, <1>2, <1>3, <1>4, OpenOK, ScanOK DEF Next

LEMMA OpeningInit == Init => OpeningInv
<1> SUFFICES ASSUME Init PROVE OpeningInv
  OBVIOUS
<1>1. Idle \in Job /\ Idle.pc = "idle"
  BY DEF Idle, Job
<1>2. job \in [Actor -> Job] /\ \A a \in Actor : job[a].pc = "idle"
  BY <1>1 DEF Init
<1>3. \A a \in Actor : JobOK(a)
  BY <1>2 DEF JobOK, Opening
<1>4. opened \in Seq(Entry) /\ DOMAIN opened = {}
  BY DEF Init
<1>5. QED
  BY <1>2, <1>3, <1>4
  DEF Init, OpeningInv, TypeOK, OpenedOK, EachItsOwn, SessionFindsCase, Job, Opening, Entry

-----------------------------------------------------------------------------
\* Every variable stays of its type; a checklist and an event log are only ever
\* written where there is a directory (case_store.py).
THEOREM OpeningTypeCorrect == Spec => []TypeOK
<1>1. OpeningInv => TypeOK
  BY DEF OpeningInv
<1>2. QED BY <1>1, OpeningInit, OpeningNext, PTL DEF Spec

\* A case opened while nothing else was being opened is nobody else's, however
\* names of parts and numbered ids collide (case_id_for, backend/launch/incident.py).
THEOREM EachItsOwnHolds == Spec => []EachItsOwn
<1>1. OpeningInv => EachItsOwn
  BY DEF OpeningInv
<1>2. QED BY <1>1, OpeningInit, OpeningNext, PTL DEF Spec

\* A session is started only on a case that the API can resolve and whose log
\* tells of the shortage (open_case, backend/api/routers/launch.py).
THEOREM SessionFindsCaseHolds == Spec => []SessionFindsCase
<1>1. OpeningInv => SessionFindsCase
  BY DEF OpeningInv
<1>2. QED BY <1>1, OpeningInit, OpeningNext, PTL DEF Spec

\* A pass of the detector that overlaps nothing launches only what was never
\* launched (run_once, backend/detect/shortage_detector.py).
THEOREM DetectorIdempotentHolds == Spec => DetectorIdempotent
<1>1. OpeningInv /\ [Next]_vars =>
        [\A a \in Actor : Launch(a) /\ job[a].alone => sessions[job[a].id] = 0]_vars
  <2> SUFFICES ASSUME OpeningInv, NEW a \in Actor, Launch(a), job[a].alone
               PROVE  sessions[job[a].id] = 0
    OBVIOUS
  <2>1. QED BY JobShape DEF Launch, JobOK
<1>2. QED BY <1>1, OpeningInit, OpeningNext, PTL DEF Spec, DetectorIdempotent

=============================================================================
