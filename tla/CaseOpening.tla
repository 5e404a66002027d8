---------------------------- MODULE CaseOpening -----------------------------
(***************************************************************************)
(* How a sourcing case comes to be.                                        *)
(*                                                                         *)
(* POST /cases (backend/api/routers/launch.py) opens one for any part,     *)
(* under an id made from the part's name that no case directory has yet;   *)
(* the shortage detector (backend/detect/shortage_detector.py), run by     *)
(* cron, opens the case the ERP already knows for a part that runs short.  *)
(* Either then starts an agent session.  Nothing is locked: a handler or   *)
(* a detector pass is a process, and the machine may die between any two   *)
(* of its steps.  The detector is given a launch hook that starts a        *)
(* session.                                                                *)
(*                                                                         *)
(* A definition marked "Fault" is not part of the specification: it is     *)
(* what the definition after it must not become; the runs tell them apart. *)
(***************************************************************************)
EXTENDS Naturals, Sequences, FiniteSets

CONSTANTS
  Part,         \* the parts of the item master
  CaseId,       \* the names a case directory can have
  Named,        \* bound: the ids case_id_for tries for each part, in order (the code never stops)
  Known,        \* the ERP's own incidents: the case id of the parts that have one
  Actor,        \* threads of the API and passes of the detector
  MaxOpenings,  \* bound: openings and passes begun
  MaxDeaths     \* bound: deaths of the machine

ASSUME CaseOpeningAssumption ==
  /\ Named \in [Part -> Seq(CaseId)]
  /\ "none" \notin Part
  /\ \A p \in Part : \A i, j \in DOMAIN Named[p] : Named[p][i] = Named[p][j] => i = j
  /\ DOMAIN Known \subseteq Part
  /\ \A p \in DOMAIN Known : Known[p] \in CaseId
  /\ \A p, q \in DOMAIN Known : Known[p] = Known[q] => p = q
  /\ {MaxOpenings, MaxDeaths} \subseteq Nat

VARIABLES
  dirs,       \* the case directories
  incident,   \* incident.json: the part each case is about, by case
  planned,    \* cases with a checklist
  told,       \* cases whose event log tells of the shortage
  sessions,   \* the sessions that were started for each case
  job,        \* what each actor is in the middle of
  opened,     \* history: the cases that were handed to a caller of POST /cases
  openings,   \* how many openings and passes have begun
  deaths      \* how often the machine has died

vars == <<dirs, incident, planned, told, sessions, job, opened, openings, deaths>>

-----------------------------------------------------------------------------
None == "none"

Idle == [pc |-> "idle", alone |-> TRUE, part |-> None, id |-> None, todo |-> {}]

Init ==
  /\ dirs = {}
  /\ incident = [c \in CaseId |-> None]
  /\ planned = {}
  /\ told = {}
  /\ sessions = [c \in CaseId |-> 0]
  /\ job = [a \in Actor |-> Idle]
  /\ opened = <<>>
  /\ openings = 0
  /\ deaths = 0

\* Fault: the first name is taken even if it is in use.
CaseIdForReused(p, existing) == Named[p][1]

\* The first name for a case of `p` that is not in use.
CaseIdFor(p, existing) ==
  Named[p][CHOOSE n \in DOMAIN Named[p] :
             /\ Named[p][n] \notin existing
             /\ \A m \in 1..(n - 1) : Named[p][m] \in existing]

\* Fault: a case counts as open once it has an incident.json.
IsOpenWithIncident(c) == incident[c] # None

\* A case is open once it has a directory.
IsOpen(c) == c \in dirs

Busy == {a \in Actor : job[a].pc # "idle"}

\* An actor begins with the job `j`; `alone` is kept as history.
Begin(a, j) ==
  /\ a \notin Busy
  /\ openings < MaxOpenings
  /\ openings' = openings + 1
  /\ job' = [b \in Actor |->
               IF b = a THEN [j EXCEPT !.alone = (Busy = {})]
               ELSE IF b \in Busy THEN [job[b] EXCEPT !.alone = FALSE]
               ELSE job[b]]

Goto(a, pc) == job' = [job EXCEPT ![a].pc = pc]

-----------------------------------------------------------------------------
(***************************************************************************)
(* POST /cases.                                                            *)
(***************************************************************************)

\* The directories are listed and a name is chosen.
Open(a, p) ==
  /\ \E n \in DOMAIN Named[p] : Named[p][n] \notin dirs
  /\ Begin(a, [Idle EXCEPT !.pc = "incident", !.part = p, !.id = CaseIdFor(p, dirs)])
  /\ UNCHANGED <<dirs, incident, planned, told, sessions, opened, deaths>>

\* incident.json is written, which makes the directory.
WriteIncident(a) ==
  /\ job[a].pc = "incident"
  /\ dirs' = dirs \cup {job[a].id}
  /\ incident' = [incident EXCEPT ![job[a].id] = job[a].part]
  /\ Goto(a, "seed")
  /\ UNCHANGED <<planned, told, sessions, opened, openings, deaths>>

\* The checklist is seeded unless there is one.
SeedPlan(a) ==
  /\ job[a].pc = "seed"
  /\ planned' = planned \cup {job[a].id}
  /\ Goto(a, "tell")
  /\ UNCHANGED <<dirs, incident, told, sessions, opened, openings, deaths>>

\* Fault: the session is started before the shortage is told.
TellAfterwards(a) ==
  /\ job[a].pc = "tell"
  /\ Goto(a, "session")
  /\ UNCHANGED <<dirs, incident, planned, told, sessions, opened, openings, deaths>>

TellShortage(a) ==
  /\ job[a].pc = "tell"
  /\ told' = told \cup {job[a].id}
  /\ Goto(a, "session")
  /\ UNCHANGED <<dirs, incident, planned, sessions, opened, openings, deaths>>

\* The session is started, or a stub takes its place when there is no key or
\* the call fails; both are handed back, and both are told.
StartSession(a) ==
  /\ job[a].pc = "session"
  /\ \/ sessions' = [sessions EXCEPT ![job[a].id] = @ + 1]
     \/ UNCHANGED sessions
  /\ Goto(a, "answer")
  /\ UNCHANGED <<dirs, incident, planned, told, opened, openings, deaths>>

Answer(a) ==
  /\ job[a].pc = "answer"
  /\ opened' = Append(opened, [id |-> job[a].id, part |-> job[a].part, alone |-> job[a].alone])
  /\ job' = [job EXCEPT ![a] = Idle]
  /\ UNCHANGED <<dirs, incident, planned, told, sessions, openings, deaths>>

-----------------------------------------------------------------------------
(***************************************************************************)
(* One pass of the detector: run_once.                                     *)
(***************************************************************************)

\* scan finds the parts that run short and are in the ERP's incidents; those
\* whose case directory exists are left out.
Scan(a) ==
  /\ \E short \in SUBSET DOMAIN Known :
       Begin(a, [Idle EXCEPT !.pc = "next", !.todo = {p \in short : ~IsOpen(Known[p])}])
  /\ UNCHANGED <<dirs, incident, planned, told, sessions, opened, deaths>>

\* Each is opened in turn, unless it exists by now.
NextDetection(a) ==
  /\ job[a].pc = "next"
  /\ \E p \in job[a].todo :
       job' = [job EXCEPT ![a].todo = @ \ {p}, ![a].part = p, ![a].id = Known[p],
                          ![a].pc = IF IsOpen(Known[p]) THEN "next" ELSE "detected"]
  /\ UNCHANGED <<dirs, incident, planned, told, sessions, opened, openings, deaths>>

\* The first event makes the directory ...
TellDetected(a) ==
  /\ job[a].pc = "detected"
  /\ dirs' = dirs \cup {job[a].id}
  /\ told' = told \cup {job[a].id}
  /\ Goto(a, "launch")
  /\ UNCHANGED <<incident, planned, sessions, opened, openings, deaths>>

\* Fault: the session is left to the next pass.
LaunchLater(a) ==
  /\ job[a].pc = "launch"
  /\ Goto(a, "next")
  /\ UNCHANGED <<dirs, incident, planned, told, sessions, opened, openings, deaths>>

\* ... a second event and sourcing_case.yaml follow, then the launch hook.
Launch(a) ==
  /\ job[a].pc = "launch"
  /\ sessions' = [sessions EXCEPT ![job[a].id] = @ + 1]
  /\ Goto(a, "next")
  /\ UNCHANGED <<dirs, incident, planned, told, opened, openings, deaths>>

PassOver(a) ==
  /\ job[a].pc = "next"
  /\ job[a].todo = {}
  /\ job' = [job EXCEPT ![a] = Idle]
  /\ UNCHANGED <<dirs, incident, planned, told, sessions, opened, openings, deaths>>

-----------------------------------------------------------------------------
\* The machine dies and comes back; the case directories are on disk, and the
\* sessions run elsewhere.
Die ==
  /\ deaths < MaxDeaths
  /\ deaths' = deaths + 1
  /\ job' = [a \in Actor |-> Idle]
  /\ UNCHANGED <<dirs, incident, planned, told, sessions, opened, openings>>

OpenStep(a) ==
  \/ WriteIncident(a) \/ SeedPlan(a) \/ TellShortage(a) \/ StartSession(a) \/ Answer(a)

PassStep(a) == NextDetection(a) \/ TellDetected(a) \/ Launch(a) \/ PassOver(a)

Next ==
  \/ \E a \in Actor : OpenStep(a) \/ PassStep(a) \/ Scan(a) \/ \E p \in Part : Open(a, p)
  \/ Die

Spec == Init /\ [][Next]_vars

\* A handler or a pass that has begun goes on.
Fairness == \A a \in Actor : WF_vars(OpenStep(a) \/ PassStep(a))

FairSpec == Spec /\ Fairness

-----------------------------------------------------------------------------
TypeOK ==
  /\ dirs \subseteq CaseId
  /\ incident \in [CaseId -> Part \cup {None}]
  /\ planned \subseteq dirs
  /\ told \subseteq dirs
  /\ sessions \in [CaseId -> Nat]
  /\ job \in [Actor -> [pc    : {"idle", "incident", "seed", "tell", "session", "answer",
                                 "next", "detected", "launch"},
                        alone : BOOLEAN, part : Part \cup {None},
                        id    : CaseId \cup {None}, todo : SUBSET Part]]
  /\ opened \in Seq([id : CaseId, part : Part, alone : BOOLEAN])
  /\ openings \in Nat
  /\ deaths \in Nat

\* A case that was opened while nothing else was being opened is nobody else's:
\* no later opening gets its id, however names of parts and numbered ids collide
\* (case_id_for).
EachItsOwn ==
  \A i, j \in DOMAIN opened :
    i # j /\ opened[i].alone => opened[i].id # opened[j].id

\* A session is started only on a case that the API can resolve, whose event log
\* tells of the shortage: the agent is sent to /cases/<id> first (devin.py,
\* resolve.py).
SessionFindsCase ==
  \A c \in CaseId : sessions[c] > 0 =>
    /\ c \in told
    /\ incident[c] # None \/ \E p \in DOMAIN Known : Known[p] = c

\* "Idempotent.  Calling this twice for the same case does not produce two
\* cases; it is a cron job, so it will be called again" (shortage_detector.py):
\* a pass that overlaps nothing launches only what was never launched.
DetectorIdempotent ==
  [][\A a \in Actor : Launch(a) /\ job[a].alone => sessions[job[a].id] = 0]_vars

\* A detected case gets its session, unless the machine dies on the way to it.
DetectedIsLaunched ==
  \A c \in CaseId :
    (c \in told /\ incident[c] = None) ~> (sessions[c] > 0 \/ deaths > 0)

=============================================================================
