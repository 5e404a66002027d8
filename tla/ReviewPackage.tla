--------------------------- MODULE ReviewPackage ----------------------------
(***************************************************************************)
(* The review package of one case: POST /decide writes it file by file     *)
(* (backend/decide/run.py) and POST /publish_pr files it as a pull request *)
(* (backend/publish/github_pr.py), on the threads of a pool, without a     *)
(* lock, in a process that may die between two files or two calls.         *)
(*                                                                         *)
(* What a file says is abstracted to the state of knowledge it was derived *)
(* from: the number of claims on file when the decision was computed, 0    *)
(* for a file that is not there.                                           *)
(*                                                                         *)
(* A definition marked "Fault" is not part of the specification: it is     *)
(* what the definition after it must not become; the runs tell them apart. *)
(***************************************************************************)
EXTENDS Naturals, Sequences

CONSTANTS
  Artifacts,    \* the files of the package, in the order they are written
  Worker,       \* the threads of the API's pool
  MaxKnown,     \* bound: claims filed
  MaxRequests,  \* bound: requests made
  MaxDeaths,    \* bound: deaths of the API process
  MaxDay        \* bound: the dates a request may name

\* decision.json is the last file that is written.
ASSUME ReviewPackageAssumption ==
  /\ Artifacts \in Seq(STRING) \ {<<>>}
  /\ Artifacts[Len(Artifacts)] = "decision.json"
  /\ \A i, j \in DOMAIN Artifacts : Artifacts[i] = Artifacts[j] => i = j
  /\ {MaxKnown, MaxRequests, MaxDeaths} \subseteq Nat
  /\ MaxDay \in Nat \ {0}

VARIABLES
  known,      \* what the claims on file say, as a version
  file,       \* the version each file of the package was derived from
  link,       \* the pull request decision.json points to, 0 for none
  branches,   \* the days whose branch exists on GitHub
  prs,        \* the pull requests that were opened
  told,       \* the pull requests the event log tells of
  job,        \* the handler each worker is in the middle of
  requests,   \* how many requests have been made
  deaths      \* how often the process has died

vars == <<known, file, link, branches, prs, told, job, requests, deaths>>

-----------------------------------------------------------------------------
Artifact == {Artifacts[i] : i \in DOMAIN Artifacts}
Verdict == Artifacts[Len(Artifacts)]

Nothing == [a \in Artifact |-> 0]

Idle == [pc    |-> "idle",
         alone |-> TRUE,      \* history: no other handler was under way at the same time
         basis |-> 0,         \* decide: the version it computed; publish: decision.json as read
         todo  |-> <<>>,      \* the files it has yet to write or read
         got   |-> Nothing,   \* publish: the files it has read
         title |-> 0,         \* publish: the version the title was made from, then the number
                              \* of its pull request
         day   |-> 1]         \* publish: the date the request names

Init ==
  /\ known = 1
  /\ file = Nothing
  /\ link = 0
  /\ branches = {}
  /\ prs = <<>>
  /\ told = {}
  /\ job = [w \in Worker |-> Idle]
  /\ requests = 0
  /\ deaths = 0

Busy == {w \in Worker : job[w].pc # "idle"}

\* A free worker takes a request, which may name a date.
Begin(w, pc, day) ==
  /\ w \notin Busy
  /\ requests < MaxRequests
  /\ requests' = requests + 1
  /\ job' = [v \in Worker |->
               IF v = w THEN [Idle EXCEPT !.pc = pc, !.alone = (Busy = {}), !.todo = Artifacts, !.day = day]
               ELSE IF v \in Busy THEN [job[v] EXCEPT !.alone = FALSE]
               ELSE job[v]]
  /\ UNCHANGED <<known, file, link, branches, prs, told, deaths>>

\* The handler of `w` goes on to `pc`, or is over.
Goto(w, pc) == job' = [job EXCEPT ![w].pc = pc]
End(w) == job' = [job EXCEPT ![w] = Idle]

-----------------------------------------------------------------------------
(***************************************************************************)
(* POST /decide.                                                           *)
(***************************************************************************)
Decide(w) == Begin(w, "read", 1)

\* The claims are read once; screening and pricing are computed from them.
DecideRead(w) ==
  /\ job[w].pc = "read"
  /\ job' = [job EXCEPT ![w].pc = "write", ![w].basis = known]
  /\ UNCHANGED <<known, file, link, branches, prs, told, requests, deaths>>

\* Fault: a file that is there already is left alone.
DecideWriteMissing(w) ==
  /\ job[w].pc = "write"
  /\ LET a == Head(job[w].todo)
     IN  /\ file' = [file EXCEPT ![a] = IF @ = 0 \/ a = Verdict THEN job[w].basis ELSE @]
         /\ link' = IF a = Verdict THEN 0 ELSE link
  /\ job' = [job EXCEPT ![w].todo = Tail(@),
                        ![w].pc = IF Len(job[w].todo) = 1 THEN "decided" ELSE "write"]
  /\ UNCHANGED <<known, branches, prs, told, requests, deaths>>

\* Each file is replaced in turn.  The new decision.json names no pull request.
DecideWrite(w) ==
  /\ job[w].pc = "write"
  /\ LET a == Head(job[w].todo)
     IN  /\ file' = [file EXCEPT ![a] = job[w].basis]
         /\ link' = IF a = Verdict THEN 0 ELSE link
  /\ job' = [job EXCEPT ![w].todo = Tail(@),
                        ![w].pc = IF Len(job[w].todo) = 1 THEN "decided" ELSE "write"]
  /\ UNCHANGED <<known, branches, prs, told, requests, deaths>>

\* The decision is told to the event log and returned.
DecideEnd(w) ==
  /\ job[w].pc = "decided"
  /\ End(w)
  /\ UNCHANGED <<known, file, link, branches, prs, told, requests, deaths>>

-----------------------------------------------------------------------------
(***************************************************************************)
(* POST /publish_pr.                                                       *)
(***************************************************************************)
Publish(w) == \E day \in 1..MaxDay : Begin(w, "collect", day)

\* The files are read one by one; those that are missing are left out.
Collect(w) ==
  /\ job[w].pc = "collect"
  /\ LET a == Head(job[w].todo)
     IN  job' = [job EXCEPT ![w].got[a] = file[a],
                            ![w].todo = Tail(@),
                            ![w].pc = IF Len(job[w].todo) = 1 THEN "title" ELSE "collect"]
  /\ UNCHANGED <<known, file, link, branches, prs, told, requests, deaths>>

\* Without a single file there is nothing to publish: 409.
NothingToPublish(w) ==
  /\ job[w].pc = "title"
  /\ job[w].got = Nothing
  /\ End(w)
  /\ UNCHANGED <<known, file, link, branches, prs, told, requests, deaths>>

\* Fault: the title is made from the first file of the package.
TitleFromFirst(w) ==
  /\ job[w].pc = "title"
  /\ job[w].got # Nothing
  /\ job' = [job EXCEPT ![w].pc = "stored", ![w].title = job[w].got[Artifacts[1]]]
  /\ UNCHANGED <<known, file, link, branches, prs, told, requests, deaths>>

\* decision.json is read again for the title ...
Title(w) ==
  /\ job[w].pc = "title"
  /\ job[w].got # Nothing
  /\ job' = [job EXCEPT ![w].pc = "stored", ![w].title = file[Verdict]]
  /\ UNCHANGED <<known, file, link, branches, prs, told, requests, deaths>>

\* ... and a third time, as what will be stored with the link.
Stored(w) ==
  /\ job[w].pc = "stored"
  /\ job' = [job EXCEPT ![w].pc = "push", ![w].basis = file[Verdict]]
  /\ UNCHANGED <<known, file, link, branches, prs, told, requests, deaths>>

\* No token or no repository: the request ends with what it would have pushed.
\* A call to GitHub fails: the request ends in an error.
GiveUp(w) ==
  /\ job[w].pc \in {"push", "open"}
  /\ End(w)
  /\ UNCHANGED <<known, file, link, branches, prs, told, requests, deaths>>

\* Fault: a branch that exists is moved to the new commit.
PushAgain(w) ==
  /\ job[w].pc = "push"
  /\ branches' = branches \cup {job[w].day}
  /\ Goto(w, "open")
  /\ UNCHANGED <<known, file, link, prs, told, requests, deaths>>

\* The commit is pushed as the branch of the date, which must not exist.
Push(w) ==
  /\ job[w].pc = "push"
  /\ job[w].day \notin branches
  /\ branches' = branches \cup {job[w].day}
  /\ Goto(w, "open")
  /\ UNCHANGED <<known, file, link, prs, told, requests, deaths>>

\* The pull request is opened.
OpenPr(w) ==
  /\ job[w].pc = "open"
  /\ prs' = Append(prs, [files |-> job[w].got, title |-> job[w].title, day |-> job[w].day])
  /\ job' = [job EXCEPT ![w].pc = "tell", ![w].title = Len(prs) + 1]
  /\ UNCHANGED <<known, file, link, branches, told, requests, deaths>>

\* It is told to the event log ...
Tell(w) ==
  /\ job[w].pc = "tell"
  /\ told' = told \cup {job[w].title}
  /\ Goto(w, "link")
  /\ UNCHANGED <<known, file, link, branches, prs, requests, deaths>>

\* Fault: what is stored is the state of the first file that was published.
LinkPublished(w) ==
  /\ job[w].pc = "link"
  /\ file' = [file EXCEPT ![Verdict] = job[w].got[Artifacts[1]]]
  /\ link' = job[w].title
  /\ End(w)
  /\ UNCHANGED <<known, branches, prs, told, requests, deaths>>

\* ... and the decision that was read is stored with the link, if there was one.
Link(w) ==
  /\ job[w].pc = "link"
  /\ IF job[w].basis = 0
     THEN UNCHANGED <<file, link>>
     ELSE file' = [file EXCEPT ![Verdict] = job[w].basis] /\ link' = job[w].title
  /\ End(w)
  /\ UNCHANGED <<known, branches, prs, told, requests, deaths>>

-----------------------------------------------------------------------------
\* A claim is filed.
Learn ==
  /\ known < MaxKnown
  /\ known' = known + 1
  /\ UNCHANGED <<file, link, branches, prs, told, job, requests, deaths>>

\* The API process dies; what is on disk and on GitHub stays.
Die ==
  /\ deaths < MaxDeaths
  /\ deaths' = deaths + 1
  /\ job' = [w \in Worker |-> Idle]
  /\ UNCHANGED <<known, file, link, branches, prs, told, requests>>

DecideStep(w) == DecideRead(w) \/ DecideWrite(w) \/ DecideEnd(w)

PublishStep(w) ==
  \/ Collect(w) \/ NothingToPublish(w) \/ Title(w) \/ Stored(w)
  \/ GiveUp(w) \/ Push(w) \/ OpenPr(w) \/ Tell(w) \/ Link(w)

Next ==
  \/ \E w \in Worker : Decide(w) \/ DecideStep(w) \/ Publish(w) \/ PublishStep(w)
  \/ Learn \/ Die

Spec == Init /\ [][Next]_vars

-----------------------------------------------------------------------------
PullRequest == [files : [Artifact -> Nat], title : Nat, day : Nat]

TypeOK ==
  /\ known \in Nat
  /\ file \in [Artifact -> Nat]
  /\ link \in 0..Len(prs)
  /\ branches \subseteq 1..MaxDay
  /\ prs \in Seq(PullRequest)
  /\ told \subseteq DOMAIN prs
  /\ job \in [Worker -> [pc    : {"idle", "read", "write", "decided", "collect", "title",
                                  "stored", "push", "open", "tell", "link"},
                         alone : BOOLEAN, basis : Nat, todo : Seq(Artifact),
                         got   : [Artifact -> Nat], title : Nat, day : 1..MaxDay]]
  /\ requests \in Nat
  /\ deaths \in Nat

\* "Every run rewrites the same artifacts" (run.py): a decide that no other
\* handler overlapped leaves a package of one piece, whatever deaths and
\* overlaps left behind before it.
DecideRepairs ==
  [][\A w \in Worker : DecideEnd(w) /\ job[w].alone =>
       \A a \in Artifact : file[a] = job[w].basis]_vars

\* A pull request that no other handler overlapped shows the package as it is
\* in the case directory, title and files alike (github_pr.py).
PrShowsPackage ==
  [][\A w \in Worker : OpenPr(w) /\ job[w].alone =>
       /\ job[w].got = file
       /\ job[w].title = file[Verdict]]_vars

\* Storing the link changes nothing else of the decision, unless a decide
\* overlapped the publishing of it (github_pr.py).
LinkKeepsDecision ==
  [][\A w \in Worker : Link(w) /\ job[w].alone => file' = file]_vars

\* A case has at most one pull request a day, however often publishing is
\* retried and however handlers overlap: the branch carries the date.
OnePrPerDay ==
  \A i, j \in DOMAIN prs : prs[i].day = prs[j].day => i = j

=============================================================================
