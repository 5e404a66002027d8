------------------------ MODULE ReviewPackageProofs -------------------------
(***************************************************************************)
(* Theorems about ReviewPackage, for any files, threads, dates and bounds. *)
(*                                                                         *)
(* A handler that is marked alone is the only one under way: whoever joins *)
(* it takes the mark away.  So while it is alone nobody but itself changes *)
(* a file, and what it has written or read so far (the part of the package *)
(* before its place in Artifacts) still is what is on disk.  That gives    *)
(* the three action properties.  One pull request a day rests on the       *)
(* branches instead: the day of every pull request has its branch, and a   *)
(* handler about to open one is the only one to have pushed that branch.   *)
(***************************************************************************)
EXTENDS ReviewPackage, SequenceTheorems, TLAPS

-----------------------------------------------------------------------------
Job == [pc    : {"idle", "read", "write", "decided", "collect", "title",
                 "stored", "push", "open", "tell", "link"},
        alone : BOOLEAN, basis : Nat, todo : Seq(Artifact),
        got   : [Artifact -> Nat], title : Nat, day : 1..MaxDay]

Last == Len(Artifacts)

\* `todo` is what is left of the package from its n-th file on.
From(todo, n) == todo = SubSeq(Artifacts, n, Last)

\* What a handler that is alone has written or read is what is on disk.
Agrees(j, n) ==
  \A m \in 1..(n - 1) :
    file[Artifacts[m]] = IF j.pc = "write" THEN j.basis ELSE j.got[Artifacts[m]]

\* The handler `w` is in the middle of, seen against disk, GitHub and log.
JobOK(w) ==
  /\ job[w].pc = "read" => job[w].todo = Artifacts
  /\ job[w].pc \in {"write", "collect"} =>
       \E n \in 1..Last : From(job[w].todo, n) /\ (job[w].alone => Agrees(job[w], n))
  /\ job[w].alone =>
       /\ job[w].pc # "idle" => \A v \in Worker \ {w} : job[v].pc = "idle"
       /\ job[w].pc = "decided" => \A a \in Artifact : file[a] = job[w].basis
       /\ job[w].pc \in {"title", "stored", "push", "open"} => job[w].got = file
       /\ job[w].pc \in {"push", "open"} => job[w].title = file[Verdict]
       /\ job[w].pc = "stored" => job[w].title = file[Verdict]
       /\ job[w].pc \in {"push", "open", "tell", "link"} => job[w].basis = file[Verdict]
  /\ job[w].pc = "open" =>
       /\ job[w].day \in branches
       /\ \A i \in DOMAIN prs : prs[i].day # job[w].day
  /\ job[w].pc \in {"tell", "link"} => job[w].title \in DOMAIN prs
  /\ job[w].pc = "link" => job[w].title \in told

\* The day of a pull request has its branch, and nobody shares the day a pull
\* request is about to be opened for.
DaysInv ==
  /\ \A i \in DOMAIN prs : prs[i].day \in branches
  /\ \A v, w \in Worker :
       job[v].pc = "open" /\ job[w].pc = "open" /\ job[v].day = job[w].day => v = w

\* The pull request decision.json links to is told in the event log.
LinkIsTold == link # 0 => link \in told

PackageInv == TypeOK /\ (\A w \in Worker : JobOK(w)) /\ DaysInv /\ OnePrPerDay /\ LinkIsTold

-----------------------------------------------------------------------------
LEMMA VerdictIsArtifact ==
  /\ Artifacts \in Seq(STRING) /\ Last \in Nat \ {0}
  /\ Verdict \in Artifact /\ Verdict = Artifacts[Last]
  /\ \A n \in 1..Last : Artifacts[n] \in Artifact
<1>1. Artifacts \in Seq(STRING) /\ Artifacts # <<>>
  BY ReviewPackageAssumption
<1>2. Last \in Nat \ {0} /\ DOMAIN Artifacts = 1..Last
  BY <1>1 DEF Last
<1>3. QED BY <1>1, <1>2 DEF Artifact, Verdict, Last

\* The place of a handler in the package: its next file, and what follows it.
LEMMA Place ==
  ASSUME NEW todo, NEW n \in 1..Last, From(todo, n)
  PROVE  /\ todo \in Seq(Artifact) /\ todo # <<>>
         /\ Head(todo) = Artifacts[n] /\ Artifacts[n] \in Artifact
         /\ Tail(todo) \in Seq(Artifact)
         /\ Len(todo) = 1 <=> n = Last
         /\ n # Last => n + 1 \in 1..Last /\ From(Tail(todo), n + 1)
<1>1. Artifacts \in Seq(Artifact) /\ Last \in Nat \ {0} /\ Last = Len(Artifacts)
  <2>1. DOMAIN Artifacts = 1..Last
    BY VerdictIsArtifact DEF Last
  <2>2. QED BY <2>1, VerdictIsArtifact DEF Last
<1>2. /\ todo \in Seq(Artifact) /\ Len(todo) = Last - n + 1
      /\ \A i \in 1..(Last - n + 1) : todo[i] = Artifacts[n + i - 1]
  BY <1>1 DEF From
<1>3. todo # <<>> /\ Head(todo) = Artifacts[n] /\ Artifacts[n] \in Artifact
  BY <1>1, <1>2, VerdictIsArtifact
<1>4. /\ Tail(todo) \in Seq(Artifact) /\ Len(Tail(todo)) = Last - n
      /\ \A i \in 1..(Last - n) : Tail(todo)[i] = todo[i + 1]
  <2>1. /\ Tail(todo) \in Seq(Artifact) /\ Len(Tail(todo)) = Len(todo) - 1
        /\ \A i \in 1..Len(Tail(todo)) : Tail(todo)[i] = todo[i + 1]
    BY <1>2, <1>3, HeadTailProperties
  <2>2. Len(todo) - 1 = Last - n
    BY <1>1, <1>2
  <2>3. QED BY <2>1, <2>2
<1>5. ASSUME n # Last PROVE From(Tail(todo), n + 1)
  <2>1. n + 1 \in 1..Last
    BY <1>1, <1>5
  <2>2. PICK rest : rest = SubSeq(Artifacts, n + 1, Last)
    OBVIOUS
  <2>3. /\ rest \in Seq(Artifact) /\ Len(rest) = Last - n
        /\ \A i \in 1..(Last - n) : rest[i] = Artifacts[n + i]
    BY <1>1, <2>1, <2>2
  <2>4. \A i \in 1..(Last - n) : Tail(todo)[i] = rest[i]
    <3>1. SUFFICES ASSUME NEW i \in 1..(Last - n) PROVE Tail(todo)[i] = rest[i]
      OBVIOUS
    <3>2. i + 1 \in 1..(Last - n + 1) /\ n + (i + 1) - 1 = n + i
      BY <1>1
    <3>3. QED BY <1>2, <1>4, <2>3, <3>2
  <2>5. Tail(todo) = rest
    BY <1>1, <1>4, <2>3, <2>4, SMTT(40)
  <2>6. QED BY <2>2, <2>5 DEF From
<1>6. QED BY <1>1, <1>2, <1>3, <1>4, <1>5

-----------------------------------------------------------------------------
\* What a step of the handler of `w` does, whatever it is: `j` is the job it goes
\* on with, and pull requests are opened by a handler that is about to.
Goes(w, j) ==
  /\ job[w].pc # "idle"
  /\ job' = [job EXCEPT ![w] = j]
  /\ branches \subseteq branches'
  /\ told \subseteq told'
  /\ \/ prs' = prs
     \/ job[w].pc = "open" /\ \E pr \in PullRequest : pr.day = job[w].day /\ prs' = Append(prs, pr)

\* The other handlers: one of them that is alone would be idle, and the others
\* care about days, pull requests and the log only.
LEMMA OthersOK ==
  ASSUME PackageInv, NEW w \in Worker, NEW j \in Job, Goes(w, j)
  PROVE  \A v \in Worker \ {w} : JobOK(v)'
<1> SUFFICES ASSUME NEW v \in Worker, v # w PROVE JobOK(v)'
  OBVIOUS
<1>1. job[v] \in Job /\ job[w] \in Job /\ JobOK(v) /\ prs \in Seq(PullRequest)
  BY DEF PackageInv, TypeOK, Job
<1>2. job'[v] = job[v] /\ w \in Worker \ {v} /\ job[w].pc # "idle"
  BY <1>1 DEF Goes, PackageInv, TypeOK
<1>3. job[v].alone => job[v].pc = "idle"
  BY <1>1, <1>2 DEF JobOK
<1>4. ASSUME job[v].pc \in {"write", "collect"}
      PROVE  \E n \in 1..Last : From(job[v].todo, n)
  BY <1>1, <1>4 DEF JobOK
<1>5. DOMAIN prs \subseteq DOMAIN prs'
  BY <1>1 DEF Goes
<1>6. ASSUME job[v].pc = "open"
      PROVE  job[v].day \in branches' /\ \A i \in DOMAIN prs' : prs'[i].day # job[v].day
  <2>1. job[v].day \in branches /\ \A i \in DOMAIN prs : prs[i].day # job[v].day
    BY <1>1, <1>6 DEF JobOK
  <2>2. CASE prs' = prs
    BY <2>1, <2>2 DEF Goes
  <2>3. ASSUME job[w].pc = "open", NEW pr \in PullRequest, pr.day = job[w].day, prs' = Append(prs, pr)
        PROVE  \A i \in DOMAIN prs' : prs'[i].day # job[v].day
    <3>1. job[v].day # job[w].day
      BY <1>6, <2>3 DEF PackageInv, DaysInv
    <3>2. DOMAIN prs' = 1..(Len(prs) + 1) /\ prs'[Len(prs) + 1] = pr
          /\ \A i \in 1..Len(prs) : prs'[i] = prs[i]
      BY <1>1, <2>3, AppendProperties
    <3>3. DOMAIN prs = 1..Len(prs) /\ Len(prs) \in Nat
      BY <1>1
    <3>4. QED BY <2>1, <2>3, <3>1, <3>2, <3>3
  <2>4. QED BY <2>1, <2>2, <2>3 DEF Goes
<1>7. told \subseteq told'
  BY DEF Goes
<1>8. QED BY <1>1, <1>2, <1>3, <1>4, <1>5, <1>6, <1>7 DEF JobOK, From

\* A step that opens nothing and pushes nothing.
LEMMA QuietOK ==
  ASSUME PackageInv, NEW w \in Worker, NEW j \in Job,
         job[w].pc # "idle", job' = [job EXCEPT ![w] = j],
         UNCHANGED <<branches, prs, requests, deaths>>, j.pc # "open",
         known' \in Nat, file' \in [Artifact -> Nat], link' \in 0..Len(prs),
         told \subseteq told', told' \subseteq DOMAIN prs,
         link' # 0 => link' \in told',
         JobOK(w)'
  PROVE  PackageInv'
<1>1. Goes(w, j)
  BY DEF Goes
<1>2. \A v \in Worker : JobOK(v)'
  BY <1>1, OthersOK
<1>3. TypeOK'
  BY DEF PackageInv, TypeOK, Job
<1>4. DaysInv'
  <2>1. \A v \in Worker : job'[v].pc = "open" => job'[v] = job[v]
    BY DEF PackageInv, TypeOK
  <2>2. QED BY <2>1 DEF PackageInv, DaysInv
<1>5. QED BY <1>2, <1>3, <1>4 DEF PackageInv, OnePrPerDay, LinkIsTold

\* The end of a handler.
LEMMA EndOK ==
  ASSUME PackageInv, NEW w \in Worker, job[w].pc # "idle", End(w),
         UNCHANGED <<known, branches, prs, told, requests, deaths>>,
         file' \in [Artifact -> Nat], link' \in 0..Len(prs), link' # 0 => link' \in told
  PROVE  PackageInv'
<1>1. Idle \in Job /\ Idle.pc = "idle" /\ job' = [job EXCEPT ![w] = Idle]
  BY ReviewPackageAssumption DEF Idle, Job, Nothing, End
<1>2. job'[w] = Idle
  BY <1>1 DEF PackageInv, TypeOK
<1>3. JobOK(w)'
  BY <1>1, <1>2 DEF JobOK
<1>4. known \in Nat /\ told \subseteq DOMAIN prs
  BY DEF PackageInv, TypeOK
<1>5. QED BY <1>1, <1>3, <1>4, QuietOK

-----------------------------------------------------------------------------
(* The steps, one handler at a time.                                       *)

LEMMA JobShape ==
  ASSUME PackageInv, NEW w \in Worker
  PROVE  /\ job[w] \in Job /\ JobOK(w)
         /\ known \in Nat /\ file \in [Artifact -> Nat] /\ link \in 0..Len(prs)
         /\ prs \in Seq(PullRequest) /\ told \subseteq DOMAIN prs
         /\ link # 0 => link \in told
         /\ \A j : job' = [job EXCEPT ![w] = j] => job'[w] = j
BY DEF PackageInv, TypeOK, Job, LinkIsTold

LEMMA BeginOK ==
  ASSUME PackageInv, NEW w \in Worker, NEW pc \in {"read", "collect"}, NEW day \in 1..MaxDay,
         Begin(w, pc, day)
  PROVE  PackageInv'
<1>1. UNCHANGED <<known, file, link, branches, prs, told, deaths>> /\ requests' = requests + 1
  BY DEF Begin
<1>2. PICK j : j = [Idle EXCEPT !.pc = pc, !.alone = (Busy = {}), !.todo = Artifacts, !.day = day]
  OBVIOUS
<1>3. job' = [v \in Worker |-> IF v = w THEN j
                               ELSE IF v \in Busy THEN [job[v] EXCEPT !.alone = FALSE] ELSE job[v]]
  BY <1>2 DEF Begin
<1>4. Artifacts \in Seq(Artifact)
  <2>1. DOMAIN Artifacts = 1..Last
    BY VerdictIsArtifact DEF Last
  <2>2. QED BY <2>1, VerdictIsArtifact DEF Last
<1>5. /\ j \in Job /\ j.pc = pc /\ j.alone = (Busy = {}) /\ j.todo = Artifacts /\ j.day = day
  BY <1>2, <1>4 DEF Idle, Job, Nothing
<1>6. \A v \in Worker : job[v] \in Job /\ JobOK(v)
  BY DEF PackageInv, TypeOK, Job
<1>7. \A v \in Worker \ {w} :
        /\ job'[v] \in Job
        /\ job'[v].pc = job[v].pc /\ job'[v].basis = job[v].basis /\ job'[v].todo = job[v].todo
        /\ job'[v].got = job[v].got /\ job'[v].title = job[v].title /\ job'[v].day = job[v].day
        /\ job'[v].alone => job[v].pc = "idle"
  BY <1>3, <1>6 DEF Busy, Job
<1>8. \A v \in Worker \ {w} : JobOK(v)'
  <2>1. SUFFICES ASSUME NEW v \in Worker \ {w} PROVE JobOK(v)'
    OBVIOUS
  <2>2. JobOK(v)
    BY <1>6
  <2>3. ASSUME job[v].pc \in {"write", "collect"} PROVE \E n \in 1..Last : From(job[v].todo, n)
    BY <2>2, <2>3 DEF JobOK
  <2>4. QED BY <1>1, <1>7, <2>2, <2>3 DEF JobOK, From
<1>9. JobOK(w)'
  <2>1. From(j.todo, 1) /\ 1 \in 1..Last
    BY <1>4, <1>5, VerdictIsArtifact DEF From, Last
  <2>2. \A i \in 1..(1 - 1) : FALSE
    OBVIOUS
  <2>3. j.alone => \A v \in Worker \ {w} : job'[v].pc = "idle"
    BY <1>5, <1>7 DEF Busy
  <2>4. job'[w] = j
    BY <1>3
  <2>5. Agrees(j, 1)'
    BY <2>2 DEF Agrees
  <2>6. QED BY <1>5, <2>1, <2>3, <2>4, <2>5 DEF JobOK, Agrees, From
<1>10. TypeOK'
  <2>1. job' \in [Worker -> Job]
    BY <1>3, <1>5, <1>7
  <2>2. QED BY <1>1, <2>1 DEF PackageInv, TypeOK, Job
<1>11. DaysInv'
  BY <1>1, <1>3, <1>5, <1>7 DEF PackageInv, DaysInv
<1>12. QED BY <1>1, <1>8, <1>9, <1>10, <1>11 DEF PackageInv, OnePrPerDay, LinkIsTold

LEMMA DecideReadOK == ASSUME PackageInv, NEW w \in Worker, DecideRead(w) PROVE PackageInv'
<1>1. PICK j : j = [job[w] EXCEPT !.pc = "write", !.basis = known]
  OBVIOUS
<1>2. job' = [job EXCEPT ![w] = j] /\ job[w].pc = "read"
  BY <1>1 DEF DecideRead
<1>3. j \in Job /\ j.pc = "write" /\ j.todo = Artifacts /\ j.alone = job[w].alone
  BY <1>1, <1>2, JobShape DEF Job, JobOK
<1>4. From(Artifacts, 1) /\ 1 \in 1..Last /\ \A i \in 1..(1 - 1) : FALSE
  BY VerdictIsArtifact DEF From, Last
<1>5. JobOK(w)'
  <2>1. job'[w] = j /\ JobOK(w)
    BY <1>2, JobShape
  <2>2. \A v \in Worker \ {w} : job'[v] = job[v]
    BY <1>2 DEF PackageInv, TypeOK
  <2>3. QED BY <1>2, <1>3, <1>4, <2>1, <2>2, ZenonT(40) DEF JobOK, Agrees, From
<1>6. QED
  BY <1>2, <1>3, <1>5, JobShape, QuietOK DEF DecideRead

LEMMA DecideWriteOK == ASSUME PackageInv, NEW w \in Worker, DecideWrite(w) PROVE PackageInv'
<1>1. job[w].pc = "write"
  BY DEF DecideWrite
<1>2. PICK n \in 1..Last : From(job[w].todo, n) /\ (job[w].alone => Agrees(job[w], n))
  BY <1>1, JobShape DEF JobOK
<1>3. PICK j : j = [job[w] EXCEPT !.todo = Tail(@),
                                  !.pc = IF Len(job[w].todo) = 1 THEN "decided" ELSE "write"]
  OBVIOUS
<1>4. job' = [job EXCEPT ![w] = j]
  BY <1>3 DEF DecideWrite
<1>5. /\ j \in Job /\ j.basis = job[w].basis /\ j.alone = job[w].alone /\ j.todo = Tail(job[w].todo)
      /\ j.pc = IF n = Last THEN "decided" ELSE "write"
  <2>1. job[w] \in Job /\ (Len(job[w].todo) = 1 <=> n = Last) /\ Tail(job[w].todo) \in Seq(Artifact)
    BY <1>2, JobShape, Place
  <2>2. QED BY <1>3, <2>1 DEF Job
<1>6. /\ file' = [file EXCEPT ![Artifacts[n]] = job[w].basis] /\ Artifacts[n] \in Artifact
      /\ link' = IF Artifacts[n] = Verdict THEN 0 ELSE link
  BY <1>2, JobShape, Place DEF DecideWrite
<1>7. file' \in [Artifact -> Nat] /\ link' \in 0..Len(prs) /\ (link' # 0 => link' \in told)
  BY <1>6, JobShape DEF Job
<1>8. ASSUME job[w].alone PROVE \A m \in 1..n : file'[Artifacts[m]] = job[w].basis
  <2>1. \A m \in 1..(n - 1) : file[Artifacts[m]] = job[w].basis
    BY <1>1, <1>2, <1>8 DEF Agrees
  <2>2. \A m \in 1..n : Artifacts[m] \in Artifact
    BY VerdictIsArtifact
  <2>3. QED BY <1>6, <2>1, <2>2, JobShape
<1>9. JobOK(w)'
  <2>1. job'[w] = j /\ JobOK(w) /\ \A v \in Worker \ {w} : job'[v] = job[v]
    BY <1>4, JobShape DEF PackageInv, TypeOK
  <2>2. ASSUME n # Last PROVE n + 1 \in 1..Last /\ From(j.todo, n + 1) /\ n + 1 - 1 = n
    BY <1>2, <1>5, <2>2, Place, VerdictIsArtifact
  <2>3. ASSUME n = Last, job[w].alone PROVE \A a \in Artifact : file'[a] = j.basis
    <3>1. \A a \in Artifact : \E m \in 1..Last : a = Artifacts[m]
      BY VerdictIsArtifact DEF Artifact, Last
    <3>2. QED BY <1>5, <1>8, <2>3, <3>1
  <2>4. ASSUME n # Last PROVE JobOK(w)'
    <3>1. j.pc = "write"
      BY <1>5, <2>4
    <3>2. j.alone => Agrees(j, n + 1)'
      BY <1>5, <1>8, <2>2, <2>4, <3>1 DEF Agrees
    <3>3. n + 1 \in 1..Last /\ From(j.todo, n + 1)
      BY <2>2, <2>4
    <3>4. \E m \in 1..Last : From(j.todo, m) /\ (j.alone => Agrees(j, m)')
      BY <3>2, <3>3
    <3>5. (\E m \in 1..Last : From(job[w].todo, m) /\ (job[w].alone => Agrees(job[w], m)))'
      BY <2>1, <3>4 DEF From, Agrees
    <3>6. job'[w].pc = j.pc /\ (j.alone => \A v \in Worker \ {w} : job'[v].pc = "idle")
      BY <1>1, <1>5, <2>1 DEF JobOK
    <3>7. QED BY <2>1, <3>1, <3>5, <3>6 DEF JobOK
  <2>5. ASSUME n = Last PROVE JobOK(w)'
    BY <1>1, <1>5, <2>1, <2>3, <2>5 DEF JobOK
  <2>6. QED BY <2>4, <2>5
<1>10. QED
  BY <1>1, <1>4, <1>5, <1>7, <1>9, JobShape, QuietOK DEF DecideWrite

LEMMA CollectOK == ASSUME PackageInv, NEW w \in Worker, Collect(w) PROVE PackageInv'
<1>1. job[w].pc = "collect" /\ UNCHANGED <<known, file, link, branches, prs, told, requests, deaths>>
  BY DEF Collect
<1>2. PICK n \in 1..Last : From(job[w].todo, n) /\ (job[w].alone => Agrees(job[w], n))
  BY <1>1, JobShape DEF JobOK
<1>3. Head(job[w].todo) = Artifacts[n] /\ Artifacts[n] \in Artifact
  BY <1>2, Place
<1>4. PICK j : j = [job[w] EXCEPT !.got = [@ EXCEPT ![Artifacts[n]] = file[Artifacts[n]]],
                                  !.todo = Tail(@),
                                  !.pc = IF Len(job[w].todo) = 1 THEN "title" ELSE "collect"]
  OBVIOUS
<1>5. job' = [job EXCEPT ![w] = j]
  BY <1>3, <1>4, JobShape DEF Collect, Job
<1>6. /\ j \in Job /\ j.alone = job[w].alone /\ j.todo = Tail(job[w].todo)
      /\ j.got = [job[w].got EXCEPT ![Artifacts[n]] = file[Artifacts[n]]]
      /\ j.pc = IF n = Last THEN "title" ELSE "collect"
  <2>1. job[w] \in Job /\ (Len(job[w].todo) = 1 <=> n = Last) /\ Tail(job[w].todo) \in Seq(Artifact)
    BY <1>2, JobShape, Place
  <2>2. file[Artifacts[n]] \in Nat
    BY <1>3, JobShape
  <2>3. job[w].got \in [Artifact -> Nat]
    BY <2>1 DEF Job
  <2>4. PICK got : got = [job[w].got EXCEPT ![Artifacts[n]] = file[Artifacts[n]]]
    OBVIOUS
  <2>5. got \in [Artifact -> Nat]
    BY <2>2, <2>3, <2>4
  <2>6. j = [job[w] EXCEPT !.got = got, !.todo = Tail(job[w].todo),
                           !.pc = IF Len(job[w].todo) = 1 THEN "title" ELSE "collect"]
    BY <1>4, <2>4
  <2>7. QED BY <2>1, <2>4, <2>5, <2>6 DEF Job
<1>7. ASSUME job[w].alone PROVE \A m \in 1..n : file[Artifacts[m]] = j.got[Artifacts[m]]
  <2>1. \A m \in 1..(n - 1) : file[Artifacts[m]] = job[w].got[Artifacts[m]]
    BY <1>1, <1>2, <1>7 DEF Agrees
  <2>2. \A m \in 1..n : Artifacts[m] \in Artifact
    BY VerdictIsArtifact
  <2>3. job[w].got \in [Artifact -> Nat]
    BY JobShape DEF Job
  <2>4. QED BY <1>6, <2>1, <2>2, <2>3
<1>8. JobOK(w)'
  <2>1. job'[w] = j /\ JobOK(w) /\ \A v \in Worker \ {w} : job'[v] = job[v]
    BY <1>5, JobShape DEF PackageInv, TypeOK
  <2>2. ASSUME n # Last PROVE n + 1 \in 1..Last /\ From(j.todo, n + 1) /\ n + 1 - 1 = n
    BY <1>2, <1>6, <2>2, Place, VerdictIsArtifact
  <2>3. ASSUME n = Last, job[w].alone PROVE j.got = file
    <3>1. \A a \in Artifact : \E m \in 1..Last : a = Artifacts[m]
      BY VerdictIsArtifact DEF Artifact, Last
    <3>2. \A a \in Artifact : j.got[a] = file[a]
      BY <1>7, <2>3, <3>1
    <3>3. j.got \in [Artifact -> Nat] /\ file \in [Artifact -> Nat]
      BY <1>6, JobShape DEF Job
    <3>4. QED BY <3>2, <3>3
  <2>4. ASSUME n # Last PROVE JobOK(w)'
    <3>1. j.pc = "collect"
      BY <1>6, <2>4
    <3>2. j.alone => Agrees(j, n + 1)'
      BY <1>1, <1>6, <1>7, <2>2, <2>4, <3>1 DEF Agrees
    <3>3. n + 1 \in 1..Last /\ From(j.todo, n + 1)
      BY <2>2, <2>4
    <3>4. \E m \in 1..Last : From(j.todo, m) /\ (j.alone => Agrees(j, m)')
      BY <3>2, <3>3
    <3>5. (\E m \in 1..Last : From(job[w].todo, m) /\ (job[w].alone => Agrees(job[w], m)))'
      BY <2>1, <3>4 DEF From, Agrees
    <3>6. job'[w].pc = j.pc /\ (j.alone => \A v \in Worker \ {w} : job'[v].pc = "idle")
      BY <1>1, <1>6, <2>1 DEF JobOK
    <3>7. QED BY <2>1, <3>1, <3>5, <3>6 DEF JobOK
  <2>5. ASSUME n = Last PROVE JobOK(w)'
    BY <1>1, <1>6, <2>1, <2>3, <2>5 DEF JobOK
  <2>6. QED BY <2>4, <2>5
<1>9. QED
  BY <1>1, <1>5, <1>6, <1>8, JobShape, QuietOK

\* The steps that read decision.json, and the one that tells.
LEMMA TitleOK == ASSUME PackageInv, NEW w \in Worker, Title(w) PROVE PackageInv'
<1>1. job[w].pc = "title" /\ UNCHANGED <<known, file, link, branches, prs, told, requests, deaths>>
  BY DEF Title
<1>2. PICK j : j = [job[w] EXCEPT !.pc = "stored", !.title = file[Verdict]]
  OBVIOUS
<1>3. job' = [job EXCEPT ![w] = j]
  BY <1>2 DEF Title
<1>4. /\ j \in Job /\ j.alone = job[w].alone /\ j.got = job[w].got
      /\ j.pc = "stored" /\ j.title = file[Verdict]
  BY <1>2, JobShape, VerdictIsArtifact DEF Job
<1>5. JobOK(w)'
  <2>1. job'[w] = j /\ JobOK(w) /\ \A v \in Worker \ {w} : job'[v] = job[v]
    BY <1>3, JobShape DEF PackageInv, TypeOK
  <2>2. QED BY <1>1, <1>4, <2>1 DEF JobOK
<1>6. QED BY <1>1, <1>3, <1>4, <1>5, JobShape, QuietOK

LEMMA StoredOK == ASSUME PackageInv, NEW w \in Worker, Stored(w) PROVE PackageInv'
<1>1. job[w].pc = "stored" /\ UNCHANGED <<known, file, link, branches, prs, told, requests, deaths>>
  BY DEF Stored
<1>2. PICK j : j = [job[w] EXCEPT !.pc = "push", !.basis = file[Verdict]]
  OBVIOUS
<1>3. job' = [job EXCEPT ![w] = j]
  BY <1>2 DEF Stored
<1>4. /\ j \in Job /\ j.alone = job[w].alone /\ j.got = job[w].got /\ j.title = job[w].title
      /\ j.pc = "push" /\ j.basis = file[Verdict]
  BY <1>2, JobShape, VerdictIsArtifact DEF Job
<1>5. JobOK(w)'
  <2>1. job'[w] = j /\ JobOK(w) /\ \A v \in Worker \ {w} : job'[v] = job[v]
    BY <1>3, JobShape DEF PackageInv, TypeOK
  <2>2. QED BY <1>1, <1>4, <2>1 DEF JobOK
<1>6. QED BY <1>1, <1>3, <1>4, <1>5, JobShape, QuietOK

LEMMA TellOK == ASSUME PackageInv, NEW w \in Worker, Tell(w) PROVE PackageInv'
<1>1. /\ job[w].pc = "tell" /\ UNCHANGED <<known, file, link, branches, prs, requests, deaths>>
      /\ told' = told \cup {job[w].title}
  BY DEF Tell
<1>2. PICK j : j = [job[w] EXCEPT !.pc = "link"]
  OBVIOUS
<1>3. job' = [job EXCEPT ![w] = j]
  BY <1>2 DEF Tell, Goto
<1>4. /\ j \in Job /\ j.alone = job[w].alone /\ j.basis = job[w].basis /\ j.title = job[w].title
      /\ j.pc = "link"
  BY <1>2, JobShape DEF Job
<1>5. job[w].title \in DOMAIN prs
  BY <1>1, JobShape DEF JobOK
<1>6. JobOK(w)'
  <2>1. job'[w] = j /\ JobOK(w) /\ \A v \in Worker \ {w} : job'[v] = job[v]
    BY <1>3, JobShape DEF PackageInv, TypeOK
  <2>2. QED BY <1>1, <1>4, <1>5, <2>1 DEF JobOK
<1>7. QED BY <1>1, <1>3, <1>4, <1>5, <1>6, JobShape, QuietOK

\* The last step of publishing links only to a pull request that was told.
LEMMA LinkOK == ASSUME PackageInv, NEW w \in Worker, Link(w) PROVE PackageInv'
<1>1. /\ job[w].pc = "link" /\ End(w)
      /\ UNCHANGED <<known, branches, prs, told, requests, deaths>>
  BY DEF Link
<1>2. job[w].title \in DOMAIN prs /\ job[w].title \in told /\ job[w].basis \in Nat
  BY <1>1, JobShape DEF JobOK, Job
<1>3. DOMAIN prs = 1..Len(prs) /\ Len(prs) \in Nat
  BY JobShape
<1>4. file' \in [Artifact -> Nat] /\ link' \in 0..Len(prs) /\ (link' # 0 => link' \in told)
  <2>1. CASE UNCHANGED <<file, link>>
    BY <2>1, JobShape
  <2>2. CASE file' = [file EXCEPT ![Verdict] = job[w].basis] /\ link' = job[w].title
    <3>1. file' \in [Artifact -> Nat]
      BY <1>2, <2>2, JobShape
    <3>2. link' \in 0..Len(prs) /\ link' \in told
      BY <1>2, <1>3, <2>2
    <3>3. QED BY <3>1, <3>2
  <2>3. QED BY <2>1, <2>2 DEF Link
<1>5. QED BY <1>1, <1>4, EndOK

\* Pushing the branch of a day is refused where there is one, so no pull request
\* has that day and nobody else is about to open one for it.
LEMMA PushOK == ASSUME PackageInv, NEW w \in Worker, Push(w) PROVE PackageInv'
<1>1. /\ job[w].pc = "push" /\ UNCHANGED <<known, file, link, prs, told, requests, deaths>>
      /\ job[w].day \notin branches /\ branches' = branches \cup {job[w].day}
  BY DEF Push
<1>2. PICK j : j = [job[w] EXCEPT !.pc = "open"]
  OBVIOUS
<1>3. job' = [job EXCEPT ![w] = j]
  BY <1>2 DEF Push, Goto
<1>4. /\ j \in Job /\ j.alone = job[w].alone /\ j.basis = job[w].basis /\ j.title = job[w].title
      /\ j.got = job[w].got /\ j.day = job[w].day /\ j.pc = "open"
  BY <1>2, JobShape DEF Job
<1>5. \A i \in DOMAIN prs : prs[i].day # j.day
  BY <1>1, <1>4 DEF PackageInv, DaysInv
<1>6. job'[w] = j /\ JobOK(w) /\ \A v \in Worker \ {w} : job'[v] = job[v] /\ JobOK(v)
  BY <1>3, JobShape DEF PackageInv, TypeOK
<1>7. JobOK(w)'
  BY <1>1, <1>4, <1>5, <1>6 DEF JobOK
<1>8. \A v \in Worker \ {w} : JobOK(v)'
  BY <1>1, <1>3, <1>4, OthersOK DEF Goes
<1>9. DaysInv'
  <2>1. \A v \in Worker \ {w} : job[v].pc = "open" => job[v].day # j.day
    BY <1>1, <1>4, <1>6 DEF JobOK
  <2>2. QED BY <1>1, <1>4, <1>6, <2>1 DEF PackageInv, DaysInv
<1>10. TypeOK'
  <2>1. job' \in [Worker -> Job] /\ branches' \subseteq 1..MaxDay
    BY <1>1, <1>3, <1>4, JobShape DEF PackageInv, TypeOK, Job
  <2>2. QED BY <1>1, <2>1 DEF PackageInv, TypeOK, Job
<1>11. QED BY <1>1, <1>7, <1>8, <1>9, <1>10 DEF PackageInv, OnePrPerDay, LinkIsTold

\* The pull request that is opened is the first of its day.
LEMMA OpenPrOK == ASSUME PackageInv, NEW w \in Worker, OpenPr(w) PROVE PackageInv'
<1>1. job[w].pc = "open" /\ UNCHANGED <<known, file, link, branches, told, requests, deaths>>
  BY DEF OpenPr
<1>2. PICK pr : pr = [files |-> job[w].got, title |-> job[w].title, day |-> job[w].day]
  OBVIOUS
<1>3. PICK j : j = [job[w] EXCEPT !.pc = "tell", !.title = Len(prs) + 1]
  OBVIOUS
<1>4. job' = [job EXCEPT ![w] = j] /\ prs' = Append(prs, pr)
  BY <1>2, <1>3 DEF OpenPr
<1>5. pr \in PullRequest /\ pr.day = job[w].day
  BY <1>2, JobShape DEF Job, PullRequest
<1>6. /\ prs' \in Seq(PullRequest) /\ DOMAIN prs' = 1..(Len(prs) + 1) /\ Len(prs) \in Nat
      /\ DOMAIN prs = 1..Len(prs) /\ Len(prs') = Len(prs) + 1
      /\ prs'[Len(prs) + 1] = pr /\ \A i \in 1..Len(prs) : prs'[i] = prs[i]
  BY <1>4, <1>5, JobShape, AppendProperties
<1>7. /\ j \in Job /\ j.alone = job[w].alone /\ j.basis = job[w].basis
      /\ j.title = Len(prs) + 1 /\ j.pc = "tell"
  <2>1. PICK t : t = Len(prs) + 1 /\ t \in Nat
    BY <1>6
  <2>2. j = [job[w] EXCEPT !.pc = "tell", !.title = t]
    BY <1>3, <2>1
  <2>3. job[w] \in Job
    BY JobShape
  <2>4. QED BY <2>1, <2>2, <2>3 DEF Job
<1>8. job[w].day \in branches /\ \A i \in DOMAIN prs : prs[i].day # pr.day
  BY <1>1, <1>5, JobShape DEF JobOK
<1>9. job'[w] = j /\ JobOK(w) /\ \A v \in Worker \ {w} : job'[v] = job[v]
  BY <1>4, JobShape DEF PackageInv, TypeOK
<1>10. JobOK(w)'
  BY <1>1, <1>6, <1>7, <1>9 DEF JobOK
<1>11. \A v \in Worker \ {w} : JobOK(v)'
  BY <1>1, <1>4, <1>5, <1>7, OthersOK DEF Goes
<1>12. DaysInv'
  <2>1. \A i \in DOMAIN prs' : prs'[i].day \in branches
    BY <1>5, <1>6, <1>8 DEF PackageInv, DaysInv
  <2>2. QED BY <1>1, <1>7, <1>9, <2>1 DEF PackageInv, DaysInv
<1>13. OnePrPerDay'
  BY <1>6, <1>8 DEF PackageInv, OnePrPerDay
<1>14. TypeOK'
  <2>1. job' \in [Worker -> Job]
    BY <1>4, <1>7 DEF PackageInv, TypeOK, Job
  <2>2. link' \in 0..Len(prs') /\ told' \subseteq DOMAIN prs'
    BY <1>1, <1>6, JobShape
  <2>3. QED BY <1>1, <1>6, <2>1, <2>2 DEF PackageInv, TypeOK, Job
<1>15. QED BY <1>1, <1>10, <1>11, <1>12, <1>13, <1>14 DEF PackageInv, LinkIsTold

-----------------------------------------------------------------------------
LEMMA PackageNext == PackageInv /\ [Next]_vars => PackageInv'
<1> SUFFICES ASSUME PackageInv, [Next]_vars PROVE PackageInv'
  OBVIOUS
<1>1. ASSUME NEW w \in Worker, Decide(w) PROVE PackageInv'
  BY <1>1, BeginOK, ReviewPackageAssumption DEF Decide
<1>2. ASSUME NEW w \in Worker, Publish(w) PROVE PackageInv'
  BY <1>2, BeginOK DEF Publish
<1>3. ASSUME NEW w \in Worker, DecideEnd(w) \/ NothingToPublish(w) \/ GiveUp(w) PROVE PackageInv'
  BY <1>3, EndOK, JobShape DEF DecideEnd, NothingToPublish, GiveUp
<1>4. ASSUME NEW w \in Worker, DecideStep(w) PROVE PackageInv'
  BY <1>3, <1>4, DecideReadOK, DecideWriteOK DEF DecideStep
<1>5. ASSUME NEW w \in Worker, PublishStep(w) PROVE PackageInv'
  BY <1>3, <1>5, CollectOK, TitleOK, StoredOK, PushOK, OpenPrOK, TellOK, LinkOK DEF PublishStep
<1>6. CASE Learn
  <2>1. known' \in Nat /\ UNCHANGED <<file, link, branches, prs, told, job, requests, deaths>>
    BY <1>6 DEF Learn, PackageInv, TypeOK
  <2>2. \A w \in Worker : JobOK(w)'
    BY <2>1 DEF PackageInv, JobOK, Agrees
  <2>3. QED BY <2>1, <2>2 DEF PackageInv, TypeOK, DaysInv, OnePrPerDay, LinkIsTold
<1>7. CASE Die
  <2>1. /\ deaths' = deaths + 1 /\ UNCHANGED <<known, file, link, branches, prs, told, requests>>
        /\ job' = [w \in Worker |-> Idle]
    BY <1>7 DEF Die
  <2>2. Idle \in Job /\ Idle.pc = "idle"
    BY ReviewPackageAssumption DEF Idle, Job, Nothing
  <2>3. \A w \in Worker : JobOK(w)'
    BY <2>1, <2>2 DEF JobOK
  <2>4. job' \in [Worker -> Job]
    BY <2>1, <2>2
  <2>5. TypeOK' /\ DaysInv'
    BY <2>1, <2>2, <2>4 DEF PackageInv, TypeOK, DaysInv, Job
  <2>6. QED BY <2>1, <2>3, <2>5 DEF PackageInv, OnePrPerDay, LinkIsTold
<1>8. CASE UNCHANGED vars
  <2>1. \A w \in Worker : JobOK(w)'
    BY <1>8 DEF vars, PackageInv, JobOK, Agrees
  <2>2. QED BY <1>8, <2>1 DEF vars, PackageInv, TypeOK, DaysInv, OnePrPerDay, LinkIsTold
<1>9. QED BY <1>1, <1>2, <1>4, <1>5, <1>6, <1>7, <1>8 DEF Next

LEMMA PackageInit == Init => PackageInv
<1> SUFFICES ASSUME Init PROVE PackageInv
  OBVIOUS
<1>1. Idle \in Job /\ Idle.pc = "idle" /\ Nothing \in [Artifact -> Nat]
  BY ReviewPackageAssumption DEF Idle, Job, Nothing
<1>2. job \in [Worker -> Job] /\ \A w \in Worker : job[w].pc = "idle"
  BY <1>1 DEF Init
<1>3. prs = <<>> /\ Len(prs) = 0 /\ DOMAIN prs = {} /\ prs \in Seq(PullRequest)
  BY DEF Init
<1>4. QED
  BY <1>1, <1>2, <1>3 DEF Init, PackageInv, TypeOK, JobOK, DaysInv, OnePrPerDay, LinkIsTold, Job

-----------------------------------------------------------------------------
\* Every variable stays of its type (backend/decide/run.py, publish/github_pr.py).
THEOREM PackageTypeCorrect == Spec => []TypeOK
<1>1. PackageInv => TypeOK
  BY DEF PackageInv
<1>2. QED BY <1>1, PackageInit, PackageNext, PTL DEF Spec

\* A case has at most one pull request a day, for any number of threads, retries
\* and deaths (github_pr.py, the branch of the date).
THEOREM OnePrPerDayHolds == Spec => []OnePrPerDay
<1>1. PackageInv => OnePrPerDay
  BY DEF PackageInv
<1>2. QED BY <1>1, PackageInit, PackageNext, PTL DEF Spec

\* decision.json never links to a pull request that the event log does not tell
\* of: the event is appended before the link is stored (github_pr.py).
THEOREM LinkIsToldHolds == Spec => []LinkIsTold
<1>1. PackageInv => LinkIsTold
  BY DEF PackageInv
<1>2. QED BY <1>1, PackageInit, PackageNext, PTL DEF Spec

\* A decide that no handler overlapped leaves a package of one piece, whatever
\* was left behind before it (run.py).
THEOREM DecideRepairsHolds == Spec => DecideRepairs
<1>1. PackageInv /\ [Next]_vars =>
        [\A w \in Worker : DecideEnd(w) /\ job[w].alone => \A a \in Artifact : file[a] = job[w].basis]_vars
  BY JobShape DEF DecideEnd, JobOK
<1>2. QED BY <1>1, PackageInit, PackageNext, PTL DEF Spec, DecideRepairs

\* A pull request that no handler overlapped shows the package as it is
\* (github_pr.py).
THEOREM PrShowsPackageHolds == Spec => PrShowsPackage
<1>1. PackageInv /\ [Next]_vars =>
        [\A w \in Worker : OpenPr(w) /\ job[w].alone =>
           /\ job[w].got = file
           /\ job[w].title = file[Verdict]]_vars
  <2> SUFFICES ASSUME PackageInv, NEW w \in Worker, OpenPr(w), job[w].alone
               PROVE  job[w].got = file /\ job[w].title = file[Verdict]
    OBVIOUS
  <2>1. job[w].got = file
    BY JobShape DEF OpenPr, JobOK
  <2>2. job[w].title = file[Verdict]
    BY JobShape DEF OpenPr, JobOK
  <2>3. QED BY <2>1, <2>2
<1>2. QED BY <1>1, PackageInit, PackageNext, PTL DEF Spec, PrShowsPackage

\* Storing the link keeps the decision it is stored with, when no handler
\* overlapped (github_pr.py).
THEOREM LinkKeepsDecisionHolds == Spec => LinkKeepsDecision
<1>1. PackageInv /\ [Next]_vars =>
        [\A w \in Worker : Link(w) /\ job[w].alone => file' = file]_vars
  <2> SUFFICES ASSUME PackageInv, NEW w \in Worker, Link(w), job[w].alone PROVE file' = file
    OBVIOUS
  <2>1. job[w].basis = file[Verdict] /\ file \in [Artifact -> Nat]
    BY JobShape DEF Link, JobOK
  <2>2. file' = file \/ file' = [file EXCEPT ![Verdict] = file[Verdict]]
    BY <2>1 DEF Link
  <2>3. QED BY <2>1, <2>2
<1>2. QED BY <1>1, PackageInit, PackageNext, PTL DEF Spec, LinkKeepsDecision

=============================================================================
