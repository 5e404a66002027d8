-------------------------- MODULE EventFeedProofs ---------------------------
(***************************************************************************)
(* Theorems about EventLog and EventFeed, for any threads, lines, crashes, *)
(* screens and requests.                                                   *)
(***************************************************************************)
EXTENDS EventFeed, SequenceTheorems, FiniteSetTheorems, WellFoundedInduction, TLAPS

-----------------------------------------------------------------------------
(* Extreme numbers.                                                        *)

\* A set of natural numbers has a least element.
LEMMA LeastNatural ==
  ASSUME NEW T \in SUBSET Nat, T # {}
  PROVE  \E x \in T : \A y \in T : x <= y
<1> DEFINE R == OpToRel(<, Nat)
<1>1. IsWellFoundedOn(R, Nat)
  BY NatLessThanWellFounded
<1>2. PICK x \in T : \A y \in T : ~(<<y, x>> \in R)
  <2> HIDE DEF R
  <2>1. QED BY <1>1, WFMin
<1>3. \A y \in T : ~(y < x)
  BY <1>2 DEF OpToRel
<1>4. QED BY <1>3

\* A bounded one has a greatest: the least distance from the bound.
LEMMA GreatestBounded ==
  ASSUME NEW T \in SUBSET Nat, T # {}, NEW b \in Nat, \A x \in T : x <= b
  PROVE  \E x \in T : \A y \in T : y <= x
<1> DEFINE U == {b - x : x \in T}
<1>1. U \in SUBSET Nat /\ U # {}
  <2>1. \A x \in T : b - x \in Nat
    OBVIOUS
  <2>2. QED BY <2>1
<1>2. PICK u \in U : \A v \in U : u <= v
  <2> HIDE DEF U
  <2>1. QED BY <1>1, LeastNatural
<1>3. PICK x \in T : u = b - x
  BY <1>2
<1>4. ASSUME NEW y \in T PROVE y <= x
  BY <1>2, <1>3, <1>4
<1>5. QED BY <1>4


-----------------------------------------------------------------------------
(***************************************************************************)
(* What last_seq reads.                                                    *)
(***************************************************************************)

\* last_seq returns the number of the last readable line, 0 if there is none.
LEMMA LastSeqValue ==
  ASSUME log \in Seq(Line)
  PROVE  /\ Readable = {} => LastSeq = 0
         /\ Readable # {} =>
              \E m \in Readable : LastSeq = log[m].seq /\ \A i \in Readable : i <= m
         /\ LastSeq \in Nat
<1>1. CASE Readable = {}
  BY <1>1 DEF LastSeq
<1>2. CASE Readable # {}
  <2> DEFINE IsLast(i) == \A j \in Readable : j <= i
  <2>1. Readable \in SUBSET Nat /\ Len(log) \in Nat /\ \A i \in Readable : i <= Len(log)
    BY DEF Readable
  <2>2. \E i \in Readable : IsLast(i)
    BY <1>2, <2>1, GreatestBounded
  <2>3. LastSeq = log[CHOOSE i \in Readable : IsLast(i)].seq
    BY <1>2 DEF LastSeq
  <2> HIDE DEF IsLast
  <2>4. PICK m \in Readable : m = (CHOOSE i \in Readable : IsLast(i)) /\ IsLast(m)
    BY <2>2
  <2>5. LastSeq = log[m].seq /\ log[m] \in Line
    BY <2>3, <2>4 DEF Readable
  <2>6. QED BY <1>2, <2>4, <2>5 DEF IsLast, Line
<1>3. QED BY <1>1, <1>2

\* Writing keeps the file a sequence of lines.
LEMMA WrittenType ==
  ASSUME log \in Seq(Line), NEW l \in Line
  PROVE  Written(l) \in Seq(Line)
<1>1. Torn \in Line
  BY DEF Torn, Line
<1>2. [log EXCEPT ![Len(log)] = Torn] \in Seq(Line)
  <2>1. CASE log = <<>>
    <3>1. [log EXCEPT ![Len(log)] = Torn] = log
      BY <2>1
    <3>2. QED BY <3>1
  <2>2. CASE log # <<>>
    <3>1. Len(log) \in 1..Len(log)
      BY <2>2
    <3>2. QED BY <1>1, <3>1, ExceptSeq
  <2>3. QED BY <2>1, <2>2
<1>3. QED BY <1>2 DEF Written

-----------------------------------------------------------------------------
(***************************************************************************)
(* Type correctness.                                                       *)
(***************************************************************************)

At == [pc : {"rest", "locked", "numbered", "written"}, num : Nat, id : Nat]

LEMMA LogTypeNext == LogTypeOK /\ [LogNext]_logVars => LogTypeOK'
<1> SUFFICES ASSUME LogTypeOK, [LogNext]_logVars PROVE LogTypeOK'
  OBVIOUS
<1>1. log \in Seq(Line) /\ at \in [Thread -> At]
  BY DEF LogTypeOK, At
<1>2. ASSUME NEW t \in Thread, Acquire(t) PROVE LogTypeOK'
  <2>1. at' \in [Thread -> At] /\ lock' \in [Process -> Thread \cup {Nobody}]
    BY <1>1, <1>2, EventLogAssumption DEF Acquire, LogTypeOK, At
  <2>2. QED BY <1>2, <2>1 DEF Acquire, LogTypeOK, At
<1>3. ASSUME NEW t \in Thread, ReadSeq(t) PROVE LogTypeOK'
  <2>1. LastSeq \in Nat
    BY <1>1, LastSeqValue
  <2>2. at' \in [Thread -> At]
    <3>1. at[t] \in At /\ LastSeq + 1 \in Nat
      BY <1>1, <2>1
    <3>2. [at[t] EXCEPT !.pc = "numbered", !.num = LastSeq + 1] \in At
      BY <3>1 DEF At
    <3>3. QED BY <1>1, <1>3, <3>2 DEF ReadSeq
  <2>3. QED BY <1>3, <2>2 DEF ReadSeq, LogTypeOK, At
<1>4. ASSUME NEW t \in Thread, Write(t) PROVE LogTypeOK'
  <2>1. [seq |-> at[t].num, id |-> at[t].id] \in Line
    BY <1>1 DEF At, Line
  <2>2. log' \in Seq(Line)
    BY <1>1, <1>4, <2>1, WrittenType DEF Write
  <2>3. at' \in [Thread -> At]
    BY <1>1, <1>4 DEF Write, At
  <2>4. QED BY <1>4, <2>2, <2>3 DEF Write, LogTypeOK, At
<1>5. ASSUME NEW t \in Thread, Release(t) PROVE LogTypeOK'
  <2>1. at[t].id \in Nat /\ Resting \in At
    BY <1>1 DEF At, Resting
  <2>2. at' \in [Thread -> At] /\ lock' \in [Process -> Thread \cup {Nobody}]
    BY <1>1, <1>5, <2>1, EventLogAssumption DEF Release, LogTypeOK
  <2>3. QED BY <1>5, <2>1, <2>2 DEF Release, LogTypeOK, At
<1>6. ASSUME NEW p \in Process, NEW cut \in Cuts, Crash(p, cut) PROVE LogTypeOK'
  <2>1. \A t \in Thread : [seq |-> at[t].num, id |-> at[t].id] \in Line
    BY <1>1 DEF At, Line
  <2>2. log' \in Seq(Line)
    <3>1. CASE log' = log
      BY <1>1, <3>1
    <3>2. CASE \E t \in Thread : log' = Left(cut, [seq |-> at[t].num, id |-> at[t].id])
      <4>1. Torn \in Line
        BY DEF Torn, Line
      <4>2. QED BY <1>1, <2>1, <3>2, <4>1, WrittenType DEF Left
    <3>3. QED BY <1>6, <3>1, <3>2 DEF Crash
  <2>3. ragged' \in BOOLEAN
    BY <1>6 DEF Crash, LogTypeOK
  <2>4. at' \in [Thread -> At] /\ lock' \in [Process -> Thread \cup {Nobody}]
    <3>1. Resting \in At
      BY DEF At, Resting
    <3>2. QED BY <1>1, <1>6, <3>1 DEF Crash, LogTypeOK
  <2>5. crashes' \in Nat /\ nextId' = nextId /\ acked' = acked
    BY <1>6 DEF Crash, LogTypeOK
  <2>6. QED BY <2>2, <2>3, <2>4, <2>5 DEF LogTypeOK, At
<1>7. CASE UNCHANGED logVars
  BY <1>7 DEF logVars, LogTypeOK
<1>8. QED
  BY <1>2, <1>3, <1>4, <1>5, <1>6, <1>7 DEF LogNext, AppendStep

LEMMA LogTypeInit == LogInit => LogTypeOK
<1> SUFFICES ASSUME LogInit PROVE LogTypeOK
  OBVIOUS
<1>1. log \in Seq(Line) /\ acked \subseteq Nat
  BY DEF LogInit
<1>2. at \in [Thread -> At] /\ lock \in [Process -> Thread \cup {Nobody}]
  BY DEF LogInit, Resting, At
<1>3. ragged \in BOOLEAN
  BY DEF LogInit
<1>4. nextId \in Nat \ {0} /\ crashes \in Nat
  BY DEF LogInit
<1>5. QED BY <1>1, <1>2, <1>3, <1>4 DEF LogTypeOK, At

\* The log is a sequence of lines, and every append is somewhere between call
\* and return, whatever crashes (append_event, backend/casestore/events.py).
THEOREM LogTypeCorrect == LogSpec => []LogTypeOK
  BY LogTypeInit, LogTypeNext, PTL DEF LogSpec

-----------------------------------------------------------------------------
(***************************************************************************)
(* Numbering, when every thread belongs to the same process: then the lock *)
(* is one lock, and whoever holds it knows the last number.                *)
(*                                                                         *)
(* NoGaps cannot be carried along as it stands, because a line that runs   *)
(* into a torn one is lost from the end of the file; that the numbers      *)
(* before any line are complete survives the loss of later lines.          *)
(***************************************************************************)

HoldsLock == \A t \in Thread : at[t].pc # "rest" => lock[Home[t]] = t

NumberIsNext == \A t \in Thread : at[t].pc = "numbered" => at[t].num = LastSeq + 1

CompleteBefore ==
  \A i \in Readable :
    /\ log[i].seq > 0
    /\ \A n \in 1..log[i].seq : \E j \in Readable : j <= i /\ log[j].seq = n

LogInv == LogTypeOK /\ HoldsLock /\ NumberIsNext /\ Increasing /\ CompleteBefore

\* What a write does to the readable lines: some are lost from the end, or the
\* line joins them under the position after the last.
Shortened ==
  /\ Readable' \subseteq Readable
  /\ \A i \in Readable' : log'[i] = log[i]
  /\ \A j \in Readable' : \A i \in Readable : i <= j => i \in Readable'

Lengthened(l) ==
  /\ Readable' = Readable \cup {Len(log) + 1}
  /\ \A i \in Readable : log'[i] = log[i] /\ i <= Len(log)
  /\ log'[Len(log) + 1] = l

LEMMA WrittenCases ==
  ASSUME log \in Seq(Line), NEW l \in Line, log' = Written(l)
  PROVE  Shortened \/ (l # Torn /\ Lengthened(l))
<1>1. CASE ragged
  <2>1. log' = [log EXCEPT ![Len(log)] = Torn]
    BY <1>1 DEF Written
  <2>2. DOMAIN log' = DOMAIN log /\ DOMAIN log = 1..Len(log) /\ Len(log) \in Nat
    BY <2>1
  <2>3. \A i \in DOMAIN log : log'[i] = IF i = Len(log) THEN Torn ELSE log[i]
    BY <2>1
  <2>4. Readable' = {i \in Readable : i # Len(log)}
    BY <2>2, <2>3 DEF Readable
  <2>5. QED BY <2>2, <2>3, <2>4 DEF Readable, Shortened
<1>2. CASE ~ragged
  <2>1. log' = Append(log, l)
    BY <1>2 DEF Written
  <2>2. /\ DOMAIN log = 1..Len(log) /\ Len(log) \in Nat
        /\ DOMAIN log' = 1..(Len(log) + 1)
        /\ \A i \in DOMAIN log : log'[i] = log[i]
        /\ log'[Len(log) + 1] = l
    BY <2>1
  <2>3. CASE l = Torn
    <3>1. Readable' = Readable
      BY <2>2, <2>3 DEF Readable
    <3>2. QED BY <2>2, <3>1 DEF Readable, Shortened
  <2>4. CASE l # Torn
    <3>1. Readable' = Readable \cup {Len(log) + 1}
      BY <2>2, <2>4 DEF Readable
    <3>2. QED BY <2>2, <2>4, <3>1 DEF Readable, Lengthened
  <2>5. QED BY <2>3, <2>4
<1>3. QED BY <1>1, <1>2

LEMMA ShorteningIsSafe ==
  ASSUME log \in Seq(Line), Increasing, CompleteBefore, Shortened
  PROVE  Increasing' /\ CompleteBefore'
<1>1. Increasing'
  BY DEF Increasing, Shortened
<1>2. ASSUME NEW i \in Readable'
      PROVE  /\ log'[i].seq > 0
             /\ \A n \in 1..log'[i].seq : \E j \in Readable' : j <= i /\ log'[j].seq = n
  BY <1>2 DEF CompleteBefore, Shortened
<1>3. QED BY <1>1, <1>2 DEF CompleteBefore

LEMMA LengtheningIsSafe ==
  ASSUME log \in Seq(Line), Increasing, CompleteBefore,
         NEW l \in Line, l.seq = LastSeq + 1, Lengthened(l)
  PROVE  Increasing' /\ CompleteBefore'
<1>1. LastSeq \in Nat /\ Len(log) \in Nat /\ Readable \subseteq Nat
  BY LastSeqValue DEF Readable
<1>2. \A i \in Readable : log[i].seq \in Nat /\ log[i].seq <= LastSeq
  <2> SUFFICES ASSUME NEW i \in Readable PROVE log[i].seq \in Nat /\ log[i].seq <= LastSeq
    OBVIOUS
  <2>1. PICK m \in Readable : LastSeq = log[m].seq /\ \A j \in Readable : j <= m
    BY LastSeqValue
  <2>2. log[i] \in Line
    BY DEF Readable
  <2>3. i = m \/ log[i].seq < log[m].seq
    BY <1>1, <2>1 DEF Increasing
  <2>4. QED BY <1>1, <2>1, <2>2, <2>3 DEF Line
<1>3. Increasing'
  <2> SUFFICES ASSUME NEW i \in Readable', NEW j \in Readable', i < j
               PROVE  log'[i].seq < log'[j].seq
    BY DEF Increasing
  <2>1. i \in Readable
    BY <1>1 DEF Lengthened
  <2>2. CASE j \in Readable
    BY <2>1, <2>2 DEF Lengthened, Increasing
  <2>3. CASE j = Len(log) + 1
    BY <1>1, <1>2, <2>1, <2>3 DEF Lengthened
  <2>4. QED BY <2>2, <2>3 DEF Lengthened
<1>4. CompleteBefore'
  <2> SUFFICES ASSUME NEW i \in Readable'
               PROVE  /\ log'[i].seq > 0
                      /\ \A n \in 1..log'[i].seq : \E j \in Readable' : j <= i /\ log'[j].seq = n
    BY DEF CompleteBefore
  <2>1. CASE i \in Readable
    BY <2>1 DEF Lengthened, CompleteBefore
  <2>2. CASE i = Len(log) + 1
    <3>1. log'[i].seq = LastSeq + 1
      BY <2>2 DEF Lengthened
    <3>2. ASSUME NEW n \in 1..LastSeq PROVE \E j \in Readable : log[j].seq = n
      <4>1. PICK m \in Readable : LastSeq = log[m].seq
        BY <1>1, LastSeqValue
      <4>2. QED BY <4>1 DEF CompleteBefore
    <3>3. ASSUME NEW n \in 1..LastSeq PROVE \E j \in Readable' : j <= i /\ log'[j].seq = n
      <4>1. PICK j \in Readable : log[j].seq = n
        BY <3>2
      <4>2. j \in Readable' /\ j <= i /\ log'[j].seq = n
        BY <1>1, <2>2, <4>1 DEF Lengthened
      <4>3. QED BY <4>2
    <3>4. ASSUME NEW n \in 1..(LastSeq + 1), n \notin 1..LastSeq
          PROVE  \E j \in Readable' : j <= i /\ log'[j].seq = n
      BY <1>1, <2>2, <3>1, <3>4 DEF Lengthened
    <3>5. QED BY <1>1, <3>1, <3>3, <3>4
  <2>3. QED BY <2>1, <2>2 DEF Lengthened
<1>5. QED BY <1>3, <1>4

LEMMA LogInvInit == LogInit => LogInv
<1> SUFFICES ASSUME LogInit PROVE LogInv
  OBVIOUS
<1>1. Readable = {}
  BY DEF LogInit, Readable
<1>2. HoldsLock /\ NumberIsNext
  BY DEF LogInit, HoldsLock, NumberIsNext, Resting
<1>3. QED BY <1>1, <1>2, LogTypeInit DEF LogInv, Increasing, CompleteBefore

LEMMA LogInvNext ==
  ASSUME \A t, u \in Thread : Home[t] = Home[u]
  PROVE  LogInv /\ [LogNext]_logVars => LogInv'
<1> SUFFICES ASSUME LogInv, [LogNext]_logVars PROVE LogInv'
  OBVIOUS
<1>0. LogTypeOK /\ LogTypeOK' /\ log \in Seq(Line) /\ at \in [Thread -> At]
      /\ lock \in [Process -> Thread \cup {Nobody}]
  BY LogTypeNext DEF LogInv, LogTypeOK, At
<1>1. ASSUME NEW t \in Thread, NEW u \in Thread, at[t].pc # "rest", at[u].pc # "rest"
      PROVE  t = u
  BY <1>1 DEF LogInv, HoldsLock
<1>2. ASSUME NEW t \in Thread, Acquire(t) PROVE LogInv'
  <2>1. Readable' = Readable /\ LastSeq' = LastSeq /\ log' = log
    BY <1>2 DEF Acquire, Readable, LastSeq
  <2>2. HoldsLock' /\ NumberIsNext'
    <3>1. \A u \in Thread : u # t => at[u].pc = "rest" /\ at'[u].pc = "rest"
      BY <1>0, <1>2, EventLogAssumption DEF Acquire, LogInv, HoldsLock
    <3>2. at'[t].pc = "locked" /\ lock'[Home[t]] = t
      BY <1>0, <1>2, EventLogAssumption DEF Acquire
    <3>3. QED BY <3>1, <3>2 DEF HoldsLock, NumberIsNext
  <2>3. QED BY <1>0, <2>1, <2>2 DEF LogInv, Increasing, CompleteBefore
<1>3. ASSUME NEW t \in Thread, ReadSeq(t) PROVE LogInv'
  <2>1. Readable' = Readable /\ LastSeq' = LastSeq /\ log' = log /\ lock' = lock
    BY <1>3 DEF ReadSeq, Readable, LastSeq
  <2>2. HoldsLock' /\ NumberIsNext'
    BY <1>0, <1>3, <2>1 DEF ReadSeq, LogInv, HoldsLock, NumberIsNext, At
  <2>3. QED BY <1>0, <2>1, <2>2 DEF LogInv, Increasing, CompleteBefore
<1>4. ASSUME NEW t \in Thread, Write(t) PROVE LogInv'
  <2> DEFINE l == [seq |-> at[t].num, id |-> at[t].id]
  <2>1. l \in Line /\ l.seq = LastSeq + 1
    BY <1>0, <1>4 DEF Write, LogInv, NumberIsNext, At, Line
  <2>2. log' = Written(l)
    BY <1>4 DEF Write
  <2> HIDE DEF l
  <2>3. Increasing' /\ CompleteBefore'
    BY <1>0, <2>1, <2>2, WrittenCases, ShorteningIsSafe, LengtheningIsSafe DEF LogInv
  <2>4. HoldsLock' /\ NumberIsNext'
    <3>1. \A u \in Thread : u # t => at[u].pc = "rest" /\ at'[u].pc = "rest"
      BY <1>0, <1>1, <1>4 DEF Write, At
    <3>2. at'[t].pc = "written" /\ lock'[Home[t]] = t
      BY <1>0, <1>4 DEF Write, LogInv, HoldsLock, At
    <3>3. QED BY <3>1, <3>2 DEF HoldsLock, NumberIsNext
  <2>5. QED BY <1>0, <2>3, <2>4 DEF LogInv
<1>5. ASSUME NEW t \in Thread, Release(t) PROVE LogInv'
  <2>1. Readable' = Readable /\ LastSeq' = LastSeq /\ log' = log
    BY <1>5 DEF Release, Readable, LastSeq
  <2>2. \A u \in Thread : at'[u].pc = "rest"
    BY <1>0, <1>1, <1>5 DEF Release, Resting, At
  <2>3. QED BY <1>0, <2>1, <2>2
            DEF LogInv, HoldsLock, NumberIsNext, Increasing, CompleteBefore
<1>6. ASSUME NEW p \in Process, NEW cut \in Cuts, Crash(p, cut) PROVE LogInv'
  <2>1. Increasing' /\ CompleteBefore'
    <3>1. CASE log' = log
      BY <3>1 DEF LogInv, Increasing, CompleteBefore, Readable
    <3>2. ASSUME NEW t \in Thread, at[t].pc = "numbered",
                 log' = Left(cut, [seq |-> at[t].num, id |-> at[t].id])
          PROVE  Increasing' /\ CompleteBefore'
      <4> DEFINE l == [seq |-> at[t].num, id |-> at[t].id]
      <4>1. l \in Line /\ l.seq = LastSeq + 1
        BY <1>0, <3>2 DEF LogInv, NumberIsNext, At, Line
      <4>2. log' = Written(Torn) \/ log' = Written(l)
        BY <3>2 DEF Left
      <4>3. Torn \in Line
        BY DEF Torn, Line
      <4> HIDE DEF l
      <4>4. QED
        BY <1>0, <4>1, <4>2, <4>3, WrittenCases, ShorteningIsSafe, LengtheningIsSafe DEF LogInv
    <3>3. QED BY <1>6, <3>1, <3>2 DEF Crash
  <2>2. HoldsLock' /\ NumberIsNext'
    <3>1. \A u \in Thread : u \notin {t \in Thread : Home[t] = p} => at'[u] = at[u]
      BY <1>6 DEF Crash
    <3>2. CASE \E t \in Thread : Home[t] = p
      <4>1. \A u \in Thread : at'[u].pc = "rest"
        BY <1>6, <3>2 DEF Crash, Resting
      <4>2. QED BY <4>1 DEF HoldsLock, NumberIsNext
    <3>3. CASE \A t \in Thread : Home[t] # p
      <4>1. log' = log /\ at' = at /\ \A t \in Thread : lock'[Home[t]] = lock[Home[t]]
        BY <1>0, <1>6, <3>3, EventLogAssumption DEF Crash
      <4>2. LastSeq' = LastSeq
        BY <4>1 DEF LastSeq, Readable
      <4>3. QED BY <4>1, <4>2 DEF LogInv, HoldsLock, NumberIsNext
    <3>4. QED BY <3>2, <3>3
  <2>3. QED BY <1>0, <2>1, <2>2 DEF LogInv
<1>7. CASE UNCHANGED logVars
  <2>1. Readable' = Readable /\ LastSeq' = LastSeq /\ log' = log /\ at' = at /\ lock' = lock
    BY <1>7 DEF logVars, Readable, LastSeq
  <2>2. QED BY <1>0, <2>1
            DEF LogInv, HoldsLock, NumberIsNext, Increasing, CompleteBefore
<1>8. QED
  BY <1>2, <1>3, <1>4, <1>5, <1>6, <1>7 DEF LogNext, AppendStep

\* Within one process the numbers in the file always increase, whatever its
\* threads do and whatever lines crashes tear: what a poll with `since` relies on
\* ("`seq` is monotonic within a case", backend/casestore/events.py).
THEOREM SeqIncreases ==
  ASSUME \A t, u \in Thread : Home[t] = Home[u]
  PROVE  LogSpec => []Increasing
<1>1. LogSpec => []LogInv
  BY LogInvInit, LogInvNext, PTL DEF LogSpec
<1>2. LogInv => Increasing
  BY DEF LogInv
<1>3. QED BY <1>1, <1>2, PTL

\* Nor is a number ever missing: what can be read is numbered 1 to the last
\* (last_seq and append_event, backend/casestore/events.py).
THEOREM SeqHasNoGaps ==
  ASSUME \A t, u \in Thread : Home[t] = Home[u]
  PROVE  LogSpec => []NoGaps
<1>1. LogSpec => []LogInv
  BY LogInvInit, LogInvNext, PTL DEF LogSpec
<1>2. LogInv => NoGaps
  <2> SUFFICES ASSUME LogInv PROVE NoGaps
    OBVIOUS
  <2>1. /\ log \in Seq(Line)
        /\ \A i \in Readable : i \in Nat /\ log[i].seq \in Nat
    <3>1. log \in Seq(Line)
      BY DEF LogInv, LogTypeOK
    <3>2. \A i \in Readable : i \in Nat /\ log[i] \in Line
      BY <3>1 DEF Readable
    <3>3. QED BY <3>1, <3>2 DEF Line
  <2>2. CASE Readable = {}
    BY <2>1, <2>2, LastSeqValue DEF NoGaps
  <2>3. CASE Readable # {}
    <3>1. PICK m \in Readable : LastSeq = log[m].seq /\ \A i \in Readable : i <= m
      BY <2>1, <2>3, LastSeqValue
    <3>2. \A i \in Readable : log[i].seq \in 1..LastSeq
      <4> SUFFICES ASSUME NEW i \in Readable PROVE log[i].seq \in 1..LastSeq
        OBVIOUS
      <4>1. i = m \/ log[i].seq < log[m].seq
        BY <2>1, <3>1 DEF LogInv, Increasing
      <4>2. QED BY <2>1, <3>1, <4>1 DEF LogInv, CompleteBefore
    <3>3. \A n \in 1..LastSeq : \E j \in Readable : log[j].seq = n
      BY <3>1 DEF LogInv, CompleteBefore
    <3>4. QED BY <3>2, <3>3 DEF NoGaps
  <2>4. QED BY <2>2, <2>3
<1>3. QED BY <1>1, <1>2, PTL

-----------------------------------------------------------------------------
(***************************************************************************)
(* What a crash can cost.                                                  *)
(*                                                                         *)
(* An event is lost from the moment its line is written onto the rest of   *)
(* another one, before its append returns; and a line that was left        *)
(* without its newline is about to cost the next event.  Both together are *)
(* bounded by the crashes (LossAccounted).  It takes that every event has  *)
(* a name of its own (EachItsName), and that what a dead writer left       *)
(* behind belongs to no append that returns (LeftIsNobodys).               *)
(***************************************************************************)

InProgress == {t \in Thread : at[t].pc # "rest"}

\* Events whose append has returned, or is about to.
Promised == acked \cup {at[t].id : t \in {u \in Thread : at[u].pc = "written"}}

Kept == {log[i].id : i \in Readable}

Lost == Promised \ Kept

EachItsName ==
  /\ acked \subseteq 1..(nextId - 1)
  /\ \A t \in InProgress : at[t].id \in 1..(nextId - 1) /\ at[t].id \notin acked
  /\ \A t, u \in InProgress : at[t].id = at[u].id => t = u

LeftIsNobodys ==
  ragged /\ Len(log) \in Readable =>
    /\ log[Len(log)].id \notin acked
    /\ log[Len(log)].id \in 1..(nextId - 1)
    /\ \A t \in InProgress : at[t].id # log[Len(log)].id

Owed == IF ragged THEN 1 ELSE 0

LossAccounted == IsFiniteSet(Lost) /\ Cardinality(Lost) + Owed <= crashes

LossInv == LogTypeOK /\ EachItsName /\ LeftIsNobodys /\ LossAccounted

\* What a write does to the events that can be read.
LEMMA WrittenKeeps ==
  ASSUME log \in Seq(Line), NEW l \in Line, log' = Written(l)
  PROVE  /\ ~ragged => Kept \subseteq Kept' /\ (l # Torn => l.id \in Kept')
         /\ ragged => Kept \subseteq Kept' \cup {log[j].id : j \in Readable \cap {Len(log)}}
         /\ Len(log') \in Readable' => ~ragged /\ log'[Len(log')] = l
<1>1. CASE ragged
  <2>1. log' = [log EXCEPT ![Len(log)] = Torn]
    BY <1>1 DEF Written
  <2>2. DOMAIN log' = DOMAIN log /\ DOMAIN log = 1..Len(log) /\ Len(log) \in Nat /\ Len(log') = Len(log)
    BY <2>1
  <2>3. \A i \in DOMAIN log : log'[i] = IF i = Len(log) THEN Torn ELSE log[i]
    BY <2>1
  <2>4. Readable' = {i \in Readable : i # Len(log)}
    BY <2>2, <2>3 DEF Readable
  <2>5. \A i \in Readable' : log'[i] = log[i]
    BY <2>3, <2>4 DEF Readable
  <2>6. QED BY <1>1, <2>2, <2>4, <2>5 DEF Kept
<1>2. CASE ~ragged
  <2>1. log' = Append(log, l)
    BY <1>2 DEF Written
  <2>2. /\ DOMAIN log = 1..Len(log) /\ Len(log) \in Nat
        /\ DOMAIN log' = 1..(Len(log) + 1) /\ Len(log') = Len(log) + 1
        /\ \A i \in DOMAIN log : log'[i] = log[i]
        /\ log'[Len(log) + 1] = l
    BY <2>1
  <2>3. Readable \subseteq Readable' /\ \A i \in Readable : log'[i] = log[i]
    BY <2>2 DEF Readable
  <2>4. l # Torn => Len(log) + 1 \in Readable'
    BY <2>2 DEF Readable
  <2>5. Kept \subseteq Kept' /\ (l # Torn => l.id \in Kept')
    BY <2>2, <2>3, <2>4 DEF Kept
  <2>6. QED BY <1>2, <2>2, <2>5
<1>3. QED BY <1>1, <1>2

LEMMA BalanceKept ==
  ASSUME NEW lost \in Nat, NEW owed \in Nat, NEW paid \in Nat,
         NEW lostNow \in Nat, NEW owedNow \in Nat, NEW paidNow \in Nat,
         lost + owed <= paid, lostNow <= lost, owedNow + paid <= owed + paidNow
  PROVE  lostNow + owedNow <= paidNow
OBVIOUS

LEMMA OneCrashMore ==
  ASSUME NEW owed \in {0, 1}, NEW owedNow \in {0, 1}, NEW paid \in Nat
  PROVE  owedNow + paid <= owed + (paid + 1)
OBVIOUS

\* A step that loses nothing more.
LEMMA NoMoreLost ==
  ASSUME LossAccounted, Lost' \subseteq Lost, Owed' + crashes <= Owed + crashes',
         crashes \in Nat, crashes' \in Nat
  PROVE  LossAccounted'
<1>1. IsFiniteSet(Lost') /\ Cardinality(Lost') <= Cardinality(Lost)
  BY FS_Subset DEF LossAccounted
<1>2. Cardinality(Lost) \in Nat /\ Cardinality(Lost') \in Nat
  BY <1>1, FS_CardinalityType DEF LossAccounted
<1>3. Owed \in Nat /\ Owed' \in Nat
  BY DEF Owed
<1>4. Cardinality(Lost) + Owed <= crashes
  BY DEF LossAccounted
<1>5. Cardinality(Lost') + Owed' <= crashes'
  BY <1>1, <1>2, <1>3, <1>4, BalanceKept
<1>6. QED BY <1>1, <1>5 DEF LossAccounted

\* A step that loses one event pays for it.
LEMMA OneMoreLost ==
  ASSUME LossAccounted, NEW e, Lost' \subseteq Lost \cup {e}, ragged, ~ragged',
         crashes \in Nat, crashes' = crashes
  PROVE  LossAccounted'
<1>1. IsFiniteSet(Lost \cup {e}) /\ Cardinality(Lost \cup {e}) <= Cardinality(Lost) + 1
  BY FS_AddElement, FS_CardinalityType, SMTT(40) DEF LossAccounted
<1>2. IsFiniteSet(Lost') /\ Cardinality(Lost') <= Cardinality(Lost \cup {e})
  BY <1>1, FS_Subset
<1>3. Cardinality(Lost) \in Nat /\ Cardinality(Lost') \in Nat /\ Cardinality(Lost \cup {e}) \in Nat
  BY <1>1, <1>2, FS_CardinalityType DEF LossAccounted
<1>4. QED BY <1>1, <1>2, <1>3 DEF LossAccounted, Owed

LEMMA LossInit == LogInit => LossInv
<1> SUFFICES ASSUME LogInit PROVE LossInv
  OBVIOUS
<1>1. Lost = {} /\ InProgress = {}
  BY DEF LogInit, Lost, Promised, InProgress, Resting
<1>2. LossAccounted
  BY <1>1, FS_EmptySet DEF LogInit, LossAccounted, Owed
<1>3. EachItsName /\ LeftIsNobodys
  BY <1>1 DEF LogInit, EachItsName, LeftIsNobodys
<1>4. QED BY <1>2, <1>3, LogTypeInit DEF LossInv

LEMMA LossNext == LossInv /\ [LogNext]_logVars => LossInv'
<1> SUFFICES ASSUME LossInv, [LogNext]_logVars PROVE LossInv'
  OBVIOUS
<1>0. /\ LogTypeOK /\ LogTypeOK' /\ log \in Seq(Line) /\ at \in [Thread -> At]
      /\ crashes \in Nat /\ crashes' \in Nat /\ nextId \in Nat \ {0} /\ LossAccounted
  BY LogTypeNext DEF LossInv, LogTypeOK, At
<1>1. ASSUME NEW t \in Thread, Acquire(t) PROVE LossInv'
  <2>1. /\ at[t].pc = "rest" /\ at'[t].pc = "locked" /\ at'[t].id = nextId
        /\ \A u \in Thread \ {t} : at'[u] = at[u]
        /\ nextId' = nextId + 1
        /\ log' = log /\ acked' = acked /\ ragged' = ragged /\ crashes' = crashes
    BY <1>0, <1>1 DEF Acquire, Resting
  <2>2. InProgress' = InProgress \cup {t} /\ t \notin InProgress
    BY <2>1 DEF InProgress
  <2>3. EachItsName'
    <3>1. /\ acked \subseteq 1..(nextId - 1)
          /\ \A u \in InProgress : at[u].id \in 1..(nextId - 1) /\ at[u].id \notin acked
          /\ \A u, v \in InProgress : at[u].id = at[v].id => u = v
      BY DEF LossInv, EachItsName
    <3>2. \A u \in InProgress : at'[u].id = at[u].id
      BY <2>1, <2>2 DEF InProgress
    <3>3. nextId \notin acked /\ nextId \in 1..(nextId' - 1) /\ 1..(nextId - 1) \subseteq 1..(nextId' - 1)
      BY <1>0, <2>1, <3>1
    <3>4. QED BY <1>0, <2>1, <2>2, <3>1, <3>2, <3>3 DEF EachItsName
  <2>4. LeftIsNobodys'
    BY <1>0, <2>1, <2>2 DEF LossInv, LeftIsNobodys, InProgress, Readable
  <2>5. Lost' = Lost
    <3>1. {u \in Thread : at'[u].pc = "written"} = {u \in Thread : at[u].pc = "written"}
      BY <2>1
    <3>2. \A u \in Thread : at[u].pc = "written" => at'[u].id = at[u].id
      BY <2>1
    <3>3. QED BY <2>1, <3>1, <3>2 DEF Lost, Promised, Kept, Readable
  <2>6. LossAccounted'
    BY <1>0, <2>1, <2>5, NoMoreLost DEF Owed
  <2>7. QED BY <1>0, <2>3, <2>4, <2>6 DEF LossInv
<1>2. ASSUME NEW t \in Thread, ReadSeq(t) PROVE LossInv'
  <2>1. /\ at[t].pc = "locked" /\ at'[t].pc = "numbered" /\ at'[t].id = at[t].id
        /\ \A u \in Thread \ {t} : at'[u] = at[u]
        /\ nextId' = nextId
        /\ log' = log /\ acked' = acked /\ ragged' = ragged /\ crashes' = crashes
    BY <1>0, <1>2 DEF ReadSeq, At
  <2>2. InProgress' = InProgress /\ \A u \in Thread : at'[u].id = at[u].id
    BY <2>1 DEF InProgress
  <2>3. EachItsName' /\ LeftIsNobodys'
    BY <1>0, <2>1, <2>2 DEF LossInv, EachItsName, LeftIsNobodys, InProgress, Readable
  <2>4. Lost' = Lost
    <3>1. {u \in Thread : at'[u].pc = "written"} = {u \in Thread : at[u].pc = "written"}
      BY <2>1
    <3>2. QED BY <2>1, <2>2, <3>1 DEF Lost, Promised, Kept, Readable
  <2>5. LossAccounted'
    BY <1>0, <2>1, <2>4, NoMoreLost DEF Owed
  <2>6. QED BY <1>0, <2>3, <2>5 DEF LossInv
<1>3. ASSUME NEW t \in Thread, Write(t) PROVE LossInv'
  <2> DEFINE l == [seq |-> at[t].num, id |-> at[t].id]
  <2>1. /\ at[t].pc = "numbered" /\ at'[t].pc = "written" /\ at'[t].id = at[t].id
        /\ \A u \in Thread \ {t} : at'[u] = at[u]
        /\ nextId' = nextId /\ acked' = acked /\ ~ragged' /\ crashes' = crashes
        /\ log' = Written(l)
    BY <1>0, <1>3 DEF Write, At
  <2>2. InProgress' = InProgress /\ \A u \in Thread : at'[u].id = at[u].id
    BY <2>1 DEF InProgress
  <2>3. EachItsName' /\ LeftIsNobodys'
    BY <1>0, <2>1, <2>2 DEF LossInv, EachItsName, LeftIsNobodys, InProgress
  <2>4. l \in Line /\ l # Torn /\ l.id = at[t].id
    <3>1. at[t].id > 0 /\ at[t] \in At
      BY <1>0, <2>1 DEF LossInv, EachItsName, InProgress
    <3>2. l.id # Torn.id
      BY <3>1 DEF Torn, At
    <3>3. QED BY <3>1, <3>2 DEF Line, At
  <2> HIDE DEF l
  <2>5. Promised' = Promised \cup {l.id}
    <3>1. {u \in Thread : at'[u].pc = "written"} = {u \in Thread : at[u].pc = "written"} \cup {t}
      BY <2>1
    <3>2. QED BY <2>1, <2>2, <2>4, <3>1 DEF Promised
  <2>6. CASE ~ragged
    <3>1. Kept \subseteq Kept' /\ l.id \in Kept'
      BY <1>0, <2>1, <2>4, <2>6, WrittenKeeps
    <3>2. Lost' \subseteq Lost
      BY <2>5, <3>1 DEF Lost
    <3>3. LossAccounted'
      BY <1>0, <2>1, <2>6, <3>2, NoMoreLost DEF Owed
    <3>4. QED BY <1>0, <2>3, <3>3 DEF LossInv
  <2>7. CASE ragged
    <3>1. Kept \subseteq Kept' \cup {log[j].id : j \in Readable \cap {Len(log)}}
      BY <1>0, <2>1, <2>4, <2>7, WrittenKeeps
    <3>2. \A j \in Readable \cap {Len(log)} : log[j].id \notin Promised
      BY <2>7 DEF LossInv, LeftIsNobodys, Promised, InProgress
    <3>3. Lost' \subseteq Lost \cup {l.id}
      BY <2>5, <3>1, <3>2 DEF Lost
    <3>4. LossAccounted'
      BY <1>0, <2>1, <2>7, <3>3, OneMoreLost
    <3>5. QED BY <1>0, <2>3, <3>4 DEF LossInv
  <2>8. QED BY <2>6, <2>7
<1>4. ASSUME NEW t \in Thread, Release(t) PROVE LossInv'
  <2>1. /\ at[t].pc = "written" /\ at'[t].pc = "rest"
        /\ \A u \in Thread \ {t} : at'[u] = at[u]
        /\ nextId' = nextId /\ acked' = acked \cup {at[t].id}
        /\ log' = log /\ ragged' = ragged /\ crashes' = crashes
    BY <1>0, <1>4 DEF Release, Resting
  <2>2. InProgress' = InProgress \ {t} /\ t \in InProgress /\ \A u \in InProgress' : at'[u] = at[u]
    BY <2>1 DEF InProgress
  <2>3. EachItsName' /\ LeftIsNobodys'
    <3>1. EachItsName'
      <4>1. at[t].id \in 1..(nextId - 1) /\ at[t].id \notin acked /\ acked \subseteq 1..(nextId - 1)
        BY <2>2 DEF LossInv, EachItsName
      <4>2. \A u \in InProgress' : at[u].id # at[t].id
        BY <2>2 DEF LossInv, EachItsName
      <4>3. \A u, v \in InProgress : at[u].id = at[v].id => u = v
        BY DEF LossInv, EachItsName
      <4>4. \A u \in InProgress : at[u].id \in 1..(nextId - 1) /\ at[u].id \notin acked
        BY DEF LossInv, EachItsName
      <4>5. acked' \subseteq 1..(nextId' - 1)
        BY <2>1, <4>1
      <4>6. \A u \in InProgress' : u \in InProgress /\ at'[u].id = at[u].id
        BY <2>2
      <4>7. ASSUME NEW u \in InProgress'
            PROVE  at'[u].id \in 1..(nextId' - 1) /\ at'[u].id \notin acked'
        BY <2>1, <4>2, <4>4, <4>6
      <4>8. \A u, v \in InProgress' : at'[u].id = at'[v].id => u = v
        BY <4>3, <4>6
      <4>9. QED BY <4>5, <4>7, <4>8 DEF EachItsName
    <3>2. LeftIsNobodys'
      BY <2>1, <2>2 DEF LossInv, LeftIsNobodys, Readable
    <3>3. QED BY <3>1, <3>2
  <2>4. Lost' = Lost
    <3>1. {u \in Thread : at[u].pc = "written"} = {u \in Thread : at'[u].pc = "written"} \cup {t}
      BY <2>1
    <3>2. \A u \in Thread : at'[u].pc = "written" => at'[u].id = at[u].id
      BY <2>1
    <3>3. Promised' = Promised
      BY <2>1, <3>1, <3>2 DEF Promised
    <3>4. QED BY <2>1, <3>3 DEF Lost, Kept, Readable
  <2>5. LossAccounted'
    BY <1>0, <2>1, <2>4, NoMoreLost DEF Owed
  <2>6. QED BY <1>0, <2>3, <2>5 DEF LossInv
<1>5. ASSUME NEW p \in Process, NEW cut \in Cuts, Crash(p, cut) PROVE LossInv'
  <2>1. /\ \A u \in Thread : at'[u] = at[u] \/ at'[u].pc = "rest"
        /\ \A u \in Thread : Home[u] = p => at'[u].pc = "rest"
        /\ nextId' = nextId /\ acked' = acked /\ crashes' = crashes + 1
    BY <1>0, <1>5 DEF Crash, Resting
  <2>2. InProgress' \subseteq InProgress /\ \A u \in InProgress' : at'[u] = at[u]
    BY <2>1 DEF InProgress
  <2>3. EachItsName'
    BY <2>1, <2>2 DEF LossInv, EachItsName
  <2>4. Promised' \subseteq Promised
    <3>1. \A u \in Thread : at'[u].pc = "written" => at'[u] = at[u]
      BY <2>1
    <3>2. QED BY <2>1, <3>1 DEF Promised
  <2>5. Owed \in {0, 1} /\ Owed' \in {0, 1}
    BY DEF Owed
  <2>6. CASE log' = log /\ ragged' = ragged
    <3>1. LeftIsNobodys'
      BY <2>1, <2>2, <2>6 DEF LossInv, LeftIsNobodys, Readable
    <3>2. Lost' \subseteq Lost
      BY <2>4, <2>6 DEF Lost, Kept, Readable
    <3>3. LossAccounted'
      BY <1>0, <2>1, <2>6, <3>2, NoMoreLost DEF Owed
    <3>4. QED BY <1>0, <2>3, <3>1, <3>3 DEF LossInv
  <2>7. ASSUME NEW t \in Thread, Home[t] = p, at[t].pc = "numbered", NEW l \in Line,
               l = Torn \/ l.id = at[t].id, log' = Written(l)
        PROVE  LossInv'
    <3>1. LeftIsNobodys'
      <4> SUFFICES ASSUME Len(log') \in Readable'
                   PROVE  /\ log'[Len(log')].id \notin acked'
                          /\ log'[Len(log')].id \in 1..(nextId' - 1)
                          /\ \A u \in InProgress' : at'[u].id # log'[Len(log')].id
        BY DEF LeftIsNobodys
      <4>1. ~ragged /\ log'[Len(log')] = l
        BY <1>0, <2>7, WrittenKeeps
      <4>2. l # Torn
        BY <4>1 DEF Readable
      <4>3. l.id = at[t].id /\ t \in InProgress /\ t \notin InProgress'
        BY <2>1, <2>7, <4>2 DEF InProgress
      <4>4. QED BY <2>1, <2>2, <4>1, <4>3 DEF LossInv, EachItsName
    <3>2. Lost' \subseteq Lost
      <4>1. CASE ~ragged
        BY <1>0, <2>4, <2>7, <4>1, WrittenKeeps DEF Lost
      <4>2. CASE ragged
        <5>1. Kept \subseteq Kept' \cup {log[j].id : j \in Readable \cap {Len(log)}}
          BY <1>0, <2>7, <4>2, WrittenKeeps
        <5>2. \A j \in Readable \cap {Len(log)} : log[j].id \notin Promised
          BY <4>2 DEF LossInv, LeftIsNobodys, Promised, InProgress
        <5>3. QED BY <2>4, <5>1, <5>2 DEF Lost
      <4>3. QED BY <4>1, <4>2
    <3>3. Owed' + crashes <= Owed + crashes'
      BY <1>0, <2>1, <2>5, OneCrashMore
    <3>5. LossAccounted'
      BY <1>0, <3>2, <3>3, NoMoreLost
    <3>6. QED BY <1>0, <2>3, <3>1, <3>5 DEF LossInv
  <2>8. ASSUME NEW t \in Thread, Home[t] = p, at[t].pc = "numbered",
               log' = Left(cut, [seq |-> at[t].num, id |-> at[t].id])
        PROVE  LossInv'
    <3> DEFINE l == [seq |-> at[t].num, id |-> at[t].id]
    <3>1. l \in Line /\ Torn \in Line /\ l.id = at[t].id
      BY <1>0 DEF At, Line, Torn
    <3>2. log' = Written(Torn) \/ log' = Written(l)
      BY <2>8 DEF Left
    <3> HIDE DEF l
    <3>3. QED BY <2>7, <2>8, <3>1, <3>2
  <2>9. QED BY <1>5, <2>6, <2>8 DEF Crash
<1>6. CASE UNCHANGED logVars
  BY <1>0, <1>6 DEF logVars, LossInv, EachItsName, LeftIsNobodys, LossAccounted, Owed, Lost,
                    Promised, Kept, InProgress, Readable
<1>7. QED
  BY <1>1, <1>2, <1>3, <1>4, <1>5, <1>6 DEF LogNext, AppendStep

\* However many processes append and die, whatever they leave behind, a crash
\* costs at most one event whose append had returned (append_event and
\* read_events, backend/casestore/events.py).
THEOREM LossIsBounded == LogSpec => []LossBoundedByCrashes
<1>1. LogSpec => []LossInv
  BY LossInit, LossNext, PTL DEF LogSpec
<1>2. LossInv => LossBoundedByCrashes
  <2> SUFFICES ASSUME LossInv PROVE LossBoundedByCrashes
    OBVIOUS
  <2> DEFINE gone == {e \in acked : \A i \in Readable : log[i].id # e}
  <2>1. gone \subseteq Lost
    BY DEF Lost, Promised, Kept
  <2>2. IsFiniteSet(Lost) /\ Cardinality(Lost) <= crashes /\ crashes \in Nat
    <3>1. IsFiniteSet(Lost) /\ Cardinality(Lost) \in Nat /\ Owed \in Nat /\ crashes \in Nat
      BY FS_CardinalityType DEF LossInv, LossAccounted, Owed, LogTypeOK
    <3>2. QED BY <3>1 DEF LossInv, LossAccounted
  <2>3. Cardinality(gone) <= Cardinality(Lost) /\ IsFiniteSet(gone)
    <3> HIDE DEF gone
    <3>1. QED BY <2>1, <2>2, FS_Subset
  <2>4. Cardinality(gone) \in Nat /\ Cardinality(Lost) \in Nat
    <3> HIDE DEF gone
    <3>1. QED BY <2>2, <2>3, FS_CardinalityType
  <2>5. Cardinality(gone) <= crashes
    BY <2>2, <2>3, <2>4
  <2>6. QED BY <2>5 DEF LossBoundedByCrashes
<1>3. QED BY <1>1, <1>2, PTL

-----------------------------------------------------------------------------
(***************************************************************************)
(* What read_events reads.                                                 *)
(*                                                                         *)
(* EventsIn is a recursive function, and what it returns for a longer file *)
(* takes an induction: of the lengths for which two loops part, or none    *)
(* exists, the least would be preceded by one for which they do not.       *)
(***************************************************************************)

\* The loop of EventsIn over the first m lines.
After(f, lines, since, n) ==
  IF n = 0 THEN <<>>
  ELSE IF Passes(lines[n], since) THEN Append(f[n - 1], lines[n]) ELSE f[n - 1]

Loop(f, lines, since, m) == f = [n \in 0..m |-> After(f, lines, since, n)]

LEMMA LoopAt ==
  ASSUME NEW f, NEW lines, NEW since, NEW m \in Nat, Loop(f, lines, since, m), NEW n \in 0..m
  PROVE  f[n] = After(f, lines, since, n)
BY DEF Loop

LEMMA LoopExists ==
  ASSUME NEW lines, NEW since, NEW m \in Nat
  PROVE  \E f : Loop(f, lines, since, m)
<1> DEFINE Without == {k \in Nat : ~ \E f : Loop(f, lines, since, k)}
<1>1. SUFFICES ASSUME Without # {} PROVE FALSE
  OBVIOUS
<1>2. PICK k \in Without : \A j \in Without : k <= j
  BY <1>1, LeastNatural
<1>3. k # 0
  <2>1. Loop([n \in 0..0 |-> <<>>], lines, since, 0)
    BY DEF Loop, After
  <2>2. QED BY <2>1
<1>4. PICK f : Loop(f, lines, since, k - 1)
  BY <1>2, <1>3
<1> DEFINE g == [n \in 0..k |-> IF n < k THEN f[n] ELSE After(f, lines, since, k)]
<1>5. ASSUME NEW n \in 0..k PROVE g[n] = After(g, lines, since, n)
  <2>1. CASE n < k
    <3>1. g[n] = After(f, lines, since, n)
      BY <1>3, <1>4, <2>1, LoopAt
    <3>2. n # 0 => g[n - 1] = f[n - 1]
      BY <2>1
    <3> HIDE DEF g
    <3>3. QED BY <3>1, <3>2 DEF After
  <2>2. CASE n = k
    <3>1. g[n] = After(f, lines, since, k) /\ g[k - 1] = f[k - 1]
      BY <1>3, <2>2
    <3> HIDE DEF g
    <3>2. QED BY <1>3, <2>2, <3>1 DEF After
  <2>3. QED BY <2>1, <2>2
<1>6. g = [n \in 0..k |-> After(g, lines, since, n)]
  <2>1. g = [n \in 0..k |-> g[n]]
    OBVIOUS
  <2> HIDE DEF g
  <2>2. QED BY <1>5, <2>1
<1>7. QED BY <1>2, <1>6 DEF Loop

LEMMA EventsInLoop ==
  ASSUME NEW lines, NEW since, Len(lines) \in Nat
  PROVE  \E f : Loop(f, lines, since, Len(lines)) /\ EventsIn(lines, since) = f[Len(lines)]
<1> DEFINE F == CHOOSE f : Loop(f, lines, since, Len(lines))
<1>1. EventsIn(lines, since) = F[Len(lines)]
  BY DEF EventsIn, Loop, After
<1>2. Loop(F, lines, since, Len(lines))
  BY LoopExists
<1>3. QED BY <1>1, <1>2

\* Loops over lines that begin alike agree there.
LEMMA LoopsAgree ==
  ASSUME NEW lines, NEW more, NEW since, NEW m \in Nat, NEW k \in Nat, m <= k, NEW f, NEW g,
         Loop(f, lines, since, m), Loop(g, more, since, k), \A i \in 1..m : more[i] = lines[i]
  PROVE  f[m] = g[m]
<1> DEFINE Apart == {n \in 0..m : f[n] # g[n]}
<1>1. SUFFICES ASSUME Apart # {} PROVE FALSE
  OBVIOUS
<1>2. PICK n \in Apart : \A j \in Apart : n <= j
  <2>1. Apart \in SUBSET Nat
    OBVIOUS
  <2> HIDE DEF Apart
  <2>2. QED BY <1>1, <2>1, LeastNatural
<1>3. f[n] = After(f, lines, since, n) /\ g[n] = After(g, more, since, n) /\ n \in 0..k
  BY LoopAt
<1>4. n # 0 => f[n - 1] = g[n - 1] /\ more[n] = lines[n]
  BY <1>2
<1>5. f[n] = g[n]
  BY <1>3, <1>4 DEF After
<1>6. QED BY <1>5

\* One more line is either passed over or comes last.
LEMMA EventsInAppend ==
  ASSUME NEW S, NEW lines \in Seq(S), NEW l \in S, NEW since
  PROVE  EventsIn(Append(lines, l), since) =
           IF Passes(l, since) THEN Append(EventsIn(lines, since), l) ELSE EventsIn(lines, since)
<1> DEFINE more == Append(lines, l)
<1>1. /\ Len(more) = Len(lines) + 1 /\ more[Len(lines) + 1] = l /\ Len(lines) \in Nat
      /\ \A i \in 1..Len(lines) : more[i] = lines[i]
  OBVIOUS
<1> HIDE DEF more
<1>2. PICK f : Loop(f, lines, since, Len(lines)) /\ EventsIn(lines, since) = f[Len(lines)]
  BY <1>1, EventsInLoop
<1>3. PICK g : Loop(g, more, since, Len(more)) /\ EventsIn(more, since) = g[Len(more)]
  BY <1>1, EventsInLoop
<1>4. f[Len(lines)] = g[Len(lines)]
  <2>1. Len(lines) \in Nat /\ Len(more) \in Nat /\ Len(lines) <= Len(more)
    BY <1>1
  <2>2. QED BY <1>1, <1>2, <1>3, <2>1, LoopsAgree
<1>5. g[Len(more)] = After(g, more, since, Len(more))
  BY <1>1, <1>3, LoopAt
<1>6. QED BY <1>1, <1>2, <1>3, <1>4, <1>5 DEF After, more

LEMMA EventsInNothing == ASSUME NEW since PROVE EventsIn(<<>>, since) = <<>>
<1>1. PICK f : Loop(f, <<>>, since, 0) /\ EventsIn(<<>>, since) = f[0]
  BY EventsInLoop
<1>2. QED BY <1>1, LoopAt DEF After

-----------------------------------------------------------------------------
(***************************************************************************)
(* What the file answers.                                                  *)
(*                                                                         *)
(* One process appends, and what dies with it is never a whole line        *)
(* without its newline, which could be read once and then be gone.  Then   *)
(* the n-th event in the file has the number n, a request from `since` is  *)
(* answered with the events behind it, and every step leaves what can be   *)
(* read alone or adds the next event to it (FileGrows).                    *)
(***************************************************************************)

Published == EventsIn(log, 0)

TornEnds == ragged => log # <<>> /\ log[Len(log)] = Torn

Numbered ==
  /\ Published \in Seq(Line)
  /\ \A n \in 1..Len(Published) : Published[n].seq = n
  /\ LastSeq = Len(Published)
  /\ \A i \in Readable : log[i].seq \in 1..Len(Published) /\ Published[log[i].seq] = log[i]

AnswersTheRest ==
  \A since \in Nat : EventsIn(log, since) = SubSeq(Published, since + 1, Len(Published))

FileInv == LogInv /\ TornEnds /\ Numbered /\ AnswersTheRest

FileGrows ==
  \/ Published' = Published
  \/ \E l \in Line : l.seq = Len(Published) + 1 /\ Published' = Append(Published, l)

\* What lies behind a position, when one more element arrives.
LEMMA RestGrows ==
  ASSUME NEW S, NEW s \in Seq(S), NEW e \in S, NEW n \in Nat
  PROVE  SubSeq(Append(s, e), n + 1, Len(s) + 1) =
           IF n <= Len(s) THEN Append(SubSeq(s, n + 1, Len(s)), e) ELSE <<>>
<1>1. /\ Append(s, e) \in Seq(S) /\ Len(Append(s, e)) = Len(s) + 1 /\ Len(s) \in Nat
      /\ \A i \in 1..Len(s) : Append(s, e)[i] = s[i]
      /\ Append(s, e)[Len(s) + 1] = e
  BY AppendProperties
<1>2. CASE n <= Len(s)
  <2> DEFINE a == SubSeq(Append(s, e), n + 1, Len(s) + 1)
             b == SubSeq(s, n + 1, Len(s))
  <2>1. /\ a \in Seq(S) /\ Len(a) = Len(s) + 1 - n
        /\ \A i \in 1..(Len(s) + 1 - n) : a[i] = Append(s, e)[n + i]
    <3>1. \A i \in (n + 1)..(Len(s) + 1) : Append(s, e)[i] \in S
      BY <1>1
    <3>2. n + 1 \in Int /\ Len(s) + 1 \in Int /\ n + 1 <= Len(s) + 1
      BY <1>1, <1>2
    <3>3. QED BY <1>1, <3>1, <3>2, SubSeqProperties
  <2>2. /\ b \in Seq(S) /\ Len(b) = Len(s) - n
        /\ \A i \in 1..(Len(s) - n) : b[i] = s[n + i]
    <3>1. \A i \in (n + 1)..Len(s) : s[i] \in S
      BY <1>1, ElementOfSeq
    <3>2. n + 1 \in Int /\ Len(s) \in Int
      BY <1>1
    <3>3. QED BY <1>1, <1>2, <3>1, <3>2, SubSeqProperties
  <2> HIDE DEF a, b
  <2>3. /\ Append(b, e) \in Seq(S) /\ Len(Append(b, e)) = Len(s) + 1 - n
        /\ \A i \in 1..(Len(s) - n) : Append(b, e)[i] = s[n + i]
        /\ Append(b, e)[Len(s) - n + 1] = e
    BY <1>1, <1>2, <2>2, AppendProperties
  <2>4. \A i \in 1..(Len(s) + 1 - n) : a[i] = Append(b, e)[i]
    BY <1>1, <1>2, <2>1, <2>3
  <2>5. a = Append(b, e)
    BY <2>1, <2>3, <2>4, SeqEqual
  <2>6. QED BY <1>2, <2>5 DEF a, b
<1>3. CASE ~(n <= Len(s))
  BY <1>1, <1>3, SubSeqEmpty
<1>4. QED BY <1>2, <1>3

\* A step of the log leaves the file as it is, or adds a line to it: half of
\* one, or an event under the next number.
LineAdded(l) == log' = Append(log, l) /\ (l # Torn => l.seq = LastSeq + 1)

LEMMA FileStep ==
  ASSUME "unterminated" \notin Cuts, LogInv, TornEnds, [LogNext]_logVars
  PROVE  /\ TornEnds'
         /\ log' = log \/ \E l \in Line : LineAdded(l)
<1>0. log \in Seq(Line) /\ at \in [Thread -> At] /\ Torn \in Line
  BY DEF LogInv, LogTypeOK, At, Torn, Line
<1>1. ASSUME NEW l \in Line, log' = Written(l), l # Torn => l.seq = LastSeq + 1
      PROVE  /\ log' = log \/ LineAdded(l)
             /\ l = Torn => log' # <<>> /\ log'[Len(log')] = Torn
  <2>1. CASE ragged
    <3>1. log' = [log EXCEPT ![Len(log)] = Torn] /\ log[Len(log)] = Torn /\ log # <<>>
      BY <1>1, <2>1 DEF Written, TornEnds
    <3>2. log' = log
      BY <1>0, <3>1
    <3>3. QED BY <3>1, <3>2
  <2>2. CASE ~ragged
    BY <1>0, <1>1, <2>2, AppendProperties DEF Written, LineAdded
  <2>3. QED BY <2>1, <2>2
<1>2. ASSUME NEW t \in Thread, Acquire(t) \/ ReadSeq(t) \/ Release(t)
      PROVE  log' = log /\ TornEnds'
  BY <1>2 DEF Acquire, ReadSeq, Release, TornEnds
<1>3. ASSUME NEW t \in Thread, at[t].pc = "numbered"
      PROVE  /\ [seq |-> at[t].num, id |-> at[t].id] \in Line
             /\ at[t].num = LastSeq + 1
  BY <1>0, <1>3 DEF LogInv, NumberIsNext, At, Line
<1>4. ASSUME NEW t \in Thread, Write(t)
      PROVE  TornEnds' /\ (log' = log \/ \E l \in Line : LineAdded(l))
  <2>1. at[t].pc = "numbered" /\ log' = Written([seq |-> at[t].num, id |-> at[t].id]) /\ ~ragged'
    BY <1>4 DEF Write
  <2>2. log' = log \/ \E l \in Line : LineAdded(l)
    BY <1>1, <1>3, <2>1
  <2>3. QED BY <2>1, <2>2 DEF TornEnds
<1>5. ASSUME NEW p \in Process, NEW cut \in Cuts, Crash(p, cut)
      PROVE  TornEnds' /\ (log' = log \/ \E l \in Line : LineAdded(l))
  <2>1. CASE log' = log /\ ragged' = ragged
    BY <2>1 DEF TornEnds
  <2>2. ASSUME NEW t \in Thread, at[t].pc = "numbered", cut # "nothing", ragged' = (cut # "whole"),
               log' = Left(cut, [seq |-> at[t].num, id |-> at[t].id])
        PROVE  TornEnds' /\ (log' = log \/ \E l \in Line : LineAdded(l))
    <3>1. CASE cut = "half"
      BY <1>0, <1>1, <2>2, <3>1 DEF Left, TornEnds
    <3>2. CASE cut # "half"
      <4>1. cut = "whole"
        BY <2>2, <3>2, EventLogAssumption
      <4>2. ~ragged' /\ log' = Written([seq |-> at[t].num, id |-> at[t].id])
        BY <2>2, <4>1 DEF Left
      <4>3. QED BY <1>1, <1>3, <2>2, <4>2 DEF TornEnds
    <3>3. QED BY <3>1, <3>2
  <2>3. QED BY <1>5, <2>1, <2>2 DEF Crash
<1>6. CASE UNCHANGED logVars
  BY <1>6 DEF logVars, TornEnds
<1>7. QED
  BY <1>2, <1>4, <1>5, <1>6 DEF LogNext, AppendStep

LEMMA FileInit == LogInit => FileInv
<1> SUFFICES ASSUME LogInit PROVE FileInv
  OBVIOUS
<1>1. log = <<>> /\ ragged = FALSE /\ Readable = {} /\ LastSeq = 0
  BY DEF LogInit, Readable, LastSeq
<1>2. Published = <<>> /\ \A since \in Nat : EventsIn(log, since) = <<>>
  BY <1>1, EventsInNothing DEF Published
<1>3. Numbered
  BY <1>1, <1>2 DEF Numbered
<1>4. AnswersTheRest
  <2>1. \A since \in Nat : SubSeq(<<>>, since + 1, 0) = <<>>
    BY SubSeqEmpty
  <2>2. QED BY <1>2, <2>1 DEF AnswersTheRest
<1>5. QED BY <1>1, <1>3, <1>4, LogInvInit DEF FileInv, TornEnds

LEMMA FileNext ==
  ASSUME \A t, u \in Thread : Home[t] = Home[u], "unterminated" \notin Cuts,
         FileInv, [LogNext]_logVars
  PROVE  FileInv' /\ FileGrows
<1>0. log \in Seq(Line) /\ Published \in Seq(Line) /\ LastSeq = Len(Published) /\ Len(Published) \in Nat
  BY DEF FileInv, LogInv, LogTypeOK, Numbered
<1>1. LogInv' /\ TornEnds' /\ (log' = log \/ \E l \in Line : LineAdded(l))
  BY LogInvNext, FileStep DEF FileInv
<1>2. CASE log' = log
  BY <1>1, <1>2 DEF FileInv, FileGrows, Numbered, AnswersTheRest, Published, Readable, LastSeq
<1>3. ASSUME NEW l \in Line, LineAdded(l), l = Torn PROVE FileInv' /\ FileGrows
  <2>1. \A since \in Nat : EventsIn(log', since) = EventsIn(log, since)
    BY <1>0, <1>3, EventsInAppend DEF LineAdded, Passes
  <2>2. Readable' = Readable /\ \A i \in Readable : log'[i] = log[i]
    BY <1>0, <1>3 DEF LineAdded, Readable
  <2>3. Published' = Published
    BY <2>1 DEF Published
  <2>4. LastSeq' = LastSeq
    <3>1. CASE Readable = {}
      BY <2>2, <3>1 DEF LastSeq
    <3>2. CASE Readable # {}
      <4>1. PICK m \in Readable : \A j \in Readable : j <= m
        BY <1>0, <3>2, LastSeqValue
      <4>2. (CHOOSE i \in Readable : \A j \in Readable : j <= i) \in Readable
        BY <4>1
      <4>3. QED BY <2>2, <3>2, <4>2 DEF LastSeq
    <3>3. QED BY <3>1, <3>2
  <2>5. QED BY <1>1, <2>1, <2>2, <2>3, <2>4 DEF FileInv, FileGrows, Numbered, AnswersTheRest
<1>4. ASSUME NEW l \in Line, LineAdded(l), l # Torn PROVE FileInv' /\ FileGrows
  <2>1. l.seq = Len(Published) + 1 /\ l.seq \in Nat
    BY <1>0, <1>4 DEF LineAdded
  <2>2. \A since \in Nat :
          EventsIn(log', since) = IF since <= Len(Published) THEN Append(EventsIn(log, since), l)
                                  ELSE EventsIn(log, since)
    <3> SUFFICES ASSUME NEW since \in Nat
                 PROVE  EventsIn(log', since) =
                          IF since <= Len(Published) THEN Append(EventsIn(log, since), l)
                          ELSE EventsIn(log, since)
      OBVIOUS
    <3>1. Passes(l, since) <=> since <= Len(Published)
      BY <1>0, <1>4, <2>1 DEF Passes
    <3>2. QED BY <1>0, <1>4, <3>1, EventsInAppend DEF LineAdded
  <2>3. Published' = Append(Published, l)
    BY <1>0, <2>2 DEF Published
  <2>4. /\ Published' \in Seq(Line) /\ Len(Published') = Len(Published) + 1
        /\ \A n \in 1..Len(Published) : Published'[n] = Published[n]
        /\ Published'[Len(Published) + 1] = l
    BY <1>0, <2>3, AppendProperties
  <2>5. /\ Readable' = Readable \cup {Len(log) + 1} /\ Len(log) \in Nat
        /\ \A i \in Readable : log'[i] = log[i] /\ i <= Len(log) /\ i \in Nat
        /\ log'[Len(log) + 1] = l
    BY <1>0, <1>4 DEF LineAdded, Readable
  <2>6. LastSeq' = Len(Published')
    <3>1. \A i \in Readable' : i <= Len(log) + 1
      BY <2>5
    <3>2. (CHOOSE i \in Readable' : \A j \in Readable' : j <= i) = Len(log) + 1
      BY <2>5, <3>1
    <3>3. Readable' # {}
      BY <2>5
    <3>4. LastSeq' = log'[Len(log) + 1].seq
      BY <3>2, <3>3 DEF LastSeq
    <3>5. QED BY <2>1, <2>4, <2>5, <3>4
  <2>7. Numbered'
    <3>1. \A n \in 1..Len(Published') : Published'[n].seq = n
      BY <1>0, <2>1, <2>4 DEF FileInv, Numbered
    <3>2. \A i \in Readable' : log'[i].seq \in 1..Len(Published') /\ Published'[log'[i].seq] = log'[i]
      <4>1. \A i \in Readable : log[i].seq \in 1..Len(Published) /\ Published[log[i].seq] = log[i]
        BY DEF FileInv, Numbered
      <4>2. ASSUME NEW i \in Readable
            PROVE  log'[i].seq \in 1..Len(Published') /\ Published'[log'[i].seq] = log'[i]
        BY <1>0, <2>4, <2>5, <4>1
      <4>3. l.seq \in 1..Len(Published') /\ Published'[l.seq] = l
        BY <1>0, <2>1, <2>4
      <4>4. QED BY <2>5, <4>2, <4>3
    <3>3. QED BY <2>4, <2>6, <3>1, <3>2 DEF Numbered
  <2>8. AnswersTheRest'
    <3> SUFFICES ASSUME NEW since \in Nat
                 PROVE  EventsIn(log', since) = SubSeq(Published', since + 1, Len(Published'))
      BY DEF AnswersTheRest
    <3>1. EventsIn(log, since) = SubSeq(Published, since + 1, Len(Published))
      BY DEF FileInv, AnswersTheRest
    <3>2. SubSeq(Published', since + 1, Len(Published')) =
            IF since <= Len(Published) THEN Append(EventsIn(log, since), l) ELSE <<>>
      <4>1. SubSeq(Append(Published, l), since + 1, Len(Published) + 1) =
              IF since <= Len(Published) THEN Append(SubSeq(Published, since + 1, Len(Published)), l)
              ELSE <<>>
        BY <1>0, RestGrows
      <4>2. QED BY <2>3, <2>4, <3>1, <4>1
    <3>3. ~(since <= Len(Published)) => EventsIn(log, since) = <<>>
      BY <1>0, <3>1, SubSeqEmpty
    <3>4. QED BY <2>2, <3>2, <3>3
  <2>9. QED BY <1>1, <2>1, <2>3, <2>7, <2>8 DEF FileInv, FileGrows
<1>5. QED BY <1>1, <1>2, <1>3, <1>4

-----------------------------------------------------------------------------
(***************************************************************************)
(* Type correctness of the feed.                                           *)
(***************************************************************************)

\* What is read out of a file of lines is a sequence of lines.
LEMMA EventsInType ==
  ASSUME NEW S, NEW lines \in Seq(S), NEW since
  PROVE  EventsIn(lines, since) \in Seq(S)
<1>0. Len(lines) \in Nat
  OBVIOUS
<1>1. PICK f : Loop(f, lines, since, Len(lines)) /\ EventsIn(lines, since) = f[Len(lines)]
  BY <1>0, EventsInLoop
<1> DEFINE Bad == {n \in 0..Len(lines) : f[n] \notin Seq(S)}
<1>2. SUFFICES ASSUME Bad # {} PROVE FALSE
  BY <1>0, <1>1
<1>3. PICK n \in Bad : \A j \in Bad : n <= j
  <2>1. Bad \in SUBSET Nat
    BY <1>0
  <2> HIDE DEF Bad
  <2>2. QED BY <1>2, <2>1, LeastNatural
<1>4. f[n] = After(f, lines, since, n)
  BY <1>0, <1>1, LoopAt
<1>5. n # 0 => f[n - 1] \in Seq(S) /\ lines[n] \in S
  BY <1>0, <1>3
<1>6. f[n] \in Seq(S)
  BY <1>4, <1>5, AppendProperties DEF After
<1>7. QED BY <1>6

Answer == [state : {"free", "asked", "served"}, since : Nat, events : Seq(Line)]

SlotsOK == DOMAIN request = Client /\ \A c \in Client : request[c] \in [Slot(c) -> Answer]

FeedTypeInv ==
  /\ LogTypeOK
  /\ shown \in [Client -> Seq(Line)]
  /\ SlotsOK
  /\ stopped \subseteq Client \ Interval
  /\ failures \in Nat

\* A step that fills one slot leaves the others alone.
LEMMA SlotFilled ==
  ASSUME SlotsOK, NEW c \in Client, NEW k \in Slot(c), NEW r \in Answer,
         request' = [request EXCEPT ![c][k] = r]
  PROVE  /\ SlotsOK'
         /\ \A d \in Client : \A j \in Slot(d) :
              request'[d][j] = IF d = c /\ j = k THEN r ELSE request[d][j]
<1>1. DOMAIN request' = Client
  BY DEF SlotsOK
<1>2. request'[c] = [request[c] EXCEPT ![k] = r] /\ \A d \in Client \ {c} : request'[d] = request[d]
  BY DEF SlotsOK
<1>3. request[c] \in [Slot(c) -> Answer]
  BY DEF SlotsOK
<1>4. request'[c] \in [Slot(c) -> Answer]
      /\ \A j \in Slot(c) : request'[c][j] = IF j = k THEN r ELSE request[c][j]
  BY <1>2, <1>3
<1>5. SlotsOK'
  BY <1>1, <1>2, <1>4 DEF SlotsOK, Slot
<1>6. QED BY <1>2, <1>4, <1>5

Served(r, events) == [r EXCEPT !.state = "served", !.events = events]

SlotAnswered(c, k, events) ==
  request' = [request EXCEPT ![c][k].state = "served", ![c][k].events = events]

LEMMA SlotServed ==
  ASSUME SlotsOK, NEW c \in Client, NEW k \in Slot(c), NEW events \in Seq(Line),
         SlotAnswered(c, k, events)
  PROVE  /\ Served(request[c][k], events) \in Answer
         /\ SlotsOK'
         /\ \A d \in Client : \A j \in Slot(d) :
              request'[d][j] = IF d = c /\ j = k THEN Served(request[c][k], events)
                               ELSE request[d][j]
<1>1. request[c] \in [Slot(c) -> Answer] /\ request[c][k] \in Answer
  BY DEF SlotsOK
<1>2. Served(request[c][k], events) \in Answer
  BY <1>1 DEF Served, Answer
<1>3. DOMAIN request' = Client /\ \A d \in Client \ {c} : request'[d] = request[d]
  BY DEF SlotsOK, SlotAnswered
<1>4. request'[c] = [request[c] EXCEPT ![k].state = "served", ![k].events = events]
  BY <1>1 DEF SlotsOK, SlotAnswered
<1>5. request'[c][k] = Served(request[c][k], events)
  BY <1>1, <1>4 DEF Served, Answer
<1>6. DOMAIN request'[c] = Slot(c) /\ \A j \in Slot(c) \ {k} : request'[c][j] = request[c][j]
  BY <1>1, <1>4
<1>7. request'[c] \in [Slot(c) -> Answer]
  BY <1>1, <1>2, <1>4, <1>5, <1>6
<1>8. SlotsOK'
  BY <1>3, <1>7 DEF SlotsOK, Slot
<1>9. QED BY <1>2, <1>3, <1>5, <1>6, <1>8

LEMMA SinceType ==
  ASSUME NEW c \in Client, shown[c] \in Seq(Line)
  PROVE  /\ Since(c) \in Nat
         /\ shown[c] # <<>> => /\ Len(shown[c]) \in DOMAIN shown[c]
                               /\ Since(c) = shown[c][Len(shown[c])].seq
<1>1. CASE shown[c] = <<>>
  BY <1>1 DEF Since
<1>2. CASE shown[c] # <<>>
  <2>1. Len(shown[c]) \in DOMAIN shown[c] /\ shown[c][Len(shown[c])] \in Line
    BY <1>2
  <2>2. Since(c) = shown[c][Len(shown[c])].seq
    BY <1>2 DEF Since, Last
  <2>3. QED BY <2>1, <2>2 DEF Line
<1>3. QED BY <1>1, <1>2

LEMMA FeedTypeInit == Init => FeedTypeInv
<1> SUFFICES ASSUME Init PROVE FeedTypeInv
  OBVIOUS
<1>1. NoRequest \in Answer
  BY DEF NoRequest, Answer
<1>2. SlotsOK
  BY <1>1 DEF Init, SlotsOK
<1>3. QED BY <1>2, LogTypeInit DEF Init, FeedTypeInv

LEMMA FeedTypeNext == FeedTypeInv /\ [Next]_vars => FeedTypeInv'
<1> SUFFICES ASSUME FeedTypeInv, [Next]_vars PROVE FeedTypeInv'
  OBVIOUS
<1>0. /\ SlotsOK /\ shown \in [Client -> Seq(Line)] /\ log \in Seq(Line) /\ NoRequest \in Answer
      /\ stopped \subseteq Client \ Interval /\ failures \in Nat
  BY DEF FeedTypeInv, LogTypeOK, NoRequest, Answer
<1>1. LogTypeOK'
  <2>1. [LogNext]_logVars
    BY DEF Next, vars, ClientStep, Ask, Serve, Show, Fail
  <2>2. QED BY <2>1, LogTypeNext DEF FeedTypeInv
<1>2. ASSUME NEW c \in Client, NEW k \in Slot(c), Ask(c, k) PROVE FeedTypeInv'
  <2>1. [state |-> "asked", since |-> Since(c), events |-> <<>>] \in Answer
    BY <1>0, SinceType DEF Answer
  <2>2. SlotsOK'
    BY <1>0, <1>2, <2>1, SlotFilled DEF Ask
  <2>3. QED BY <1>0, <1>1, <1>2, <2>2 DEF Ask, FeedTypeInv
<1>3. ASSUME NEW c \in Client, NEW k \in Slot(c), Serve(c, k) PROVE FeedTypeInv'
  <2>1. EventsAfter(request[c][k].since) \in Seq(Line)
    BY <1>0, EventsInType DEF EventsAfter
  <2>2. SlotAnswered(c, k, EventsAfter(request[c][k].since))
    BY <1>3 DEF Serve, SlotAnswered
  <2>3. SlotsOK'
    BY <1>0, <2>1, <2>2, SlotServed
  <2>4. QED BY <1>0, <1>1, <1>3, <2>3 DEF Serve, FeedTypeInv
<1>4. ASSUME NEW c \in Client, NEW k \in Slot(c), Show(c, k) PROVE FeedTypeInv'
  <2>1. SlotsOK'
    BY <1>0, <1>4, SlotFilled DEF Show
  <2>2. shown[c] \o request[c][k].events \in Seq(Line)
    <3>1. request[c][k] \in Answer
      BY <1>0 DEF SlotsOK
    <3>2. request[c][k].events \in Seq(Line)
      BY <3>1 DEF Answer
    <3>3. QED BY <1>0, <3>2, ConcatProperties
  <2>3. shown' \in [Client -> Seq(Line)]
    BY <1>0, <1>4, <2>2 DEF Show
  <2>4. QED BY <1>0, <1>1, <1>4, <2>1, <2>3 DEF Show, FeedTypeInv
<1>5. ASSUME NEW c \in Client, NEW k \in Slot(c), Fail(c, k) PROVE FeedTypeInv'
  <2>1. SlotsOK'
    BY <1>0, <1>5, SlotFilled DEF Fail
  <2>2. QED BY <1>0, <1>1, <1>5, <2>1 DEF Fail, FeedTypeInv
<1>6. CASE UNCHANGED clientVars
  BY <1>0, <1>1, <1>6 DEF clientVars, FeedTypeInv, SlotsOK, Slot
<1>7. QED
  BY <1>2, <1>3, <1>4, <1>5, <1>6 DEF Next, ClientStep, vars

\* The log, the screens and the requests they have under way are well formed,
\* whatever fails (useEvents, ui/lib/api/use-events.ts; useDevinCase,
\* apps/web/hooks/use-devin-case.ts).
THEOREM FeedTypeCorrect == Spec => []TypeOK
<1>1. Spec => []FeedTypeInv
  BY FeedTypeInit, FeedTypeNext, PTL DEF Spec
<1>2. FeedTypeInv => TypeOK
  BY DEF FeedTypeInv, TypeOK, SlotsOK, Answer
<1>3. QED BY <1>1, <1>2, PTL

-----------------------------------------------------------------------------
(***************************************************************************)
(* What the screens have been shown.                                       *)
(*                                                                         *)
(* That nothing is skipped is not inductive: a screen asks from the last   *)
(* number it shows, so everything up to that number has to be on it        *)
(* already (Covered), for what it shows and for what it has asked from,    *)
(* and an answer has to be the events behind the number it was asked from  *)
(* (ServedRight), however late it arrives and however many are under way.  *)
(***************************************************************************)

\* Everything published up to number n is on the screen of c.
Covered(c, n) ==
  n <= Len(Published) /\ \A m \in 1..n : \E j \in DOMAIN shown[c] : shown[c][j] = Published[m]

ShownRight(c) ==
  \A j \in DOMAIN shown[c] :
    /\ shown[c][j].seq \in 1..Len(Published)
    /\ shown[c][j] = Published[shown[c][j].seq]
    /\ Covered(c, shown[c][j].seq)

AskedRight(c, k) == request[c][k].state # "free" => Covered(c, request[c][k].since)

ServedRight(c, k) ==
  request[c][k].state = "served" =>
    \E m \in request[c][k].since..Len(Published) :
      request[c][k].events = SubSeq(Published, request[c][k].since + 1, m)

ViewInv ==
  /\ FileInv
  /\ FeedTypeInv
  /\ \A c \in Client : ShownRight(c)
  /\ \A c \in Client : \A k \in Slot(c) : AskedRight(c, k) /\ ServedRight(c, k)

\* What has been published stays where it is.
LEMMA PublishedStays ==
  ASSUME Published \in Seq(Line), FileGrows
  PROVE  /\ Published' \in Seq(Line)
         /\ Len(Published) \in Nat /\ Len(Published') \in Nat /\ Len(Published) <= Len(Published')
         /\ \A n \in 1..Len(Published) : Published'[n] = Published[n]
         /\ \A a \in Nat \ {0}, b \in 0..Len(Published) :
              SubSeq(Published', a, b) = SubSeq(Published, a, b)
<1>1. /\ Published' \in Seq(Line)
      /\ Len(Published) \in Nat /\ Len(Published') \in Nat /\ Len(Published) <= Len(Published')
      /\ \A n \in 1..Len(Published) : Published'[n] = Published[n]
  <2>1. CASE Published' = Published
    BY <2>1
  <2>2. CASE \E l \in Line : Published' = Append(Published, l)
    BY <2>2, AppendProperties
  <2>3. QED BY <2>1, <2>2 DEF FileGrows
<1>2. ASSUME NEW a \in Nat \ {0}, NEW b \in 0..Len(Published)
      PROVE  SubSeq(Published', a, b) = SubSeq(Published, a, b)
  <2>1. \A i \in a..b : Published[i] \in Line /\ Published'[i] = Published[i] /\ Published'[i] \in Line
    BY <1>1
  <2>2. b \in Nat
    BY <1>1
  <2>3. /\ SubSeq(Published, a, b) \in Seq(Line)
        /\ Len(SubSeq(Published, a, b)) = IF a <= b THEN b - a + 1 ELSE 0
        /\ \A i \in 1..(b - a + 1) : SubSeq(Published, a, b)[i] = Published[a + i - 1]
    BY <2>1, <2>2, SubSeqProperties
  <2>4. /\ SubSeq(Published', a, b) \in Seq(Line)
        /\ Len(SubSeq(Published', a, b)) = IF a <= b THEN b - a + 1 ELSE 0
        /\ \A i \in 1..(b - a + 1) : SubSeq(Published', a, b)[i] = Published'[a + i - 1]
    BY <2>1, <2>2, SubSeqProperties
  <2>5. \A i \in 1..Len(SubSeq(Published, a, b)) : SubSeq(Published', a, b)[i] = SubSeq(Published, a, b)[i]
    BY <2>1, <2>2, <2>3, <2>4
  <2>6. QED BY <2>3, <2>4, <2>5, SeqEqual
<1>3. QED BY <1>1, <1>2

\* What a screen shows it goes on showing.
ScreenGrows(c) ==
  \A j \in DOMAIN shown[c] : j \in DOMAIN shown'[c] /\ shown'[c][j] = shown[c][j]

LEMMA CoveredStays ==
  ASSUME Published \in Seq(Line), FileGrows, NEW c, ScreenGrows(c), NEW n \in Nat, Covered(c, n)
  PROVE  Covered(c, n)'
<1>1. n <= Len(Published') /\ \A m \in 1..n : Published'[m] = Published[m]
  BY PublishedStays DEF Covered
<1>2. \A m \in 1..n : \E j \in DOMAIN shown'[c] : shown'[c][j] = Published'[m]
  BY <1>1 DEF Covered, ScreenGrows
<1>3. QED BY <1>1, <1>2 DEF Covered

LEMMA ScreenUnchanged ==
  ASSUME Published \in Seq(Line), FileGrows, NEW c \in Client, shown \in [Client -> Seq(Line)],
         shown' = shown, ShownRight(c)
  PROVE  ShownRight(c)'
<1> SUFFICES ASSUME NEW j \in DOMAIN shown[c]
             PROVE  /\ shown[c][j].seq \in 1..Len(Published')
                    /\ shown[c][j] = Published'[shown[c][j].seq]
                    /\ Covered(c, shown[c][j].seq)'
  BY DEF ShownRight
<1>1. shown[c][j].seq \in Nat /\ ScreenGrows(c)
  BY DEF ShownRight, ScreenGrows
<1>2. Covered(c, shown[c][j].seq)'
  BY <1>1, CoveredStays DEF ShownRight
<1>3. QED BY <1>2, PublishedStays DEF ShownRight

LEMMA SlotUnchanged ==
  ASSUME Published \in Seq(Line), FileGrows, NEW c \in Client, NEW k \in Slot(c), ScreenGrows(c),
         request[c][k] \in Answer, request'[c][k] = request[c][k],
         AskedRight(c, k), ServedRight(c, k)
  PROVE  AskedRight(c, k)' /\ ServedRight(c, k)'
<1>1. request[c][k].since \in Nat
  BY DEF Answer
<1>2. AskedRight(c, k)'
  BY <1>1, CoveredStays DEF AskedRight
<1>3. ServedRight(c, k)'
  <2> SUFFICES ASSUME request[c][k].state = "served"
               PROVE  \E m \in request[c][k].since..Len(Published') :
                        request[c][k].events = SubSeq(Published', request[c][k].since + 1, m)
    BY DEF ServedRight
  <2>1. PICK m \in request[c][k].since..Len(Published) :
               request[c][k].events = SubSeq(Published, request[c][k].since + 1, m)
    BY DEF ServedRight
  <2>2. /\ m \in 0..Len(Published) /\ m \in request[c][k].since..Len(Published')
        /\ request[c][k].since + 1 \in Nat \ {0}
    BY <1>1, <2>1, PublishedStays
  <2>3. SubSeq(Published', request[c][k].since + 1, m) = SubSeq(Published, request[c][k].since + 1, m)
    BY <2>2, PublishedStays
  <2>4. QED BY <2>1, <2>2, <2>3
<1>4. QED BY <1>2, <1>3

LEMMA ViewInit == Init => ViewInv
<1> SUFFICES ASSUME Init PROVE ViewInv
  OBVIOUS
<1>1. \A c \in Client : shown[c] = <<>> /\ \A k \in Slot(c) : request[c][k].state = "free"
  BY DEF Init, NoRequest
<1>2. QED BY <1>1, FileInit, FeedTypeInit DEF Init, ViewInv, ShownRight, AskedRight, ServedRight

\* A sequence with a stretch of another behind it: what it keeps, what it gains,
\* and nothing else.
Joined(s, p, a, b) == s \o SubSeq(p, a + 1, b)

Stretched(s, t, p, a, b) ==
  /\ \A i \in DOMAIN s : i \in DOMAIN t /\ t[i] = s[i]
  /\ \A i \in 1..(b - a) : \E j \in DOMAIN t : t[j] = p[a + i]
  /\ \A j \in DOMAIN t : j \in DOMAIN s \/ \E i \in 1..(b - a) : t[j] = p[a + i]

LEMMA StretchJoined ==
  ASSUME NEW S, NEW s \in Seq(S), NEW p \in Seq(S), NEW a \in Nat, NEW b \in Nat,
         a <= b, b <= Len(p)
  PROVE  Stretched(s, Joined(s, p, a, b), p, a, b)
<1> DEFINE t == Joined(s, p, a, b)
<1> DEFINE u == SubSeq(p, a + 1, b)
<1>1. /\ u \in Seq(S) /\ Len(u) = b - a
      /\ \A i \in 1..(b - a) : u[i] = p[a + i]
  <2>1. \A i \in (a + 1)..b : p[i] \in S
    OBVIOUS
  <2>2. a + 1 \in Int /\ b \in Int /\ b >= a
    OBVIOUS
  <2>3. QED BY <2>1, <2>2, SubSeqProperties
<1> HIDE DEF u, t
<1>2. t = s \o u
  BY DEF t, u, Joined
<1>3. /\ t \in Seq(S) /\ Len(t) = Len(s) + Len(u)
      /\ \A i \in 1..(Len(s) + Len(u)) : t[i] = IF i <= Len(s) THEN s[i] ELSE u[i - Len(s)]
  <2>1. /\ s \o u \in Seq(S) /\ Len(s \o u) = Len(s) + Len(u)
        /\ \A i \in 1..(Len(s) + Len(u)) : (s \o u)[i] = IF i <= Len(s) THEN s[i] ELSE u[i - Len(s)]
    BY <1>1, ConcatProperties
  <2>2. QED BY <1>2, <2>1
<1>4. Len(s) \in Nat /\ DOMAIN s = 1..Len(s) /\ DOMAIN t = 1..Len(t) /\ b - a \in Nat
  BY <1>3
<1>5. \A i \in DOMAIN s : i \in DOMAIN t /\ t[i] = s[i]
  BY <1>1, <1>3, <1>4
<1>6. ASSUME NEW i \in 1..(b - a)
      PROVE  Len(s) + i \in DOMAIN t /\ t[Len(s) + i] = p[a + i]
  <2>1. Len(s) + i \in 1..(Len(s) + Len(u)) /\ ~(Len(s) + i <= Len(s)) /\ (Len(s) + i) - Len(s) = i
    BY <1>1, <1>4
  <2>2. t[Len(s) + i] = u[i]
    BY <1>3, <2>1
  <2>3. QED BY <1>1, <1>3, <1>4, <2>1, <2>2
<1>7. ASSUME NEW j \in DOMAIN t, j \notin DOMAIN s 
      PROVE  j - Len(s) \in 1..(b - a) /\ t[j] = p[a + (j - Len(s))]
  <2>1. j - Len(s) \in 1..(b - a) /\ j = Len(s) + (j - Len(s))
    BY <1>1, <1>3, <1>4, <1>7
  <2>2. t[Len(s) + (j - Len(s))] = p[a + (j - Len(s))]
    BY <1>6, <2>1
  <2>3. QED BY <2>1, <2>2
<1>8. Stretched(s, t, p, a, b)
  <2>1. \A i \in 1..(b - a) : \E j \in DOMAIN t : t[j] = p[a + i]
    BY <1>6
  <2>2. \A j \in DOMAIN t : j \in DOMAIN s \/ \E i \in 1..(b - a) : t[j] = p[a + i]
    BY <1>7
  <2>3. QED BY <1>5, <2>1, <2>2 DEF Stretched
<1>9. QED BY <1>8 DEF t

\* An answer brings the events behind what the screen covers already.
LEMMA AnswerShown ==
  ASSUME Published \in Seq(Line), \A n \in 1..Len(Published) : Published[n].seq = n,
         Published' = Published, NEW c \in Client, NEW s \in Nat, NEW m \in s..Len(Published),
         shown[c] \in Seq(Line), Covered(c, s), ShownRight(c),
         shown'[c] = shown[c] \o SubSeq(Published, s + 1, m)
  PROVE  ScreenGrows(c) /\ ShownRight(c)'
<1>1. /\ \A j \in DOMAIN shown[c] : j \in DOMAIN shown'[c] /\ shown'[c][j] = shown[c][j]
      /\ \A i \in 1..(m - s) : \E j \in DOMAIN shown'[c] : shown'[c][j] = Published[s + i]
      /\ \A j \in DOMAIN shown'[c] :
           j \in DOMAIN shown[c] \/ \E i \in 1..(m - s) : shown'[c][j] = Published[s + i]
  <2>1. /\ shown'[c] = Joined(shown[c], Published, s, m)
        /\ m \in Nat /\ s <= m /\ m <= Len(Published)
    BY DEF Joined
  <2>2. Stretched(shown[c], Joined(shown[c], Published, s, m), Published, s, m)
    BY <2>1, StretchJoined
  <2>3. Stretched(shown[c], shown'[c], Published, s, m)
    BY <2>1, <2>2
  <2>4. QED BY <2>3 DEF Stretched
<1>2. ScreenGrows(c) /\ FileGrows
  BY <1>1 DEF ScreenGrows, FileGrows
<1>3. ASSUME NEW n \in s..m PROVE Covered(c, n)'
  <2>1. Covered(c, s)'
    BY <1>2, CoveredStays
  <2>2. ASSUME NEW i \in 1..n, i \notin 1..s
        PROVE  \E j \in DOMAIN shown'[c] : shown'[c][j] = Published'[i]
    <3>1. i - s \in 1..(m - s) /\ s + (i - s) = i
      BY <2>2
    <3>2. QED BY <1>1, <3>1
  <2>3. n <= Len(Published')
    OBVIOUS
  <2>4. QED BY <2>1, <2>2, <2>3 DEF Covered
<1>4. ASSUME NEW j \in DOMAIN shown'[c]
      PROVE  \E n \in 1..Len(Published) :
               shown'[c][j] = Published[n] /\ Published[n].seq = n /\ Covered(c, n)'
  <2>1. CASE j \in DOMAIN shown[c]
    <3>1. PICK n \in 1..Len(Published) :
                 shown[c][j].seq = n /\ shown[c][j] = Published[n] /\ Covered(c, n)
      BY <2>1 DEF ShownRight
    <3>2. n \in Nat /\ Covered(c, n)'
      BY <1>2, <3>1, CoveredStays
    <3>3. QED BY <1>1, <2>1, <3>1, <3>2
  <2>2. ASSUME NEW i \in 1..(m - s), shown'[c][j] = Published[s + i]
        PROVE  \E n \in 1..Len(Published) :
                 shown'[c][j] = Published[n] /\ Published[n].seq = n /\ Covered(c, n)'
    <3>1. s + i \in 1..Len(Published) /\ s + i \in s..m
      OBVIOUS
    <3>2. Covered(c, s + i)'
      BY <1>3, <3>1
    <3>3. Published[s + i].seq = s + i
      BY <3>1
    <3>4. QED BY <2>2, <3>1, <3>2, <3>3
  <2>3. QED BY <1>1, <2>1, <2>2
<1>5. ShownRight(c)'
  <2> SUFFICES ASSUME NEW j \in DOMAIN shown'[c]
               PROVE  /\ shown'[c][j].seq \in 1..Len(Published')
                      /\ shown'[c][j] = Published'[shown'[c][j].seq]
                      /\ \A n : n = shown'[c][j].seq => Covered(c, n)'
    BY DEF ShownRight, Covered
  <2>1. PICK n \in 1..Len(Published) :
               shown'[c][j] = Published[n] /\ Published[n].seq = n /\ Covered(c, n)'
    BY <1>4
  <2>2. QED BY <2>1
<1>6. QED BY <1>2, <1>5

LEMMA ViewNext ==
  ASSUME \A t, u \in Thread : Home[t] = Home[u], "unterminated" \notin Cuts,
         ViewInv, [Next]_vars
  PROVE  ViewInv' /\ FileGrows
<1>0. /\ SlotsOK /\ shown \in [Client -> Seq(Line)] /\ Published \in Seq(Line)
      /\ \A c \in Client : ShownRight(c)
      /\ \A c \in Client : \A k \in Slot(c) :
           request[c][k] \in Answer /\ AskedRight(c, k) /\ ServedRight(c, k)
      /\ \A n \in 1..Len(Published) : Published[n].seq = n
  BY DEF ViewInv, FileInv, Numbered, FeedTypeInv, SlotsOK
<1>1. FileInv' /\ FileGrows /\ FeedTypeInv'
  <2>1. [LogNext]_logVars
    BY DEF Next, vars, ClientStep, Ask, Serve, Show, Fail
  <2>2. QED BY <2>1, FileNext, FeedTypeNext DEF ViewInv
<1>2. ASSUME shown' = shown
      PROVE  \A c \in Client : ScreenGrows(c) /\ ShownRight(c)'
  BY <1>0, <1>1, <1>2, ScreenUnchanged DEF ScreenGrows
<1>3. ASSUME NEW d \in Client, NEW j \in Slot(d), ScreenGrows(d),
             request'[d][j] = request[d][j] \/ request'[d][j] = NoRequest
      PROVE  AskedRight(d, j)' /\ ServedRight(d, j)'
  <2>1. CASE request'[d][j] = request[d][j]
    BY <1>0, <1>1, <1>3, <2>1, SlotUnchanged
  <2>2. CASE request'[d][j] = NoRequest
    BY <2>2 DEF AskedRight, ServedRight, NoRequest
  <2>3. QED BY <1>3, <2>1, <2>2
<1>4. ASSUME shown' = shown, NEW c \in Client, NEW k \in Slot(c),
             AskedRight(c, k)' /\ ServedRight(c, k)',
             \A d \in Client : \A j \in Slot(d) :
               ~(d = c /\ j = k) => request'[d][j] = request[d][j]
      PROVE  ViewInv'
  <2>1. \A d \in Client : ScreenGrows(d) /\ ShownRight(d)'
    BY <1>2, <1>4
  <2>2. ASSUME NEW d \in Client, NEW j \in Slot(d) PROVE AskedRight(d, j)' /\ ServedRight(d, j)'
    BY <1>3, <1>4, <2>1
  <2>3. QED BY <1>1, <2>1, <2>2 DEF ViewInv, Slot
<1>5. ASSUME NEW c \in Client, NEW k \in Slot(c), Ask(c, k) PROVE ViewInv'
  <2> DEFINE r == [state |-> "asked", since |-> Since(c), events |-> <<>>]
  <2>1. /\ Since(c) \in Nat
        /\ shown[c] # <<>> => /\ Len(shown[c]) \in DOMAIN shown[c]
                              /\ Since(c) = shown[c][Len(shown[c])].seq
    BY <1>0, SinceType
  <2>2. r \in Answer
    BY <2>1 DEF Answer
  <2>3. request' = [request EXCEPT ![c][k] = r] /\ shown' = shown /\ log' = log
    BY <1>5 DEF Ask, logVars
  <2>4. Covered(c, Since(c))
    <3>1. CASE shown[c] = <<>>
      BY <1>0, <3>1 DEF Since, Covered
    <3>2. CASE shown[c] # <<>>
      BY <1>0, <2>1, <3>2 DEF ShownRight
    <3>3. QED BY <3>1, <3>2
  <2>5. Covered(c, Since(c))'
    BY <1>0, <1>1, <1>2, <2>1, <2>3, <2>4 DEF Covered, Since, Published
  <2>6. /\ request'[c][k] = r
        /\ \A d \in Client : \A j \in Slot(d) : ~(d = c /\ j = k) => request'[d][j] = request[d][j]
    <3> HIDE DEF r
    <3>1. \A d \in Client : \A j \in Slot(d) :
            request'[d][j] = IF d = c /\ j = k THEN r ELSE request[d][j]
      BY <1>0, <2>2, <2>3, SlotFilled, ZenonT(40)
    <3>2. QED BY <3>1
  <2>7. request'[c][k].state = "asked" /\ request'[c][k].since = Since(c)
    BY <2>6
  <2>8. AskedRight(c, k)' /\ ServedRight(c, k)'
    <3>1. Covered(c, Since(c))' => Covered(c, request'[c][k].since)
      BY <2>3, <2>7 DEF Covered, Published, Since
    <3>2. QED BY <2>3, <2>5, <2>7, <3>1 DEF AskedRight, ServedRight, Covered, Published
  <2>9. QED BY <1>4, <2>3, <2>6, <2>8
<1>6. ASSUME NEW c \in Client, NEW k \in Slot(c), Serve(c, k) PROVE ViewInv'
  <2> DEFINE since == request[c][k].since
             events == EventsAfter(since)
  <2>1. /\ shown' = shown /\ log' = log /\ request[c][k].state = "asked"
        /\ SlotAnswered(c, k, events)
    BY <1>6 DEF Serve, SlotAnswered, logVars
  <2>2. since \in Nat /\ Covered(c, since)
    BY <1>0, <2>1 DEF AskedRight, Answer
  <2>3. events = SubSeq(Published, since + 1, Len(Published))
    BY <2>2 DEF EventsAfter, ViewInv, FileInv, AnswersTheRest
  <2>4. events \in Seq(Line)
    BY EventsInType DEF EventsAfter, ViewInv, FeedTypeInv, LogTypeOK
  <2>5. /\ request'[c][k] = Served(request[c][k], events)
        /\ \A d \in Client : \A j \in Slot(d) : ~(d = c /\ j = k) => request'[d][j] = request[d][j]
    <3> HIDE DEF events
    <3>1. \A d \in Client : \A j \in Slot(d) :
            request'[d][j] = IF d = c /\ j = k THEN Served(request[c][k], events)
                             ELSE request[d][j]
      BY <1>0, <2>1, <2>4, SlotServed
    <3>2. QED BY <3>1
  <2>6. request'[c][k].since = since /\ request'[c][k].events = events
    BY <1>0, <2>5 DEF Served, Answer
  <2>7. Published' = Published /\ Len(Published) \in Nat /\ Len(Published) \in since..Len(Published)
    BY <1>0, <2>1, <2>2 DEF Published, Covered
  <2>8. AskedRight(c, k)'
    BY <2>1, <2>2, <2>6, <2>7 DEF AskedRight, Covered
  <2>9. ServedRight(c, k)'
    BY <2>3, <2>6, <2>7 DEF ServedRight
  <2>10. QED BY <1>4, <2>1, <2>5, <2>8, <2>9
<1>7. ASSUME NEW c \in Client, NEW k \in Slot(c), Show(c, k) PROVE ViewInv'
  <2>1. /\ request[c][k].state = "served" /\ log' = log
        /\ request' = [request EXCEPT ![c][k] = NoRequest]
        /\ shown'[c] = shown[c] \o request[c][k].events
        /\ \A d \in Client : d # c => shown'[d] = shown[d]
    BY <1>0, <1>7 DEF Show, logVars
  <2>2. request[c][k].since \in Nat /\ Covered(c, request[c][k].since)
    BY <1>0, <2>1 DEF AskedRight, Answer
  <2>3. PICK m \in request[c][k].since..Len(Published) :
               request[c][k].events = SubSeq(Published, request[c][k].since + 1, m)
    BY <1>0, <2>1 DEF ServedRight
  <2>4. Published' = Published
    BY <2>1 DEF Published
  <2>5. ScreenGrows(c) /\ ShownRight(c)'
    BY <1>0, <2>1, <2>2, <2>3, <2>4, AnswerShown
  <2>6. \A d \in Client : ScreenGrows(d) /\ ShownRight(d)'
    <3>1. ASSUME NEW d \in Client, d # c PROVE ScreenGrows(d) /\ ShownRight(d)'
      BY <1>0, <2>1, <2>4, <3>1 DEF ScreenGrows, ShownRight, Covered
    <3>2. QED BY <2>5, <3>1
  <2>7. \A d \in Client : \A j \in Slot(d) :
          request'[d][j] = request[d][j] \/ request'[d][j] = NoRequest
    BY <1>0, <2>1, SlotFilled DEF NoRequest, Answer
  <2>8. QED BY <1>1, <1>3, <2>6, <2>7 DEF ViewInv, Slot
<1>8. ASSUME NEW c \in Client, NEW k \in Slot(c), Fail(c, k) PROVE ViewInv'
  <2>1. shown' = shown /\ request' = [request EXCEPT ![c][k] = NoRequest]
    BY <1>8 DEF Fail
  <2>2. \A d \in Client : ScreenGrows(d) /\ ShownRight(d)'
    BY <1>2, <2>1
  <2>3. \A d \in Client : \A j \in Slot(d) :
          request'[d][j] = request[d][j] \/ request'[d][j] = NoRequest
    BY <1>0, <2>1, SlotFilled DEF NoRequest, Answer
  <2>4. QED BY <1>1, <1>3, <2>2, <2>3 DEF ViewInv, Slot
<1>9. CASE UNCHANGED clientVars
  <2>1. shown' = shown /\ request' = request
    BY <1>9 DEF clientVars
  <2>2. \A d \in Client : ScreenGrows(d) /\ ShownRight(d)'
    BY <1>2, <2>1
  <2>3. QED BY <1>1, <1>3, <2>1, <2>2 DEF ViewInv, Slot
<1>10. ViewInv'
  BY <1>5, <1>6, <1>7, <1>8, <1>9 DEF Next, ClientStep, vars
<1>11. QED BY <1>1, <1>10

\* No event slips past a screen, however many requests it has under way, late
\* or failed: what it does not show has a number beyond the one it asks from
\* (events.py; use-events.ts; use-devin-case.ts).  One process appends, and no
\* crash leaves a whole line without its newline.
THEOREM NoEventSlipsPast ==
  ASSUME \A t, u \in Thread : Home[t] = Home[u], "unterminated" \notin Cuts
  PROVE  Spec => []NothingSkipped
<1>1. ViewInv /\ [Next]_vars => ViewInv'
  BY ViewNext
<1>2. Spec => []ViewInv
  BY ViewInit, <1>1, PTL DEF Spec
<1>3. ViewInv => NothingSkipped
  <2> SUFFICES ASSUME ViewInv, NEW c \in Client, NEW i \in Readable, ~(log[i].seq > Since(c))
               PROVE  \E k \in DOMAIN shown[c] : shown[c][k].id = log[i].id
    BY DEF NothingSkipped
  <2>1. /\ log[i].seq \in 1..Len(Published) /\ Published[log[i].seq] = log[i]
        /\ shown[c] \in Seq(Line) /\ ShownRight(c)
    BY DEF ViewInv, FileInv, Numbered, FeedTypeInv
  <2>2. Since(c) \in Nat /\ log[i].seq <= Since(c)
    BY <2>1, SinceType
  <2>3. shown[c] # <<>>
    BY <2>1, <2>2 DEF Since
  <2>4. Covered(c, Since(c))
    BY <2>1, <2>3, SinceType DEF ShownRight
  <2>5. PICK k \in DOMAIN shown[c] : shown[c][k] = Published[log[i].seq]
    BY <2>1, <2>2, <2>4 DEF Covered
  <2>6. QED BY <2>1, <2>5
<1>4. QED BY <1>2, <1>3, PTL

-----------------------------------------------------------------------------
(***************************************************************************)
(* The feed keeps its promise.                                             *)
(*                                                                         *)
(* With one request at a time a screen shows the first events published    *)
(* and nothing else (InOrder), because an answer under way was asked from  *)
(* exactly where the screen still is (OneAtATime): a second request under  *)
(* way would bring the same events again.                                  *)
(***************************************************************************)

InOrder(c) ==
  Len(shown[c]) <= Len(Published) /\ shown[c] = SubSeq(Published, 1, Len(shown[c]))

OneAtATime(c) == request[c][1].state # "free" => request[c][1].since = Len(shown[c])

PromiseInv == ViewInv /\ \A c \in Client : InOrder(c) /\ OneAtATime(c)

LEMMA PromiseInit == MaxOutstanding = 1 /\ Init => PromiseInv
<1> SUFFICES ASSUME MaxOutstanding = 1, Init PROVE PromiseInv
  OBVIOUS
<1>1. ViewInv
  BY ViewInit
<1>2. \A c \in Client : shown[c] = <<>> /\ request[c][1].state = "free"
  BY DEF Init, Slot, NoRequest
<1>3. Len(Published) \in Nat
  BY <1>1 DEF ViewInv, FileInv, Numbered
<1>4. ASSUME NEW c \in Client PROVE InOrder(c) /\ OneAtATime(c)
  <2>1. SubSeq(Published, 1, 0) = <<>>
    BY SubSeqEmpty
  <2>2. Len(shown[c]) = 0
    BY <1>2
  <2>3. InOrder(c)
    <3>1. SubSeq(Published, 1, Len(shown[c])) = <<>>
      BY <2>1, <2>2
    <3>2. Len(shown[c]) <= Len(Published)
      BY <1>3, <2>2
    <3>3. QED BY <1>2, <3>1, <3>2 DEF InOrder
  <2>4. QED BY <1>2, <2>3 DEF OneAtATime
<1>5. QED BY <1>1, <1>4 DEF PromiseInv

LEMMA InOrderStays ==
  ASSUME Published \in Seq(Line), FileGrows, NEW c, shown'[c] = shown[c],
         Len(shown[c]) \in Nat, InOrder(c)
  PROVE  InOrder(c)'
<1>1. Len(shown[c]) \in 0..Len(Published) /\ Len(Published) <= Len(Published')
      /\ Len(Published) \in Nat /\ Len(Published') \in Nat
  BY PublishedStays DEF InOrder
<1>2. SubSeq(Published', 1, Len(shown[c])) = SubSeq(Published, 1, Len(shown[c]))
  BY <1>1, PublishedStays
<1>3. QED BY <1>1, <1>2 DEF InOrder

LEMMA PromiseNext ==
  ASSUME \A t, u \in Thread : Home[t] = Home[u], "unterminated" \notin Cuts, MaxOutstanding = 1,
         PromiseInv, [Next]_vars
  PROVE  PromiseInv'
<1>0. /\ ViewInv /\ SlotsOK /\ shown \in [Client -> Seq(Line)] /\ Published \in Seq(Line)
      /\ \A c \in Client : Slot(c) = {1} /\ Len(shown[c]) \in Nat /\ request[c][1] \in Answer
      /\ \A c \in Client : InOrder(c) /\ OneAtATime(c) /\ ServedRight(c, 1)
      /\ \A n \in 1..Len(Published) : Published[n].seq = n
  <2>1. ViewInv /\ SlotsOK /\ shown \in [Client -> Seq(Line)] /\ Published \in Seq(Line)
    BY DEF PromiseInv, ViewInv, FileInv, Numbered, FeedTypeInv
  <2>2. ASSUME NEW c \in Client
        PROVE  Slot(c) = {1} /\ Len(shown[c]) \in Nat /\ request[c][1] \in Answer
    <3>1. Slot(c) = {1}
      BY DEF Slot
    <3>2. QED BY <2>1, <3>1 DEF SlotsOK
  <2>3. \A c \in Client : InOrder(c) /\ OneAtATime(c) /\ ServedRight(c, 1)
    BY <2>2 DEF PromiseInv, ViewInv
  <2>4. \A n \in 1..Len(Published) : Published[n].seq = n
    BY <2>1 DEF ViewInv, FileInv, Numbered
  <2>5. QED BY <2>1, <2>2, <2>3, <2>4
<1>1. ViewInv' /\ FileGrows
  BY <1>0, ViewNext
<1>2. ASSUME NEW c \in Client, shown'[c] = shown[c],
             request'[c][1] = request[c][1] \/ request'[c][1] = NoRequest
      PROVE  InOrder(c)' /\ OneAtATime(c)'
  <2>1. InOrder(c)'
    BY <1>0, <1>1, <1>2, InOrderStays
  <2>2. OneAtATime(c)'
    BY <1>0, <1>2 DEF OneAtATime, NoRequest
  <2>3. QED BY <2>1, <2>2
<1>3. ASSUME NEW c \in Client, NEW k \in Slot(c), Ask(c, k) PROVE PromiseInv'
  <2> DEFINE r == [state |-> "asked", since |-> Since(c), events |-> <<>>]
  <2>1. k = 1 /\ r \in Answer
    BY <1>0, SinceType DEF Answer
  <2>2. request' = [request EXCEPT ![c][k] = r] /\ shown' = shown
    BY <1>3 DEF Ask
  <2>3. \A d \in Client : request'[d][1] = IF d = c THEN r ELSE request[d][1]
    <3> HIDE DEF r
    <3>1. \A d \in Client : \A j \in Slot(d) :
            request'[d][j] = IF d = c /\ j = k THEN r ELSE request[d][j]
      BY <1>0, <2>1, <2>2, SlotFilled, ZenonT(40)
    <3>2. QED BY <1>0, <2>1, <3>1
  <2>4. Since(c) = Len(shown[c])
    <3>1. CASE shown[c] = <<>>
      BY <3>1 DEF Since
    <3>2. CASE shown[c] # <<>>
      <4>1. Since(c) = shown[c][Len(shown[c])].seq /\ Len(shown[c]) \in 1..Len(Published)
        BY <1>0, <3>2, SinceType DEF InOrder
      <4>2. \A i \in 1..Len(shown[c]) : SubSeq(Published, 1, Len(shown[c]))[i] = Published[i]
        <5>1. \A i \in 1..Len(shown[c]) : Published[i] \in Line
          BY <1>0, <4>1
        <5>2. QED BY <1>0, <5>1, SubSeqProperties
      <4>3. shown[c][Len(shown[c])] = Published[Len(shown[c])]
        BY <1>0, <4>1, <4>2 DEF InOrder
      <4>4. QED BY <1>0, <4>1, <4>3
    <3>3. QED BY <3>1, <3>2
  <2>5. InOrder(c)' /\ OneAtATime(c)'
    <3>1. InOrder(c)'
      BY <1>0, <1>1, <2>2, InOrderStays
    <3>2. request'[c][1].since = Since(c)
      BY <2>3
    <3>3. QED BY <2>2, <2>4, <3>1, <3>2 DEF OneAtATime
  <2>6. \A d \in Client : d # c => InOrder(d)' /\ OneAtATime(d)'
    BY <1>2, <2>2, <2>3
  <2>7. QED BY <1>1, <2>5, <2>6 DEF PromiseInv
<1>4. ASSUME NEW c \in Client, NEW k \in Slot(c), Serve(c, k) PROVE PromiseInv'
  <2> DEFINE events == EventsAfter(request[c][k].since)
  <2>1. /\ k = 1 /\ shown' = shown /\ request[c][1].state = "asked"
        /\ SlotAnswered(c, k, events)
        /\ events \in Seq(Line)
    <3>1. events \in Seq(Line)
      BY <1>0, EventsInType DEF EventsAfter, ViewInv, FeedTypeInv, LogTypeOK
    <3>2. QED BY <1>0, <1>4, <3>1 DEF Serve, SlotAnswered
  <2>2. \A d \in Client : request'[d][1] = IF d = c THEN Served(request[c][1], events)
                                           ELSE request[d][1]
    <3> HIDE DEF events
    <3>1. \A d \in Client : \A j \in Slot(d) :
            request'[d][j] = IF d = c /\ j = k THEN Served(request[c][k], events)
                             ELSE request[d][j]
      BY <1>0, <2>1, SlotServed
    <3>2. QED BY <1>0, <2>1, <3>1
  <2>3. InOrder(c)' /\ OneAtATime(c)'
    <3>1. InOrder(c)'
      BY <1>0, <1>1, <2>1, InOrderStays
    <3>2. request'[c][1].since = request[c][1].since
      BY <1>0, <2>2 DEF Served, Answer
    <3>3. QED BY <1>0, <2>1, <3>1, <3>2 DEF OneAtATime
  <2>4. \A d \in Client : d # c => InOrder(d)' /\ OneAtATime(d)'
    BY <1>2, <2>1, <2>2
  <2>5. QED BY <1>1, <2>3, <2>4 DEF PromiseInv
<1>5. ASSUME NEW c \in Client, NEW k \in Slot(c), Show(c, k) PROVE PromiseInv'
  <2>1. /\ k = 1 /\ request[c][1].state = "served" /\ log' = log
        /\ request' = [request EXCEPT ![c][k] = NoRequest]
        /\ shown'[c] = shown[c] \o request[c][1].events
        /\ \A d \in Client : d # c => shown'[d] = shown[d]
    BY <1>0, <1>5 DEF Show, logVars
  <2>2. \A d \in Client : request'[d][1] = IF d = c THEN NoRequest ELSE request[d][1]
    <3>1. NoRequest \in Answer
      BY DEF NoRequest, Answer
    <3>2. \A d \in Client : \A j \in Slot(d) :
            request'[d][j] = IF d = c /\ j = k THEN NoRequest ELSE request[d][j]
      BY <1>0, <2>1, <3>1, SlotFilled, ZenonT(40)
    <3>3. QED BY <1>0, <2>1, <3>2
  <2>3. PICK m \in Len(shown[c])..Len(Published) :
               request[c][1].events = SubSeq(Published, Len(shown[c]) + 1, m)
    BY <1>0, <2>1, ZenonT(40) DEF ServedRight, OneAtATime
  <2>4. Len(Published) \in Nat /\ m \in 0..Len(Published) /\ Len(shown[c]) \in 0..m
    BY <1>0, <2>3
  <2>5. shown'[c] = SubSeq(Published, 1, m)
    <3>1. shown'[c] = SubSeq(Published, 1, Len(shown[c])) \o SubSeq(Published, Len(shown[c]) + 1, m)
      BY <1>0, <2>1, <2>3 DEF InOrder
    <3>2. 1 \in 1..(Len(Published) + 1) /\ Len(shown[c]) \in (1 - 1)..Len(Published)
          /\ m \in Len(shown[c])..Len(Published)
      BY <2>4
    <3>3. QED BY <1>0, <3>1, <3>2, ConcatAdjacentSubSeq
  <2>6. Len(shown'[c]) = m
    <3>1. \A i \in 1..m : Published[i] \in Line
      BY <1>0, <2>4
    <3>2. QED BY <2>4, <2>5, <3>1, SubSeqProperties
  <2>7. InOrder(c)' /\ OneAtATime(c)'
    <3>1. Published' = Published
      BY <2>1 DEF Published
    <3>2. QED BY <2>1, <2>2, <2>4, <2>5, <2>6, <3>1 DEF InOrder, OneAtATime, NoRequest
  <2>8. \A d \in Client : d # c => InOrder(d)' /\ OneAtATime(d)'
    BY <1>2, <2>1, <2>2
  <2>9. QED BY <1>1, <2>7, <2>8 DEF PromiseInv
<1>6. ASSUME NEW c \in Client, NEW k \in Slot(c), Fail(c, k) PROVE PromiseInv'
  <2>1. shown' = shown /\ k = 1
        /\ \A d \in Client : request'[d][1] = request[d][1] \/ request'[d][1] = NoRequest
    <3>1. NoRequest \in Answer /\ request' = [request EXCEPT ![c][k] = NoRequest] /\ shown' = shown /\ k = 1
      BY <1>0, <1>6 DEF NoRequest, Answer, Fail
    <3>2. \A d \in Client : \A j \in Slot(d) :
            request'[d][j] = IF d = c /\ j = k THEN NoRequest ELSE request[d][j]
      BY <1>0, <3>1, SlotFilled, ZenonT(40)
    <3>3. QED BY <1>0, <3>1, <3>2
  <2>2. QED BY <1>1, <1>2, <2>1 DEF PromiseInv
<1>7. CASE UNCHANGED clientVars
  <2>1. \A c \in Client : shown'[c] = shown[c] /\ request'[c][1] = request[c][1]
    BY <1>7 DEF clientVars
  <2>2. QED BY <1>1, <1>2, <2>1 DEF PromiseInv
<1>8. QED
  BY <1>3, <1>4, <1>5, <1>6, <1>7 DEF Next, ClientStep, vars

\* A later start of the same events is a longer one.
LEMMA StartsNest ==
  ASSUME NEW S, NEW p \in Seq(S), NEW a \in Nat, NEW b \in Nat, a <= b, b <= Len(p)
  PROVE  /\ Len(SubSeq(p, 1, a)) = a
         /\ IsPrefix(SubSeq(p, 1, a), SubSeq(p, 1, b))
         /\ IsPrefix(SubSeq(p, 1, a), p)
<1>1. /\ SubSeq(p, 1, a) \in Seq(S) /\ Len(SubSeq(p, 1, a)) = a
      /\ \A i \in 1..a : SubSeq(p, 1, a)[i] = p[i]
  <2>1. \A i \in 1..a : p[i] \in S
    OBVIOUS
  <2>2. QED BY <2>1, SubSeqProperties
<1>2. /\ SubSeq(p, 1, b) \in Seq(S) /\ Len(SubSeq(p, 1, b)) = b
      /\ \A i \in 1..b : SubSeq(p, 1, b)[i] = p[i]
  <2>1. \A i \in 1..b : p[i] \in S
    OBVIOUS
  <2>2. QED BY <2>1, SubSeqProperties
<1>3. SubSeq(SubSeq(p, 1, a), 1, a) = SubSeq(p, 1, a)
  BY <1>1, SubSeqFull
<1>4. SubSeq(SubSeq(p, 1, b), 1, a) = SubSeq(p, 1, a)
  <2> DEFINE q == SubSeq(p, 1, b)
  <2>1. \A i \in 1..a : q[i] \in S /\ q[i] = p[i]
    BY <1>2
  <2> HIDE DEF q
  <2>2. /\ SubSeq(q, 1, a) \in Seq(S) /\ Len(SubSeq(q, 1, a)) = a
        /\ \A i \in 1..a : SubSeq(q, 1, a)[i] = q[i]
    BY <2>1, SubSeqProperties
  <2>3. SubSeq(q, 1, a) = SubSeq(p, 1, a)
    BY <1>1, <2>1, <2>2, SeqEqual
  <2>4. QED BY <2>3 DEF q
<1>5. QED BY <1>1, <1>2, <1>3, <1>4 DEF IsPrefix

\* A step of the log publishes an event or changes nothing anyone can see.
LEMMA LogStepPublishes ==
  ASSUME FileInv, FileGrows, clientVars' = clientVars
  PROVE  [FeedSpec!Next]_(FeedSpec!vars)
<1>1. /\ Published \in Seq(Line) /\ Len(Published) \in Nat /\ shown' = shown
      /\ \A n \in 1..Len(Published) : Published[n].seq = n
  BY DEF FileInv, Numbered, clientVars
<1>2. EventsAfter(0) = Published /\ EventsAfter(0)' = Published'
  BY DEF EventsAfter, Published
<1>3. CASE Published' = Published
  BY <1>1, <1>2, <1>3 DEF FeedSpec!vars
<1>4. ASSUME NEW l \in Line, l.seq = Len(Published) + 1, Published' = Append(Published, l)
      PROVE  FeedSpec!Publish
  <2>1. /\ Published' \in Seq(Line) /\ Len(Published') = Len(Published) + 1
        /\ \A n \in 1..Len(Published) : Published'[n] = Published[n]
        /\ Published'[Len(Published) + 1] = l
    BY <1>1, <1>4, AppendProperties
  <2>2. IsPrefix(Published, Published')
    <3>1. SubSeq(Published', 1, Len(Published)) = SubSeq(Published, 1, Len(Published))
      BY <1>1, PublishedStays
    <3>2. QED BY <1>1, <2>1, <3>1 DEF IsPrefix
  <2>3. Last(Published') \notin ToSet(Published)
    <3>1. Last(Published') = l
      BY <1>1, <2>1 DEF Last
    <3>2. ASSUME NEW n \in DOMAIN Published PROVE Published[n] # l
      BY <1>1, <1>4
    <3>3. QED BY <3>1, <3>2 DEF ToSet
  <2>4. QED BY <1>1, <1>2, <2>1, <2>2, <2>3
       DEF FeedSpec!Publish, FeedSpec!IsPrefix, FeedSpec!Last, FeedSpec!ToSet, IsPrefix, Last, ToSet
<1>5. QED BY <1>3, <1>4 DEF FileGrows, FeedSpec!Next

\* The log and its pollers implement the promise of Feed: every screen has been
\* shown the first events published, each once and in order (events.py;
\* use-events.ts; use-devin-case.ts).  It takes one request at a time, one
\* process that appends, and no whole line left without its newline.
THEOREM FeedKeepsItsPromise ==
  ASSUME \A t, u \in Thread : Home[t] = Home[u], "unterminated" \notin Cuts, MaxOutstanding = 1
  PROVE  Spec => ImplementsFeed
<1>1. Init => FeedSpec!Init
  <2> SUFFICES ASSUME Init PROVE FeedSpec!Init
    OBVIOUS
  <2>1. EventsAfter(0) = <<>>
    BY EventsInNothing DEF EventsAfter, Init, LogInit
  <2>2. QED BY <2>1 DEF FeedSpec!Init, Init
<1>2. ASSUME PromiseInv, [Next]_vars PROVE [FeedSpec!Next]_(FeedSpec!vars)
  <2>1. /\ FileInv /\ Published \in Seq(Line) /\ shown \in [Client -> Seq(Line)]
        /\ \A c \in Client : InOrder(c) /\ Len(shown[c]) \in Nat
    BY <1>2 DEF PromiseInv, ViewInv, FileInv, Numbered, FeedTypeInv
  <2>2. /\ PromiseInv' /\ FileGrows /\ shown' \in [Client -> Seq(Line)]
        /\ \A c \in Client : InOrder(c)' /\ Len(shown'[c]) \in Nat
    <3>1. PromiseInv' /\ FileGrows
      BY <1>2, PromiseNext, ViewNext DEF PromiseInv
    <3>2. QED BY <3>1 DEF PromiseInv, ViewInv, FeedTypeInv
  <2>3. CASE LogNext /\ UNCHANGED clientVars
    BY <2>1, <2>2, <2>3, LogStepPublishes
  <2>4. CASE UNCHANGED vars
    <3>1. log' = log /\ shown' = shown
      BY <2>4 DEF vars, logVars, clientVars
    <3>2. QED BY <3>1 DEF FeedSpec!vars, EventsAfter
  <2>5. ASSUME NEW c \in Client, NEW k \in Slot(c), Show(c, k) PROVE FeedSpec!Next
    <3>1. /\ shown' = [shown EXCEPT ![c] = shown'[c]] /\ log' = log
          /\ shown'[c] = shown[c] \o request[c][k].events
      BY <2>1, <2>5 DEF Show, logVars
    <3>2. Published' = Published
      BY <3>1 DEF Published
    <3>3. /\ shown[c] = SubSeq(Published, 1, Len(shown[c])) /\ Len(shown[c]) <= Len(Published)
          /\ shown'[c] = SubSeq(Published, 1, Len(shown'[c])) /\ Len(shown'[c]) <= Len(Published)
      BY <2>1, <2>2, <3>2 DEF InOrder
    <3>4. Len(shown[c]) <= Len(shown'[c])
      <4>1. request[c][k].events \in Seq(Line)
        BY <1>2 DEF PromiseInv, ViewInv, FeedTypeInv, SlotsOK, Answer
      <4>2. Len(shown'[c]) = Len(shown[c]) + Len(request[c][k].events)
        BY <2>1, <3>1, <4>1, ConcatProperties
      <4>3. QED BY <2>1, <4>1, <4>2
    <3>5. IsPrefix(shown[c], shown'[c]) /\ IsPrefix(shown'[c], Published)
      <4>1. IsPrefix(SubSeq(Published, 1, Len(shown[c])), SubSeq(Published, 1, Len(shown'[c])))
        BY <2>1, <2>2, <3>3, <3>4, StartsNest
      <4>2. IsPrefix(SubSeq(Published, 1, Len(shown'[c])), Published)
        BY <2>1, <2>2, <3>3, StartsNest
      <4>3. QED BY <3>3, <4>1, <4>2
    <3>6. FeedSpec!View(c)
      BY <3>1, <3>2, <3>5 DEF FeedSpec!View, FeedSpec!IsPrefix, IsPrefix, EventsAfter, Published
    <3>7. QED BY <3>6 DEF FeedSpec!Next
  <2>6. ASSUME NEW c \in Client, NEW k \in Slot(c), Ask(c, k) \/ Serve(c, k) \/ Fail(c, k)
        PROVE  UNCHANGED FeedSpec!vars
    BY <2>6 DEF Ask, Serve, Fail, logVars, FeedSpec!vars, EventsAfter
  <2>7. QED BY <1>2, <2>3, <2>4, <2>5, <2>6 DEF Next, ClientStep
<1>3. PromiseInv /\ [Next]_vars => PromiseInv'
  BY PromiseNext
<1>4. Spec => []PromiseInv
  BY PromiseInit, <1>3, PTL DEF Spec
<1>5. QED
  BY <1>1, <1>2, <1>4, PTL DEF Spec, ImplementsFeed, FeedSpec!Spec

=============================================================================
