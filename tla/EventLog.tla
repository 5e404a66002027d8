------------------------------ MODULE EventLog ------------------------------
(***************************************************************************)
(* The append-only event log of one case (backend/casestore/events.py).    *)
(*                                                                         *)
(* An append takes a lock that only the threads of its own process share,  *)
(* reads the last sequence number out of the file, writes one line under   *)
(* the next number and syncs it.  The API, the detector and the agent's    *)
(* scripts are processes of their own; a process may die half way through  *)
(* a line, and what is left of it has no newline, so the next append lands *)
(* on the same line of the file.                                           *)
(***************************************************************************)
EXTENDS Naturals, Sequences, FiniteSets

CONSTANTS
  Thread,       \* the threads that append to the log
  Process,      \* the processes they belong to
  Home,         \* the process of each thread
  Nobody,       \* the lock is free
  Cuts,         \* how much of a line a dying process may leave
  MaxAppends,   \* bound: appends begun
  MaxCrashes    \* bound: processes that die

ASSUME EventLogAssumption ==
  /\ Home \in [Thread -> Process]
  /\ Nobody \notin Thread
  /\ Cuts \subseteq {"nothing", "half", "unterminated", "whole"}
  /\ MaxAppends \in Nat
  /\ MaxCrashes \in Nat

VARIABLES
  log,      \* events.jsonl: its lines, a line that does not parse being Torn
  ragged,   \* the last line has no newline
  lock,     \* the thread that holds each process's lock
  at,       \* how far the append of each thread has got
  nextId,   \* names the next event
  acked,    \* history: events whose append has returned
  crashes   \* history: how many processes have died

logVars == <<log, ragged, lock, at, nextId, acked, crashes>>

-----------------------------------------------------------------------------
\* A line that read_events skips.
Torn == [seq |-> 0, id |-> 0]

Line == [seq : Nat, id : Nat]

\* The positions of the lines that read_events returns.
Readable == {i \in DOMAIN log : log[i] # Torn}

\* The number of the last event in the file, as last_seq reads it.
LastSeq ==
  IF Readable = {} THEN 0
  ELSE log[CHOOSE i \in Readable : \A j \in Readable : j <= i].seq

\* A line that read_events passes on.
Passes(l, since) == l # Torn /\ l.seq > since

\* The loop of read_events over the lines of a file.
EventsIn(lines, since) ==
  LET read[n \in 0..Len(lines)] ==
        IF n = 0 THEN <<>>
        ELSE IF Passes(lines[n], since) THEN Append(read[n - 1], lines[n]) ELSE read[n - 1]
  IN  read[Len(lines)]

\* read_events(since): what the file holds beyond `since`, in file order.
EventsAfter(since) == EventsIn(log, since)

\* Fault: numbers are counted off the lines, readable or not.
LinesInFile == Len(log)

\* The file after `l` is written at its end: on a line that was left without a
\* newline the two run together and neither can be read.
Written(l) ==
  IF ragged THEN [log EXCEPT ![Len(log)] = Torn] ELSE Append(log, l)

Resting == [pc |-> "rest", num |-> 0, id |-> 0]

LogInit ==
  /\ log = <<>>
  /\ ragged = FALSE
  /\ lock = [p \in Process |-> Nobody]
  /\ at = [t \in Thread |-> Resting]
  /\ nextId = 1
  /\ acked = {}
  /\ crashes = 0

-----------------------------------------------------------------------------
\* Fault: the call returns to its caller before the line is written.
AcquireAcks(t) ==
  /\ at[t] = Resting
  /\ lock[Home[t]] = Nobody
  /\ nextId <= MaxAppends
  /\ lock' = [lock EXCEPT ![Home[t]] = t]
  /\ at' = [at EXCEPT ![t] = [pc |-> "locked", num |-> 0, id |-> nextId]]
  /\ nextId' = nextId + 1
  /\ acked' = acked \cup {nextId}
  /\ UNCHANGED <<log, ragged, crashes>>

\* append_event is called, and its thread gets the lock of its process.
Acquire(t) ==
  /\ at[t] = Resting
  /\ lock[Home[t]] = Nobody
  /\ nextId <= MaxAppends
  /\ lock' = [lock EXCEPT ![Home[t]] = t]
  /\ at' = [at EXCEPT ![t] = [pc |-> "locked", num |-> 0, id |-> nextId]]
  /\ nextId' = nextId + 1
  /\ UNCHANGED <<log, ragged, acked, crashes>>

\* Fault: see LinesInFile.
ReadSeqByLines(t) ==
  /\ at[t].pc = "locked"
  /\ at' = [at EXCEPT ![t].pc = "numbered", ![t].num = LinesInFile + 1]
  /\ UNCHANGED <<log, ragged, lock, nextId, acked, crashes>>

\* The next number is read out of the file.
ReadSeq(t) ==
  /\ at[t].pc = "locked"
  /\ at' = [at EXCEPT ![t].pc = "numbered", ![t].num = LastSeq + 1]
  /\ UNCHANGED <<log, ragged, lock, nextId, acked, crashes>>

\* The line is written and synced.
Write(t) ==
  /\ at[t].pc = "numbered"
  /\ log' = Written([seq |-> at[t].num, id |-> at[t].id])
  /\ ragged' = FALSE
  /\ at' = [at EXCEPT ![t].pc = "written"]
  /\ UNCHANGED <<lock, nextId, acked, crashes>>

\* The lock is released and the event returned.
Release(t) ==
  /\ at[t].pc = "written"
  /\ lock' = [lock EXCEPT ![Home[t]] = Nobody]
  /\ acked' = acked \cup {at[t].id}
  /\ at' = [at EXCEPT ![t] = Resting]
  /\ UNCHANGED <<log, ragged, nextId, crashes>>

\* The file after a process died while writing `l`: half a line does not parse.
Left(cut, l) == IF cut = "half" THEN Written(Torn) ELSE Written(l)

\* A process dies.  At most one of its threads was about to write.
Crash(p, cut) ==
  LET mine == {t \in Thread : Home[t] = p}
      writing == {t \in mine : at[t].pc = "numbered"}
  IN  /\ crashes < MaxCrashes
      /\ crashes' = crashes + 1
      /\ \/ /\ cut = "nothing"
            /\ UNCHANGED <<log, ragged>>
         \/ /\ cut # "nothing"
            /\ \E t \in writing : log' = Left(cut, [seq |-> at[t].num, id |-> at[t].id])
            /\ ragged' = (cut # "whole")
      /\ lock' = [lock EXCEPT ![p] = Nobody]
      /\ at' = [t \in Thread |-> IF t \in mine THEN Resting ELSE at[t]]
      /\ UNCHANGED <<nextId, acked>>

AppendStep(t) == ReadSeq(t) \/ Write(t) \/ Release(t)

LogNext ==
  \/ \E t \in Thread : Acquire(t) \/ AppendStep(t)
  \/ \E p \in Process, cut \in Cuts : Crash(p, cut)

LogSpec == LogInit /\ [][LogNext]_logVars

-----------------------------------------------------------------------------
LogTypeOK ==
  /\ log \in Seq(Line)
  /\ ragged \in BOOLEAN
  /\ lock \in [Process -> Thread \cup {Nobody}]
  /\ at \in [Thread -> [pc  : {"rest", "locked", "numbered", "written"},
                        num : Nat, id : Nat]]
  /\ nextId \in Nat \ {0}
  /\ acked \subseteq Nat
  /\ crashes \in Nat

\* "`seq` is monotonic within a case" (events.py): two events never share a
\* number, and a later line has the larger one, whatever lines were torn.
Increasing ==
  \A i, j \in Readable : i < j => log[i].seq < log[j].seq

\* Nothing is skipped either: what can be read is numbered 1 to the last.
NoGaps == {log[i].seq : i \in Readable} = 1..LastSeq

\* A crash costs at most one event whose append had returned: the one that
\* lands on the line the crash left behind.
LossBoundedByCrashes ==
  Cardinality({e \in acked : \A i \in Readable : log[i].id # e}) <= crashes

=============================================================================
