----------------------------- MODULE EventFeed ------------------------------
(***************************************************************************)
(* The event log and the two front ends that poll it.                      *)
(*                                                                         *)
(* The cockpit (ui/lib/api/use-events.ts) asks again two seconds after it  *)
(* has shown an answer; a request that fails ends its loop.  The web app   *)
(* (apps/web/hooks/use-devin-case.ts) asks on an interval, whether or not  *)
(* the last answer is in, and a request that fails is forgotten.           *)
(***************************************************************************)
EXTENDS EventLog, SequencesExt

CONSTANTS
  Client,          \* the screens that show this case
  Interval,        \* those of them that poll on an interval
  MaxOutstanding,  \* bound: requests one interval poller has under way
  MaxFailures      \* bound: requests that fail

ASSUME EventFeedAssumption ==
  /\ Interval \subseteq Client
  /\ MaxOutstanding \in Nat \ {0}
  /\ MaxFailures \in Nat

VARIABLES
  shown,     \* the events in each client's state
  request,   \* the requests each client has under way, by slot
  stopped,   \* clients whose polling loop has ended
  failures   \* how many requests have failed

clientVars == <<shown, request, stopped, failures>>
vars == <<logVars, clientVars>>

-----------------------------------------------------------------------------
NoRequest == [state |-> "free", since |-> 0, events |-> <<>>]

\* The slots of a client: a chained poller has one request at a time.
Slot(c) == IF c \in Interval THEN 1..MaxOutstanding ELSE {1}

\* Fault: the client counts the events it shows.
SinceCounted(c) == Len(shown[c]) + 1

\* The number a client asks from: that of the last event it shows.
Since(c) == IF shown[c] = <<>> THEN 0 ELSE Last(shown[c]).seq

Init ==
  /\ LogInit
  /\ shown = [c \in Client |-> <<>>]
  /\ request = [c \in Client |-> [k \in Slot(c) |-> NoRequest]]
  /\ stopped = {}
  /\ failures = 0

\* A client asks for what it has not seen.
Ask(c, k) ==
  /\ c \notin stopped
  /\ request[c][k] = NoRequest
  /\ request' = [request EXCEPT ![c][k] = [state |-> "asked", since |-> Since(c), events |-> <<>>]]
  /\ UNCHANGED <<logVars, shown, stopped, failures>>

\* Fault: the request is answered from the first event on.
ServeAll(c, k) ==
  /\ request[c][k].state = "asked"
  /\ request' = [request EXCEPT ![c][k].state = "served", ![c][k].events = EventsAfter(0)]
  /\ UNCHANGED <<logVars, shown, stopped, failures>>

\* GET /cases/{case_id}/events reads the log.
Serve(c, k) ==
  /\ request[c][k].state = "asked"
  /\ request' = [request EXCEPT ![c][k].state = "served",
                                ![c][k].events = EventsAfter(request[c][k].since)]
  /\ UNCHANGED <<logVars, shown, stopped, failures>>

\* The answer arrives: what it holds is appended to what is shown.
Show(c, k) ==
  /\ request[c][k].state = "served"
  /\ shown' = [shown EXCEPT ![c] = @ \o request[c][k].events]
  /\ request' = [request EXCEPT ![c][k] = NoRequest]
  /\ UNCHANGED <<logVars, stopped, failures>>

\* The request fails.  The interval poller swallows the error; the chained one
\* has no handler, so its next tick is never scheduled.
Fail(c, k) ==
  /\ request[c][k] # NoRequest
  /\ failures < MaxFailures
  /\ failures' = failures + 1
  /\ request' = [request EXCEPT ![c][k] = NoRequest]
  /\ stopped' = IF c \in Interval THEN stopped ELSE stopped \cup {c}
  /\ UNCHANGED <<logVars, shown>>

ClientStep(c, k) == Ask(c, k) \/ Serve(c, k) \/ Show(c, k)

Next ==
  \/ LogNext /\ UNCHANGED clientVars
  \/ \E c \in Client : \E k \in Slot(c) : ClientStep(c, k) \/ Fail(c, k)

Spec == Init /\ [][Next]_vars

\* A screen that is open goes on polling and the API goes on answering.
Fairness == \A c \in Client : \A k \in Slot(c) : WF_vars(ClientStep(c, k))

FairSpec == Spec /\ Fairness

-----------------------------------------------------------------------------
TypeOK ==
  /\ LogTypeOK
  /\ shown \in [Client -> Seq(Line)]
  /\ \A c \in Client : \A k \in Slot(c) :
       /\ request[c][k].state \in {"free", "asked", "served"}
       /\ request[c][k].since \in Nat
       /\ request[c][k].events \in Seq(Line)
  /\ stopped \subseteq Client \ Interval
  /\ failures \in Nat

\* No event slips past a screen: what it does not show yet has a number beyond
\* the one it will ask from (`seq` "lets the UI poll with ?since=", events.py).
NothingSkipped ==
  \A c \in Client : \A i \in Readable :
    \/ \E k \in DOMAIN shown[c] : shown[c][k].id = log[i].id
    \/ log[i].seq > Since(c)

\* The log and its pollers implement the promise of Feed.
FeedSpec == INSTANCE Feed WITH sent <- EventsAfter(0), shown <- shown

ImplementsFeed == FeedSpec!Spec

=============================================================================
