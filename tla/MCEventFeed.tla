---------------------------- MODULE MCEventFeed -----------------------------
(***************************************************************************)
(* Instances of EventFeed for TLC.                                         *)
(***************************************************************************)
EXTENDS EventFeed, TLC

CONSTANTS t1, t2, api, u1, u2

\* Both threads belong to the API process.
OneProcess == t1 :> api @@ t2 :> api

Threads == {t1, t2}
Together == {api}

EventIds == 1..MaxAppends

\* An event in the log is shown on every screen that polls on an interval, in the end
\* (use-devin-case.ts; the chained poller of use-events.ts gives up at a failure).
EventuallyShown ==
  \A c \in Interval, e \in EventIds :
    (\E i \in Readable : log[i].id = e) ~> (\E i \in DOMAIN shown[c] : shown[c][i].id = e)

=============================================================================
