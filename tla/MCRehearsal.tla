----------------------------- MODULE MCRehearsal ----------------------------
(***************************************************************************)
(* An instance of Rehearsal for TLC: two candidates are called, one fails  *)
(* the policy.                                                             *)
(***************************************************************************)
EXTENDS Rehearsal, TLC

CONSTANTS kby, rul, npb

InOrder == <<kby, rul>>
OneTool == <<"suppliers">>

\* The first call may be over long before the second, and the other way round.
Quick == [launch |-> 0, dialing |-> 1, duration |-> 2]
Slow == [launch |-> 1, dialing |-> 2, duration |-> 6]
Draws == {(kby :> Quick) @@ (rul :> Slow), (kby :> Slow) @@ (rul :> Quick)}

\* Polls that overtake one another, a run asked for again, a call that is held back.
Timed == [hook |-> "timers", hold |-> Nothing, polls |-> 0, watch |-> 0, stops |-> 1, replays |-> 1]
Live == [hook |-> "server", hold |-> Nothing, polls |-> 1, watch |-> 0, stops |-> 0, replays |-> 0]
OneEach ==
  {Timed, [Live EXCEPT !.polls = 2, !.hold = rul], [Live EXCEPT !.watch = 2, !.stops = 1],
   [Live EXCEPT !.replays = 1, !.hold = rul]}

=============================================================================
