---------------------------- MODULE MCLiveCockpit ---------------------------
(***************************************************************************)
(* An instance of LiveCockpit for TLC: two suppliers, of which the agent   *)
(* names the refused one first.                                            *)
(***************************************************************************)
EXTENDS LiveCockpit

CONSTANTS inc, alt, t1, t2

Suppliers == {inc, alt}
Naming == [order |-> <<alt, inc>>, passed |-> {inc}, failed |-> (alt :> {"not_approved"}) @@ (inc :> {})]
OnFile ==
  (inc :> [preferred |-> FALSE, incumbent |-> TRUE, approved |-> TRUE, price |-> 9, lead |-> Unknown, ref |-> 1]) @@
  (alt :> [preferred |-> TRUE, incumbent |-> FALSE, approved |-> FALSE, price |-> 7, lead |-> 3, ref |-> 2])

\* One thing goes wrong at a time: a session on top of another in a development
\* build, a reload, a lost request, a second tab on the same case.
Quiet == [runs |-> 1, session |-> 0, reload |-> 0, open |-> 0, lose |-> 0]
OneEach ==
  {[Quiet EXCEPT !.runs = 2, !.session = 1], [Quiet EXCEPT !.reload = 1],
   [Quiet EXCEPT !.lose = 1], [Quiet EXCEPT !.open = 1]}
=============================================================================
