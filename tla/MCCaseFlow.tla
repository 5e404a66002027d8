----------------------------- MODULE MCCaseFlow -----------------------------
(***************************************************************************)
(* Instances of CaseFlow for TLC.  Every request is bounded, so the state  *)
(* space is finite without a constraint.                                   *)
(***************************************************************************)
EXTENDS CaseFlow, TLC

OneRound == {1}
TwoRounds == {1, 2}

\* Suppliers and pool threads are interchangeable; used for safety runs only.
Interchangeable == Permutations(Supplier) \cup Permutations(Worker)

\* The task ids the bounds of the serial run allow for.
TaskIds == 1..5

\* The answer to a call that was dispatched is filed by a collect, or a run that
\* began after the call has asked again in its place (provider.py, flow.py), unless
\* a restart of the API loses it.
AnswersAreFiled ==
  \A s \in Supplier, t \in TaskIds :
    [supplier |-> s, task |-> t] \in inflight ~> (t \in filed \/ t < runMark \/ used.restarts > 0)

\* An answer a collect has filed is priced, or replaced by another: "every new claim
\* rewrites the review package from whatever is currently known, so a late answer
\* changes the recommendation instead of being lost" (flow.py), unless a restart
\* comes between the filing and the decision.
FiledIsPriced ==
  \A s \in Supplier, t \in TaskIds :
    t \in filed /\ Latest(claims)[s] = t ~>
      \/ decision # NoDecision /\ decision[s] = t
      \/ Latest(claims)[s] # t
      \/ used.restarts > 0

=============================================================================
