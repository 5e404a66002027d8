---------------------------- MODULE ReviewLedger ----------------------------
(***************************************************************************)
(* What /flow and /decide promise a buyer, with the handlers left out.     *)
(*                                                                         *)
(* `known` is the claim on file for each supplier and `verdict` the claims *)
(* the stored decision was priced from.  An answer changes what is known   *)
(* about one supplier; a ruling prices exactly what is known at the moment *)
(* it is written ("the case directory always reflects what is currently    *)
(* known", backend/decide/run.py).                                         *)
(***************************************************************************)
EXTENDS Naturals

CONSTANTS
  Supplier,    \* the suppliers of the case that policy cleared
  NoDecision   \* there is no decision.json yet

VARIABLES
  known,       \* [Supplier -> Nat]: the answer on file, 0 for none
  verdict      \* the `known` that decision.json was priced from

vars == <<known, verdict>>

Init ==
  /\ known = [s \in Supplier |-> 0]
  /\ verdict = NoDecision

\* One supplier's answer reaches the case file.
Learn(s) ==
  /\ known'[s] \in Nat \ {0}
  /\ known' = [known EXCEPT ![s] = known'[s]]
  /\ UNCHANGED verdict

\* The review package is rewritten from what is on file.
Rule ==
  /\ verdict' = known
  /\ UNCHANGED known

Next == Rule \/ \E s \in Supplier : Learn(s)

Spec == Init /\ [][Next]_vars

=============================================================================
