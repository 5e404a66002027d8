-------------------------- MODULE MCReviewPackage ---------------------------
(***************************************************************************)
(* Instances of ReviewPackage for TLC.                                     *)
(***************************************************************************)
EXTENDS ReviewPackage, TLC

\* Two of the reports stand for the four: they are written alike.
ThreeFiles == <<"candidates.json", "decision.md", "decision.json">>

\* Pool threads are interchangeable.
Interchangeable == Permutations(Worker)

=============================================================================
