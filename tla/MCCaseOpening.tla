--------------------------- MODULE MCCaseOpening ----------------------------
(***************************************************************************)
(* Instances of CaseOpening for TLC.                                       *)
(***************************************************************************)
EXTENDS CaseOpening, TLC

CONSTANTS bearing, sealed

Parts == {bearing, sealed}

\* The second case of the bearing would have the name of the first case of the
\* sealed bearing, whose item code ends in "-2".
Names ==
  bearing :> <<"6204", "6204-2", "6204-3", "6204-4">> @@
  sealed :> <<"6204-2", "6204-2-2", "6204-2-3", "6204-2-4">>

Ids == {"001"} \cup {Names[p][i] : p \in Parts, i \in 1..4}

\* The ERP has an incident for the bearing.
Incidents == bearing :> "001"

=============================================================================
