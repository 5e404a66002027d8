--------------------------- MODULE MCCockpitPages ---------------------------
(***************************************************************************)
(* An instance of CockpitPages for TLC: two cases, an incumbent that is    *)
(* held back for the call and a cheaper supplier that lands too late.      *)
(***************************************************************************)
EXTENDS CockpitPages

CONSTANTS a, b, inc, alt

Cases == {a, b}
Suppliers == {inc, alt}
Incumbents == [c \in Cases |-> IF c = a THEN inc ELSE alt]
Passes == [c \in Cases |-> IF c = a THEN Suppliers ELSE {inc}]
Plans == {[id |-> "single", buys |-> {inc}, onTime |-> TRUE, cost |-> 9],
          [id |-> "split", buys |-> {inc, alt}, onTime |-> FALSE, cost |-> 7]}
Changes == [c \in Cases |-> IF c = a THEN 3 ELSE 0]
Rounds == {1, 2}
Budgets == [visit |-> 1, select |-> 1, press |-> 2, fail |-> 1, other |-> 1]

=============================================================================
