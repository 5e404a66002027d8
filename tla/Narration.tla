------------------------------ MODULE Narration -----------------------------
(***************************************************************************)
(* What a narration of a case promises: its rows are told one by one, none *)
(* before what it reports has happened; once stopped it tells nothing; it  *)
(* begins again from the first row.                                        *)
(***************************************************************************)
EXTENDS Naturals

CONSTANT Rows   \* how many rows there are, a natural number

VARIABLES
  told,      \* rows told to the end
  halted,    \* it has been stopped
  happened   \* the rows whose matter has happened

vars == <<told, halted, happened>>

TypeOK == told \in 0..Rows /\ halted \in BOOLEAN /\ happened \subseteq 1..Rows

Init == told = 0 /\ halted = FALSE /\ happened \subseteq 1..Rows

Tell ==
  /\ ~halted
  /\ told + 1 \in happened
  /\ told' = told + 1
  /\ UNCHANGED <<halted, happened>>

\* The world goes on, whoever listens.
Happen ==
  /\ happened \subseteq happened'
  /\ happened' \subseteq 1..Rows
  /\ UNCHANGED <<told, halted>>

Stop == ~halted /\ halted' = TRUE /\ UNCHANGED <<told, happened>>

Again ==
  /\ told' = 0
  /\ halted' = FALSE
  /\ happened' \subseteq 1..Rows

Next == Tell \/ Happen \/ Stop \/ Again

Spec == Init /\ [][Next]_vars

=============================================================================
