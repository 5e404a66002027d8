---------------------------- MODULE MCChecklist -----------------------------
(***************************************************************************)
(* Instances of Checklist for TLC.                                         *)
(***************************************************************************)
EXTENDS Checklist, TLC

CONSTANTS f1, d1

Moves(steps, statuses, names) == [step : steps, status : statuses, named : names]

\* One update, and a batch that starts the fixed line and then moves a second.
SomeBatches ==
  {<<u>> : u \in Moves({f1, d1}, {"active", "done"}, BOOLEAN)}
    \cup {<<u, v>> : u \in Moves({f1}, {"active", "failed"}, {FALSE}),
                     v \in Moves({f1, d1}, {"skipped", "pending"}, BOOLEAN)}

\* The flow ticks fixed lines without a name, and names the lines it creates.
SomeTicks == Moves({f1}, {"active", "done"}, {FALSE}) \cup Moves({d1}, {"active", "failed"}, {TRUE})

\* Pool threads are interchangeable.
Interchangeable == Permutations(Worker)

=============================================================================
