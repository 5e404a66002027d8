\* Two pool threads, one fixed and one dynamic line, a case with and without the fixed lines.
CONSTANTS
  f1 = f1
  d1 = d1
  Fixed = {f1}
  Dynamic = {d1}
  w1 = w1
  w2 = w2
  Worker = {w1, w2}
  Seeded = {TRUE, FALSE}
  Batch <- SomeBatches
  Ticked <- SomeTicks
  MaxRequests = 3
  MaxDeaths = 1
SYMMETRY Interchangeable
SPECIFICATION Spec
INVARIANTS LogAgrees
PROPERTIES OthersKept ProgressKept
\* The requests run out.
CHECK_DEADLOCK FALSE
