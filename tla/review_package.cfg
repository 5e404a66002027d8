\* Two pool threads decide and publish while claims come in, the process dies.
CONSTANTS
  Artifacts <- ThreeFiles
  w1 = w1
  w2 = w2
  Worker = {w1, w2}
  MaxKnown = 2
  MaxRequests = 4
  MaxDeaths = 1
  MaxDay = 2
SYMMETRY Interchangeable
SPECIFICATION Spec
INVARIANTS OnePrPerDay
PROPERTIES DecideRepairs PrShowsPackage LinkKeepsDecision
\* The requests run out.
CHECK_DEADLOCK FALSE
