\* One pool thread: requests are served one at a time, timers fire and the process
\* may die in between; two runs and two calls, so that answers of both are about.
CONSTANTS
  s1 = s1
  s2 = s2
  Supplier = {s1}
  w1 = w1
  Worker = {w1}
  Round <- TwoRounds
  NoDecision = NoDecision
  Seeded = {TRUE}
  MaxRuns = 2
  MaxCalls = 2
  MaxAgent = 1
  MaxRestarts = 1
SPECIFICATION FairSpec
PROPERTIES ImplementsLedger  FiledIsPriced
