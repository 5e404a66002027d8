\* One thread, one call, one run begun while the timer is pending.
CONSTANTS
  s1 = s1
  Supplier = {s1}
  w1 = w1
  Worker = {w1}
  Round <- OneRound
  NoDecision = NoDecision
  Seeded = {TRUE}
  MaxRuns = 1
  MaxCalls = 1
  MaxAgent = 0
  MaxRestarts = 0
SPECIFICATION Spec

PROPERTIES NoStaleAnswer
