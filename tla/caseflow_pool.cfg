\* Two pool threads: handlers of the same case interleave, and the process may die.
CONSTANTS
  s1 = s1
  Supplier = {s1}
  w1 = w1
  w2 = w2
  Worker = {w1,w2}
  Round <- OneRound
  NoDecision = NoDecision
  Seeded = {TRUE, FALSE}
  MaxRuns = 2
  MaxCalls = 1
  MaxAgent = 0
  MaxRestarts = 1
SYMMETRY Interchangeable
SPECIFICATION Spec
INVARIANTS TickedMeansAnswered
PROPERTIES LateAnswerReprices
