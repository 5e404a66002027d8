\* Two threads or detector passes open cases for two parts whose names collide; the machine may die.
CONSTANTS
  bearing = bearing
  sealed = sealed
  Part <- Parts
  CaseId <- Ids
  Named <- Names
  Known <- Incidents
  a1 = a1
  a2 = a2
  Actor = {a1, a2}
  MaxOpenings = 3
  MaxDeaths = 1
SPECIFICATION FairSpec
INVARIANTS  SessionFindsCase
PROPERTIES DetectorIdempotent 
\* The openings run out.
CHECK_DEADLOCK FALSE
