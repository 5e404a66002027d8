\* Both hooks, two calls, one of them held back by the live run, a stop and a replay.
CHECK_DEADLOCK FALSE
CONSTANTS
  kby = kby
  rul = rul
  npb = npb
  CallOrder <- InOrder
  Refused = {npb}
  Tools <- OneTool
  MadeToOrder = {rul}
  Turns = 2
  Nothing = Nothing
  AgentPlans <- Draws
  Wait = 1
  Chunks = 1
  ClockTicks = 2
  Dialing = 1
  Reveal = 1
  Scenarios <- OneEach
SPECIFICATION FairSpec
INVARIANTS ClaimsAfterCalls ScreenAgrees
PROPERTIES StoppedStands ImplementsNarration 
