\* One process of two threads that may die, a chained and an interval poller, each with one request at a time.
CONSTANTS
  t1 = t1
  t2 = t2
  api = api
  Thread <- Threads
  Process <- Together
  Home <- OneProcess
  Nobody = Nobody
  Cuts = {"nothing", "half", "whole"}
  MaxAppends = 4
  MaxCrashes = 2
  u1 = u1
  u2 = u2
  Client = {u1, u2}
  Interval = {u2}
  MaxOutstanding = 1
  MaxFailures = 1
SPECIFICATION FairSpec
INVARIANTS NoGaps LossBoundedByCrashes NothingSkipped
PROPERTIES ImplementsFeed 
