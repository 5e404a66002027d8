\* One tab and a second one later, two cases, one thing going wrong at a time.
CHECK_DEADLOCK FALSE
CONSTANTS
  inc = inc
  alt = alt
  Supplier <- Suppliers
  Brief = Brief
  Rule = {"not_approved"}
  Nobody = Nobody
  Unknown = Unknown
  t1 = t1
  t2 = t2
  Tab = {t1, t2}
  FirstTab = t1
  MaxCase = 2
  Named <- Naming
  Records <- OnFile
  HoldFor = Nobody
  MaxLog = 3
  MaxTicks = 1
  Scenarios <- OneEach
SPECIFICATION FairSpec
PROPERTIES ScreenFollows
INVARIANTS OneCasePerLaunch OneCaseShown DialsAccounted 
