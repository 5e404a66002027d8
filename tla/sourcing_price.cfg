\* The instance of sourcing.cfg.
CONSTANTS
  quick = quick
  cheap = cheap
  doubtful = doubtful
  Supplier <- Suppliers
  Records <- RecordSets
  CallResult <- CallResults
  Posting <- Postings
  MaxRound = 2
  MaxAnswers = 2
  MaxDay = 3
  Nothing = Nothing
  NoClaim = NoClaim
  Unknown = Unknown
  MadeToOrder = 4
  LineStop = 2
  NeededBy = 4
  Required = 9
  OnHand = 3
  StopCost = 10
  Daily = 1
  Weight = 1
  Critical = TRUE
  Blocked = {"RU"}
  Transit <- Transits
  Freight <- Freights
  Duty <- Duties
  Wacc = 12
  PerPallet = 4
  Warehousing = 60
  Road = {"DE", "RU"}
  Lot = 2
SPECIFICATION Spec
PROPERTIES ClaimedPriceCounts
