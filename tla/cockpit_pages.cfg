\* One tab, two cases, two reads at a time, two buttons pressed, one request lost.
CHECK_DEADLOCK FALSE
CONSTANTS
  a = a
  b = b
  inc = inc
  alt = alt
  Supplier <- Suppliers
  Round <- Rounds
  Rule = {"audit_required_and_not_audited"}
  Plan <- Plans
  Nobody = Nobody
  Nothing = Nothing
  Case <- Cases
  FirstCase = a
  Incumbent <- Incumbents
  Passing <- Passes
  Sources = {"live", "fixtures"}
  Recorded = 2
  MaxSeq <- Changes
  MaxReads = 1
  Budget <- Budgets
SPECIFICATION FairSpec
PROPERTIES ScreenSettles
INVARIANTS PlansShowTheirClaims CardsShowTheRoundPriced 
