CONSTANTS
  Deploy = {"dev", "hml", "prd"}
  Asked <- SomePromotions
  MaxPromotions = 2
SPECIFICATION FairSpec
INVARIANTS PrdNeverAutoMerged FinalTruth CascadeRespected
PROPERTIES Concludes
CHECK_DEADLOCK FALSE
