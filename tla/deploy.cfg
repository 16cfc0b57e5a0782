CONSTANTS
  d1 = d1
  f1 = f1
  Deploy = {d1}
  File = {f1}
  FileOf <- OneFile
  MaxLevel = 2
  MaxMeddling = 1
  MaxAttempts = 2
  MaxRuns = 2
SPECIFICATION FairSpec
INVARIANTS TypeOK ReportTruth ToldTruth
PROPERTIES NeverReduced MergesAsAnswered KeepsContract Terminates
CHECK_DEADLOCK FALSE
