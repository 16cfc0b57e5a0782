CONSTANTS
  w1 = w1
  w2 = w2
  w3 = w3
  Workload = {w1, w2, w3}
  Lists <- SomeLists
  MaxRuns = 2
SPECIFICATION FairSpec
INVARIANTS Accounting ItemsAgree CancelPrompt CompletionTruth
PROPERTIES Closes
CHECK_DEADLOCK FALSE
