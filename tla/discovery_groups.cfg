CONSTANTS
  w1 = w1
  w2 = w2
  w3 = w3
  w4 = w4
  r1 = r1
  r2 = r2
  none = none
  Workload = {w1, w2, w3, w4}
  Repo = {r1, r2}
  NoRepo = none
  RepoOf <- Mapped
  Cap = {1, 2, 3}
  MaxRuns = 2
SPECIFICATION Spec
INVARIANTS EveryGroupLaunched
CHECK_DEADLOCK FALSE
