CONSTANTS
  t1 = t1
  t2 = t2
  c1 = c1
  c2 = c2
  r1 = r1
  r2 = r2
  Boot = boot
  Tenant = {t1, t2}
  Caller = {c1, c2}
  MaxVersion = 2
  Newcomer = t1
  Repo = {r1, r2}
  Visible <- Seen
  OnMain = {r1}
  OnMaster = {r2}
  MaxRepos = 2
  Workers = 1
SPECIFICATION OnboardingSpec
SYMMETRY Alike
VIEW View
INVARIANTS StaleOnlyByRace OwnToken NothingOverlooked NeverStuck
PROPERTIES RegisteredKept
CHECK_DEADLOCK FALSE
